----------------------------- MODULE ServerQueue -----------------------------
(***************************************************************************)
(* The task queue, the slots and the response readers of the in-process    *)
(* server lmcode runs on: server_queue, server_response and                *)
(* server_response_reader (tools/server/server-queue.cpp) with the slot    *)
(* scheduling of server_context_impl (tools/server/server-context.cpp).    *)
(*                                                                         *)
(* One thread runs start_loop; every reader is driven by a thread of its   *)
(* own.  A step is what happens under one hold of mutex_tasks or           *)
(* mutex_results; the slots belong to the loop thread alone.  Generation   *)
(* is abstracted to the results a slot sends.  Sleeping is off, as it is   *)
(* in lmcode (idle_sleep_ms < 0); ServerSleep has it.                      *)
(***************************************************************************)
EXTENDS Naturals, Sequences, FiniteSets

CONSTANTS
  Readers,       \* the response readers, each used for one request
  Slots,         \* the slots of the context
  Requests,      \* the shapes of requests the readers make
  Impatient,     \* the readers whose should_stop may become true
  Pinnable,      \* bound: the slots a task may ask for with id_slot
  MayFail,       \* whether tasks may be refused and slots may run into errors
  EmptyPrompts,  \* whether a prompt may be empty once it is tokenized
  MayTerminate,  \* whether terminate() may be called
  MaxPartial,    \* bound: partial results queued at a time
  None           \* no task, no slot: a null pointer, or the id -1

\* single: post_task with one task.  pair: post_tasks with two tasks.
\* family: post_tasks with one task that has one child task (n_cmpl > 1).
Shapes == {"single", "pair", "family"}

VARIABLES
  queue_tasks,            \* server_queue::queue_tasks
  queue_tasks_deferred,   \* server_queue::queue_tasks_deferred
  running,                \* server_queue::running
  terminated,             \* history: terminate() has been called
  pc,                     \* where the loop thread is, see LoopPhases
  current,                \* the task popped and given to callback_new_task
  slot,                   \* per slot its state and the id of its task
  releasing,              \* the slot that has sent its last result, or None
  waiting_task_ids,       \* server_response::waiting_task_ids
  queue_results,          \* server_response::queue_results
  reader,                 \* the state of every reader
  answered,               \* history: ids that were sent a final result or an error
  cancelled_ids           \* history: ids whose CANCEL task has been processed

queues  == <<queue_tasks, queue_tasks_deferred>>
results == <<waiting_task_ids, queue_results>>
loop    == <<pc, current, slot, releasing>>
vars == <<queues, running, terminated, loop, results, reader, answered, cancelled_ids>>

\* The ids get_new_id hands out to a reader.  Those of NEXT_RESPONSE and of
\* CANCEL tasks are never waited for and never looked up, so they are left out.
Ids == Readers \X {1, 2}

IdsOf(r, shape) == {r} \X (IF shape = "single" THEN {1} ELSE {1, 2})

\* A child task travels inside its parent until both are launched.
Completion(id, child, at) == [type |-> "completion", id |-> id, child |-> child, id_slot |-> at]
Cancel(target) == [type |-> "cancel", id |-> target, child |-> None, id_slot |-> None]
NextResponse   == [type |-> "next", id |-> None, child |-> None, id_slot |-> None]

TaskTypes == {"completion", "cancel", "next"}
Tasks == [type : TaskTypes, id : Ids \cup {None}, child : Ids \cup {None},
          id_slot : Slots \cup {None}]

ASSUME QueueAssumption ==
  /\ Slots # {}
  /\ None \notin Slots \cup Ids \cup Tasks
  /\ Requests \subseteq Shapes
  /\ Impatient \subseteq Readers
  /\ Pinnable \subseteq Slots
  /\ MayFail \in BOOLEAN /\ EmptyPrompts \in BOOLEAN /\ MayTerminate \in BOOLEAN
  /\ MaxPartial \in Nat
  /\ "family" \in Requests => \E s, t \in Slots : s # t

LoopPhases == {"off",      \* the thread has not called start_loop yet
               "pop",      \* at the inner loop that takes the tasks
               "process",  \* in callback_new_task
               "update",   \* at callback_update_slots
               "decode",   \* in update_slots, slots produce results
               "abort",    \* in abort_all_slots or the loop after a decode error
               "wait",     \* waits for new tasks
               "ended"}    \* start_loop has returned

\* SLOT_STATE_IDLE, WAIT_OTHER, STARTED to DONE_PROMPT, GENERATING.
SlotStates == {"idle", "wait_other", "prompt", "generating"}
IdleSlot == [state |-> "idle", id |-> None, parent |-> None]

ReaderPhases == {"new",     \* constructed
                 "post",    \* ids are on the waiting list, tasks not yet posted
                 "wait",    \* in next(), or between two calls of it
                 "stop",    \* stop() has been called
                 "purge",   \* stop() has decided to cancel
                 "cancel",  \* stop() posts the CANCEL tasks
                 "done"}    \* stop() has returned

ResultKinds == {"partial", "final", "error"}

TypeOK ==
  /\ queue_tasks \in Seq(Tasks) /\ queue_tasks_deferred \in Seq(Tasks)
  /\ running \in BOOLEAN /\ terminated \in BOOLEAN
  /\ pc \in LoopPhases
  /\ current \in Tasks \cup {None}
  /\ slot \in [Slots -> [state : SlotStates, id : Ids \cup {None}, parent : Ids \cup {None}]]
  /\ releasing \in Slots \cup {None}
  /\ waiting_task_ids \subseteq Ids
  /\ queue_results \in Seq([id : Ids, kind : ResultKinds])
  /\ reader \in [Readers -> [phase : ReaderPhases, ids : SUBSET Ids, shape : Shapes,
                             received_count : 0..2, cancelled : BOOLEAN, todo : SUBSET Ids]]
  /\ answered \subseteq Ids /\ cancelled_ids \subseteq Ids

Init ==
  /\ queue_tasks = <<>> /\ queue_tasks_deferred = <<>>
  /\ running = FALSE /\ terminated = FALSE
  /\ pc = "off"
  /\ current = None
  /\ slot = [s \in Slots |-> IdleSlot]
  /\ releasing = None
  /\ waiting_task_ids = {} /\ queue_results = <<>>
  /\ reader = [r \in Readers |-> [phase |-> "new", ids |-> {}, shape |-> "single",
                                  received_count |-> 0, cancelled |-> FALSE, todo |-> {}]]
  /\ answered = {} /\ cancelled_ids = {}

-----------------------------------------------------------------------------
(* server_queue and server_response, under their mutexes. *)

\* The reader that is inside post(cancel_tasks, true) holds mutex_tasks.
MutexFree == \A r \in Readers : reader[r].phase = "cancel" => reader[r].todo \in {{}, reader[r].ids}

IsProcessing(s) == slot[s].state # "idle"

\* The sequence q without its i-th element.
DropAt(q, i) == [j \in 1..(Len(q) - 1) |-> IF j < i THEN q[j] ELSE q[j + 1]]

\* remove_if(task.id == id).  A task is in at most one place (TaskInOnePlace),
\* so at most one entry goes; CANCEL tasks have ids of their own.
Without(q, id) ==
  LET hits == {i \in DOMAIN q : q[i].type = "completion" /\ q[i].id = id}
  IN  IF hits = {} THEN q ELSE DropAt(q, CHOOSE i \in hits : TRUE)

\* Mutant: the deferred task is copied to the queue and not erased.
PopDeferredKeeps(s) ==
  /\ queue_tasks' = IF queue_tasks_deferred = <<>> THEN queue_tasks
                    ELSE <<Head(queue_tasks_deferred)>> \o queue_tasks
  /\ UNCHANGED queue_tasks_deferred

\* pop_deferred_task: the first task that asked for this slot, else the first.
pop_deferred_task(s) ==
  IF queue_tasks_deferred = <<>>
  THEN UNCHANGED queues
  ELSE LET asked == {i \in DOMAIN queue_tasks_deferred : queue_tasks_deferred[i].id_slot = s}
           i == IF asked = {} THEN 1 ELSE CHOOSE i \in asked : \A j \in asked : i <= j
       IN  /\ queue_tasks' = <<queue_tasks_deferred[i]>> \o queue_tasks
           /\ queue_tasks_deferred' = DropAt(queue_tasks_deferred, i)

\* send drops a result nobody waits for.
send(id, kind) ==
  queue_results' = IF id \in waiting_task_ids
                   THEN Append(queue_results, [id |-> id, kind |-> kind])
                   ELSE queue_results

-----------------------------------------------------------------------------
(* server_response_reader, in the thread of its request. *)

HasNext(r) == ~reader[r].cancelled /\ reader[r].received_count < Cardinality(reader[r].ids)

\* post_task, post_tasks: the ids are drawn and put on the waiting list ...
AddWaiting(r) ==
  /\ reader[r].phase = "new"
  /\ \E shape \in Requests :
       /\ reader' = [reader EXCEPT ![r].phase = "post", ![r].shape = shape, ![r].ids = IdsOf(r, shape)]
       /\ waiting_task_ids' = waiting_task_ids \cup IdsOf(r, shape)
  /\ UNCHANGED <<queues, running, terminated, loop, queue_results, answered, cancelled_ids>>

\* ... and the tasks are posted under one hold of the mutex.
Post(r) ==
  /\ reader[r].phase = "post" /\ MutexFree
  /\ \E at \in Pinnable \cup {None} :
       queue_tasks' = queue_tasks \o
         (CASE reader[r].shape = "single" -> <<Completion(<<r, 1>>, None, at)>>
            [] reader[r].shape = "pair"   -> <<Completion(<<r, 1>>, None, at), Completion(<<r, 2>>, None, at)>>
            [] reader[r].shape = "family" -> <<Completion(<<r, 1>>, <<r, 2>>, at)>>)
  /\ reader' = [reader EXCEPT ![r].phase = "wait"]
  /\ UNCHANGED <<queue_tasks_deferred, running, terminated, loop, results, answered, cancelled_ids>>

\* Mutant: every result that is not an error counts as a finished task.
RecvCountsPartial(r) ==
  /\ reader[r].phase = "wait" /\ HasNext(r)
  /\ LET mine == {i \in DOMAIN queue_results : queue_results[i].id \in reader[r].ids}
     IN  /\ mine # {}
         /\ LET i == CHOOSE i \in mine : \A j \in mine : i <= j
            IN /\ queue_results' = DropAt(queue_results, i)
               /\ reader' = IF queue_results[i].kind = "error" THEN [reader EXCEPT ![r].phase = "stop"]
                            ELSE [reader EXCEPT ![r].received_count = @ + 1]
  /\ UNCHANGED <<queues, running, terminated, loop, waiting_task_ids, answered, cancelled_ids>>

\* next: recv_with_timeout takes the first result of one of the reader's tasks.
\* An error stops the reader; when every task is done its owner lets it go.
Recv(r) ==
  /\ reader[r].phase = "wait" /\ HasNext(r)
  /\ LET mine == {i \in DOMAIN queue_results : queue_results[i].id \in reader[r].ids}
     IN  /\ mine # {}
         /\ LET i == CHOOSE i \in mine : \A j \in mine : i <= j
            IN /\ queue_results' = DropAt(queue_results, i)
               /\ reader' = CASE queue_results[i].kind = "partial" -> reader
                              [] queue_results[i].kind = "error" -> [reader EXCEPT ![r].phase = "stop"]
                              [] queue_results[i].kind = "final" ->
                                   [reader EXCEPT ![r].received_count = @ + 1]
  /\ UNCHANGED <<queues, running, terminated, loop, waiting_task_ids, answered, cancelled_ids>>

\* The owner of a reader with nothing left destroys it, and an impatient owner
\* whose should_stop() is true does so at any time.
LetGo(r) ==
  /\ reader[r].phase = "wait"
  /\ ~HasNext(r) \/ r \in Impatient
  /\ reader' = [reader EXCEPT ![r].phase = "stop"]
  /\ UNCHANGED <<queues, running, terminated, loop, results, answered, cancelled_ids>>

\* stop: the ids leave the waiting list, their queued results stay.
StopUnwait(r) ==
  /\ reader[r].phase = "stop"
  /\ waiting_task_ids' = waiting_task_ids \ reader[r].ids
  /\ reader' = IF HasNext(r)
               THEN [reader EXCEPT ![r].phase = "purge", ![r].cancelled = TRUE, ![r].todo = reader[r].ids]
               ELSE [reader EXCEPT ![r].phase = "done"]
  /\ UNCHANGED <<queues, running, terminated, loop, queue_results, answered, cancelled_ids>>

\* Mutant: the queued results of the reader are not removed.
StopPurgeNothing(r) ==
  /\ reader[r].phase = "purge"
  /\ reader' = [reader EXCEPT ![r].phase = "cancel"]
  /\ UNCHANGED <<queues, running, terminated, loop, results, answered, cancelled_ids>>

\* remove_waiting_task_id for each id: its queued results are removed too.
StopPurge(r) ==
  /\ reader[r].phase = "purge"
  /\ LET mine == {i \in DOMAIN queue_results : queue_results[i].id \in reader[r].ids}
     IN  IF mine = {}
         THEN /\ reader' = [reader EXCEPT ![r].phase = "cancel"]
              /\ UNCHANGED queue_results
         ELSE /\ \E i \in mine : queue_results' = DropAt(queue_results, i)
              /\ UNCHANGED reader
  /\ UNCHANGED <<queues, running, terminated, loop, waiting_task_ids, answered, cancelled_ids>>

\* post(cancel_tasks, true), one task of the vector per step: the target is
\* removed from both queues and the CANCEL task put in front.
StopCancel(r) ==
  /\ reader[r].phase = "cancel"
  /\ MutexFree \/ reader[r].todo # reader[r].ids
  /\ \E id \in reader[r].todo :
       /\ queue_tasks' = <<Cancel(id)>> \o Without(queue_tasks, id)
       /\ queue_tasks_deferred' = Without(queue_tasks_deferred, id)
       /\ reader' = [reader EXCEPT ![r].todo = @ \ {id},
                                   ![r].phase = IF reader[r].todo = {id} THEN "done" ELSE "cancel"]
  /\ UNCHANGED <<running, terminated, loop, results, answered, cancelled_ids>>

-----------------------------------------------------------------------------
(* start_loop, in the loop thread. *)

\* start_loop sets running without taking the mutex.
StartLoop ==
  /\ pc = "off"
  /\ running' = TRUE
  /\ pc' = "pop"
  /\ UNCHANGED <<queues, terminated, current, slot, releasing, results, reader, answered, cancelled_ids>>

\* The inner loop: leave when terminated, go on to the slots when there is no
\* task, else take the first one.
PopTask ==
  /\ pc = "pop" /\ MutexFree
  /\ \/ ~running /\ pc' = "ended" /\ UNCHANGED <<queue_tasks, current>>
     \/ running /\ queue_tasks = <<>> /\ pc' = "update" /\ UNCHANGED <<queue_tasks, current>>
     \/ /\ running /\ queue_tasks # <<>>
        /\ current' = Head(queue_tasks)
        /\ queue_tasks' = Tail(queue_tasks)
        /\ pc' = "process"
  /\ UNCHANGED <<queue_tasks_deferred, running, terminated, slot, releasing, results, reader,
                 answered, cancelled_ids>>

\* The slots get_available_slot may return: the one asked for even when it is
\* busy, otherwise an idle one.
AvailableSlots(task) ==
  IF task.id_slot \in Slots THEN {task.id_slot} ELSE {s \in Slots : ~IsProcessing(s)}

\* No slot, a busy slot, or too few idle slots for the child: the task waits.
MustDefer(task, s) ==
  \/ IsProcessing(s)
  \/ task.child # None /\ \A t \in Slots \ {s} : IsProcessing(t)

DeferTask ==
  /\ pc = "process" /\ current.type = "completion" /\ MutexFree
  /\ AvailableSlots(current) = {} \/ \E s \in AvailableSlots(current) : MustDefer(current, s)
  /\ queue_tasks_deferred' = Append(queue_tasks_deferred, current)
  /\ current' = None
  /\ pc' = "pop"
  /\ UNCHANGED <<queue_tasks, running, terminated, slot, releasing, results, reader, answered, cancelled_ids>>

\* launch_slot_with_task, and launch_slots_with_parent_task for a family: the
\* child waits for its parent to process the prompt.
LaunchTask ==
  /\ pc = "process" /\ current.type = "completion"
  /\ \E s \in AvailableSlots(current) :
       /\ ~MustDefer(current, s)
       /\ IF current.child = None
          THEN slot' = [slot EXCEPT ![s] = [state |-> "prompt", id |-> current.id, parent |-> None]]
          ELSE \E t \in Slots \ {s} :
                 /\ ~IsProcessing(t)
                 /\ slot' = [slot EXCEPT
                      ![s] = [state |-> "prompt", id |-> current.id, parent |-> None],
                      ![t] = [state |-> "wait_other", id |-> current.child, parent |-> current.id]]
  /\ current' = None
  /\ pc' = "pop"
  /\ UNCHANGED <<queues, running, terminated, releasing, results, reader, answered, cancelled_ids>>

\* The prompt cannot be tokenized, or the launch of the task or, once there are
\* slots for both, of its child fails: an error is sent and nothing was launched.
RefuseTask ==
  /\ MayFail
  /\ pc = "process" /\ current.type = "completion"
  /\ \E id \in {current.id, current.child} \ {None} :
       /\ id = current.child => \E s \in AvailableSlots(current) : ~MustDefer(current, s)
       /\ send(id, "error") /\ answered' = answered \cup {id}
  /\ current' = None
  /\ pc' = "pop"
  /\ UNCHANGED <<queues, running, terminated, slot, releasing, waiting_task_ids, reader, cancelled_ids>>

\* The child of a family was launched, then the launch of the parent fails: the
\* slot of the child is released.
RefuseFamily ==
  /\ MayFail
  /\ pc = "process" /\ current.type = "completion" /\ current.child # None /\ MutexFree
  /\ \E s \in AvailableSlots(current) : \E t \in Slots \ {s} :
       ~MustDefer(current, s) /\ ~IsProcessing(t) /\ pop_deferred_task(t)
  /\ send(current.id, "error")
  /\ answered' = answered \cup {current.id}
  /\ current' = None
  /\ pc' = "pop"
  /\ UNCHANGED <<running, terminated, slot, releasing, waiting_task_ids, reader, cancelled_ids>>

\* CANCEL releases the slot that works on the target, if any.
CancelTask ==
  /\ pc = "process" /\ current.type = "cancel" /\ MutexFree
  /\ LET hits == {s \in Slots : slot[s].id = current.id}
     IN  IF hits = {} THEN UNCHANGED <<slot, queues>>
         ELSE \E s \in hits : /\ slot' = [slot EXCEPT ![s] = IdleSlot]
                              /\ pop_deferred_task(s)
  /\ cancelled_ids' = cancelled_ids \cup {current.id}
  /\ current' = None
  /\ pc' = "pop"
  /\ UNCHANGED <<running, terminated, releasing, results, reader, answered>>

\* NEXT_RESPONSE does nothing.
NextTask ==
  /\ pc = "process" /\ current.type = "next"
  /\ current' = None
  /\ pc' = "pop"
  /\ UNCHANGED <<queues, running, terminated, slot, releasing, results, reader, answered, cancelled_ids>>

\* update_slots: nothing to do when all slots are idle, else a NEXT_RESPONSE
\* task makes the loop come back.
UpdateSlots ==
  /\ pc = "update" /\ MutexFree
  /\ IF \A s \in Slots : ~IsProcessing(s)
     THEN pc' = "wait" /\ UNCHANGED queue_tasks
     ELSE pc' = "decode" /\ queue_tasks' = Append(queue_tasks, NextResponse)
  /\ UNCHANGED <<queue_tasks_deferred, running, terminated, current, slot, releasing, results, reader,
                 answered, cancelled_ids>>

\* The prompt of slot s is done, its child starts with a copy of its state.
PromptDone(s) ==
  /\ pc = "decode" /\ releasing = None
  /\ slot[s].state = "prompt"
  /\ slot' = [t \in Slots |->
                IF t = s \/ (slot[t].state = "wait_other" /\ slot[t].parent = slot[s].id)
                THEN [slot[t] EXCEPT !.state = "generating"] ELSE slot[t]]
  /\ UNCHANGED <<queues, running, terminated, pc, current, releasing, results, reader, answered, cancelled_ids>>

\* A partial result, of the text or of the progress of the prompt.
SendPartial(s) ==
  /\ pc = "decode" /\ releasing = None
  /\ slot[s].state \in {"prompt", "generating"}
  /\ Cardinality({i \in DOMAIN queue_results : queue_results[i].kind = "partial"}) < MaxPartial
  /\ send(slot[s].id, "partial")
  /\ UNCHANGED <<queues, running, terminated, loop, waiting_task_ids, reader, answered, cancelled_ids>>

\* Mutant: the slot is not released after its final result.
SendFinalKeepsSlot(s) ==
  /\ pc = "decode" /\ releasing = None
  /\ slot[s].state = "generating" \/ (EmptyPrompts /\ slot[s].state = "prompt")
  /\ send(slot[s].id, "final")
  /\ answered' = answered \cup {slot[s].id}
  /\ UNCHANGED <<queues, running, terminated, loop, waiting_task_ids, reader, cancelled_ids>>

\* The final result: a stop condition, or an empty prompt.
SendFinal(s) ==
  /\ pc = "decode" /\ releasing = None
  /\ slot[s].state = "generating" \/ (EmptyPrompts /\ slot[s].state = "prompt")
  /\ send(slot[s].id, "final")
  /\ answered' = answered \cup {slot[s].id}
  /\ releasing' = s
  /\ UNCHANGED <<queues, running, terminated, pc, current, slot, waiting_task_ids, reader, cancelled_ids>>

\* An error of one slot, or of all of them: every slot at work is then told.
SendError(s) ==
  /\ MayFail
  /\ releasing = None
  /\ \/ pc = "decode" /\ slot[s].state \in {"prompt", "generating"} /\ pc' \in {"decode", "abort"}
     \/ pc = "abort" /\ IsProcessing(s) /\ UNCHANGED pc
  /\ send(slot[s].id, "error")
  /\ answered' = answered \cup {slot[s].id}
  /\ releasing' = s
  /\ UNCHANGED <<queues, running, terminated, current, slot, waiting_task_ids, reader, cancelled_ids>>

\* Mutant: the release does not look at the deferred tasks.
ReleaseSlotSilent ==
  /\ releasing \in Slots /\ MutexFree
  /\ slot' = [slot EXCEPT ![releasing] = IdleSlot]
  /\ releasing' = None
  /\ UNCHANGED <<queues, running, terminated, pc, current, results, reader, answered, cancelled_ids>>

\* The release that follows a final result or an error.
ReleaseSlot ==
  /\ releasing \in Slots /\ MutexFree
  /\ slot' = [slot EXCEPT ![releasing] = IdleSlot]
  /\ pop_deferred_task(releasing)
  /\ releasing' = None
  /\ UNCHANGED <<running, terminated, pc, current, results, reader, answered, cancelled_ids>>

\* update_slots returns.
EndUpdate ==
  /\ releasing = None
  /\ \/ pc = "decode"
     \/ pc = "abort" /\ \A s \in Slots : ~IsProcessing(s)
  /\ pc' = "wait"
  /\ UNCHANGED <<queues, running, terminated, current, slot, releasing, results, reader, answered, cancelled_ids>>

\* Mutant: the wait only ends when there is a task.
EndWaitDeaf ==
  /\ pc = "wait" /\ MutexFree
  /\ queue_tasks # <<>>
  /\ pc' = "pop"
  /\ UNCHANGED <<queues, running, terminated, current, slot, releasing, results, reader, answered, cancelled_ids>>

\* The wait ends when there is a task or the queue has been terminated.
EndWait ==
  /\ pc = "wait" /\ MutexFree
  /\ ~running \/ queue_tasks # <<>>
  /\ pc' = "pop"
  /\ UNCHANGED <<queues, running, terminated, current, slot, releasing, results, reader, answered, cancelled_ids>>

\* terminate, called by the owner of the context.
Terminate ==
  /\ MayTerminate /\ ~terminated /\ MutexFree
  /\ running' = FALSE
  /\ terminated' = TRUE
  /\ UNCHANGED <<queues, loop, results, reader, answered, cancelled_ids>>

-----------------------------------------------------------------------------

ReaderStep(r) == AddWaiting(r) \/ Post(r) \/ Recv(r) \/ LetGo(r) \/ StopUnwait(r) \/ StopPurge(r) \/ StopCancel(r)

SlotStep(s) == PromptDone(s) \/ SendPartial(s) \/ SendFinal(s) \/ SendError(s)

Process == DeferTask \/ LaunchTask \/ RefuseTask \/ RefuseFamily \/ CancelTask \/ NextTask

LoopStep == StartLoop \/ PopTask \/ Process \/ UpdateSlots \/ ReleaseSlot \/ EndUpdate \/ EndWait

Next ==
  \/ \E r \in Readers : ReaderStep(r)
  \/ LoopStep
  \/ \E s \in Slots : SlotStep(s)
  \/ Terminate

Spec == Init /\ [][Next]_vars

\* The loop thread and the threads of the requests run, and what a slot works on
\* goes on to its end: the loop decodes every busy slot in every round, and the
\* n_predict, context-size and end-of-text conditions bound what it generates.
Fairness ==
  /\ WF_vars(LoopStep \/ \E s \in Slots : pc = "abort" /\ SendError(s))
  /\ \A s \in Slots : SF_vars(PromptDone(s) \/ SendFinal(s))
  /\ \A r \in Readers :
       WF_vars(\/ AddWaiting(r) \/ Post(r) \/ Recv(r) \/ StopUnwait(r) \/ StopPurge(r) \/ StopCancel(r)
               \/ ~HasNext(r) /\ LetGo(r))

FairSpec == Spec /\ Fairness

-----------------------------------------------------------------------------
(* Properties that hold. *)

Carries(task, id) == task.type = "completion" /\ id \in {task.id, task.child}

\* Where the task with this id is: in a queue, popped, or in a slot.
Places(id) ==
  {<<"queue", i>> : i \in {i \in DOMAIN queue_tasks : Carries(queue_tasks[i], id)}}
  \cup {<<"deferred", i>> : i \in {i \in DOMAIN queue_tasks_deferred : Carries(queue_tasks_deferred[i], id)}}
  \cup {<<"current", 0>> : i \in {i \in {0} : current # None /\ Carries(current, id)}}
  \cup {<<"slot", s>> : s \in {s \in Slots : slot[s].id = id}}

\* A task is in at most one place at any time, however deferring, releasing,
\* cancelling and popping interleave: it is never run twice or by two slots.
TaskInOnePlace == \A id \in Ids : Cardinality(Places(id)) <= 1

\* Once a task has been answered it is nowhere any more, except in the slot
\* about to be released: nothing can be sent for it a second time, which is what
\* the "duplicate result received" assertion of wait_for_all relies on.
AnsweredIsOver ==
  \A id \in answered : \A p \in Places(id) : p = <<"slot", releasing>>

\* No result is left behind: a queued result belongs to a reader that can still
\* take it or has yet to purge it.  stop() purges nothing for a reader that
\* counts itself finished, so its count has to be exact.
NoStrayResult ==
  \A i \in DOMAIN queue_results : reader[queue_results[i].id[1]].phase \in {"wait", "stop", "purge"}

\* A reader that finishes without cancelling has had every task answered.
CompleteMeansAnswered ==
  \A r \in Readers :
    reader[r].phase = "done" /\ ~reader[r].cancelled => reader[r].ids \subseteq answered

\* Every request of an owner that does not give up is served in the end, and no
\* slot works on for it, as when one of its tasks failed and the others had to be
\* cancelled; only a terminate() ends the service.  The configuration leaves out
\* prompts that turn out empty, for which EmptyPromptAnswered below fails, and
\* owners that do give up (DeferredUntilSlotFree, CancelReleasesSlot).
RequestServed ==
  \A r \in Readers :
    []<>(~terminated => reader[r].phase = "done" /\ \A s \in Slots : slot[s].id \notin reader[r].ids)

\* A terminate() that finds the loop started ends it, whatever it is doing.
LoopEnds == (terminated /\ pc # "off" /\ ~running) ~> pc = "ended"

-----------------------------------------------------------------------------
(* What comments say, and the code does not do. *)

\* "Add a new task, but defer until one slot is available" (server-queue.h):
\* a deferred task does not stay behind for good while every slot is idle.
DeferredUntilSlotFree ==
  [](queue_tasks_deferred # <<>> => <>(queue_tasks_deferred = <<>> \/ \E s \in Slots : IsProcessing(s)))

\* "if this is cancel task make sure to clean up pending tasks"
\* (server-queue.cpp): after its CANCEL a task is pending no more.
CancelledIsGone == \A id \in cancelled_ids : Places(id) = {}

\* CANCEL: "release slot linked with the task id" (server-context.cpp): a slot
\* does not work for a cancelled task for ever.
CancelReleasesSlot ==
  \A id \in Ids : []<>(id \in cancelled_ids => \A s \in Slots : slot[s].id # id)

\* terminate(): "end the start_loop routine" (server-queue.h).
TerminateEndsLoop == terminated ~> pc = "ended"

\* "empty prompt passed -> release the slot and send empty response"
\* (server-context.cpp): a request with an empty prompt is answered too, its
\* children included.
EmptyPromptAnswered == \A r \in Readers : <>(reader[r].phase = "done")
=============================================================================
