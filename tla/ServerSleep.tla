----------------------------- MODULE ServerSleep -----------------------------
(***************************************************************************)
(* The sleeping state of server_queue (tools/server/server-queue.cpp):     *)
(* the wait of start_loop, wait_until_no_sleep and post, which all use the *)
(* one condition variable condition_tasks under mutex_tasks.               *)
(*                                                                         *)
(* A step is one hold of the mutex.  A thread inside condition_tasks.wait  *)
(* goes on only after a notification has moved it out of the set of        *)
(* waiters; notify_one picks any of them.  What the loop does with a task  *)
(* is in ServerQueue; here the queue is the set of clients with a task.    *)
(***************************************************************************)
EXTENDS Naturals, FiniteSets

CONSTANTS
  Clients,       \* the HTTP threads, each with one request at a time
  Slow,          \* whether a thread may be held up for longer than idle_sleep_ms
  MayTerminate,  \* whether terminate() may be called
  Main           \* the thread that runs start_loop

ASSUME SleepAssumption ==
  /\ Main \notin Clients
  /\ Slow \in BOOLEAN
  /\ MayTerminate \in BOOLEAN

VARIABLES
  running,            \* server_queue::running
  sleeping,           \* server_queue::sleeping
  req_stop_sleeping,  \* server_queue::req_stop_sleeping
  idle,               \* now - time_last_task >= idle_sleep_ms
  queued,             \* the clients whose task is in queue_tasks
  waiters,            \* the threads waiting on condition_tasks
  main_pc,            \* where the loop thread is
  client_pc           \* where each client is

flags == <<running, sleeping, req_stop_sleeping>>
vars  == <<flags, idle, queued, waiters, main_pc, client_pc>>

MainPhases == {"work",    \* processes the tasks and updates the slots
               "check",   \* at the top of the wait loop
               "timed",   \* in condition_tasks.wait_for
               "asleep",  \* in condition_tasks.wait of the sleeping state
               "ended"}   \* start_loop has returned

ClientPhases == {"away",      \* no request
                 "waiting",   \* in wait_until_no_sleep
                 "post",      \* may post its task
                 "posted"}    \* waits for the result

TypeOK ==
  /\ running \in BOOLEAN /\ sleeping \in BOOLEAN /\ req_stop_sleeping \in BOOLEAN
  /\ idle \in BOOLEAN
  /\ queued \subseteq Clients
  /\ waiters \subseteq Clients \cup {Main}
  /\ main_pc \in MainPhases
  /\ client_pc \in [Clients -> ClientPhases]

\* start_loop has been called with idle_sleep_ms >= 0.
Init ==
  /\ running = TRUE /\ sleeping = FALSE /\ req_stop_sleeping = FALSE
  /\ idle = FALSE
  /\ queued = {} /\ waiters = {}
  /\ main_pc = "work"
  /\ client_pc = [c \in Clients |-> "away"]

\* notify_one wakes one of the waiters, if there is one.
NotifyOne ==
  \/ waiters = {} /\ UNCHANGED waiters
  \/ \E t \in waiters : waiters' = waiters \ {t}

-----------------------------------------------------------------------------
(* start_loop. *)

\* The tasks are processed, the slots updated; time_last_task is set at the end.
Work ==
  /\ main_pc = "work"
  /\ IF running
     THEN /\ main_pc' = "check"
          /\ queued' = {}
          /\ client_pc' = [c \in Clients |-> IF c \in queued THEN "away" ELSE client_pc[c]]
          /\ idle' = FALSE
     ELSE main_pc' = "ended" /\ UNCHANGED <<queued, client_pc, idle>>
  /\ UNCHANGED <<flags, waiters>>

\* One round of the wait loop: go back to work, fall asleep, or wait for a task.
Check ==
  /\ main_pc = "check"
  /\ \/ /\ ~running \/ queued # {}
        /\ main_pc' = "work"
        /\ UNCHANGED <<sleeping, req_stop_sleeping, waiters>>
     \/ /\ running /\ queued = {} /\ idle
        /\ sleeping' = TRUE
        /\ req_stop_sleeping' = FALSE
        /\ waiters' = waiters \cup {Main}
        /\ main_pc' = "asleep"
     \/ /\ running /\ queued = {} /\ ~idle
        /\ waiters' = waiters \cup {Main}
        /\ main_pc' = "timed"
        /\ UNCHANGED <<sleeping, req_stop_sleeping>>
  /\ UNCHANGED <<running, idle, queued, client_pc>>

\* wait_for ends with a notification or after max_wait_time.
TimedWaitEnds ==
  /\ main_pc = "timed"
  /\ waiters' = waiters \ {Main}
  /\ main_pc' = "check"
  /\ UNCHANGED <<flags, idle, queued, client_pc>>

\* Mutant: the request to wake up is not reset.
WakeKeepsRequest ==
  /\ main_pc = "asleep" /\ Main \notin waiters
  /\ \/ ~running /\ main_pc' = "work" /\ UNCHANGED <<sleeping, idle, waiters>>
     \/ /\ running /\ req_stop_sleeping
        /\ sleeping' = FALSE
        /\ idle' = FALSE
        /\ main_pc' = "work"
        /\ waiters' = {}
     \/ /\ running /\ ~req_stop_sleeping
        /\ waiters' = waiters \cup {Main}
        /\ UNCHANGED <<sleeping, idle, main_pc>>
  /\ UNCHANGED <<running, req_stop_sleeping, queued, client_pc>>

\* Mutant: the loop does not tell the clients that it is awake.
WakeSilent ==
  /\ main_pc = "asleep" /\ Main \notin waiters
  /\ \/ ~running /\ main_pc' = "work" /\ UNCHANGED <<sleeping, req_stop_sleeping, idle, waiters>>
     \/ /\ running /\ req_stop_sleeping
        /\ req_stop_sleeping' = FALSE
        /\ sleeping' = FALSE
        /\ idle' = FALSE
        /\ main_pc' = "work"
        /\ UNCHANGED waiters
     \/ /\ running /\ ~req_stop_sleeping
        /\ waiters' = waiters \cup {Main}
        /\ UNCHANGED <<sleeping, req_stop_sleeping, idle, main_pc>>
  /\ UNCHANGED <<running, queued, client_pc>>

\* The loop is notified in its sleep: it leaves when terminated, wakes up and
\* tells everyone when asked to, and goes on sleeping otherwise.
Wake ==
  /\ main_pc = "asleep" /\ Main \notin waiters
  /\ \/ ~running /\ main_pc' = "work" /\ UNCHANGED <<sleeping, req_stop_sleeping, idle, waiters>>
     \/ /\ running /\ req_stop_sleeping
        /\ req_stop_sleeping' = FALSE
        /\ sleeping' = FALSE
        /\ idle' = FALSE
        /\ main_pc' = "work"
        /\ waiters' = {}
     \/ /\ running /\ ~req_stop_sleeping
        /\ waiters' = waiters \cup {Main}
        /\ UNCHANGED <<sleeping, req_stop_sleeping, idle, main_pc>>
  /\ UNCHANGED <<running, queued, client_pc>>

-----------------------------------------------------------------------------
(* The clients. *)

\* Mutant: the first client to find the server asleep asks without notifying.
ArriveQuiet(c) ==
  /\ client_pc[c] = "away"
  /\ IF ~sleeping
     THEN /\ client_pc' = [client_pc EXCEPT ![c] = "post"]
          /\ UNCHANGED <<req_stop_sleeping, waiters>>
     ELSE /\ client_pc' = [client_pc EXCEPT ![c] = "waiting"]
          /\ req_stop_sleeping' = TRUE
          /\ waiters' = waiters \cup {c}
  /\ UNCHANGED <<running, sleeping, idle, queued, main_pc>>

\* wait_until_no_sleep: return at once, or ask the loop to wake up and wait.
\* The caller starts to wait after its notification, under the same mutex.
Arrive(c) ==
  /\ client_pc[c] = "away"
  /\ \/ /\ ~sleeping
        /\ client_pc' = [client_pc EXCEPT ![c] = "post"]
        /\ UNCHANGED <<req_stop_sleeping, waiters>>
     \/ /\ sleeping /\ req_stop_sleeping
        /\ client_pc' = [client_pc EXCEPT ![c] = "waiting"]
        /\ waiters' = waiters \cup {c}
        /\ UNCHANGED req_stop_sleeping
     \/ /\ sleeping /\ ~req_stop_sleeping
        /\ client_pc' = [client_pc EXCEPT ![c] = "waiting"]
        /\ req_stop_sleeping' = TRUE
        /\ \/ waiters = {} /\ waiters' = {c}
           \/ \E t \in waiters : waiters' = (waiters \ {t}) \cup {c}
  /\ UNCHANGED <<running, sleeping, idle, queued, main_pc>>

\* A notified client looks at the sleeping flag again.
Recheck(c) ==
  /\ client_pc[c] = "waiting" /\ c \notin waiters
  /\ IF sleeping
     THEN waiters' = waiters \cup {c} /\ UNCHANGED client_pc
     ELSE client_pc' = [client_pc EXCEPT ![c] = "post"] /\ UNCHANGED waiters
  /\ UNCHANGED <<flags, idle, queued, main_pc>>

\* post: the task is queued, the idle time starts again, one waiter is notified.
Post(c) ==
  /\ client_pc[c] = "post"
  /\ queued' = queued \cup {c}
  /\ client_pc' = [client_pc EXCEPT ![c] = "posted"]
  /\ idle' = FALSE
  /\ NotifyOne
  /\ UNCHANGED <<flags, main_pc>>

-----------------------------------------------------------------------------
(* Time and shutdown. *)

\* A client that may go on, but has not run yet.
Delayed(c) == client_pc[c] = "post" \/ (client_pc[c] = "waiting" /\ c \notin waiters)

\* idle_sleep_ms pass without a task.  Unless threads may be slow, a client that
\* is free to go on has done so by then.
IdleTimePasses ==
  /\ ~idle
  /\ main_pc \in {"check", "timed"}
  /\ Slow \/ \A c \in Clients : ~Delayed(c)
  /\ idle' = TRUE
  /\ UNCHANGED <<flags, queued, waiters, main_pc, client_pc>>

Terminate ==
  /\ MayTerminate /\ running
  /\ running' = FALSE
  /\ waiters' = {}
  /\ UNCHANGED <<sleeping, req_stop_sleeping, idle, queued, main_pc, client_pc>>

MainStep == Work \/ Check \/ TimedWaitEnds \/ Wake

Next ==
  \/ MainStep
  \/ \E c \in Clients : Arrive(c) \/ Recheck(c) \/ Post(c)
  \/ IdleTimePasses
  \/ Terminate

Spec == Init /\ [][Next]_vars

\* The loop and every client that is free to go on do so; nothing makes a client
\* send a request, and nothing makes the idle time pass.
Fairness ==
  /\ WF_vars(MainStep)
  /\ \A c \in Clients : WF_vars(Recheck(c)) /\ WF_vars(Post(c))

FairSpec == Spec /\ Fairness

-----------------------------------------------------------------------------
(* Properties that hold. *)

\* A pending request to wake up belongs to the sleep it was made in: the loop
\* never starts to sleep, or works, with one left over.
RequestIsCurrent == req_stop_sleeping => sleeping

\* A client in wait_until_no_sleep has not been forgotten: the loop has been
\* asked to wake up and can hear it, or the client has been told already.
WaitersAreHeard ==
  \A c \in Clients : client_pc[c] = "waiting" /\ c \in waiters /\ running =>
    sleeping /\ req_stop_sleeping /\ Main \notin waiters

\* "if sleeping, request exiting sleep state and wait until it is done"
\* (server-queue.h): every wait_until_no_sleep returns, whichever waiter the
\* notifications reach.
\* A wait_until_no_sleep returns, whichever waiter the notifications reach, unless
\* the server is shut down meanwhile.
WaitEndsOrShutdown ==
  \A c \in Clients : client_pc[c] = "waiting" ~> client_pc[c] # "waiting" \/ ~running

-----------------------------------------------------------------------------
(* The inductive invariant behind WaitersAreHeard, when no thread is slow. *)

\* While the server runs, the loop is asleep exactly when the flag says so, and
\* a client among the waiters is in wait_until_no_sleep, of a server that sleeps.
SleepFlag ==
  /\ running => (sleeping <=> main_pc = "asleep")
  /\ \A c \in Clients : c \in waiters => sleeping /\ client_pc[c] = "waiting"

\* A client that waits, notified or not, waits for a sleep somebody asked to end,
\* and a loop that was asked is on its way out of condition_tasks.wait.
AskedToWake ==
  running /\ sleeping =>
    /\ req_stop_sleeping => Main \notin waiters
    /\ (\E c \in Clients : client_pc[c] = "waiting") => req_stop_sleeping

\* Nobody is still on the way out of an earlier sleep when the next one is due.
NobodyLate ==
  running /\ idle /\ main_pc \in {"check", "timed"} => \A c \in Clients : client_pc[c] # "waiting"

SleepInv == TypeOK /\ RequestIsCurrent /\ SleepFlag /\ AskedToWake /\ NobodyLate

-----------------------------------------------------------------------------
(* What comments and documents say, and the code does not do. *)

\* "Any new incoming task will automatically trigger the model to reload"
\* (tools/server/README.md).
TaskReloadsModel == (queued # {} /\ sleeping) ~> ~sleeping

\* "if sleeping, request exiting sleep state and wait until it is done"
\* (server-queue.h): every wait_until_no_sleep returns.
WaitEnds == \A c \in Clients : client_pc[c] = "waiting" ~> client_pc[c] # "waiting"

\* "only main thread is waiting on this" (server-queue.cpp), where a client asks
\* a sleeping loop to wake up.
OnlyMainWaits == sleeping /\ ~req_stop_sleeping => waiters \subseteq {Main}
=============================================================================
