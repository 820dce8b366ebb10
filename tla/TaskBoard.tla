------------------------------ MODULE TaskBoard ------------------------------
(***************************************************************************)
(* The tasks and subtasks of lmcode: TaskManager (tools/lmcode/            *)
(* task_manager.cpp), the task tools of the model and the /task, /clear    *)
(* and /tool commands of the user (tools/lmcode/cli.cpp), and the section  *)
(* of the system prompt that shows the model how the tasks stand.          *)
(*                                                                         *)
(* Everything runs in the main thread.  A decompose call is one step per   *)
(* subtask, because every push_back may move the vector of the tasks.      *)
(* Descriptions are numbered in the order they are given, so that two      *)
(* tasks that get the same id can be told apart.                           *)
(***************************************************************************)
EXTENDS Naturals, Sequences

CONSTANTS
  MaxSteps,    \* bound: steps in one decompose call
  MaxBorn,     \* bound: tasks created in a session
  MaxUpdates,  \* bound: how often the system prompt is updated
  NoSection    \* no task section in the system prompt

ASSUME BoardAssumption ==
  /\ MaxSteps \in Nat \ {0}
  /\ MaxBorn \in Nat /\ MaxUpdates \in Nat

VARIABLES
  tasks,      \* TaskManager::tasks_
  next_id,    \* TaskManager::next_id_
  capacity,   \* the capacity of the vector tasks_
  todo,       \* the decompose call at work: the parent and its steps left
  offered,    \* the task tools are in the registry
  section,    \* the task section of the system prompt, or NoSection
  newlines,   \* newlines left in front of the section by earlier ones
  alive,      \* the process has not crashed
  born,       \* history: tasks created so far
  updates,    \* history: updates of the system prompt so far
  meddled     \* history: the user changed tasks or prompt since the last update

vector == <<tasks, next_id, capacity>>
prompt == <<section, newlines, updates, meddled>>
vars   == <<vector, todo, offered, prompt, alive, born>>

Statuses == {"TODO", "IN_PROGRESS", "DONE", "FAILED"}

Task(id, parent, order, number, status) ==
  [id |-> id, parent_id |-> parent, order |-> order, description |-> number,
   status |-> status, children |-> <<>>]

TaskType == [id : Nat \ {0}, parent_id : Nat, order : Nat, description : Nat,
             status : Statuses, children : Seq(Nat)]

\* What format_tree_node prints of a task.
LineType == [id : Nat \ {0}, parent_id : Nat, description : Nat, status : Statuses]

NoWork == [parent |-> 0, left |-> 0]

TypeOK ==
  /\ tasks \in Seq(TaskType)
  /\ next_id \in Nat \ {0}
  /\ capacity \in Nat
  /\ todo \in [parent : Nat, left : Nat]
  /\ offered \in BOOLEAN
  /\ section \in Seq(LineType) \cup {NoSection}
  /\ newlines \in Nat
  /\ alive \in BOOLEAN
  /\ born \in Nat /\ updates \in Nat /\ meddled \in BOOLEAN

Init ==
  /\ tasks = <<>> /\ next_id = 1 /\ capacity = 0
  /\ todo = NoWork
  /\ offered \in BOOLEAN
  /\ section = NoSection /\ newlines = 0
  /\ alive = TRUE
  /\ born = 0 /\ updates = 0 /\ meddled = FALSE

-----------------------------------------------------------------------------
(* TaskManager. *)

Idle == alive /\ todo = NoWork

\* get_task finds the first task with this id.
Positions(id) == {i \in DOMAIN tasks : tasks[i].id = id}
IndexOf(id) == CHOOSE i \in Positions(id) : \A j \in Positions(id) : i <= j

\* push_back moves the vector when it is full: it then doubles.
Full == Len(tasks) = capacity
Grown == IF Full THEN capacity + (IF capacity = 0 THEN 1 ELSE capacity) ELSE capacity

\* create_task, and decompose_task's change of the status right after it.
create_task(status) ==
  /\ tasks' = Append(tasks, Task(next_id, 0, 0, born + 1, status))
  /\ next_id' = next_id + 1
  /\ capacity' = Grown
  /\ born' = born + 1

\* Mutant: the new subtask gets its own id as its parent.
create_subtask_own(id) ==
  /\ tasks' = Append(tasks, Task(next_id, next_id, Len(tasks[IndexOf(id)].children), born + 1, "TODO"))
  /\ alive' = TRUE
  /\ next_id' = next_id + 1
  /\ capacity' = Grown
  /\ born' = born + 1

\* create_subtask appends the task and then its id to the children of the
\* parent, through a pointer into the vector.  When the vector has moved the
\* pointer dangles: the id is written to freed memory, or the process crashes.
create_subtask(id) ==
  LET at  == IndexOf(id)
      new == Append(tasks, Task(next_id, id, Len(tasks[at].children), born + 1, "TODO"))
  IN  /\ IF Full
         THEN tasks' = new /\ alive' \in BOOLEAN
         ELSE /\ tasks' = [new EXCEPT ![at].children = Append(@, next_id)]
              /\ alive' = TRUE
      /\ next_id' = next_id + 1
      /\ capacity' = Grown
      /\ born' = born + 1

\* clear keeps the capacity of the vector and starts the ids again.
clear == tasks' = <<>> /\ next_id' = 1 /\ UNCHANGED capacity

-----------------------------------------------------------------------------
(* The section of the system prompt. *)

\* The lines of get_summary; where the tree prints each of them is left out.
Summary(ts) ==
  [i \in DOMAIN ts |-> [id |-> ts[i].id, parent_id |-> ts[i].parent_id,
                        description |-> ts[i].description, status |-> ts[i].status]]

\* update_task_system_prompt cuts the content at "\n[Task Progress]" and appends
\* two newlines and the summary: one newline of the last time stays.
update_task_system_prompt ==
  /\ section' = Summary(tasks')
  /\ newlines' = IF section = NoSection THEN newlines ELSE newlines + 1
  /\ updates' = updates + 1
  /\ meddled' = FALSE

-----------------------------------------------------------------------------
(* The tools of the model: handle_task_tool_call, and the update of the prompt *)
(* that handle_tool_call makes after a change. *)

\* A call that creates n tasks and changes something stays within the bounds.
ToolCall(n) == Idle /\ offered /\ born + n <= MaxBorn /\ updates < MaxUpdates

\* Mutant: a decompose that only creates a root task does not report a change.
DecomposeNewQuiet(n) ==
  /\ ToolCall(n)
  /\ create_task(IF n = 1 THEN "TODO" ELSE "IN_PROGRESS")
  /\ todo' = IF n = 1 THEN NoWork ELSE [parent |-> next_id, left |-> n - 1]
  /\ UNCHANGED <<offered, alive, prompt>>

\* decompose without a task, or for one that does not exist: the first step
\* becomes a root task, the others its subtasks.  Without steps it is an error.
DecomposeNew(n) ==
  /\ n > 0 /\ ToolCall(n)
  /\ create_task(IF n = 1 THEN "TODO" ELSE "IN_PROGRESS")
  /\ IF n = 1
     THEN update_task_system_prompt /\ UNCHANGED todo
     ELSE todo' = [parent |-> next_id, left |-> n - 1] /\ UNCHANGED prompt
  /\ UNCHANGED <<offered, alive>>

\* Mutant: decomposing a task again forgets its children.
DecomposeTaskAnew(i, n) ==
  /\ ToolCall(n)
  /\ tasks' = [tasks EXCEPT ![i].status = "IN_PROGRESS", ![i].children = <<>>]
  /\ IF n = 0
     THEN update_task_system_prompt /\ UNCHANGED todo
     ELSE todo' = [parent |-> tasks[i].id, left |-> n] /\ UNCHANGED prompt
  /\ UNCHANGED <<next_id, capacity, offered, alive, born>>

\* decompose for the i-th task: decompose_task marks it as in progress first.
DecomposeTask(i, n) ==
  /\ ToolCall(n)
  /\ tasks' = [tasks EXCEPT ![i].status = "IN_PROGRESS"]
  /\ IF n = 0
     THEN update_task_system_prompt /\ UNCHANGED todo
     ELSE todo' = [parent |-> tasks[i].id, left |-> n] /\ UNCHANGED prompt
  /\ UNCHANGED <<next_id, capacity, offered, alive, born>>

\* One step of decompose_task; the prompt is updated after the last one.
NextStep ==
  /\ alive /\ todo # NoWork
  /\ create_subtask(todo.parent)
  /\ IF todo.left = 1
     THEN todo' = NoWork /\ update_task_system_prompt
     ELSE todo' = [todo EXCEPT !.left = @ - 1] /\ UNCHANGED prompt
  /\ UNCHANGED offered

\* set_task_status; an id that is not found changes nothing.
SetTaskStatus(i, status) ==
  /\ ToolCall(0)
  /\ tasks' = [tasks EXCEPT ![i].status = status]
  /\ update_task_system_prompt
  /\ UNCHANGED <<next_id, capacity, todo, offered, alive, born>>

-----------------------------------------------------------------------------
(* The commands of the user: none of them updates the section. *)

\* /task create
TaskCreate ==
  /\ Idle /\ born < MaxBorn
  /\ create_task("TODO")
  /\ meddled' = TRUE
  /\ UNCHANGED <<todo, offered, section, newlines, updates, alive>>

\* /task clear
TaskClear ==
  /\ Idle
  /\ clear
  /\ meddled' = TRUE
  /\ UNCHANGED <<todo, offered, section, newlines, updates, alive, born>>

\* /clear starts a new conversation, with the tasks still there.
ClearChat ==
  /\ Idle
  /\ section' = NoSection /\ newlines' = 0
  /\ meddled' = TRUE
  /\ UNCHANGED <<vector, todo, offered, updates, alive, born>>

\* /tool add, remove and clear write the system prompt anew
\* (update_tool_system_prompt), and may take the task tools away or bring them back.
ToolCommand ==
  /\ Idle
  /\ offered' \in BOOLEAN
  /\ section' = NoSection /\ newlines' = 0
  /\ meddled' = TRUE
  /\ UNCHANGED <<vector, todo, updates, alive, born>>

-----------------------------------------------------------------------------

Next ==
  \/ \E n \in 1..MaxSteps : DecomposeNew(n)
  \/ \E i \in DOMAIN tasks : \E n \in 0..MaxSteps : DecomposeTask(i, n)
  \/ NextStep
  \/ \E i \in DOMAIN tasks : \E status \in Statuses : SetTaskStatus(i, status)
  \/ TaskCreate \/ TaskClear \/ ClearChat \/ ToolCommand

Spec == Init /\ [][Next]_vars

-----------------------------------------------------------------------------
(* Properties that hold. *)

\* The tasks are a forest in which every parent comes before its children: the
\* recursion of format_tree_node ends and prints every task exactly once,
\* however decompose, /task create and /task clear follow each other.
TreeSound ==
  /\ \A i, j \in DOMAIN tasks : tasks[i].id = tasks[j].id => i = j
  /\ \A i \in DOMAIN tasks :
       tasks[i].parent_id # 0 => \E j \in 1..(i - 1) : tasks[j].id = tasks[i].parent_id

\* The order numbers of siblings never decrease, although children get lost and
\* their numbers are given out again: the sort in get_subtasks never moves a later
\* step in front of an earlier one with another number.
SiblingsInOrder ==
  \A i, j \in DOMAIN tasks :
    i < j /\ tasks[i].parent_id = tasks[j].parent_id => tasks[i].order <= tasks[j].order

\* Unless the user interfered since, the prompt shows the tasks exactly as the
\* last call of the model left them, whatever path that call took.
ModelSeesOwnChanges ==
  Idle /\ ~meddled => section = IF updates = 0 THEN NoSection ELSE Summary(tasks)

-----------------------------------------------------------------------------
(* The inductive invariant behind TreeSound and SiblingsInOrder. *)

\* The next id is new, and the task being decomposed is there.
IdsInv ==
  /\ \A i \in DOMAIN tasks : tasks[i].id < next_id
  /\ todo # NoWork => todo.left > 0 /\ \E i \in DOMAIN tasks : tasks[i].id = todo.parent

\* No child has an order beyond the children its parent knows of, and so none
\* beyond the order the next child will get.
OrdersInv ==
  \A i \in DOMAIN tasks :
    /\ tasks[i].parent_id = 0 => tasks[i].order = 0
    /\ \A j \in DOMAIN tasks :
         tasks[i].parent_id = tasks[j].id => tasks[i].order <= Len(tasks[j].children)

BoardInv == TypeOK /\ TreeSound /\ SiblingsInOrder /\ IdsInv /\ OrdersInv

-----------------------------------------------------------------------------
(* What comments say, and the code does not do. *)

\* children: "IDs of child tasks" (task_manager.h), all of them.
ChildrenComplete ==
  \A i, j \in DOMAIN tasks : Idle /\ tasks[j].parent_id = tasks[i].id =>
    \E k \in DOMAIN tasks[i].children : tasks[i].children[k] = tasks[j].id

\* update_task_system_prompt "is called after every task mutation so the model
\* sees current state" (cli.cpp).
PromptCurrent == Idle /\ section # NoSection => section = Summary(tasks)

\* "Remove any previous task progress section" (cli.cpp): of all of it.
SectionReplaced == newlines = 0
=============================================================================
