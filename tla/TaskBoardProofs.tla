--------------------------- MODULE TaskBoardProofs ---------------------------
(***************************************************************************)
(* The task tree of TaskBoard is sound for any number of tasks and steps:  *)
(* proofs of its type, of TreeSound and of SiblingsInOrder.                *)
(***************************************************************************)
EXTENDS TaskBoard, TLAPS

\* The same tasks, in the same places, with no child taken away.
SameTasks(old, new) ==
  /\ new \in Seq(TaskType)
  /\ \A i \in 1..Len(old) :
       /\ new[i].id = old[i].id /\ new[i].parent_id = old[i].parent_id
       /\ new[i].order = old[i].order
       /\ Len(old[i].children) <= Len(new[i].children)

\* One task more, at the end: a root, or a child numbered by the children that
\* its parent knows of.
OneMore(old, new, id) ==
  LET last == new[Len(old) + 1]
  IN  /\ SameTasks(old, new) /\ Len(new) = Len(old) + 1
      /\ last.id = id
      /\ \/ last.parent_id = 0 /\ last.order = 0
         \/ \E j \in 1..Len(old) :
              last.parent_id = old[j].id /\ last.order = Len(old[j].children)

\* The tree does not change when only statuses and children do.
LEMMA SameTree ==
  ASSUME BoardInv, SameTasks(tasks, tasks'), Len(tasks') = Len(tasks)
  PROVE  TreeSound' /\ SiblingsInOrder' /\ OrdersInv'
<1> USE DEF BoardInv
<1>1. tasks \in Seq(TaskType) /\ tasks' \in Seq(TaskType) /\ DOMAIN tasks = 1..Len(tasks) /\ DOMAIN tasks' = 1..Len(tasks)
  BY DEF SameTasks, TypeOK
<1>2. \A i \in DOMAIN tasks : tasks[i] \in TaskType /\ tasks'[i] \in TaskType
  BY <1>1
<1>3. \A i \in DOMAIN tasks : Len(tasks[i].children) \in Nat /\ Len(tasks'[i].children) \in Nat /\ tasks[i].order \in Nat
  BY <1>2 DEF TaskType
<1>4. TreeSound'
  BY <1>1 DEF TreeSound, SameTasks
<1>5. SiblingsInOrder'
  BY <1>1 DEF SiblingsInOrder, SameTasks
<1>6. OrdersInv'
  <2>1. ASSUME NEW i \in DOMAIN tasks, tasks'[i].parent_id = 0 PROVE tasks'[i].order = 0
    BY <2>1, <1>1 DEF OrdersInv, SameTasks
  <2>2. ASSUME NEW i \in DOMAIN tasks, NEW j \in DOMAIN tasks, tasks'[i].parent_id = tasks'[j].id
        PROVE  tasks'[i].order <= Len(tasks'[j].children)
    <3>1. /\ tasks'[i].order = tasks[i].order /\ tasks[i].parent_id = tasks[j].id
          /\ Len(tasks[j].children) <= Len(tasks'[j].children)
      BY <2>2, <1>1 DEF SameTasks
    <3>2. tasks[i].order <= Len(tasks[j].children)
      BY <3>1 DEF OrdersInv
    <3>3. tasks[i].order \in Nat /\ Len(tasks[j].children) \in Nat /\ Len(tasks'[j].children) \in Nat
      BY <1>3
    <3> HIDE DEF BoardInv
    <3> QED BY <3>1, <3>2, <3>3
  <2> QED BY <2>1, <2>2, <1>1 DEF OrdersInv
<1> QED BY <1>4, <1>5, <1>6

\* A task added at the end with a new id keeps the tree sound and its siblings
\* in order.
LEMMA LargerTree ==
  ASSUME BoardInv, OneMore(tasks, tasks', next_id)
  PROVE  TreeSound' /\ SiblingsInOrder' /\ OrdersInv'
<1>0. TypeOK /\ TreeSound /\ SiblingsInOrder /\ IdsInv /\ OrdersInv
  BY DEF BoardInv
<1> DEFINE n == Len(tasks)
<1>1. /\ tasks \in Seq(TaskType) /\ tasks' \in Seq(TaskType) /\ n \in Nat
      /\ DOMAIN tasks = 1..n /\ DOMAIN tasks' = 1..(n + 1)
  BY <1>0 DEF SameTasks, OneMore, TypeOK
<1>2. (\A i \in 1..n : tasks[i] \in TaskType) /\ \A i \in 1..(n + 1) : tasks'[i] \in TaskType
  BY <1>1
<1>3. /\ \A i \in 1..n : Len(tasks[i].children) \in Nat
      /\ \A i \in 1..(n + 1) : /\ Len(tasks'[i].children) \in Nat /\ tasks'[i].order \in Nat
                               /\ tasks'[i].id \in Nat \ {0} /\ tasks'[i].parent_id \in Nat
  <2>1. \A i \in 1..n : Len(tasks[i].children) \in Nat
    BY <1>2 DEF TaskType
  <2>2. \A i \in 1..(n + 1) : Len(tasks'[i].children) \in Nat
    BY <1>2 DEF TaskType
  <2>3. \A i \in 1..(n + 1) : /\ tasks'[i].order \in Nat /\ tasks'[i].id \in Nat \ {0}
                              /\ tasks'[i].parent_id \in Nat
    BY <1>2 DEF TaskType
  <2> QED BY <2>1, <2>2, <2>3
<1>4. \A i \in 1..n : /\ tasks'[i].id = tasks[i].id /\ tasks'[i].parent_id = tasks[i].parent_id
                      /\ tasks'[i].order = tasks[i].order
                      /\ Len(tasks[i].children) <= Len(tasks'[i].children)
  BY DEF OneMore, SameTasks
<1>5. tasks'[n + 1].id = next_id /\ next_id \in Nat /\ \A i \in 1..n : tasks[i].id < next_id
  BY <1>0, <1>1 DEF OneMore, IdsInv, TypeOK
<1>6. \/ tasks'[n + 1].parent_id = 0 /\ tasks'[n + 1].order = 0
      \/ \E j \in 1..n : tasks'[n + 1].parent_id = tasks[j].id /\ tasks'[n + 1].order = Len(tasks[j].children)
  BY DEF OneMore
<1>7. \A i \in 1..(n + 1) : i \in 1..n \/ i = n + 1
  BY <1>1
<1>8. TreeSound'
  <2>1. ASSUME NEW i \in 1..(n + 1), NEW j \in 1..(n + 1), tasks'[i].id = tasks'[j].id PROVE i = j
    <3>1. CASE i \in 1..n /\ j \in 1..n
      BY <1>0, <2>1, <3>1, <1>1, <1>4 DEF TreeSound
    <3>2. CASE i = n + 1 /\ j \in 1..n
      <4>1. tasks'[j].id < next_id /\ tasks'[i].id = next_id /\ tasks'[j].id \in Nat
        BY <3>2, <1>3, <1>4, <1>5
      <4> QED BY <4>1, <2>1, <1>5
    <3>3. CASE i \in 1..n /\ j = n + 1
      <4>1. tasks'[i].id < next_id /\ tasks'[j].id = next_id /\ tasks'[i].id \in Nat
        BY <3>3, <1>3, <1>4, <1>5
      <4> QED BY <4>1, <2>1, <1>5
    <3> QED BY <3>1, <3>2, <3>3, <1>7
  <2>2. ASSUME NEW i \in 1..(n + 1), tasks'[i].parent_id # 0
        PROVE  \E j \in 1..(i - 1) : tasks'[j].id = tasks'[i].parent_id
    <3>1. CASE i \in 1..n
      <4>1. PICK j \in 1..(i - 1) : tasks[j].id = tasks[i].parent_id
        BY <1>0, <2>2, <3>1, <1>1, <1>4 DEF TreeSound
      <4>2. j \in 1..n
        BY <3>1, <1>1
      <4> QED BY <4>1, <4>2, <3>1, <1>4
    <3>2. CASE i = n + 1
      BY <2>2, <3>2, <1>1, <1>4, <1>6
    <3> QED BY <3>1, <3>2, <1>7
  <2> QED BY <2>1, <2>2, <1>1 DEF TreeSound
<1>9. SiblingsInOrder'
  <2> SUFFICES ASSUME NEW i \in 1..(n + 1), NEW j \in 1..(n + 1), i < j,
                      tasks'[i].parent_id = tasks'[j].parent_id
               PROVE  tasks'[i].order <= tasks'[j].order
    BY <1>1 DEF SiblingsInOrder
  <2>1. i \in 1..n
    BY <1>1
  <2>2. CASE j \in 1..n
    BY <1>0, <2>1, <2>2, <1>1, <1>4 DEF SiblingsInOrder
  <2>3. CASE j = n + 1
    <3>1. CASE tasks'[n + 1].parent_id = 0 /\ tasks'[n + 1].order = 0
      BY <1>0, <2>1, <2>3, <3>1, <1>1, <1>4 DEF OrdersInv
    <3>2. CASE \E k \in 1..n : tasks'[n + 1].parent_id = tasks[k].id /\ tasks'[n + 1].order = Len(tasks[k].children)
      BY <1>0, <2>1, <2>3, <3>2, <1>1, <1>4 DEF OrdersInv
    <3> QED BY <3>1, <3>2, <1>6
  <2> QED BY <2>2, <2>3, <1>7
<1>10. OrdersInv'
  <2>1. ASSUME NEW i \in 1..(n + 1), tasks'[i].parent_id = 0 PROVE tasks'[i].order = 0
    <3>1. CASE i \in 1..n
      BY <1>0, <2>1, <3>1, <1>1, <1>4 DEF OrdersInv
    <3>2. CASE i = n + 1
      <4>1. \A j \in 1..n : tasks[j].id # 0
        BY <1>2 DEF TaskType
      <4> QED BY <2>1, <3>2, <4>1, <1>6
    <3> QED BY <3>1, <3>2, <1>7
  <2>2. ASSUME NEW i \in 1..(n + 1), NEW j \in 1..(n + 1), tasks'[i].parent_id = tasks'[j].id
        PROVE  tasks'[i].order <= Len(tasks'[j].children)
    <3>1. j \in 1..n
      <4>1. tasks'[j].id # next_id
        <5>1. CASE i \in 1..n
          <6>1. tasks'[i].parent_id # 0
            BY <2>2, <1>3
          <6>2. PICK k \in 1..(i - 1) : tasks[k].id = tasks[i].parent_id
            BY <1>0, <5>1, <6>1, <1>1, <1>4 DEF TreeSound
          <6>3. k \in 1..n
            BY <5>1, <1>1
          <6>4. tasks[k].id < next_id /\ tasks[k].id \in Nat
            BY <6>3, <1>5, <1>2 DEF TaskType
          <6> QED BY <2>2, <5>1, <6>2, <6>4, <1>4, <1>5
        <5>2. CASE i = n + 1
          <6>1. tasks'[i].parent_id # 0
            BY <2>2, <1>3
          <6>2. PICK k \in 1..n : tasks'[i].parent_id = tasks[k].id
            BY <5>2, <6>1, <1>6
          <6>3. tasks[k].id < next_id /\ tasks[k].id \in Nat
            BY <6>2, <1>5, <1>2 DEF TaskType
          <6> QED BY <2>2, <6>2, <6>3, <1>5
        <5> QED BY <5>1, <5>2, <1>7
      <4> QED BY <4>1, <1>5, <1>7
    <3>2. CASE i \in 1..n
      <4>1. /\ tasks'[i].order = tasks[i].order /\ tasks[i].parent_id = tasks[j].id
            /\ Len(tasks[j].children) <= Len(tasks'[j].children)
        BY <2>2, <3>1, <3>2, <1>4
      <4>2. tasks[i].order <= Len(tasks[j].children)
        BY <1>0, <4>1, <3>1, <3>2, <1>1 DEF OrdersInv
      <4>3. tasks'[i].order \in Nat /\ Len(tasks[j].children) \in Nat /\ Len(tasks'[j].children) \in Nat
        BY <3>1, <1>3
      <4> QED BY <4>1, <4>2, <4>3
    <3>3. CASE i = n + 1
      <4>1. PICK k \in 1..n : tasks'[i].parent_id = tasks[k].id /\ tasks'[i].order = Len(tasks[k].children)
        BY <2>2, <3>3, <1>3, <1>6
      <4>2. k = j
        BY <1>0, <2>2, <3>1, <4>1, <1>1, <1>4 DEF TreeSound
      <4> QED BY <4>1, <4>2, <3>1, <1>4
    <3> QED BY <3>2, <3>3, <1>7
  <2> QED BY <2>1, <2>2, <1>1 DEF OrdersInv
<1> QED BY <1>8, <1>9, <1>10

\* A session starts without tasks.
LEMMA BoardInvInit == Init => BoardInv
<1> SUFFICES ASSUME Init PROVE BoardInv
  OBVIOUS
<1>1. TypeOK
  <2>1. offered \in BOOLEAN /\ alive \in BOOLEAN /\ meddled \in BOOLEAN
    BY Zenon DEF Init
  <2>2. /\ tasks \in Seq(TaskType) /\ next_id \in Nat \ {0} /\ capacity \in Nat
        /\ todo \in [parent : Nat, left : Nat] /\ newlines \in Nat /\ born \in Nat /\ updates \in Nat
    BY DEF Init, NoWork
  <2>3. section \in Seq(LineType) \cup {NoSection}
    BY DEF Init
  <2> QED BY <2>1, <2>2, <2>3, Zenon DEF TypeOK
<1>2. DOMAIN tasks = {} /\ todo = NoWork
  BY DEF Init
<1> QED BY <1>1, <1>2 DEF BoardInv, TreeSound, SiblingsInOrder, IdsInv, OrdersInv

\* What update_task_system_prompt writes is a list of lines.
LEMMA SummaryType ==
  ASSUME NEW ts \in Seq(TaskType)
  PROVE  Summary(ts) \in Seq(LineType)
<1>1. \A i \in 1..Len(ts) : ts[i] \in TaskType
  OBVIOUS
<1>2. \A i \in 1..Len(ts) : [id |-> ts[i].id, parent_id |-> ts[i].parent_id,
                             description |-> ts[i].description, status |-> ts[i].status] \in LineType
  BY <1>1 DEF TaskType, LineType
<1>3. DOMAIN ts = 1..Len(ts) /\ Len(ts) \in Nat
  OBVIOUS
<1>4. Summary(ts) \in [1..Len(ts) -> LineType]
  BY <1>2, <1>3 DEF Summary
<1> QED BY <1>3, <1>4

\* An update keeps the types of the section and of what is counted.
LEMMA UpdateType ==
  ASSUME TypeOK, tasks' \in Seq(TaskType), update_task_system_prompt
  PROVE  /\ section' \in Seq(LineType) \cup {NoSection}
         /\ newlines' \in Nat /\ updates' \in Nat /\ meddled' \in BOOLEAN
<1>1. Summary(tasks') \in Seq(LineType)
  BY SummaryType
<1>2. section' \in Seq(LineType) \cup {NoSection}
  BY <1>1 DEF update_task_system_prompt
<1>3. newlines' \in Nat /\ updates' \in Nat
  BY DEF update_task_system_prompt, TypeOK
<1>4. meddled' \in BOOLEAN
  BY Zenon DEF update_task_system_prompt
<1> QED BY <1>2, <1>3, <1>4, Zenon

\* create_task adds one root task.
LEMMA RootAdded ==
  ASSUME BoardInv, NEW status \in Statuses, create_task(status)
  PROVE  /\ OneMore(tasks, tasks', next_id)
         /\ next_id' \in Nat \ {0} /\ capacity' \in Nat /\ born' \in Nat
         /\ \A i \in DOMAIN tasks' : tasks'[i].id < next_id'
<1> DEFINE new == Task(next_id, 0, 0, born + 1, status)
<1>1. TypeOK /\ IdsInv
  BY DEF BoardInv
<1>2. new \in TaskType /\ new.id = next_id /\ new.parent_id = 0 /\ new.order = 0
  BY <1>1 DEF TypeOK, TaskType, Task, Statuses
<1>3. tasks' = Append(tasks, new) /\ tasks \in Seq(TaskType)
  BY <1>1 DEF create_task, TypeOK
<1> HIDE DEF new
<1>4. /\ tasks' \in Seq(TaskType) /\ Len(tasks') = Len(tasks) + 1 /\ Len(tasks) \in Nat
      /\ tasks'[Len(tasks) + 1] = new
      /\ \A i \in 1..Len(tasks) : tasks'[i] = tasks[i]
  BY <1>2, <1>3
<1>5. \A i \in 1..Len(tasks) : Len(tasks[i].children) \in Nat
  <2>1. \A i \in 1..Len(tasks) : tasks[i] \in TaskType
    BY <1>3
  <2> QED BY <2>1 DEF TaskType
<1>6. SameTasks(tasks, tasks')
  BY <1>4, <1>5 DEF SameTasks
<1>7. OneMore(tasks, tasks', next_id)
  BY <1>2, <1>4, <1>6 DEF OneMore
<1>8. next_id' \in Nat \ {0} /\ capacity' \in Nat /\ born' \in Nat /\ next_id' = next_id + 1
  BY <1>1 DEF create_task, Grown, TypeOK
<1>9. \A i \in DOMAIN tasks' : tasks'[i].id < next_id'
  <2>1. \A i \in 1..Len(tasks) : tasks[i].id < next_id /\ tasks[i].id \in Nat
    <3>1. \A i \in 1..Len(tasks) : tasks[i] \in TaskType
      BY <1>3
    <3>2. \A i \in 1..Len(tasks) : tasks[i].id \in Nat
      BY <3>1 DEF TaskType
    <3> QED BY <3>2, <1>1, <1>3 DEF IdsInv
  <2>2. next_id \in Nat
    BY <1>1 DEF TypeOK
  <2>3. DOMAIN tasks' = 1..(Len(tasks) + 1)
    BY <1>4
  <2> SUFFICES ASSUME NEW i \in 1..(Len(tasks) + 1) PROVE tasks'[i].id < next_id'
    BY <2>3
  <2>4. CASE i \in 1..Len(tasks)
    BY <2>4, <2>1, <2>2, <1>4, <1>8
  <2>5. CASE i = Len(tasks) + 1
    BY <2>5, <2>2, <1>2, <1>4, <1>8
  <2> QED BY <2>4, <2>5, <1>4
<1> QED BY <1>7, <1>8, <1>9

\* get_task finds the task that is being decomposed.
LEMMA ParentFound ==
  ASSUME BoardInv, todo # NoWork
  PROVE  IndexOf(todo.parent) \in 1..Len(tasks) /\ tasks[IndexOf(todo.parent)].id = todo.parent
<1>1. TypeOK /\ IdsInv /\ TreeSound
  BY DEF BoardInv
<1>2. DOMAIN tasks = 1..Len(tasks) /\ Len(tasks) \in Nat
  BY <1>1 DEF TypeOK
<1>3. PICK i \in 1..Len(tasks) : tasks[i].id = todo.parent
  BY <1>1, <1>2 DEF IdsInv
<1>4. i \in Positions(todo.parent) /\ \A j \in Positions(todo.parent) : j = i
  BY <1>1, <1>2, <1>3 DEF Positions, TreeSound
<1>5. \E k \in Positions(todo.parent) : \A j \in Positions(todo.parent) : k <= j
  BY <1>4
<1>6. IndexOf(todo.parent) \in Positions(todo.parent)
  BY <1>5 DEF IndexOf
<1> QED BY <1>2, <1>6 DEF Positions

\* create_subtask adds one child, whether or not its parent gets to know of it.
LEMMA ChildAdded ==
  ASSUME BoardInv, todo # NoWork, create_subtask(todo.parent)
  PROVE  /\ OneMore(tasks, tasks', next_id)
         /\ next_id' \in Nat \ {0} /\ capacity' \in Nat /\ born' \in Nat
         /\ \A i \in DOMAIN tasks' : tasks'[i].id < next_id'
<1> DEFINE at == IndexOf(todo.parent)
           n  == Len(tasks)
           child == Task(next_id, todo.parent, Len(tasks[at].children), born + 1, "TODO")
           new == Append(tasks, child)
<1>1. TypeOK /\ IdsInv
  BY DEF BoardInv
<1>2. at \in 1..n /\ tasks[at].id = todo.parent /\ n \in Nat /\ tasks \in Seq(TaskType)
  BY ParentFound, <1>1 DEF TypeOK
<1>3. \A i \in 1..n : tasks[i] \in TaskType
  BY <1>2
<1>4. \A i \in 1..n : Len(tasks[i].children) \in Nat /\ tasks[i].children \in Seq(Nat) /\ tasks[i].id \in Nat \ {0}
  BY <1>3 DEF TaskType
<1>5. next_id \in Nat \ {0} /\ born + 1 \in Nat /\ capacity \in Nat
  BY <1>1 DEF TypeOK
<1>6. /\ child \in TaskType /\ child.id = next_id /\ child.parent_id = tasks[at].id
      /\ child.order = Len(tasks[at].children)
  <2>1. todo.parent \in Nat /\ "TODO" \in Statuses
    BY <1>1 DEF TypeOK, Statuses
  <2>2. Len(tasks[at].children) \in Nat
    BY <1>2, <1>4
  <2>3. PICK order \in Nat : order = Len(tasks[at].children)
    BY <2>2
  <2>4. PICK parent \in Nat : parent = todo.parent
    BY <2>1
  <2>5. PICK number \in Nat : number = born + 1
    BY <1>5
  <2>6. child = Task(next_id, parent, order, number, "TODO")
    BY <2>3, <2>4, <2>5
  <2> HIDE DEF child, at
  <2>7. child \in TaskType /\ child.id = next_id /\ child.parent_id = parent /\ child.order = order
    BY <2>6, <2>1, <1>5 DEF Task, TaskType
  <2> QED BY <2>3, <2>4, <2>7, <1>2
<1> HIDE DEF child
<1>7. /\ new \in Seq(TaskType) /\ Len(new) = n + 1 /\ new[n + 1] = child
      /\ \A i \in 1..n : new[i] = tasks[i]
  BY <1>2, <1>6
<1>8. tasks' = new \/ tasks' = [new EXCEPT ![at].children = Append(@, next_id)]
  BY DEF create_subtask, child
<1> HIDE DEF new, at
<1>9. /\ tasks' \in Seq(TaskType) /\ Len(tasks') = n + 1 /\ tasks'[n + 1] = child
      /\ \A i \in 1..n : /\ tasks'[i].id = tasks[i].id /\ tasks'[i].parent_id = tasks[i].parent_id
                         /\ tasks'[i].order = tasks[i].order
                         /\ Len(tasks[i].children) <= Len(tasks'[i].children)
  <2>1. CASE tasks' = new
    BY <2>1, <1>4, <1>7
  <2>2. CASE tasks' = [new EXCEPT ![at].children = Append(@, next_id)]
    <3> DEFINE row == [tasks[at] EXCEPT !.children = Append(@, next_id)]
    <3>1. /\ row \in TaskType /\ row.id = tasks[at].id /\ row.parent_id = tasks[at].parent_id
          /\ row.order = tasks[at].order /\ row.children = Append(tasks[at].children, next_id)
      <4>1. Append(tasks[at].children, next_id) \in Seq(Nat) /\ tasks[at] \in TaskType
        BY <1>2, <1>3, <1>4, <1>5
      <4>2. PICK t \in TaskType : t = tasks[at]
        BY <4>1
      <4>3. PICK c \in Seq(Nat) : c = Append(tasks[at].children, next_id)
        BY <4>1
      <4>4. row = [t EXCEPT !.children = c]
        BY <4>2, <4>3
      <4> HIDE DEF row
      <4>5. /\ row \in TaskType /\ row.id = t.id /\ row.parent_id = t.parent_id
            /\ row.order = t.order /\ row.children = c
        BY <4>4 DEF TaskType
      <4> QED BY <4>2, <4>3, <4>5
    <3>2. Len(row.children) = Len(tasks[at].children) + 1
      BY <3>1, <1>2, <1>4, <1>5
    <3>3. tasks' = [new EXCEPT ![at] = row]
      BY <2>2, <1>2, <1>7
    <3> HIDE DEF row
    <3>4. tasks' \in Seq(TaskType) /\ Len(tasks') = n + 1
      BY <3>1, <3>3, <1>2, <1>7
    <3>5. tasks'[at] = row /\ tasks'[n + 1] = child /\ \A i \in 1..n : i # at => tasks'[i] = tasks[i]
      BY <3>3, <1>2, <1>7
    <3>6. /\ tasks'[at].id = tasks[at].id /\ tasks'[at].parent_id = tasks[at].parent_id
          /\ tasks'[at].order = tasks[at].order
          /\ Len(tasks[at].children) <= Len(tasks'[at].children)
      BY <3>1, <3>2, <3>5, <1>2, <1>4
    <3>7. ASSUME NEW i \in 1..n
          PROVE  /\ tasks'[i].id = tasks[i].id /\ tasks'[i].parent_id = tasks[i].parent_id
                 /\ tasks'[i].order = tasks[i].order
                 /\ Len(tasks[i].children) <= Len(tasks'[i].children)
      <4>1. CASE i = at
        BY <4>1, <3>6
      <4>2. CASE i # at
        BY <4>2, <3>5, <1>4
      <4> QED BY <4>1, <4>2
    <3> QED BY <3>4, <3>5, <3>7
  <2> QED BY <2>1, <2>2, <1>8
<1>10. OneMore(tasks, tasks', next_id)
  <2>1. SameTasks(tasks, tasks') /\ Len(tasks') = Len(tasks) + 1
    BY <1>9 DEF SameTasks
  <2>2. /\ tasks'[Len(tasks) + 1].id = next_id /\ tasks'[Len(tasks) + 1].parent_id = tasks[at].id
        /\ tasks'[Len(tasks) + 1].order = Len(tasks[at].children) /\ at \in 1..Len(tasks)
    BY <1>2, <1>6, <1>9
  <2>3. \E j \in 1..Len(tasks) : /\ tasks'[Len(tasks) + 1].parent_id = tasks[j].id
                                 /\ tasks'[Len(tasks) + 1].order = Len(tasks[j].children)
    BY <2>2
  <2> QED BY <2>1, <2>2, <2>3, Zenon DEF OneMore
<1>11. next_id' = next_id + 1 /\ capacity' \in Nat /\ born' \in Nat
  <2>1. next_id' = next_id + 1 /\ capacity' = Grown /\ born' = born + 1
    BY Zenon DEF create_subtask
  <2>2. capacity \in Nat /\ born \in Nat
    BY <1>1 DEF TypeOK
  <2> QED BY <2>1, <2>2 DEF Grown
<1>12. \A i \in DOMAIN tasks' : tasks'[i].id < next_id'
  <2>1. DOMAIN tasks' = 1..(n + 1) /\ \A i \in 1..n : tasks[i].id < next_id
    BY <1>1, <1>2, <1>9 DEF IdsInv
  <2> SUFFICES ASSUME NEW i \in 1..(n + 1) PROVE tasks'[i].id < next_id'
    BY <2>1
  <2>2. CASE i \in 1..n
    BY <2>1, <2>2, <1>4, <1>5, <1>9, <1>11
  <2>3. CASE i = n + 1
    BY <2>3, <1>5, <1>6, <1>9, <1>11
  <2> QED BY <2>2, <2>3, <1>2
<1> QED BY <1>5, <1>10, <1>11, <1>12

\* A change of a status leaves every task where it is.
LEMMA StatusChanged ==
  ASSUME BoardInv, NEW i \in DOMAIN tasks, NEW status \in Statuses,
         tasks' = [tasks EXCEPT ![i].status = status]
  PROVE  /\ SameTasks(tasks, tasks') /\ Len(tasks') = Len(tasks) /\ DOMAIN tasks' = DOMAIN tasks
         /\ \A k \in DOMAIN tasks : tasks'[k].id = tasks[k].id
<1>1. tasks \in Seq(TaskType) /\ DOMAIN tasks = 1..Len(tasks) /\ Len(tasks) \in Nat
  BY DEF BoardInv, TypeOK
<1>2. \A k \in 1..Len(tasks) : tasks[k] \in TaskType
  BY <1>1
<1>3. \A k \in 1..Len(tasks) : Len(tasks[k].children) \in Nat
  BY <1>2 DEF TaskType
<1>4. PICK t \in TaskType : t = tasks[i]
  BY <1>1, <1>2
<1>5. PICK row : row = [t EXCEPT !.status = status]
  OBVIOUS
<1>6. /\ row \in TaskType /\ row.id = t.id /\ row.parent_id = t.parent_id
      /\ row.order = t.order /\ row.children = t.children
  BY <1>5 DEF TaskType
<1>7. tasks' = [tasks EXCEPT ![i] = row]
  BY <1>1, <1>4, <1>5
<1>8. /\ tasks' \in Seq(TaskType) /\ Len(tasks') = Len(tasks) /\ DOMAIN tasks' = DOMAIN tasks
      /\ tasks'[i] = row /\ \A k \in 1..Len(tasks) : k # i => tasks'[k] = tasks[k]
  BY <1>1, <1>6, <1>7
<1>9. \A k \in 1..Len(tasks) :
        /\ tasks'[k].id = tasks[k].id /\ tasks'[k].parent_id = tasks[k].parent_id
        /\ tasks'[k].order = tasks[k].order
        /\ Len(tasks[k].children) <= Len(tasks'[k].children)
  <2> SUFFICES ASSUME NEW k \in 1..Len(tasks)
               PROVE  /\ tasks'[k].id = tasks[k].id /\ tasks'[k].parent_id = tasks[k].parent_id
                      /\ tasks'[k].order = tasks[k].order
                      /\ Len(tasks[k].children) <= Len(tasks'[k].children)
    OBVIOUS
  <2>1. CASE k = i
    BY <2>1, <1>3, <1>4, <1>6, <1>8
  <2>2. CASE k # i
    BY <2>2, <1>3, <1>8
  <2> QED BY <2>1, <2>2
<1> QED BY <1>1, <1>8, <1>9 DEF SameTasks

\* What is left to show of a step once the tree is known to be kept.
LEMMA Assemble ==
  ASSUME TreeSound' /\ SiblingsInOrder' /\ OrdersInv', IdsInv',
         tasks' \in Seq(TaskType), next_id' \in Nat \ {0}, capacity' \in Nat, born' \in Nat,
         todo' \in [parent : Nat, left : Nat],
         section' \in Seq(LineType) \cup {NoSection}, newlines' \in Nat, updates' \in Nat,
         offered' \in BOOLEAN, alive' \in BOOLEAN, meddled' \in BOOLEAN
  PROVE  BoardInv'
<1>1. TypeOK'
  BY Zenon DEF TypeOK
<1> QED BY <1>1, Zenon DEF BoardInv

\* The prompt keeps its types, updated or not.
LEMMA PromptType ==
  ASSUME TypeOK, tasks' \in Seq(TaskType), update_task_system_prompt \/ UNCHANGED prompt
  PROVE  /\ section' \in Seq(LineType) \cup {NoSection}
         /\ newlines' \in Nat /\ updates' \in Nat /\ meddled' \in BOOLEAN
<1>1. CASE update_task_system_prompt
  BY <1>1, UpdateType
<1>2. CASE UNCHANGED prompt
  BY <1>2, Zenon DEF prompt, TypeOK
<1> QED BY <1>1, <1>2

\* decompose without a task.
LEMMA StepDecomposeNew ==
  ASSUME BoardInv, NEW n \in 1..MaxSteps, DecomposeNew(n)
  PROVE  BoardInv'
<1>1. TypeOK /\ IdsInv /\ n \in Nat \ {0} /\ todo = NoWork
  BY BoardAssumption DEF BoardInv, DecomposeNew, ToolCall, Idle
<1>2. PICK status \in Statuses : create_task(status)
  BY DEF DecomposeNew, Statuses
<1>3. /\ OneMore(tasks, tasks', next_id)
      /\ next_id' \in Nat \ {0} /\ capacity' \in Nat /\ born' \in Nat
      /\ \A i \in DOMAIN tasks' : tasks'[i].id < next_id'
  BY <1>2, RootAdded
<1>4. TreeSound' /\ SiblingsInOrder' /\ OrdersInv'
  BY <1>3, LargerTree
<1>5. tasks' \in Seq(TaskType)
  BY <1>3 DEF OneMore, SameTasks
<1>6. /\ todo' \in [parent : Nat, left : Nat]
      /\ todo' # NoWork => todo'.left > 0 /\ todo'.parent = next_id
  <2>1. next_id \in Nat
    BY <1>1 DEF TypeOK
  <2>2. CASE n = 1
    <3>1. todo' = NoWork
      BY <2>2, <1>1 DEF DecomposeNew
    <3>2. NoWork \in [parent : Nat, left : Nat]
      BY DEF NoWork
    <3> QED BY <3>1, <3>2
  <2>3. CASE n # 1
    <3>1. todo' = [parent |-> next_id, left |-> n - 1]
      BY <2>3 DEF DecomposeNew
    <3> QED BY <3>1, <2>1, <2>3, <1>1
  <2> QED BY <2>2, <2>3
<1>7. IdsInv'
  <2>1. Len(tasks) + 1 \in DOMAIN tasks' /\ tasks'[Len(tasks) + 1].id = next_id
    BY <1>1, <1>3, <1>5 DEF OneMore, TypeOK
  <2> QED BY <2>1, <1>3, <1>6 DEF IdsInv, NoWork
<1>8. update_task_system_prompt \/ UNCHANGED prompt
  BY DEF DecomposeNew
<1>9. /\ section' \in Seq(LineType) \cup {NoSection}
      /\ newlines' \in Nat /\ updates' \in Nat /\ meddled' \in BOOLEAN
  BY <1>1, <1>5, <1>8, PromptType
<1>10. offered' \in BOOLEAN /\ alive' \in BOOLEAN
  BY <1>1, Zenon DEF DecomposeNew, TypeOK
<1> QED BY <1>3, <1>4, <1>5, <1>6, <1>7, <1>9, <1>10, Assemble

\* decompose for a task.
LEMMA StepDecomposeTask ==
  ASSUME BoardInv, NEW i \in DOMAIN tasks, NEW n \in 0..MaxSteps, DecomposeTask(i, n)
  PROVE  BoardInv'
<1>1. TypeOK /\ IdsInv /\ n \in Nat /\ todo = NoWork
  BY BoardAssumption DEF BoardInv, DecomposeTask, ToolCall, Idle
<1>2. "IN_PROGRESS" \in Statuses /\ tasks' = [tasks EXCEPT ![i].status = "IN_PROGRESS"]
  BY DEF DecomposeTask, Statuses
<1>3. /\ SameTasks(tasks, tasks') /\ Len(tasks') = Len(tasks) /\ DOMAIN tasks' = DOMAIN tasks
      /\ \A k \in DOMAIN tasks : tasks'[k].id = tasks[k].id
  BY <1>2, StatusChanged
<1>4. TreeSound' /\ SiblingsInOrder' /\ OrdersInv'
  BY <1>3, SameTree
<1>5. tasks' \in Seq(TaskType)
  BY <1>3 DEF SameTasks
<1>6. tasks[i].id \in Nat
  <2>1. tasks[i] \in TaskType
    BY <1>1 DEF TypeOK
  <2> QED BY <2>1 DEF TaskType
<1>7. /\ todo' \in [parent : Nat, left : Nat]
      /\ todo' # NoWork => todo'.left > 0 /\ todo'.parent = tasks[i].id
  <2>1. CASE n = 0
    <3>1. todo' = NoWork
      BY <2>1, <1>1 DEF DecomposeTask
    <3>2. NoWork \in [parent : Nat, left : Nat]
      BY DEF NoWork
    <3> QED BY <3>1, <3>2
  <2>2. CASE n # 0
    <3>1. todo' = [parent |-> tasks[i].id, left |-> n]
      BY <2>2 DEF DecomposeTask
    <3> QED BY <3>1, <2>2, <1>1, <1>6
  <2> QED BY <2>1, <2>2
<1>8. next_id' = next_id /\ capacity' = capacity /\ born' = born
  BY DEF DecomposeTask
<1>9. IdsInv'
  BY <1>1, <1>3, <1>7, <1>8 DEF IdsInv, NoWork
<1>10. update_task_system_prompt \/ UNCHANGED prompt
  BY DEF DecomposeTask
<1>11. /\ section' \in Seq(LineType) \cup {NoSection}
       /\ newlines' \in Nat /\ updates' \in Nat /\ meddled' \in BOOLEAN
  BY <1>1, <1>5, <1>10, PromptType
<1>12. offered' \in BOOLEAN /\ alive' \in BOOLEAN
  BY <1>1, Zenon DEF DecomposeTask, TypeOK
<1>13. next_id' \in Nat \ {0} /\ capacity' \in Nat /\ born' \in Nat
  BY <1>1, <1>8 DEF TypeOK
<1> QED BY <1>4, <1>5, <1>7, <1>9, <1>11, <1>12, <1>13, Assemble

\* One more subtask.
LEMMA StepNextStep ==
  ASSUME BoardInv, NextStep
  PROVE  BoardInv'
<1>1. TypeOK /\ IdsInv /\ todo # NoWork
  BY DEF BoardInv, NextStep
<1>2. /\ OneMore(tasks, tasks', next_id)
      /\ next_id' \in Nat \ {0} /\ capacity' \in Nat /\ born' \in Nat
      /\ \A i \in DOMAIN tasks' : tasks'[i].id < next_id'
  BY <1>1, ChildAdded DEF NextStep
<1>3. TreeSound' /\ SiblingsInOrder' /\ OrdersInv'
  BY <1>2, LargerTree
<1>4. tasks' \in Seq(TaskType)
  BY <1>2 DEF OneMore, SameTasks
<1>5. todo.left \in Nat \ {0} /\ todo.parent \in Nat /\ todo \in [parent : Nat, left : Nat]
  BY <1>1 DEF TypeOK, IdsInv
<1>6. /\ todo' \in [parent : Nat, left : Nat]
      /\ todo' # NoWork => todo'.left > 0 /\ todo'.parent = todo.parent
  <2>1. CASE todo.left = 1
    <3>1. todo' = NoWork
      BY <2>1 DEF NextStep
    <3>2. NoWork \in [parent : Nat, left : Nat]
      BY DEF NoWork
    <3> QED BY <3>1, <3>2
  <2>2. CASE todo.left # 1
    BY <2>2, <1>5 DEF NextStep
  <2> QED BY <2>1, <2>2
<1>7. IdsInv'
  <2>1. PICK i \in DOMAIN tasks : tasks[i].id = todo.parent
    BY <1>1 DEF IdsInv
  <2>2. i \in DOMAIN tasks' /\ tasks'[i].id = todo.parent
    <3>1. Len(tasks) \in Nat /\ DOMAIN tasks = 1..Len(tasks)
      BY <1>1 DEF TypeOK
    <3>2. DOMAIN tasks' = 1..(Len(tasks) + 1) /\ \A k \in 1..Len(tasks) : tasks'[k].id = tasks[k].id
      BY <1>2, <1>4, <3>1 DEF OneMore, SameTasks
    <3> QED BY <2>1, <3>1, <3>2
  <2> QED BY <2>2, <1>2, <1>6 DEF IdsInv, NoWork
<1>8. update_task_system_prompt \/ UNCHANGED prompt
  BY DEF NextStep
<1>9. /\ section' \in Seq(LineType) \cup {NoSection}
      /\ newlines' \in Nat /\ updates' \in Nat /\ meddled' \in BOOLEAN
  BY <1>1, <1>4, <1>8, PromptType
<1>10. offered' \in BOOLEAN /\ alive' \in BOOLEAN
  <2>1. offered' \in BOOLEAN
    BY <1>1, Zenon DEF NextStep, TypeOK
  <2>2. alive' \in BOOLEAN
    <3>1. CASE Full
      BY <3>1, Zenon DEF NextStep, create_subtask
    <3>2. CASE ~Full
      BY <3>2, Zenon DEF NextStep, create_subtask
    <3> QED BY <3>1, <3>2, Zenon
  <2> QED BY <2>1, <2>2, Zenon
<1> QED BY <1>2, <1>3, <1>4, <1>6, <1>7, <1>9, <1>10, Assemble

\* A change of a status by the model.
LEMMA StepSetTaskStatus ==
  ASSUME BoardInv, NEW i \in DOMAIN tasks, NEW status \in Statuses, SetTaskStatus(i, status)
  PROVE  BoardInv'
<1>1. TypeOK /\ IdsInv
  BY DEF BoardInv
<1>2. tasks' = [tasks EXCEPT ![i].status = status]
  BY DEF SetTaskStatus
<1>3. /\ SameTasks(tasks, tasks') /\ Len(tasks') = Len(tasks) /\ DOMAIN tasks' = DOMAIN tasks
      /\ \A k \in DOMAIN tasks : tasks'[k].id = tasks[k].id
  BY <1>2, StatusChanged
<1>4. TreeSound' /\ SiblingsInOrder' /\ OrdersInv'
  BY <1>3, SameTree
<1>5. tasks' \in Seq(TaskType)
  BY <1>3 DEF SameTasks
<1>6. next_id' = next_id /\ capacity' = capacity /\ born' = born /\ todo' = todo
  BY DEF SetTaskStatus
<1>7. IdsInv'
  BY <1>1, <1>3, <1>6 DEF IdsInv, NoWork
<1>8. /\ section' \in Seq(LineType) \cup {NoSection}
      /\ newlines' \in Nat /\ updates' \in Nat /\ meddled' \in BOOLEAN
  BY <1>1, <1>5, PromptType DEF SetTaskStatus
<1>9. offered' \in BOOLEAN /\ alive' \in BOOLEAN
  BY <1>1, Zenon DEF SetTaskStatus, TypeOK
<1>10. /\ next_id' \in Nat \ {0} /\ capacity' \in Nat /\ born' \in Nat
       /\ todo' \in [parent : Nat, left : Nat]
  BY <1>1, <1>6 DEF TypeOK
<1> QED BY <1>4, <1>5, <1>7, <1>8, <1>9, <1>10, Assemble

\* /task create
LEMMA StepTaskCreate ==
  ASSUME BoardInv, TaskCreate
  PROVE  BoardInv'
<1>1. TypeOK /\ IdsInv /\ todo = NoWork /\ "TODO" \in Statuses
  BY DEF BoardInv, TaskCreate, Idle, Statuses
<1>2. /\ OneMore(tasks, tasks', next_id)
      /\ next_id' \in Nat \ {0} /\ capacity' \in Nat /\ born' \in Nat
      /\ \A i \in DOMAIN tasks' : tasks'[i].id < next_id'
  BY <1>1, RootAdded DEF TaskCreate
<1>3. TreeSound' /\ SiblingsInOrder' /\ OrdersInv'
  BY <1>2, LargerTree
<1>4. tasks' \in Seq(TaskType)
  BY <1>2 DEF OneMore, SameTasks
<1>5. todo' = NoWork /\ todo' \in [parent : Nat, left : Nat]
  BY <1>1 DEF TaskCreate, NoWork
<1>6. IdsInv'
  BY <1>2, <1>5 DEF IdsInv, NoWork
<1>7. /\ section' \in Seq(LineType) \cup {NoSection} /\ newlines' \in Nat /\ updates' \in Nat
      /\ offered' \in BOOLEAN /\ alive' \in BOOLEAN /\ meddled' \in BOOLEAN
  BY <1>1, Zenon DEF TaskCreate, TypeOK
<1> QED BY <1>2, <1>3, <1>4, <1>5, <1>6, <1>7, Assemble

\* /task clear
LEMMA StepTaskClear ==
  ASSUME BoardInv, TaskClear
  PROVE  BoardInv'
<1>1. TypeOK /\ todo = NoWork
  BY DEF BoardInv, TaskClear, Idle
<1>2. /\ tasks' = <<>> /\ next_id' = 1 /\ capacity' = capacity /\ born' = born
      /\ todo' = NoWork
  BY <1>1 DEF TaskClear, clear
<1>3. DOMAIN tasks' = {} /\ tasks' \in Seq(TaskType)
  BY <1>2
<1>4. TreeSound' /\ SiblingsInOrder' /\ OrdersInv'
  BY <1>3 DEF TreeSound, SiblingsInOrder, OrdersInv
<1>5. IdsInv'
  BY <1>2, <1>3 DEF IdsInv, NoWork
<1>6. /\ section' \in Seq(LineType) \cup {NoSection} /\ newlines' \in Nat /\ updates' \in Nat
      /\ offered' \in BOOLEAN /\ alive' \in BOOLEAN /\ meddled' \in BOOLEAN
  BY <1>1, Zenon DEF TaskClear, TypeOK
<1>7. /\ next_id' \in Nat \ {0} /\ capacity' \in Nat /\ born' \in Nat
      /\ todo' \in [parent : Nat, left : Nat]
  BY <1>1, <1>2 DEF TypeOK, NoWork
<1> QED BY <1>3, <1>4, <1>5, <1>6, <1>7, Assemble

\* The commands that write the prompt anew, and steps that change nothing here.
LEMMA StepTasksKept ==
  ASSUME BoardInv, ClearChat \/ ToolCommand \/ UNCHANGED vars
  PROVE  BoardInv'
<1>1. TypeOK /\ IdsInv /\ TreeSound /\ SiblingsInOrder /\ OrdersInv
  BY DEF BoardInv
<1>2. tasks' = tasks /\ next_id' = next_id /\ capacity' = capacity /\ born' = born /\ todo' = todo
  BY DEF ClearChat, ToolCommand, vars, vector
<1>3. TreeSound' /\ SiblingsInOrder' /\ OrdersInv' /\ IdsInv'
  BY <1>1, <1>2 DEF TreeSound, SiblingsInOrder, OrdersInv, IdsInv, NoWork
<1>4. updates' = updates /\ (newlines' = 0 \/ newlines' = newlines)
  BY DEF ClearChat, ToolCommand, vars, prompt
<1>5. newlines' \in Nat /\ updates' \in Nat
  BY <1>1, <1>4 DEF TypeOK
<1>6. section' = NoSection \/ section' = section
  BY DEF ClearChat, ToolCommand, vars, prompt
<1>7. section' \in Seq(LineType) \cup {NoSection}
  BY <1>1, <1>6, Zenon DEF TypeOK
<1>8. offered' \in BOOLEAN /\ alive' \in BOOLEAN /\ meddled' \in BOOLEAN
  <2>1. CASE ClearChat
    BY <2>1, <1>1, Zenon DEF ClearChat, TypeOK
  <2>2. CASE ToolCommand
    BY <2>2, <1>1, Zenon DEF ToolCommand, TypeOK
  <2>3. CASE UNCHANGED vars
    BY <2>3, <1>1, Zenon DEF vars, prompt, TypeOK
  <2> QED BY <2>1, <2>2, <2>3, Zenon
<1>9. /\ tasks' \in Seq(TaskType) /\ next_id' \in Nat \ {0} /\ capacity' \in Nat /\ born' \in Nat
      /\ todo' \in [parent : Nat, left : Nat]
  BY <1>1, <1>2 DEF TypeOK
<1> QED BY <1>3, <1>5, <1>7, <1>8, <1>9, Assemble

\* Every step keeps the invariant.
LEMMA BoardInvStep == BoardInv /\ [Next]_vars => BoardInv'
<1> SUFFICES ASSUME BoardInv, [Next]_vars PROVE BoardInv'
  OBVIOUS
<1>1. CASE \E n \in 1..MaxSteps : DecomposeNew(n)
  BY <1>1, StepDecomposeNew
<1>2. CASE \E i \in DOMAIN tasks : \E n \in 0..MaxSteps : DecomposeTask(i, n)
  BY <1>2, StepDecomposeTask
<1>3. CASE NextStep
  BY <1>3, StepNextStep
<1>4. CASE \E i \in DOMAIN tasks : \E status \in Statuses : SetTaskStatus(i, status)
  BY <1>4, StepSetTaskStatus
<1>5. CASE TaskCreate
  BY <1>5, StepTaskCreate
<1>6. CASE TaskClear
  BY <1>6, StepTaskClear
<1>7. CASE ClearChat \/ ToolCommand \/ UNCHANGED vars
  BY <1>7, StepTasksKept
<1> QED BY <1>1, <1>2, <1>3, <1>4, <1>5, <1>6, <1>7 DEF Next

\* The invariant holds in every session of any length, with steps and tasks in
\* any number and wherever the vector of the tasks moves.
THEOREM BoardSafety == Spec => []BoardInv
BY BoardInvInit, BoardInvStep, PTL DEF Spec

\* The tasks always are a forest with unique ids, parents first: get_summary
\* prints every task once.
THEOREM TreeAlwaysSound == Spec => []TreeSound
<1>1. BoardInv => TreeSound
  BY DEF BoardInv
<1> QED BY <1>1, BoardSafety, PTL

\* Children that get lost from their parent never give a later sibling a smaller
\* order number than an earlier one.
THEOREM SiblingsOrdered == Spec => []SiblingsInOrder
<1>1. BoardInv => SiblingsInOrder
  BY DEF BoardInv
<1> QED BY <1>1, BoardSafety, PTL

-----------------------------------------------------------------------------
(* What the prompt shows: ModelSeesOwnChanges. *)

\* Between two calls, and with nothing changed by the user since, the section is
\* that of the tasks as they stand: none before the first update.  It also holds
\* of a process that has crashed, and says nothing while a decompose is at work.
Shown == ~meddled /\ todo = NoWork =>
           section = IF updates = 0 THEN NoSection ELSE Summary(tasks)

\* An update of the prompt shows the tasks.
LEMMA UpdateShows ==
  ASSUME TypeOK, update_task_system_prompt
  PROVE  Shown'
<1>1. updates' = updates + 1 /\ updates \in Nat /\ section' = Summary(tasks')
  BY DEF update_task_system_prompt, TypeOK
<1>2. updates' # 0
  BY <1>1
<1>3. Summary(tasks)' = Summary(tasks')
  BY DEF Summary
<1> QED BY <1>1, <1>2, <1>3, Zenon DEF Shown

\* Every step leaves the prompt showing the tasks, or owes it to the user.
LEMMA ShownStep == BoardInv /\ Shown /\ [Next]_vars => Shown'
<1> SUFFICES ASSUME BoardInv, Shown, [Next]_vars PROVE Shown'
  OBVIOUS
<1>0. TypeOK /\ IdsInv
  BY DEF BoardInv
<1>1. ASSUME NEW n \in 1..MaxSteps, DecomposeNew(n) PROVE Shown'
  <2>1. CASE n = 1
    BY <1>0, <1>1, <2>1, UpdateShows DEF DecomposeNew
  <2>2. CASE n # 1
    <3>1. todo' = [parent |-> next_id, left |-> n - 1]
      BY <1>1, <2>2 DEF DecomposeNew
    <3>2. n - 1 # 0
      BY <2>2
    <3>3. todo' # NoWork
      BY <3>1, <3>2 DEF NoWork
    <3> QED BY <3>3 DEF Shown, NoWork
  <2> QED BY <2>1, <2>2
<1>2. ASSUME NEW i \in DOMAIN tasks, NEW n \in 0..MaxSteps, DecomposeTask(i, n) PROVE Shown'
  <2>1. CASE n = 0
    BY <1>0, <1>2, <2>1, UpdateShows DEF DecomposeTask
  <2>2. CASE n # 0
    <3>1. todo' = [parent |-> tasks[i].id, left |-> n]
      BY <1>2, <2>2 DEF DecomposeTask
    <3>2. todo' # NoWork
      BY <3>1, <2>2 DEF NoWork
    <3> QED BY <3>2 DEF Shown, NoWork
  <2> QED BY <2>1, <2>2
<1>3. CASE NextStep
  <2>1. CASE todo.left = 1
    BY <1>0, <1>3, <2>1, UpdateShows DEF NextStep
  <2>2. CASE todo.left # 1
    <3>1. /\ todo' = [todo EXCEPT !.left = @ - 1]
          /\ todo.left \in Nat /\ todo.left > 0 /\ todo \in [parent : Nat, left : Nat]
      BY <1>0, <1>3, <2>2 DEF NextStep, TypeOK, IdsInv
    <3>2. todo'.left # 0
      <4>1. todo'.left = todo.left - 1
        BY <3>1
      <4> QED BY <4>1, <3>1, <2>2
    <3>3. NoWork.left = 0
      BY DEF NoWork
    <3>4. todo' # NoWork
      BY <3>2, <3>3, Zenon
    <3> QED BY <3>4 DEF Shown, NoWork
  <2> QED BY <2>1, <2>2
<1>4. ASSUME NEW i \in DOMAIN tasks, NEW status \in Statuses, SetTaskStatus(i, status)
      PROVE  Shown'
  BY <1>0, <1>4, UpdateShows DEF SetTaskStatus
<1>5. CASE TaskCreate \/ TaskClear \/ ClearChat \/ ToolCommand
  <2>1. meddled' = TRUE
    BY <1>5 DEF TaskCreate, TaskClear, ClearChat, ToolCommand
  <2> QED BY <2>1 DEF Shown
<1>6. CASE UNCHANGED vars
  BY <1>6 DEF Shown, vars, vector, prompt, NoWork, Summary
<1> QED BY <1>1, <1>2, <1>3, <1>4, <1>5, <1>6 DEF Next

\* Whatever path a call of the model took, however many steps a decompose had, and
\* wherever the vector moved meanwhile: the prompt shows the tasks as the call left
\* them, unless the user changed tasks or prompt since.
THEOREM OwnChangesSeen == Spec => []ModelSeesOwnChanges
<1>1. Init => Shown
  BY DEF Init, Shown
<1>2. Shown => ModelSeesOwnChanges
  BY DEF Shown, ModelSeesOwnChanges, Idle
<1> QED BY <1>1, <1>2, BoardSafety, ShownStep, PTL DEF Spec
=============================================================================
