-------------------------- MODULE ServerQueueProofs --------------------------
(***************************************************************************)
(* Proofs about ServerQueue for any readers, slots and bounds: a task is   *)
(* in one place at a time, an answered task is over, no result is left     *)
(* behind, and a reader that finishes has had every task answered.         *)
(*                                                                         *)
(* The invariant comes in two halves.  Work says where the tasks are: the  *)
(* four kinds of places exclude each other, and nothing but the slot about *)
(* to be released holds an answered task.  Mail says what the queued       *)
(* results are: a task has at most one last result, everything partial     *)
(* comes before it, and a reader has not counted more tasks than it has    *)
(* taken last results for.  A step that sends a result needs the first     *)
(* half to keep the second.                                                *)
(***************************************************************************)
EXTENDS ServerQueue, FiniteSetTheorems, SequenceTheorems, TLAPS

-----------------------------------------------------------------------------
(***************************************************************************)
(* The inductive invariant                                                 *)
(***************************************************************************)

\* Where a task may be.
Has(q, id) == \E i \in DOMAIN q : Carries(q[i], id)
Once(q, id) == \A i, j \in DOMAIN q : Carries(q[i], id) /\ Carries(q[j], id) => i = j
Queued(id) == Has(queue_tasks, id)
Deferred(id) == Has(queue_tasks_deferred, id)
Popped(id) == current # None /\ Carries(current, id)
InSlot(s, id) == slot[s].id = id
Pending(id) == Queued(id) \/ Deferred(id) \/ Popped(id)
Placed(id) == Pending(id) \/ \E s \in Slots : InSlot(s, id)

WellFormed(t) == t.type # "next" => t.id \in Ids /\ t.child # t.id
Orderly(q) ==
  q \in Seq(Tasks) /\ (\A i \in DOMAIN q : WellFormed(q[i])) /\ \A id \in Ids : Once(q, id)

\* The four kinds of places exclude each other, and so do the slots.
Apart(id) ==
  /\ ~(Queued(id) /\ Deferred(id)) /\ ~(Queued(id) /\ Popped(id)) /\ ~(Deferred(id) /\ Popped(id))
  /\ \A s \in Slots : InSlot(s, id) =>
       ~Queued(id) /\ ~Deferred(id) /\ ~Popped(id) /\ \A t \in Slots : InSlot(t, id) => t = s

\* The reader that posted the task, or is about to.
Owner(id) == reader[id[1]]
Posted(id) == id \in Owner(id).ids /\ Owner(id).phase \notin {"new", "post"}

Over(id) == ~Pending(id) /\ \A s \in Slots : InSlot(s, id) => s = releasing

Framed ==
  /\ Orderly(queue_tasks) /\ Orderly(queue_tasks_deferred)
  /\ current # None => WellFormed(current)
  /\ pc = "process" => current # None
  /\ \A s \in Slots : slot[s].state = "idle" <=> slot[s].id = None

Work ==
  /\ Framed
  /\ \A id \in Ids : Apart(id)
  /\ \A id \in Ids : Placed(id) => Posted(id)
  /\ \A id \in answered : Posted(id) /\ Over(id)

\* What a reader knows and counts.
Open(r) == reader[r].phase \in {"wait", "stop"}
Listed(r) == reader[r].phase \in {"post", "wait", "stop"}
Reached(r) == reader[r].phase \in {"wait", "stop", "purge"}
IsLast(i) == queue_results[i].kind # "partial"
LastQueued(id) == \E i \in DOMAIN queue_results : IsLast(i) /\ queue_results[i].id = id
Out(id) == id \notin answered \/ LastQueued(id)
Outstanding(r) == {id \in reader[r].ids : Out(id)}

Phased(r) ==
  /\ reader[r].phase # "new" => reader[r].ids = IdsOf(r, reader[r].shape)
  /\ reader[r].phase \in {"new", "post"} => reader[r].received_count = 0
  /\ reader[r].phase \in {"new", "post", "wait", "stop"} => ~reader[r].cancelled
  /\ reader[r].phase \in {"purge", "cancel"} => reader[r].cancelled

\* A reader counts no task whose last result it has not taken.
Counts(r) == reader[r].received_count + Cardinality(Outstanding(r)) <= Cardinality(reader[r].ids)
Finished(r) == reader[r].phase = "done" /\ ~reader[r].cancelled

ReaderFits(r) ==
  /\ Phased(r)
  /\ Open(r) => Counts(r)
  /\ Finished(r) => reader[r].ids \subseteq answered

\* A partial result of a task that has been answered is followed by the answer.
Followed(i) ==
  \E j \in DOMAIN queue_results : j > i /\ IsLast(j) /\ queue_results[j].id = queue_results[i].id

ResultFits(i) ==
  LET id == queue_results[i].id
  IN  /\ id \in Owner(id).ids /\ Reached(id[1])
      /\ IsLast(i) => id \in answered
      /\ ~IsLast(i) /\ Open(id[1]) /\ id \in answered => Followed(i)

WaitsFit == \A id \in Ids : id \in waiting_task_ids <=> id \in Owner(id).ids /\ Listed(id[1])

LastOnce ==
  \A i, j \in DOMAIN queue_results :
    IsLast(i) /\ IsLast(j) /\ queue_results[i].id = queue_results[j].id => i = j

Mail ==
  /\ WaitsFit
  /\ \A r \in Readers : ReaderFits(r)
  /\ \A i \in DOMAIN queue_results : ResultFits(i)
  /\ LastOnce

IInv == TypeOK /\ Work /\ Mail

-----------------------------------------------------------------------------
(***************************************************************************)
(* Sequences of tasks                                                      *)
(***************************************************************************)

\* DropAt removes one element and keeps the others in order.
LEMMA DropAtIs ==
  ASSUME NEW S, NEW q \in Seq(S), NEW i \in 1 .. Len(q)
  PROVE  /\ DropAt(q, i) \in Seq(S)
         /\ Len(DropAt(q, i)) = Len(q) - 1
         /\ DOMAIN DropAt(q, i) = 1 .. Len(q) - 1
         /\ \A j \in 1 .. Len(q) - 1 : DropAt(q, i)[j] = q[IF j < i THEN j ELSE j + 1]
<1>1. Len(q) \in Nat /\ Len(q) - 1 \in Nat
  OBVIOUS
<1>2. \A j \in 1 .. Len(q) - 1 : (IF j < i THEN q[j] ELSE q[j + 1]) \in S
  BY <1>1
<1>3. DropAt(q, i) \in [1 .. Len(q) - 1 -> S]
  BY <1>2 DEF DropAt
<1>4. DropAt(q, i) \in Seq(S)
  BY <1>1, <1>3, SeqDef
<1>5. DOMAIN DropAt(q, i) = 1 .. Len(q) - 1
  BY DEF DropAt
<1>6. Len(DropAt(q, i)) = Len(q) - 1
  BY <1>1, <1>4, <1>5, LenProperties
<1>7. \A j \in 1 .. Len(q) - 1 : DropAt(q, i)[j] = q[IF j < i THEN j ELSE j + 1]
  BY DEF DropAt
<1> QED
  BY <1>4, <1>5, <1>6, <1>7

\* What DropAt leaves, seen from the sequence before.
LEMMA DropAtHas ==
  ASSUME NEW S, NEW q \in Seq(S), NEW i \in 1 .. Len(q)
  PROVE  /\ \A j \in DOMAIN DropAt(q, i) : \E k \in DOMAIN q :
              /\ k # i /\ DropAt(q, i)[j] = q[k]
              /\ j = IF k < i THEN k ELSE k - 1
         /\ \A k \in DOMAIN q : k # i => \E j \in DOMAIN DropAt(q, i) :
              /\ DropAt(q, i)[j] = q[k]
              /\ j = IF k < i THEN k ELSE k - 1
<1>1. /\ DOMAIN DropAt(q, i) = 1 .. Len(q) - 1 /\ DOMAIN q = 1 .. Len(q) /\ Len(q) \in Nat
      /\ \A j \in 1 .. Len(q) - 1 : DropAt(q, i)[j] = q[IF j < i THEN j ELSE j + 1]
  BY DropAtIs, LenProperties
<1>2. ASSUME NEW j \in DOMAIN DropAt(q, i)
      PROVE  \E k \in DOMAIN q : /\ k # i /\ DropAt(q, i)[j] = q[k]
                                 /\ j = IF k < i THEN k ELSE k - 1
  <2>1. CASE j < i
    BY <1>1, <2>1
  <2>2. CASE ~(j < i)
    <3>1. PICK k \in 1 .. Len(q) : k = j + 1
      BY <1>1
    <3>2. DropAt(q, i)[j] = q[k]
      BY <1>1, <2>2, <3>1
    <3>3. k # i /\ ~(k < i) /\ j = k - 1
      <4>1. j \in 1 .. Len(q) - 1 /\ Len(q) \in Nat
        BY <1>1
      <4> QED
        BY <2>2, <3>1, <4>1
    <3> QED
      BY <1>1, <3>1, <3>2, <3>3
  <2> QED
    BY <2>1, <2>2
<1>3. ASSUME NEW k \in DOMAIN q, k # i
      PROVE  \E j \in DOMAIN DropAt(q, i) : /\ DropAt(q, i)[j] = q[k]
                                            /\ j = IF k < i THEN k ELSE k - 1
  <2>1. CASE k < i
    BY <1>1, <2>1
  <2>2. CASE ~(k < i)
    <3>1. /\ k - 1 \in DOMAIN DropAt(q, i) /\ DropAt(q, i)[k - 1] = q[k]
      BY <1>1, <1>3, <2>2
    <3> QED
      BY <2>2, <3>1
  <2> QED
    BY <2>1, <2>2
<1> QED
  BY <1>2, <1>3

\* A deferred or refused task leaves its queue: nothing else of it stays.
LEMMA DropAtOrderly ==
  ASSUME NEW q, Orderly(q), NEW i \in DOMAIN q
  PROVE  /\ Orderly(DropAt(q, i))
         /\ \A id \in Ids : Has(DropAt(q, i), id) <=> Has(q, id) /\ ~Carries(q[i], id)
<1> DEFINE d == DropAt(q, i)
<1>1. q \in Seq(Tasks) /\ i \in 1 .. Len(q) /\ DOMAIN q = 1 .. Len(q) /\ Len(q) \in Nat
  BY LenProperties DEF Orderly
<1>2. d \in Seq(Tasks)
  BY <1>1, DropAtIs
<1>3. \A j \in DOMAIN d : \E k \in DOMAIN q :
        k # i /\ d[j] = q[k] /\ j = IF k < i THEN k ELSE k - 1
  BY <1>1, DropAtHas
<1>4. \A k \in DOMAIN q : k # i => \E j \in DOMAIN d : d[j] = q[k]
  BY <1>1, DropAtHas
<1> HIDE DEF d
<1>5. \A j \in DOMAIN d : WellFormed(d[j])
  BY <1>3 DEF Orderly
<1>6. ASSUME NEW id \in Ids
      PROVE  Once(d, id) /\ (Has(d, id) <=> Has(q, id) /\ ~Carries(q[i], id))
  <2>1. \A j, k \in DOMAIN q : Carries(q[j], id) /\ Carries(q[k], id) => j = k
    BY DEF Orderly, Once
  <2>2. ASSUME NEW j \in DOMAIN d, NEW k \in DOMAIN d, Carries(d[j], id), Carries(d[k], id)
        PROVE  j = k
    <3>1. PICK m \in DOMAIN q : d[j] = q[m] /\ j = IF m < i THEN m ELSE m - 1
      BY <1>3
    <3>2. PICK n \in DOMAIN q : d[k] = q[n] /\ k = IF n < i THEN n ELSE n - 1
      BY <1>3
    <3>3. m = n
      BY <2>1, <2>2, <3>1, <3>2
    <3> QED
      BY <3>1, <3>2, <3>3
  <2>3. ASSUME NEW j \in DOMAIN d, Carries(d[j], id)
        PROVE  Has(q, id) /\ ~Carries(q[i], id)
    <3>1. PICK m \in DOMAIN q : m # i /\ d[j] = q[m]
      BY <1>3
    <3> QED
      BY <2>1, <2>3, <3>1 DEF Has
  <2>4. ASSUME NEW k \in DOMAIN q, Carries(q[k], id), ~Carries(q[i], id)
        PROVE  Has(d, id)
    BY <1>4, <2>4 DEF Has
  <2> QED
    BY <2>2, <2>3, <2>4 DEF Once, Has
<1> QED
  BY <1>2, <1>5, <1>6 DEF d, Orderly

\* A task put in front, or at the end, of a queue it is not in.
LEMMA PushOrderly ==
  ASSUME NEW q, Orderly(q), NEW t \in Tasks, WellFormed(t),
         \A id \in Ids : ~(Carries(t, id) /\ Has(q, id))
  PROVE  /\ Orderly(<<t>> \o q)
         /\ \A id \in Ids : Has(<<t>> \o q, id) <=> Has(q, id) \/ Carries(t, id)
<1> DEFINE p == <<t>> \o q
<1>1. q \in Seq(Tasks) /\ DOMAIN q = 1 .. Len(q) /\ Len(q) \in Nat
  BY LenProperties DEF Orderly
<1>2. <<t>> \in Seq(Tasks) /\ Len(<<t>>) = 1 /\ <<t>>[1] = t
  OBVIOUS
<1>3. p \in Seq(Tasks) /\ Len(p) = 1 + Len(q) /\ DOMAIN p = 1 .. 1 + Len(q)
  BY <1>1, <1>2, ConcatProperties, LenProperties
<1>4. \A i \in 1 .. 1 + Len(q) : p[i] = IF i = 1 THEN t ELSE q[i - 1]
  BY <1>1, <1>2, ConcatProperties
<1> HIDE DEF p
<1>5. \A i \in DOMAIN p : i = 1 \/ i - 1 \in DOMAIN q
  BY <1>1, <1>3
<1>6. \A i \in DOMAIN p : WellFormed(p[i])
  BY <1>3, <1>4, <1>5 DEF Orderly
<1>7. ASSUME NEW id \in Ids
      PROVE  Once(p, id) /\ (Has(p, id) <=> Has(q, id) \/ Carries(t, id))
  <2>1. ASSUME NEW i \in DOMAIN p, Carries(p[i], id)
        PROVE  \/ i = 1 /\ Carries(t, id)
               \/ i # 1 /\ Has(q, id) /\ Carries(q[i - 1], id)
    <3>1. CASE i = 1
      BY <1>3, <1>4, <2>1, <3>1
    <3>2. CASE i # 1
      <4>1. PICK j \in DOMAIN q : j = i - 1
        BY <1>5, <3>2
      <4>2. Carries(q[j], id)
        BY <1>3, <1>4, <2>1, <3>2, <4>1
      <4> QED
        BY <3>2, <4>1, <4>2 DEF Has
    <3> QED
      BY <3>1, <3>2
  <2>2. ASSUME NEW i \in DOMAIN p, NEW j \in DOMAIN p, Carries(p[i], id), Carries(p[j], id)
        PROVE  i = j
    <3>1. CASE i = 1 \/ j = 1
      BY <2>1, <2>2, <3>1
    <3>2. CASE i # 1 /\ j # 1
      <4>1. i - 1 = j - 1
        BY <1>5, <2>1, <2>2, <3>2 DEF Orderly, Once
      <4> QED
        BY <1>3, <4>1
    <3> QED
      BY <3>1, <3>2
  <2>3. ASSUME NEW j \in DOMAIN q, Carries(q[j], id)
        PROVE  Has(p, id)
    <3>1. PICK i \in DOMAIN p : i = j + 1
      BY <1>1, <1>3
    <3>2. p[i] = q[j]
      BY <1>1, <1>3, <1>4, <3>1
    <3> QED
      BY <2>3, <3>2 DEF Has
  <2>4. ASSUME Carries(t, id) PROVE Has(p, id)
    <3>1. PICK i \in DOMAIN p : i = 1
      BY <1>1, <1>3
    <3>2. p[i] = t
      BY <1>3, <1>4, <3>1
    <3> QED
      BY <2>4, <3>2 DEF Has
  <2> QED
    BY <2>1, <2>2, <2>3, <2>4 DEF Once, Has
<1> QED
  BY <1>3, <1>6, <1>7 DEF p, Orderly

\* A task that is in no other place goes to the end of a queue.
LEMMA AppendOrderly ==
  ASSUME NEW q, Orderly(q), NEW t \in Tasks, WellFormed(t),
         \A id \in Ids : ~(Carries(t, id) /\ Has(q, id))
  PROVE  /\ Orderly(Append(q, t))
         /\ \A id \in Ids : Has(Append(q, t), id) <=> Has(q, id) \/ Carries(t, id)
<1> DEFINE p == Append(q, t)
<1>1. q \in Seq(Tasks) /\ DOMAIN q = 1 .. Len(q) /\ Len(q) \in Nat
  BY LenProperties DEF Orderly
<1>2. p \in Seq(Tasks) /\ Len(p) = Len(q) + 1 /\ DOMAIN p = 1 .. Len(q) + 1
  BY <1>1, AppendProperties, LenProperties
<1>3. (\A i \in DOMAIN q : p[i] = q[i]) /\ p[Len(q) + 1] = t
  BY <1>1, AppendProperties
<1> HIDE DEF p
<1>4. \A i \in DOMAIN p : i \in DOMAIN q \/ (i = Len(q) + 1 /\ i \notin DOMAIN q)
  BY <1>1, <1>2
<1>5. \A i \in DOMAIN q : i \in DOMAIN p
  BY <1>1, <1>2
<1>6. PICK n \in DOMAIN p : n = Len(q) + 1
  BY <1>1, <1>2
<1>7. \A i \in DOMAIN p : WellFormed(p[i])
  BY <1>3, <1>4 DEF Orderly
<1>8. ASSUME NEW id \in Ids
      PROVE  Once(p, id) /\ (Has(p, id) <=> Has(q, id) \/ Carries(t, id))
  <2>1. ASSUME NEW i \in DOMAIN p, Carries(p[i], id)
        PROVE  \/ i \in DOMAIN q /\ Carries(q[i], id) /\ Has(q, id)
               \/ i = n /\ Carries(t, id)
    BY <1>3, <1>4, <1>6, <2>1 DEF Has
  <2>2. ASSUME NEW i \in DOMAIN p, NEW j \in DOMAIN p, Carries(p[i], id), Carries(p[j], id)
        PROVE  i = j
    BY <2>1, <2>2 DEF Orderly, Once
  <2>3. ASSUME NEW j \in DOMAIN q, Carries(q[j], id)
        PROVE  Has(p, id)
    BY <1>3, <1>5, <2>3 DEF Has
  <2>4. ASSUME Carries(t, id) PROVE Has(p, id)
    BY <1>3, <1>6, <2>4 DEF Has
  <2> QED
    BY <2>1, <2>2, <2>3, <2>4 DEF Once, Has
<1> QED
  BY <1>2, <1>7, <1>8 DEF p, Orderly

\* The first task is taken out of its queue.
LEMMA TailOrderly ==
  ASSUME NEW q, Orderly(q), q # <<>>
  PROVE  /\ Head(q) \in Tasks /\ WellFormed(Head(q)) /\ Orderly(Tail(q))
         /\ \A id \in Ids : Carries(Head(q), id) => Has(q, id)
         /\ \A id \in Ids : Has(Tail(q), id) <=> Has(q, id) /\ ~Carries(Head(q), id)
<1>1. q \in Seq(Tasks) /\ Len(q) \in Nat \ {0} /\ DOMAIN q = 1 .. Len(q)
  BY EmptySeq, LenProperties DEF Orderly
<1>2. Head(q) = q[1] /\ Head(q) \in Tasks
  BY <1>1
<1>3. Tail(q) \in Seq(Tasks) /\ Len(Tail(q)) = Len(q) - 1
      /\ \A i \in 1 .. Len(Tail(q)) : Tail(q)[i] = q[i + 1]
  BY <1>1, HeadTailProperties
<1>4. PICK one \in DOMAIN q : one = 1
  BY <1>1
<1>5. /\ DropAt(q, one) \in Seq(Tasks) /\ Len(DropAt(q, one)) = Len(q) - 1
      /\ \A j \in 1 .. Len(q) - 1 : DropAt(q, one)[j] = q[IF j < one THEN j ELSE j + 1]
  BY <1>1, DropAtIs
<1>6. \A j \in 1 .. Len(q) - 1 : DropAt(q, one)[j] = Tail(q)[j]
  BY <1>1, <1>3, <1>4, <1>5
<1>7. DropAt(q, one) = Tail(q)
  BY <1>1, <1>3, <1>5, <1>6, SeqEqual
<1>8. \A id \in Ids : Carries(Head(q), id) => Has(q, id)
  BY <1>2, <1>4 DEF Has
<1>9. /\ Orderly(Tail(q)) /\ q[one] = Head(q)
      /\ \A id \in Ids : Has(Tail(q), id) <=> Has(q, id) /\ ~Carries(q[one], id)
  <2>1. /\ Orderly(DropAt(q, one))
        /\ \A id \in Ids : Has(DropAt(q, one), id) <=> Has(q, id) /\ ~Carries(q[one], id)
    BY DropAtOrderly
  <2> QED
    BY <1>2, <1>4, <1>7, <2>1
<1>10. WellFormed(q[one])
  BY DEF Orderly
<1> QED
  BY <1>2, <1>8, <1>9, <1>10

\* What a stopped reader removes from a queue.
LEMMA WithoutOrderly ==
  ASSUME NEW q, Orderly(q), NEW id
  PROVE  /\ Orderly(Without(q, id))
         /\ \A x \in Ids : Has(Without(q, id), x) => Has(q, x)
<1> DEFINE hits == {i \in DOMAIN q : q[i].type = "completion" /\ q[i].id = id}
<1>1. CASE hits = {}
  BY <1>1 DEF Without
<1>2. CASE hits # {}
  <2>1. PICK i \in DOMAIN q : Without(q, id) = DropAt(q, i)
    <3>1. (CHOOSE i \in hits : TRUE) \in hits
      BY <1>2
    <3> QED
      BY <1>2, <3>1 DEF Without
  <2> QED
    BY <2>1, DropAtOrderly
<1> QED
  BY <1>1, <1>2

-----------------------------------------------------------------------------
(***************************************************************************)
(* Least elements, ids, and what the actions share                         *)
(***************************************************************************)

\* A set of numbers that is not empty has a least member.
LEMMA Least ==
  ASSUME NEW S \in SUBSET Nat, S # {}
  PROVE  \E i \in S : \A j \in S : i <= j
<1>1. PICK i \in S : \A j \in S : ~(<<j, i>> \in OpToRel(<, Nat))
  BY NatLessThanWellFounded, WFMin
<1>2. ASSUME NEW j \in S PROVE i <= j
  <2>1. i \in Nat /\ j \in Nat
    OBVIOUS
  <2>2. ~(j < i)
    BY <1>1, <2>1 DEF OpToRel
  <2> QED
    BY <2>1, <2>2
<1> QED
  BY <1>2

\* An id carries its reader, and None is neither an id, a task nor a slot.
LEMMA IdsAre ==
  /\ \A id \in Ids : id # None /\ id[1] \in Readers
  /\ \A t \in Tasks : t # None
  /\ \A s \in Slots : s # None
BY QueueAssumption DEF Ids

\* A reader has one or two ids, which carry its name.
LEMMA IdsOfAre ==
  ASSUME NEW r \in Readers, NEW shape
  PROVE  /\ IdsOf(r, shape) \subseteq Ids
         /\ \A id \in IdsOf(r, shape) : id[1] = r
         /\ <<r, 1>> \in IdsOf(r, shape)
         /\ <<r, 1>> \in Ids /\ <<r, 2>> \in Ids /\ <<r, 1>> # <<r, 2>>
         /\ IsFiniteSet(IdsOf(r, shape)) /\ Cardinality(IdsOf(r, shape)) \in 0 .. 2
<1>1. IdsOf(r, shape) \subseteq {<<r, 1>>, <<r, 2>>}
  BY DEF IdsOf
<1>2. {<<r, 1>>, <<r, 2>>} = ({} \cup {<<r, 1>>}) \cup {<<r, 2>>} /\ <<r, 1>> # <<r, 2>>
  OBVIOUS
<1>3. IsFiniteSet({<<r, 1>>}) /\ Cardinality({<<r, 1>>}) = 1
  BY FS_Singleton
<1>4. IsFiniteSet({<<r, 1>>, <<r, 2>>}) /\ Cardinality({<<r, 1>>, <<r, 2>>}) = 2
  <2>1. {<<r, 1>>, <<r, 2>>} = {<<r, 1>>} \cup {<<r, 2>>} /\ <<r, 2>> \notin {<<r, 1>>}
    OBVIOUS
  <2>2. /\ IsFiniteSet({<<r, 1>>} \cup {<<r, 2>>})
        /\ Cardinality({<<r, 1>>} \cup {<<r, 2>>}) = Cardinality({<<r, 1>>}) + 1
    BY <1>3, <2>1, FS_AddElement
  <2> QED
    BY <1>3, <2>1, <2>2
<1>5. IsFiniteSet(IdsOf(r, shape)) /\ Cardinality(IdsOf(r, shape)) <= 2
  BY <1>1, <1>4, FS_Subset
<1>6. Cardinality(IdsOf(r, shape)) \in Nat
  BY <1>5, FS_CardinalityType
<1> QED
  BY <1>1, <1>2, <1>5, <1>6 DEF IdsOf, Ids

\* pop_deferred_task takes a task from one queue to the other.
LEMMA PopDeferred ==
  ASSUME Work, NEW s, pop_deferred_task(s)
  PROVE  /\ Orderly(queue_tasks)' /\ Orderly(queue_tasks_deferred)'
         /\ \A id \in Ids : ~(Queued(id)' /\ Deferred(id)')
         /\ \A id \in Ids : Queued(id)' \/ Deferred(id)' => Queued(id) \/ Deferred(id)
<1> DEFINE d == queue_tasks_deferred
           asked == {i \in DOMAIN d : d[i].id_slot = s}
           i == IF asked = {} THEN 1 ELSE CHOOSE i \in asked : \A j \in asked : i <= j
<1>1. /\ Orderly(queue_tasks) /\ Orderly(d)
      /\ \A id \in Ids : ~(Queued(id) /\ Deferred(id))
  BY DEF Work, Framed, Apart
<1>2. CASE d = <<>>
  BY <1>1, <1>2 DEF pop_deferred_task, queues, Orderly, Once, Queued, Deferred, Has
<1>3. CASE d # <<>>
  <2>1. d \in Seq(Tasks) /\ DOMAIN d = 1 .. Len(d) /\ Len(d) \in Nat \ {0}
    BY <1>1, <1>3, EmptySeq, LenProperties DEF Orderly
  <2>2. i \in DOMAIN d
    <3>1. CASE asked = {}
      BY <2>1, <3>1
    <3>2. CASE asked # {}
      <4>1. asked \in SUBSET Nat
        BY <2>1
      <4>2. \E m \in asked : \A j \in asked : m <= j
        BY <3>2, <4>1, Least
      <4> QED
        BY <3>2, <4>2
    <3> QED
      BY <3>1, <3>2
  <2>3. queue_tasks' = <<d[i]>> \o queue_tasks /\ queue_tasks_deferred' = DropAt(d, i)
    BY <1>3 DEF pop_deferred_task
  <2> HIDE DEF i
  <2>4. /\ Orderly(DropAt(d, i))
        /\ \A id \in Ids : Has(DropAt(d, i), id) <=> Has(d, id) /\ ~Carries(d[i], id)
    BY <1>1, <2>2, DropAtOrderly
  <2>5. d[i] \in Tasks /\ WellFormed(d[i]) /\ \A id \in Ids : Carries(d[i], id) => Has(d, id)
    BY <1>1, <2>1, <2>2 DEF Orderly, Has
  <2>6. \A id \in Ids : ~(Carries(d[i], id) /\ Has(queue_tasks, id))
    BY <1>1, <2>5 DEF Queued, Deferred
  <2>7. /\ Orderly(<<d[i]>> \o queue_tasks)
        /\ \A id \in Ids : Has(<<d[i]>> \o queue_tasks, id) <=>
                           Has(queue_tasks, id) \/ Carries(d[i], id)
    BY <1>1, <2>5, <2>6, PushOrderly
  <2>8. Orderly(queue_tasks)' /\ Orderly(queue_tasks_deferred)'
    BY <2>3, <2>4, <2>7 DEF Orderly, Once
  <2>9. \A id \in Ids : /\ Queued(id)' <=> Queued(id) \/ Carries(d[i], id)
                        /\ Deferred(id)' <=> Deferred(id) /\ ~Carries(d[i], id)
    BY <2>3, <2>4, <2>7 DEF Queued, Deferred, Has
  <2> QED
    BY <1>1, <2>5, <2>8, <2>9 DEF Deferred
<1> QED
  BY <1>2, <1>3

\* Orderly reads its argument and constants only.
LEMMA OrderlyStep ==
  ASSUME NEW q, Orderly(q), queue_tasks' = q
  PROVE  Orderly(queue_tasks)' /\ \A id : Queued(id)' <=> Has(q, id)
BY DEF Orderly, Once, Queued, Has

\* What is known of a sequence is known of the deferred tasks it becomes.
LEMMA OrderlyStepDeferred ==
  ASSUME NEW q, Orderly(q), queue_tasks_deferred' = q
  PROVE  Orderly(queue_tasks_deferred)' /\ \A id : Deferred(id)' <=> Has(q, id)
BY DEF Orderly, Once, Deferred, Has

\* A step that moves tasks from place to place, or lets them vanish.
LEMMA WorkMoves ==
  ASSUME TypeOK, Work, Framed', UNCHANGED <<releasing, answered>>,
         \A id \in Ids : Posted(id) => Posted(id)',
         \A id \in Ids : Apart(id)',
         \A id \in Ids : Pending(id)' => Pending(id),
         \A id \in Ids : \A s \in Slots : InSlot(s, id)' => InSlot(s, id) \/ Popped(id)
  PROVE  Work'
<1>1. ASSUME NEW id \in Ids, Placed(id)' PROVE Posted(id)'
  <2>1. Placed(id)
    BY <1>1 DEF Placed, Pending
  <2> QED
    BY <2>1 DEF Work
<1>2. ASSUME NEW id \in answered' PROVE Posted(id)' /\ Over(id)'
  <2>1. id \in answered /\ id \in Ids
    BY <1>2 DEF TypeOK
  <2>2. Posted(id) /\ Over(id)
    BY <2>1 DEF Work
  <2>3. \A s \in Slots : InSlot(s, id)' => s = releasing'
    BY <2>1, <2>2 DEF Over, Pending
  <2> QED
    BY <2>1, <2>2, <2>3 DEF Over
<1> QED
  BY <1>1, <1>2 DEF Work

\* A step of a reader that leaves the loop and its queues alone.
LEMMA WorkOfReader ==
  ASSUME TypeOK, Work, UNCHANGED <<queues, loop, answered>>,
         \A id \in Ids : Posted(id) => Posted(id)'
  PROVE  Work'
<1>1. /\ queue_tasks' = queue_tasks /\ queue_tasks_deferred' = queue_tasks_deferred
      /\ current' = current /\ slot' = slot /\ pc' = pc /\ releasing' = releasing
  BY DEF queues, loop
<1>2. Framed'
  BY <1>1 DEF Work, Framed, Orderly, Once, WellFormed
<1>3. \A id : /\ (Queued(id)' <=> Queued(id)) /\ (Deferred(id)' <=> Deferred(id))
              /\ (Popped(id)' <=> Popped(id)) /\ \A s : InSlot(s, id)' <=> InSlot(s, id)
  BY <1>1 DEF Queued, Deferred, Has, Popped, Carries, InSlot
<1>4. \A id \in Ids : Apart(id)'
  BY <1>3 DEF Work, Apart
<1>5. \A id \in Ids : Pending(id)' => Pending(id)
  BY <1>3 DEF Pending
<1> QED
  BY <1>1, <1>2, <1>3, <1>4, <1>5, WorkMoves

\* Readers only go forward.
LEMMA PostedKept ==
  (reader' = reader) => \A id : Posted(id)' <=> Posted(id)
BY DEF Posted, Owner

\* A reader that has posted stays one that has.
LEMMA PostedForward ==
  ASSUME TypeOK, NEW r \in Readers, NEW v, reader' = [reader EXCEPT ![r] = v],
         v.ids = reader[r].ids, v.phase \notin {"new", "post"}
  PROVE  \A id \in Ids : Posted(id) => Posted(id)'
<1>1. \A x \in Readers : reader'[x] = IF x = r THEN v ELSE reader[x]
  BY DEF TypeOK
<1>2. \A id \in Ids : id[1] \in Readers
  BY IdsAre
<1> QED
  BY <1>1, <1>2 DEF Posted, Owner

-----------------------------------------------------------------------------
(***************************************************************************)
(* Where the tasks are, over the steps of the loop                         *)
(***************************************************************************)

\* Queues that are left alone stay in order.
LEMMA QueuesKept ==
  ASSUME Work, UNCHANGED queues
  PROVE  /\ Orderly(queue_tasks)' /\ Orderly(queue_tasks_deferred)'
         /\ \A id : (Queued(id)' <=> Queued(id)) /\ (Deferred(id)' <=> Deferred(id))
<1>1. /\ queue_tasks' = queue_tasks /\ queue_tasks_deferred' = queue_tasks_deferred
      /\ Orderly(queue_tasks) /\ Orderly(queue_tasks_deferred)
  BY DEF queues, Work, Framed
<1> QED
  BY <1>1, OrderlyStep, OrderlyStepDeferred DEF Queued, Deferred

\* NEXT_RESPONSE and CANCEL tasks carry no id of their own.
LEMMA PlainTasks ==
  /\ NextResponse \in Tasks /\ WellFormed(NextResponse) /\ \A id : ~Carries(NextResponse, id)
  /\ \A x \in Ids : Cancel(x) \in Tasks /\ WellFormed(Cancel(x)) /\ \A id : ~Carries(Cancel(x), id)
<1>1. None \in Ids \cup {None} /\ None \in Slots \cup {None}
  OBVIOUS
<1>2. NextResponse \in Tasks /\ WellFormed(NextResponse) /\ \A id : ~Carries(NextResponse, id)
  BY <1>1 DEF NextResponse, Tasks, TaskTypes, WellFormed, Carries
<1>3. ASSUME NEW x \in Ids
      PROVE  Cancel(x) \in Tasks /\ WellFormed(Cancel(x)) /\ \A id : ~Carries(Cancel(x), id)
  BY <1>1, IdsAre DEF Cancel, Tasks, TaskTypes, WellFormed, Carries
<1> QED
  BY <1>2, <1>3

\* The loop turns to another phase; the slots keep their tasks.
LEMMA WorkTurns ==
  ASSUME TypeOK, Work, UNCHANGED <<queue_tasks_deferred, releasing, reader, answered>>,
         pc' # "process", current' = current \/ current' = None,
         Orderly(queue_tasks)', \A id \in Ids : Queued(id)' => Queued(id),
         \A s \in Slots : slot'[s].id = slot[s].id,
         \A s \in Slots : slot'[s].state = "idle" <=> slot[s].state = "idle"
  PROVE  Work'
<1>1. /\ Orderly(queue_tasks_deferred)'
      /\ \A id : /\ (Deferred(id)' <=> Deferred(id)) /\ (Popped(id)' => Popped(id))
                 /\ \A s \in Slots : InSlot(s, id)' <=> InSlot(s, id)
  BY OrderlyStepDeferred DEF Work, Framed, Deferred, Popped, Carries, InSlot
<1>2. Framed'
  BY <1>1 DEF Work, Framed, WellFormed
<1>3. \A id \in Ids : Apart(id)'
  BY <1>1 DEF Work, Apart
<1>4. \A id \in Ids : Pending(id)' => Pending(id)
  BY <1>1 DEF Pending
<1> QED
  BY <1>1, <1>2, <1>3, <1>4, PostedKept, WorkMoves

\* Steps of the loop that touch no task.
LEMMA WorkIdles ==
  ASSUME TypeOK, Work,
         StartLoop \/ UpdateSlots \/ EndUpdate \/ EndWait \/ \E s \in Slots : PromptDone(s)
  PROVE  Work'
<1>1. CASE StartLoop \/ EndUpdate \/ EndWait
  <2>1. UNCHANGED <<queues, current, releasing, reader, answered, slot>> /\ pc' # "process"
    BY <1>1 DEF StartLoop, EndUpdate, EndWait
  <2> QED
    BY <2>1, QueuesKept, WorkTurns DEF queues
<1>2. CASE UpdateSlots
  <2>1. /\ UNCHANGED <<queue_tasks_deferred, current, releasing, reader, answered, slot>>
        /\ pc' # "process"
        /\ queue_tasks' = queue_tasks \/ queue_tasks' = Append(queue_tasks, NextResponse)
    BY <1>2 DEF UpdateSlots
  <2>2. Orderly(queue_tasks)
    BY DEF Work, Framed
  <2>3. Orderly(queue_tasks)' /\ \A id \in Ids : Queued(id)' => Queued(id)
    <3>1. CASE queue_tasks' = queue_tasks
      BY <2>2, <3>1, OrderlyStep DEF Queued
    <3>2. CASE queue_tasks' = Append(queue_tasks, NextResponse)
      <4>1. /\ Orderly(Append(queue_tasks, NextResponse))
            /\ \A id \in Ids : Has(Append(queue_tasks, NextResponse), id) =>
                               Has(queue_tasks, id)
        BY <2>2, PlainTasks, AppendOrderly
      <4> QED
        BY <3>2, <4>1, OrderlyStep DEF Queued
    <3> QED
      BY <2>1, <3>1, <3>2
  <2> QED
    BY <2>1, <2>3, WorkTurns
<1>3. ASSUME NEW s \in Slots, PromptDone(s) PROVE Work'
  <2>1. UNCHANGED <<queues, current, releasing, reader, answered>> /\ pc' # "process"
    BY <1>3 DEF PromptDone
  <2>2. slot[s].state = "prompt"
    BY <1>3 DEF PromptDone
  <2>3. ASSUME NEW t \in Slots
        PROVE  slot'[t].id = slot[t].id /\ (slot'[t].state = "idle" <=> slot[t].state = "idle")
    <3>1. /\ slot'[t] = slot[t] \/ slot'[t] = [slot[t] EXCEPT !.state = "generating"]
          /\ slot'[t] = slot[t] \/ slot[t].state \in {"prompt", "wait_other"}
      BY <1>3, <2>2 DEF PromptDone
    <3>2. slot[t] \in [state : SlotStates, id : Ids \cup {None}, parent : Ids \cup {None}]
      BY DEF TypeOK
    <3> QED
      BY <3>1, <3>2
  <2> QED
    BY <2>1, <2>3, QueuesKept, WorkTurns DEF queues
<1> QED
  BY <1>1, <1>2, <1>3

\* The first task is popped, or there is none.
LEMMA WorkPopTask ==
  ASSUME TypeOK, Work, PopTask
  PROVE  Work'
<1>1. UNCHANGED <<queue_tasks_deferred, slot, releasing, reader, answered>>
  BY DEF PopTask
<1>2. CASE UNCHANGED <<queue_tasks, current>> /\ pc' # "process"
  BY <1>1, <1>2, QueuesKept, WorkTurns DEF queues
<1>3. CASE /\ queue_tasks # <<>> /\ current' = Head(queue_tasks)
           /\ queue_tasks' = Tail(queue_tasks)
  <2>1. Orderly(queue_tasks)
    BY DEF Work, Framed
  <2>2. /\ current' \in Tasks /\ current' # None /\ WellFormed(current')
        /\ \A id \in Ids : Carries(current', id) => Has(queue_tasks, id)
    BY <1>3, <2>1, TailOrderly, IdsAre
  <2>3. /\ Orderly(Tail(queue_tasks))
        /\ \A id \in Ids : Has(Tail(queue_tasks), id) <=>
                           Has(queue_tasks, id) /\ ~Carries(current', id)
    BY <1>3, <2>1, TailOrderly
  <2>4. /\ Orderly(queue_tasks)' /\ Orderly(queue_tasks_deferred)'
        /\ \A id \in Ids : /\ Popped(id)' => Queued(id) /\ ~Queued(id)'
                           /\ Queued(id)' => Queued(id)
                           /\ Deferred(id)' <=> Deferred(id)
                           /\ \A s \in Slots : InSlot(s, id)' <=> InSlot(s, id)
    <3>1. Orderly(queue_tasks)' /\ \A id \in Ids : Queued(id)' <=> Has(Tail(queue_tasks), id)
      BY <1>3, <2>3, OrderlyStep
    <3>2. Orderly(queue_tasks_deferred)' /\ \A id \in Ids : Deferred(id)' <=> Deferred(id)
      BY <1>1, OrderlyStepDeferred DEF Work, Framed, Deferred
    <3>3. \A id \in Ids : Popped(id)' <=> Carries(current', id)
      BY <2>2 DEF Popped, Carries
    <3>4. \A id \in Ids : \A s \in Slots : InSlot(s, id)' <=> InSlot(s, id)
      BY <1>1 DEF InSlot
    <3> QED
      BY <2>2, <2>3, <3>1, <3>2, <3>3, <3>4 DEF Queued
  <2>5. Framed'
    BY <1>1, <2>2, <2>4 DEF Work, Framed, WellFormed
  <2>6. \A id \in Ids : Apart(id)'
    BY <2>4 DEF Work, Apart
  <2>7. \A id \in Ids : Pending(id)' => Pending(id)
    BY <2>4 DEF Pending
  <2> QED
    BY <1>1, <2>4, <2>5, <2>6, <2>7, PostedKept, WorkMoves
<1> QED
  BY <1>2, <1>3 DEF PopTask

\* The task goes back to wait for a slot.
LEMMA WorkDeferTask ==
  ASSUME TypeOK, Work, DeferTask
  PROVE  Work'
<1>1. /\ UNCHANGED <<queue_tasks, slot, releasing, reader, answered>>
      /\ queue_tasks_deferred' = Append(queue_tasks_deferred, current)
      /\ current' = None /\ pc' = "pop" /\ pc = "process"
  BY DEF DeferTask
<1>2. Orderly(queue_tasks_deferred) /\ Orderly(queue_tasks) /\ current # None /\ WellFormed(current)
  BY <1>1 DEF Work, Framed
<1>3. current \in Tasks
  BY <1>2 DEF TypeOK
<1>4. \A id \in Ids : ~(Carries(current, id) /\ Has(queue_tasks_deferred, id))
  BY <1>2 DEF Work, Apart, Popped, Deferred
<1>5. /\ Orderly(Append(queue_tasks_deferred, current))
      /\ \A id \in Ids : Has(Append(queue_tasks_deferred, current), id) <=>
                         Has(queue_tasks_deferred, id) \/ Carries(current, id)
  BY <1>2, <1>3, <1>4, AppendOrderly
<1>6. /\ Orderly(queue_tasks)' /\ Orderly(queue_tasks_deferred)'
      /\ \A id \in Ids : /\ Deferred(id)' <=> Deferred(id) \/ Popped(id)
                         /\ ~Popped(id)' /\ (Queued(id)' <=> Queued(id))
                         /\ \A s \in Slots : InSlot(s, id)' <=> InSlot(s, id)
  BY <1>1, <1>2, <1>5, OrderlyStep, OrderlyStepDeferred
     DEF Queued, Deferred, Popped, InSlot
<1>7. Framed'
  BY <1>1, <1>6 DEF Work, Framed
<1>8. \A id \in Ids : Apart(id)'
  BY <1>6 DEF Work, Apart
<1>9. \A id \in Ids : Pending(id)' => Pending(id)
  BY <1>6 DEF Pending
<1> QED
  BY <1>1, <1>6, <1>7, <1>8, <1>9, PostedKept, WorkMoves

\* The loop is done with the popped task: it is dropped, or slots have it now.
LEMMA WorkLaunchTask ==
  ASSUME TypeOK, Work, LaunchTask
  PROVE  Work'
<1>1. /\ UNCHANGED <<queues, releasing, reader, answered>>
      /\ current' = None /\ pc' = "pop" /\ current # None /\ current.type = "completion"
  BY DEF LaunchTask, Work, Framed
<1>2. /\ Orderly(queue_tasks)' /\ Orderly(queue_tasks_deferred)'
      /\ \A id : (Queued(id)' <=> Queued(id)) /\ (Deferred(id)' <=> Deferred(id)) /\ ~Popped(id)'
  BY <1>1, QueuesKept DEF Popped
<1>3. current.id \in Ids /\ current.child # current.id /\ current.child \in Ids \cup {None}
  BY <1>1 DEF Work, Framed, WellFormed, TypeOK, Tasks
<1>4. \A id \in Ids : Popped(id) <=> id \in {current.id, current.child}
  BY <1>1 DEF Popped, Carries
<1>5. /\ \A s \in Slots : slot'[s].state = "idle" <=> slot'[s].id = None
      /\ \A id \in Ids : \A s \in Slots : InSlot(s, id)' => InSlot(s, id) \/ Popped(id)
      /\ \A id \in Ids : Popped(id) => \A s, t \in Slots : InSlot(s, id)' /\ InSlot(t, id)' => s = t
  <2>1. slot \in [Slots -> [state : SlotStates, id : Ids \cup {None}, parent : Ids \cup {None}]]
    BY DEF TypeOK
  <2>2. \A id \in Ids : Popped(id) => \A s \in Slots : ~InSlot(s, id)
    BY DEF Work, Apart
  <2>3. PICK s \in Slots :
          \/ /\ current.child = None
             /\ slot' = [slot EXCEPT ![s] = [state |-> "prompt", id |-> current.id, parent |-> None]]
          \/ /\ current.child # None
             /\ \E t \in Slots \ {s} : slot' = [slot EXCEPT
                  ![s] = [state |-> "prompt", id |-> current.id, parent |-> None],
                  ![t] = [state |-> "wait_other", id |-> current.child, parent |-> current.id]]
    <3>1. \A x \in AvailableSlots(current) : x \in Slots
      BY DEF AvailableSlots
    <3> QED
      BY <3>1 DEF LaunchTask
  <2>4. CASE /\ current.child = None
             /\ slot' = [slot EXCEPT ![s] = [state |-> "prompt", id |-> current.id, parent |-> None]]
    <3>1. \A t \in Slots : slot'[t] = IF t = s THEN [state |-> "prompt", id |-> current.id,
                                                     parent |-> None] ELSE slot[t]
      BY <2>1, <2>4
    <3>2. current.id # None
      BY <1>3, IdsAre
    <3>3. \A t \in Slots : slot'[t].id = IF t = s THEN current.id ELSE slot[t].id
      BY <3>1
    <3>4. \A t \in Slots : slot'[t].state = "idle" <=> slot'[t].id = None
      BY <3>1, <3>2 DEF Work, Framed
    <3> QED
      BY <1>3, <1>4, <2>2, <3>3, <3>4 DEF InSlot
  <2>5. ASSUME NEW u \in Slots \ {s}, current.child # None,
               slot' = [slot EXCEPT
                  ![s] = [state |-> "prompt", id |-> current.id, parent |-> None],
                  ![u] = [state |-> "wait_other", id |-> current.child, parent |-> current.id]]
        PROVE  /\ \A t \in Slots : slot'[t].state = "idle" <=> slot'[t].id = None
               /\ \A id \in Ids : \A t \in Slots : InSlot(t, id)' => InSlot(t, id) \/ Popped(id)
               /\ \A id \in Ids : Popped(id) =>
                    \A t, v \in Slots : InSlot(t, id)' /\ InSlot(v, id)' => t = v
    <3>1. \A t \in Slots : slot'[t] =
            IF t = u THEN [state |-> "wait_other", id |-> current.child, parent |-> current.id]
            ELSE IF t = s THEN [state |-> "prompt", id |-> current.id, parent |-> None]
            ELSE slot[t]
      BY <2>1, <2>5
    <3>2. current.id # None
      BY <1>3, IdsAre
    <3>3. \A t \in Slots : slot'[t].id = IF t = u THEN current.child
                                         ELSE IF t = s THEN current.id ELSE slot[t].id
      BY <3>1
    <3>4. \A t \in Slots : slot'[t].state = "idle" <=> slot'[t].id = None
      <4>1. ASSUME NEW t \in Slots
            PROVE  slot'[t].state = "idle" <=> slot'[t].id = None
        <5>1. CASE t = u
          <6>1. slot'[t].state = "wait_other" /\ slot'[t].id = current.child
            BY <3>1, <5>1
          <6> QED
            BY <2>5, <6>1
        <5>2. CASE t # u /\ t = s
          <6>1. slot'[t].state = "prompt" /\ slot'[t].id = current.id
            BY <3>1, <5>2
          <6> QED
            BY <3>2, <6>1
        <5>3. CASE t # u /\ t # s
          <6>1. slot'[t] = slot[t]
            BY <3>1, <5>3
          <6> QED
            BY <6>1 DEF Work, Framed
        <5> QED
          BY <5>1, <5>2, <5>3
      <4> QED
        BY <4>1
    <3>5. \A id \in Ids : \A t \in Slots : InSlot(t, id)' => InSlot(t, id) \/ Popped(id)
      BY <1>4, <3>3 DEF InSlot
    <3>6. ASSUME NEW id \in Ids, Popped(id), NEW t \in Slots, NEW v \in Slots,
                 InSlot(t, id)', InSlot(v, id)'
          PROVE  t = v
      <4>1. \A w \in Slots : slot[w].id # id
        BY <2>2, <3>6 DEF InSlot
      <4>2. slot'[t].id = id /\ slot'[v].id = id
        BY <3>6 DEF InSlot
      <4> QED
        BY <1>3, <3>3, <4>1, <4>2
    <3> QED
      BY <3>4, <3>5, <3>6
  <2> QED
    BY <2>3, <2>4, <2>5
<1>6. Framed'
  BY <1>1, <1>2, <1>5 DEF Work, Framed
<1>7. ASSUME NEW id \in Ids PROVE Apart(id)'
  <2>1. Apart(id)
    BY DEF Work
  <2>2. CASE Popped(id)
    BY <1>2, <1>5, <2>1, <2>2 DEF Apart
  <2>3. CASE ~Popped(id)
    BY <1>2, <1>5, <2>1, <2>3 DEF Apart
  <2> QED
    BY <2>2, <2>3
<1>8. \A id \in Ids : Pending(id)' => Pending(id)
  BY <1>2 DEF Pending
<1> QED
  BY <1>1, <1>5, <1>6, <1>7, <1>8, PostedKept, WorkMoves

\* A slot is released: what it worked on is over, a deferred task comes back.
LEMMA Released ==
  ASSUME TypeOK, Work, NEW s \in Slots, slot' = [slot EXCEPT ![s] = IdleSlot],
         pop_deferred_task(s)
  PROVE  /\ Orderly(queue_tasks)' /\ Orderly(queue_tasks_deferred)'
         /\ \A t \in Slots : slot'[t].state = "idle" <=> slot'[t].id = None
         /\ \A id \in Ids : /\ ~(Queued(id)' /\ Deferred(id)')
                            /\ Queued(id)' \/ Deferred(id)' => Queued(id) \/ Deferred(id)
                            /\ ~InSlot(s, id)'
                            /\ \A t \in Slots : InSlot(t, id)' => InSlot(t, id)
<1>1. /\ Orderly(queue_tasks)' /\ Orderly(queue_tasks_deferred)'
      /\ \A id \in Ids : ~(Queued(id)' /\ Deferred(id)')
      /\ \A id \in Ids : Queued(id)' \/ Deferred(id)' => Queued(id) \/ Deferred(id)
  BY PopDeferred
<1>2. \A t \in Slots : slot'[t] = IF t = s THEN IdleSlot ELSE slot[t]
  BY DEF TypeOK
<1>3. \A t \in Slots : slot'[t].state = "idle" <=> slot'[t].id = None
  BY <1>2 DEF IdleSlot, Work, Framed
<1>4. \A id \in Ids : ~InSlot(s, id)' /\ \A t \in Slots : InSlot(t, id)' => InSlot(t, id)
  BY <1>2, IdsAre DEF InSlot, IdleSlot
<1> QED
  BY <1>1, <1>3, <1>4

\* A CANCEL releases the slot it finds, or finds none.
LEMMA WorkCancelTask ==
  ASSUME TypeOK, Work, CancelTask
  PROVE  Work'
<1>1. /\ UNCHANGED <<releasing, reader, answered>> /\ current' = None /\ pc' = "pop"
      /\ \A id : ~Popped(id)'
  BY DEF CancelTask, Popped
<1>2. CASE UNCHANGED <<slot, queues>>
  <2>1. UNCHANGED <<queue_tasks, queue_tasks_deferred, slot>> /\ pc' # "process"
    BY <1>1, <1>2 DEF queues
  <2>2. Orderly(queue_tasks)' /\ \A id \in Ids : Queued(id)' => Queued(id)
    BY <1>2, QueuesKept
  <2> QED
    BY <1>1, <2>1, <2>2, WorkTurns
<1>3. ASSUME NEW s \in Slots, slot' = [slot EXCEPT ![s] = IdleSlot], pop_deferred_task(s)
      PROVE  Work'
  <2>1. /\ Orderly(queue_tasks)' /\ Orderly(queue_tasks_deferred)'
        /\ \A t \in Slots : slot'[t].state = "idle" <=> slot'[t].id = None
        /\ \A id \in Ids : /\ ~(Queued(id)' /\ Deferred(id)')
                           /\ Queued(id)' \/ Deferred(id)' => Queued(id) \/ Deferred(id)
                           /\ \A t \in Slots : InSlot(t, id)' => InSlot(t, id)
    BY <1>3, Released
  <2>2. Framed'
    BY <1>1, <2>1 DEF Framed
  <2>3. \A id \in Ids : Apart(id)'
    BY <1>1, <2>1 DEF Work, Apart
  <2>4. \A id \in Ids : Pending(id)' => Pending(id)
    BY <1>1, <2>1 DEF Pending
  <2>5. \A id \in Ids : Posted(id) => Posted(id)'
    BY <1>1, PostedKept
  <2>6. \A id \in Ids : \A t \in Slots : InSlot(t, id)' => InSlot(t, id) \/ Popped(id)
    BY <2>1
  <2> QED
    BY <1>1, <2>2, <2>3, <2>4, <2>5, <2>6, WorkMoves
<1> QED
  BY <1>2, <1>3 DEF CancelTask

\* A slot is released, and a deferred task comes back.
LEMMA WorkReleaseSlot ==
  ASSUME TypeOK, Work, ReleaseSlot
  PROVE  Work'
<1>1. /\ UNCHANGED <<pc, current, reader, answered>> /\ releasing \in Slots
      /\ slot' = [slot EXCEPT ![releasing] = IdleSlot] /\ pop_deferred_task(releasing)
  BY DEF ReleaseSlot
<1>2. \A id : Popped(id)' <=> Popped(id)
  BY <1>1 DEF Popped, Carries
<1>3. /\ Orderly(queue_tasks)' /\ Orderly(queue_tasks_deferred)'
      /\ \A t \in Slots : slot'[t].state = "idle" <=> slot'[t].id = None
      /\ \A id \in Ids : /\ ~(Queued(id)' /\ Deferred(id)')
                         /\ Queued(id)' \/ Deferred(id)' => Queued(id) \/ Deferred(id)
                         /\ \A t \in Slots : InSlot(t, id)' => InSlot(t, id) /\ t # releasing
  <2>1. PICK s \in Slots : s = releasing
    BY <1>1
  <2> QED
    BY <1>1, <2>1, Released
<1>4. Framed'
  BY <1>1, <1>3 DEF Work, Framed, WellFormed
<1>5. \A id \in Ids : Apart(id)'
  BY <1>2, <1>3 DEF Work, Apart
<1>6. \A id \in Ids : Pending(id)' => Pending(id)
  BY <1>2, <1>3 DEF Pending
<1>7. \A id \in Ids : Placed(id)' => Posted(id)'
  BY <1>1, <1>3, <1>6, PostedKept DEF Work, Placed
<1>8. \A id \in answered' : Posted(id)' /\ Over(id)'
  <2>1. \A id \in answered : id \in Ids /\ Posted(id) /\ Over(id)
    BY DEF Work, TypeOK
  <2> QED
    BY <1>1, <1>3, <1>6, <2>1, PostedKept DEF Over
<1> QED
  BY <1>4, <1>5, <1>7, <1>8 DEF Work

\* The popped task is dropped, answered with an error or not.
LEMMA WorkDrops ==
  ASSUME TypeOK, Work, UNCHANGED <<slot, releasing, reader>>, current' = None, pc' = "pop",
         Orderly(queue_tasks)', Orderly(queue_tasks_deferred)',
         \A id \in Ids : ~(Queued(id)' /\ Deferred(id)'),
         \A id \in Ids : Queued(id)' \/ Deferred(id)' => Queued(id) \/ Deferred(id),
         \A id \in answered' : id \in answered \/ (id \in Ids /\ Popped(id))
  PROVE  Work'
<1>1. /\ \A id : ~Popped(id)'
      /\ \A id : \A s \in Slots : InSlot(s, id)' <=> InSlot(s, id)
  BY DEF Popped, InSlot
<1>2. Framed'
  BY DEF Work, Framed
<1>3. \A id \in Ids : Apart(id)'
  BY <1>1 DEF Work, Apart
<1>4. \A id \in Ids : Pending(id)' => Pending(id)
  BY <1>1 DEF Pending
<1>5. \A id \in Ids : Placed(id)' => Posted(id)'
  BY <1>1, <1>4, PostedKept DEF Work, Placed
<1>6. ASSUME NEW id \in answered' PROVE Posted(id)' /\ Over(id)'
  <2>1. CASE id \in answered
    <3>1. id \in Ids /\ Posted(id) /\ Over(id)
      BY <2>1 DEF Work, TypeOK
    <3> QED
      BY <1>1, <1>4, <3>1, PostedKept DEF Over
  <2>2. CASE id \in Ids /\ Popped(id)
    <3>1. Posted(id) /\ ~Queued(id) /\ ~Deferred(id) /\ \A s \in Slots : ~InSlot(s, id)
      BY <2>2 DEF Work, Apart, Placed, Pending
    <3> QED
      BY <1>1, <2>2, <3>1, PostedKept DEF Over, Pending
  <2> QED
    BY <1>6, <2>1, <2>2
<1> QED
  BY <1>2, <1>3, <1>5, <1>6 DEF Work

\* A NEXT_RESPONSE task leaves the loop.
LEMMA WorkNextTask ==
  ASSUME TypeOK, Work, NextTask
  PROVE  Work'
<1>1. UNCHANGED <<queues, slot, releasing, reader, answered>> /\ current' = None /\ pc' = "pop"
  BY DEF NextTask
<1>2. /\ Orderly(queue_tasks)' /\ Orderly(queue_tasks_deferred)'
      /\ \A id : (Queued(id)' <=> Queued(id)) /\ (Deferred(id)' <=> Deferred(id))
  BY <1>1, QueuesKept
<1>3. \A id \in Ids : ~(Queued(id) /\ Deferred(id))
  BY DEF Work, Apart
<1> QED
  BY <1>1, <1>2, <1>3, WorkDrops

\* The task in the hands of the loop is nowhere else, and its child with it.
LEMMA CurrentIs ==
  ASSUME TypeOK, Work, pc = "process", current.type = "completion"
  PROVE  /\ current # None /\ current \in Tasks
         /\ current.id \in Ids /\ current.child # current.id
         /\ Popped(current.id)
         /\ current.child # None => current.child \in Ids /\ Popped(current.child)
<1>1. current # None /\ current \in Tasks /\ WellFormed(current)
  BY DEF Work, Framed, TypeOK
<1>2. current.id \in Ids /\ current.child # current.id /\ current.child \in Ids \cup {None}
  BY <1>1 DEF WellFormed, Tasks
<1> QED
  BY <1>1, <1>2 DEF Popped, Carries

\* A task that is refused is over.
LEMMA WorkRefuseTask ==
  ASSUME TypeOK, Work, RefuseTask
  PROVE  Work'
<1>1. /\ UNCHANGED <<queues, slot, releasing, reader>> /\ current' = None /\ pc' = "pop"
      /\ pc = "process" /\ current.type = "completion"
  BY DEF RefuseTask
<1>2. PICK id \in {current.id, current.child} \ {None} : answered' = answered \cup {id}
  BY DEF RefuseTask
<1>3. id \in Ids /\ Popped(id)
  BY <1>1, <1>2, CurrentIs
<1>4. /\ Orderly(queue_tasks)' /\ Orderly(queue_tasks_deferred)'
      /\ \A x : (Queued(x)' <=> Queued(x)) /\ (Deferred(x)' <=> Deferred(x))
  BY <1>1, QueuesKept
<1>5. \A x \in Ids : ~(Queued(x) /\ Deferred(x))
  BY DEF Work, Apart
<1> QED
  BY <1>1, <1>2, <1>3, <1>4, <1>5, WorkDrops

\* A family that is refused is over, parent and child.
LEMMA WorkRefuseFamily ==
  ASSUME TypeOK, Work, RefuseFamily
  PROVE  Work'
<1>1. /\ UNCHANGED <<slot, releasing, reader>> /\ current' = None /\ pc' = "pop"
      /\ pc = "process" /\ current.type = "completion"
      /\ answered' = answered \cup {current.id}
      /\ \E t : pop_deferred_task(t)
  BY DEF RefuseFamily
<1>2. current.id \in Ids /\ Popped(current.id)
  BY <1>1, CurrentIs
<1>3. /\ Orderly(queue_tasks)' /\ Orderly(queue_tasks_deferred)'
      /\ \A id \in Ids : ~(Queued(id)' /\ Deferred(id)')
      /\ \A id \in Ids : Queued(id)' \/ Deferred(id)' => Queued(id) \/ Deferred(id)
  BY <1>1, PopDeferred
<1> QED
  BY <1>1, <1>2, <1>3, WorkDrops

\* A slot has sent its last result and is about to be released.
LEMMA WorkAnswers ==
  ASSUME TypeOK, Work, NEW s \in Slots, SendFinal(s) \/ SendError(s)
  PROVE  Work' /\ slot[s].id \in Ids /\ slot[s].id \notin answered
<1>1. /\ UNCHANGED <<queues, current, slot, reader>> /\ releasing = None /\ releasing' = s
      /\ answered' = answered \cup {slot[s].id} /\ slot[s].state # "idle"
      /\ pc' = "process" => pc = "process"
  BY DEF SendFinal, SendError, IsProcessing
<1>2. slot[s].id \in Ids
  BY <1>1 DEF TypeOK, Work, Framed
<1>3. slot[s].id \notin answered
  BY <1>1, <1>2, IdsAre DEF Work, Over, InSlot
<1>4. /\ Orderly(queue_tasks)' /\ Orderly(queue_tasks_deferred)'
      /\ \A x : /\ (Queued(x)' <=> Queued(x)) /\ (Deferred(x)' <=> Deferred(x))
                /\ (Popped(x)' <=> Popped(x)) /\ \A t \in Slots : InSlot(t, x)' <=> InSlot(t, x)
  BY <1>1, QueuesKept DEF Popped, Carries, InSlot
<1>5. Framed'
  BY <1>1, <1>4 DEF Work, Framed, WellFormed
<1>6. \A id \in Ids : Apart(id)'
  BY <1>4 DEF Work, Apart
<1>7. \A id \in Ids : Placed(id)' => Posted(id)'
  BY <1>1, <1>4, PostedKept DEF Work, Placed, Pending
<1>8. ASSUME NEW id \in answered' PROVE Posted(id)' /\ Over(id)'
  <2>1. CASE id \in answered
    <3>1. id \in Ids /\ Posted(id) /\ ~Pending(id) /\ \A t \in Slots : ~InSlot(t, id)
      BY <1>1, <2>1, IdsAre DEF Work, TypeOK, Over
    <3> QED
      BY <1>1, <1>4, <3>1, PostedKept DEF Over, Pending
  <2>2. CASE id = slot[s].id
    <3>1. /\ InSlot(s, id) /\ ~Queued(id) /\ ~Deferred(id) /\ ~Popped(id)
          /\ \A t \in Slots : InSlot(t, id) => t = s
      BY <1>2, <2>2 DEF Work, Apart, InSlot
    <3>2. Posted(id)
      BY <1>2, <2>2, <3>1 DEF Work, Placed
    <3> QED
      BY <1>1, <1>4, <3>1, <3>2, PostedKept DEF Over, Pending
  <2> QED
    BY <1>1, <1>8, <2>1, <2>2
<1> QED
  BY <1>2, <1>3, <1>5, <1>6, <1>7, <1>8 DEF Work

-----------------------------------------------------------------------------
(***************************************************************************)
(* Where the tasks are, over the steps of a reader                         *)
(***************************************************************************)

\* Nothing of a reader that has yet to post is anywhere.
LEMMA NotPosted ==
  ASSUME Work, NEW r \in Readers, reader[r].phase \in {"new", "post"},
         NEW id \in Ids, id[1] = r
  PROVE  ~Posted(id) /\ ~Placed(id) /\ id \notin answered
<1>1. ~Posted(id)
  BY DEF Posted, Owner
<1> QED
  BY <1>1 DEF Work

\* A reader takes its ids and begins to wait; nothing is posted yet.
LEMMA WorkAddWaiting ==
  ASSUME TypeOK, Work, NEW r \in Readers, AddWaiting(r)
  PROVE  Work'
<1>1. UNCHANGED <<queues, loop, answered>> /\ reader[r].phase \in {"new", "post"}
  BY DEF AddWaiting
<1>2. \A x \in Readers \ {r} : reader'[x] = reader[x]
  BY DEF AddWaiting, TypeOK
<1>3. \A id \in Ids : id[1] \in Readers /\ (id[1] = r => ~Posted(id))
  BY <1>1, NotPosted, IdsAre
<1>4. \A id \in Ids : Posted(id) => Posted(id)'
  BY <1>2, <1>3 DEF Posted, Owner
<1> QED
  BY <1>1, <1>4, WorkOfReader

\* One or two tasks at the end of a queue, as Append has it.
LEMMA AppendTwo ==
  ASSUME NEW S, NEW q \in Seq(S), NEW a \in S, NEW b \in S
  PROVE  q \o <<a>> = Append(q, a) /\ q \o <<a, b>> = Append(Append(q, a), b)
<1>1. q \o <<a>> = Append(q, a)
  BY AppendIsConcat
<1>2. Append(Append(q, a), b) = (q \o <<a>>) \o <<b>>
  <2>1. PICK p \in Seq(S) : p = Append(q, a)
    BY AppendProperties
  <2>2. Append(p, b) = p \o <<b>>
    BY AppendIsConcat
  <2> QED
    BY <1>1, <2>1, <2>2
<1>3. <<a>> \in Seq(S) /\ <<b>> \in Seq(S) /\ <<a>> \o <<b>> = <<a, b>>
  <2>1. <<a>> \in Seq(S) /\ <<b>> \in Seq(S)
    OBVIOUS
  <2>2. Append(<<a>>, b) = <<a>> \o <<b>>
    BY <2>1, AppendIsConcat
  <2>3. Append(<<a>>, b) = <<a, b>>
    <3>1. PICK one \in Seq(S) : one = <<a>>
      BY <2>1
    <3>2. Len(one) = 1 /\ one[1] = a
      BY <3>1
    <3>3. PICK l \in Seq(S) : l = Append(one, b)
      BY AppendProperties
    <3>4. Len(l) = 2 /\ l[1] = a /\ l[2] = b
      <4>1. /\ Len(Append(one, b)) = Len(one) + 1 /\ Append(one, b)[Len(one) + 1] = b
            /\ \A i \in 1 .. Len(one) : Append(one, b)[i] = one[i]
        BY AppendProperties
      <4> QED
        BY <3>2, <3>3, <4>1
    <3>5. PICK m \in Seq(S) : m = <<a, b>>
      <4>1. <<a, b>> \in Seq(S)
        OBVIOUS
      <4> QED
        BY <4>1
    <3>6. Len(m) = 2 /\ m[1] = a /\ m[2] = b
      BY <3>5
    <3>7. \A i \in 1 .. Len(l) : l[i] = m[i]
      BY <3>4, <3>6
    <3>8. l = m
      BY <3>4, <3>6, <3>7, SeqEqual
    <3> QED
      BY <3>1, <3>3, <3>5, <3>8
  <2> QED
    BY <2>1, <2>2, <2>3
<1> QED
  BY <1>1, <1>2, <1>3, ConcatAssociative

\* A completion carries its own id and the one of its child.
LEMMA CompletionIs ==
  ASSUME NEW id \in Ids, NEW child \in Ids \cup {None}, child # id, NEW at \in Slots \cup {None}
  PROVE  /\ Completion(id, child, at) \in Tasks /\ WellFormed(Completion(id, child, at))
         /\ \A x \in Ids : Carries(Completion(id, child, at), x) <=> x \in {id, child}
BY DEF Completion, Tasks, TaskTypes, WellFormed, Carries

\* What the post puts into the queue.
LEMMA Posts ==
  ASSUME TypeOK, Work, NEW r \in Readers, Post(r)
  PROVE  /\ Orderly(queue_tasks)'
         /\ \A id \in Ids : Queued(id)' => Queued(id) \/ id \in IdsOf(r, reader[r].shape)
<1> DEFINE one == <<r, 1>>
           two == <<r, 2>>
<1>1. /\ Orderly(queue_tasks) /\ queue_tasks \in Seq(Tasks)
      /\ one \in Ids /\ two \in Ids /\ one # two /\ None # one
      /\ one[1] = r /\ two[1] = r
  BY IdsOfAre, IdsAre DEF Work, Framed, Orderly
<1> HIDE DEF one, two
<1>2. ~Has(queue_tasks, one) /\ ~Has(queue_tasks, two)
  BY <1>1, NotPosted DEF Post, Placed, Pending, Queued
<1>3. PICK at \in Pinnable \cup {None} :
        queue_tasks' = queue_tasks \o
          (CASE reader[r].shape = "single" -> <<Completion(one, None, at)>>
             [] reader[r].shape = "pair"   -> <<Completion(one, None, at), Completion(two, None, at)>>
             [] reader[r].shape = "family" -> <<Completion(one, two, at)>>)
  BY DEF Post, one, two
<1>4. at \in Slots \cup {None}
  BY QueueAssumption
<1> DEFINE q1 == Append(queue_tasks, Completion(one, None, at))
           q2 == Append(q1, Completion(two, None, at))
           qf == Append(queue_tasks, Completion(one, two, at))
<1>5. /\ Orderly(q1)
      /\ \A id \in Ids : Has(q1, id) <=> Has(queue_tasks, id) \/ id = one
  <2>1. /\ Completion(one, None, at) \in Tasks /\ WellFormed(Completion(one, None, at))
        /\ \A x \in Ids : Carries(Completion(one, None, at), x) <=> x = one
    BY <1>1, <1>4, CompletionIs, IdsAre
  <2> QED
    BY <1>1, <1>2, <2>1, AppendOrderly
<1>6. /\ Orderly(qf)
      /\ \A id \in Ids : Has(qf, id) <=> Has(queue_tasks, id) \/ id \in {one, two}
  <2>1. /\ Completion(one, two, at) \in Tasks /\ WellFormed(Completion(one, two, at))
        /\ \A x \in Ids : Carries(Completion(one, two, at), x) <=> x \in {one, two}
    BY <1>1, <1>4, CompletionIs
  <2> QED
    BY <1>1, <1>2, <2>1, AppendOrderly
<1>7. /\ Orderly(q2)
      /\ \A id \in Ids : Has(q2, id) <=> Has(queue_tasks, id) \/ id \in {one, two}
  <2>1. /\ Completion(two, None, at) \in Tasks /\ WellFormed(Completion(two, None, at))
        /\ \A x \in Ids : Carries(Completion(two, None, at), x) <=> x = two
    BY <1>1, <1>4, CompletionIs, IdsAre
  <2>2. ~Has(q1, two)
    BY <1>1, <1>2, <1>5
  <2> HIDE DEF q1
  <2> QED
    BY <1>5, <2>1, <2>2, AppendOrderly
<1>8. /\ queue_tasks \o <<Completion(one, None, at)>> = q1
      /\ queue_tasks \o <<Completion(one, None, at), Completion(two, None, at)>> = q2
      /\ queue_tasks \o <<Completion(one, two, at)>> = qf
  BY <1>1, <1>4, CompletionIs, IdsAre, AppendTwo
<1> HIDE DEF q1, q2, qf
<1>9. CASE reader[r].shape = "single"
  <2>1. queue_tasks' = q1 /\ one \in IdsOf(r, reader[r].shape)
    BY <1>3, <1>8, <1>9, IdsOfAre DEF one
  <2> QED
    BY <1>5, <2>1, OrderlyStep DEF Queued
<1>10. CASE reader[r].shape = "pair"
  <2>1. queue_tasks' = queue_tasks \o <<Completion(one, None, at), Completion(two, None, at)>>
    BY <1>3, <1>10
  <2>2. {one, two} \subseteq IdsOf(r, reader[r].shape)
    BY <1>10 DEF one, two, IdsOf
  <2> QED
    BY <1>7, <1>8, <2>1, <2>2, OrderlyStep DEF Queued
<1>11. CASE reader[r].shape = "family"
  <2>1. queue_tasks' = qf /\ {one, two} \subseteq IdsOf(r, reader[r].shape)
    BY <1>3, <1>8, <1>11 DEF one, two, IdsOf
  <2> QED
    BY <1>6, <2>1, OrderlyStep DEF Queued
<1> QED
  BY <1>9, <1>10, <1>11 DEF TypeOK, Shapes

\* New tasks are in the queue and nowhere else.
LEMMA WorkPost ==
  ASSUME TypeOK, Work, Mail, NEW r \in Readers, Post(r)
  PROVE  Work'
<1>1. /\ UNCHANGED <<queue_tasks_deferred, loop, answered>> /\ reader[r].phase = "post"
      /\ reader' = [reader EXCEPT ![r].phase = "wait"]
  BY DEF Post
<1>2. /\ reader'[r].ids = reader[r].ids /\ reader'[r].phase = "wait"
      /\ \A x \in Readers \ {r} : reader'[x] = reader[x]
      /\ reader[r].ids = IdsOf(r, reader[r].shape)
  BY <1>1 DEF TypeOK, Mail, ReaderFits, Phased
<1>3. \A id \in Ids : /\ id[1] \in Readers
                      /\ id \in IdsOf(r, reader[r].shape) => id[1] = r
                      /\ id[1] = r => ~Placed(id) /\ ~Posted(id) /\ id \notin answered
  BY <1>1, NotPosted, IdsAre, IdsOfAre
<1>4. /\ Orderly(queue_tasks)'
      /\ \A id \in Ids : Queued(id)' => Queued(id) \/ id \in IdsOf(r, reader[r].shape)
  BY Posts
<1>5. /\ current' = current /\ slot' = slot /\ pc' = pc /\ releasing' = releasing
      /\ queue_tasks_deferred' = queue_tasks_deferred /\ answered' = answered
  BY <1>1 DEF loop
<1>6. /\ Orderly(queue_tasks_deferred)'
      /\ \A id : /\ (Deferred(id)' <=> Deferred(id)) /\ (Popped(id)' <=> Popped(id))
                 /\ \A s \in Slots : InSlot(s, id)' <=> InSlot(s, id)
  BY <1>5, OrderlyStepDeferred DEF Work, Framed, Deferred, Popped, Carries, InSlot
<1>7. Framed'
  BY <1>4, <1>5, <1>6 DEF Work, Framed, WellFormed
<1>8. ASSUME NEW id \in Ids PROVE Apart(id)'
  <2>1. Apart(id)
    BY DEF Work
  <2>2. CASE id \in IdsOf(r, reader[r].shape)
    BY <1>3, <1>6, <2>2 DEF Apart, Placed, Pending
  <2>3. CASE id \notin IdsOf(r, reader[r].shape)
    BY <1>4, <1>6, <2>1, <2>3 DEF Apart
  <2> QED
    BY <2>2, <2>3
<1>9. \A id \in Ids : Posted(id) => Posted(id)'
  BY <1>2, <1>3 DEF Posted, Owner
<1>10. ASSUME NEW id \in Ids, Placed(id)' PROVE Posted(id)'
  <2>1. CASE id \in IdsOf(r, reader[r].shape)
    <3>1. id[1] = r
      BY <1>3, <2>1
    <3> QED
      BY <1>2, <2>1, <3>1 DEF Posted, Owner
  <2>2. CASE id \notin IdsOf(r, reader[r].shape)
    <3>1. Placed(id)
      BY <1>4, <1>6, <1>10, <2>2 DEF Placed, Pending
    <3> QED
      BY <1>9, <3>1 DEF Work
  <2> QED
    BY <2>1, <2>2
<1>11. ASSUME NEW id \in answered' PROVE Posted(id)' /\ Over(id)'
  <2>1. id \in answered /\ id \in Ids
    BY <1>5, <1>11 DEF TypeOK
  <2>2. Posted(id) /\ Over(id) /\ id \notin IdsOf(r, reader[r].shape)
    BY <1>3, <2>1 DEF Work
  <2>3. ~Queued(id)'
    BY <1>4, <2>1, <2>2 DEF Over, Pending
  <2> QED
    BY <1>5, <1>6, <1>9, <2>1, <2>2, <2>3 DEF Over, Pending
<1> QED
  BY <1>7, <1>8, <1>10, <1>11 DEF Work

\* The first result of the reader, and what the reader does about it.
LEMMA RecvIs ==
  ASSUME TypeOK, NEW r \in Readers, Recv(r)
  PROVE  \E i \in 1 .. Len(queue_results) :
           /\ queue_results[i].id \in reader[r].ids
           /\ \A j \in DOMAIN queue_results : queue_results[j].id \in reader[r].ids => i <= j
           /\ queue_results' = DropAt(queue_results, i)
           /\ \/ queue_results[i].kind = "partial" /\ reader' = reader
              \/ /\ queue_results[i].kind = "error"
                 /\ reader' = [reader EXCEPT ![r].phase = "stop"]
              \/ /\ queue_results[i].kind = "final"
                 /\ reader' = [reader EXCEPT ![r].received_count = @ + 1]
<1> DEFINE mine == {i \in DOMAIN queue_results : queue_results[i].id \in reader[r].ids}
           first == CHOOSE i \in mine : \A j \in mine : i <= j
<1>1. DOMAIN queue_results = 1 .. Len(queue_results)
      /\ \A i \in 1 .. Len(queue_results) : queue_results[i] \in [id : Ids, kind : ResultKinds]
  BY LenProperties, ElementOfSeq DEF TypeOK
<1>2. mine # {} /\ mine \in SUBSET Nat
  BY <1>1 DEF Recv
<1>3. \E i \in mine : \A j \in mine : i <= j
  BY <1>2, Least
<1>4. first \in mine /\ \A j \in mine : first <= j
  BY <1>3
<1>5. /\ queue_results' = DropAt(queue_results, first)
      /\ reader' = CASE queue_results[first].kind = "partial" -> reader
                     [] queue_results[first].kind = "error" -> [reader EXCEPT ![r].phase = "stop"]
                     [] queue_results[first].kind = "final" ->
                          [reader EXCEPT ![r].received_count = @ + 1]
  BY DEF Recv
<1> HIDE DEF first
<1>6. first \in 1 .. Len(queue_results) /\ queue_results[first].id \in reader[r].ids
      /\ \A j \in DOMAIN queue_results : queue_results[j].id \in reader[r].ids => first <= j
  BY <1>1, <1>4
<1>7. queue_results[first].kind \in ResultKinds
  BY <1>1, <1>6
<1>8. \/ queue_results[first].kind = "partial" /\ reader' = reader
      \/ /\ queue_results[first].kind = "error"
         /\ reader' = [reader EXCEPT ![r].phase = "stop"]
      \/ /\ queue_results[first].kind = "final"
         /\ reader' = [reader EXCEPT ![r].received_count = @ + 1]
  BY <1>5, <1>7 DEF ResultKinds
<1> QED
  BY <1>5, <1>6, <1>8

\* Taking results, giving up and purging leave the tasks where they are.
LEMMA WorkReads ==
  ASSUME TypeOK, Work, NEW r \in Readers,
         Recv(r) \/ LetGo(r) \/ StopUnwait(r) \/ StopPurge(r)
  PROVE  Work'
<1>1. UNCHANGED <<queues, loop, answered>>
  BY DEF Recv, LetGo, StopUnwait, StopPurge
<1>2. reader[r].phase \notin {"new", "post"}
  BY DEF Recv, LetGo, StopUnwait, StopPurge
<1>3. reader' = reader \/ \E v : /\ reader' = [reader EXCEPT ![r] = v]
                                 /\ v.ids = reader[r].ids /\ v.phase \notin {"new", "post"}
  <2>1. reader \in [Readers -> [phase : ReaderPhases, ids : SUBSET Ids, shape : Shapes,
                             received_count : 0..2, cancelled : BOOLEAN, todo : SUBSET Ids]]
    BY DEF TypeOK
  <2>2. /\ reader'[r].ids = reader[r].ids /\ reader'[r].phase \notin {"new", "post"}
        /\ reader' = [reader EXCEPT ![r] = reader'[r]]
    <3>1. CASE Recv(r)
      BY <1>2, <2>1, <3>1, RecvIs
    <3>2. CASE LetGo(r)
      BY <2>1, <3>2 DEF LetGo
    <3>3. CASE StopUnwait(r)
      BY <2>1, <3>3 DEF StopUnwait
    <3>4. CASE StopPurge(r)
      BY <1>2, <2>1, <3>4 DEF StopPurge
    <3> QED
      BY <3>1, <3>2, <3>3, <3>4
  <2> QED
    BY <2>2
<1>4. \A id \in Ids : Posted(id) => Posted(id)'
  BY <1>3, PostedForward, PostedKept
<1> QED
  BY <1>1, <1>4, WorkOfReader

\* The target leaves both queues, a CANCEL task comes.
LEMMA WorkStopCancel ==
  ASSUME TypeOK, Work, NEW r \in Readers, StopCancel(r)
  PROVE  Work'
<1>1. PICK x \in reader[r].todo :
        /\ queue_tasks' = <<Cancel(x)>> \o Without(queue_tasks, x)
        /\ queue_tasks_deferred' = Without(queue_tasks_deferred, x)
        /\ reader' = [reader EXCEPT ![r].todo = @ \ {x},
                                    ![r].phase = IF reader[r].todo = {x} THEN "done" ELSE "cancel"]
  BY DEF StopCancel
<1>2. /\ UNCHANGED <<loop, answered>> /\ current' = current /\ slot' = slot /\ pc' = pc
      /\ releasing' = releasing
  BY DEF StopCancel, loop
<1>3. x \in Ids /\ Orderly(queue_tasks) /\ Orderly(queue_tasks_deferred)
  BY DEF TypeOK, Work, Framed
<1>4. /\ Orderly(Without(queue_tasks, x))
      /\ \A id \in Ids : Has(Without(queue_tasks, x), id) => Queued(id)
  BY <1>3, WithoutOrderly DEF Queued
<1>5. /\ Orderly(<<Cancel(x)>> \o Without(queue_tasks, x))
      /\ \A id \in Ids : Has(<<Cancel(x)>> \o Without(queue_tasks, x), id) => Queued(id)
  <2>1. /\ Orderly(<<Cancel(x)>> \o Without(queue_tasks, x))
        /\ \A id \in Ids : Has(<<Cancel(x)>> \o Without(queue_tasks, x), id) <=>
                           Has(Without(queue_tasks, x), id) \/ Carries(Cancel(x), id)
    BY <1>3, <1>4, PlainTasks, PushOrderly
  <2> QED
    BY <1>3, <1>4, <2>1, PlainTasks
<1>6. Orderly(queue_tasks)' /\ \A id \in Ids : Queued(id)' => Queued(id)
  BY <1>1, <1>5, OrderlyStep
<1>7. Orderly(queue_tasks_deferred)' /\ \A id \in Ids : Deferred(id)' => Deferred(id)
  <2>1. /\ Orderly(Without(queue_tasks_deferred, x))
        /\ \A id \in Ids : Has(Without(queue_tasks_deferred, x), id) => Deferred(id)
    BY <1>3, WithoutOrderly DEF Deferred
  <2> QED
    BY <1>1, <2>1, OrderlyStepDeferred
<1>8. \A id : /\ (Popped(id)' <=> Popped(id)) /\ \A s \in Slots : InSlot(s, id)' <=> InSlot(s, id)
  BY <1>2 DEF Popped, Carries, InSlot
<1>9. Framed'
  BY <1>2, <1>6, <1>7 DEF Work, Framed, WellFormed
<1>10. \A id \in Ids : Apart(id)'
  BY <1>6, <1>7, <1>8 DEF Work, Apart
<1>11. \A id \in Ids : Pending(id)' => Pending(id)
  BY <1>6, <1>7, <1>8 DEF Pending
<1>12. \A id \in Ids : Posted(id) => Posted(id)'
  <2>1. /\ reader'[r].ids = reader[r].ids /\ reader'[r].phase \notin {"new", "post"}
        /\ reader' = [reader EXCEPT ![r] = reader'[r]]
    BY <1>1 DEF TypeOK
  <2> QED
    BY <2>1, PostedForward
<1> QED
  BY <1>2, <1>8, <1>9, <1>10, <1>11, <1>12, WorkMoves

\* Every step keeps each task in one place.
THEOREM WorkInv ==
  ASSUME TypeOK, Work, Mail, [Next]_vars
  PROVE  Work'
<1>1. CASE UNCHANGED vars
  <2>1. UNCHANGED <<queues, loop, answered, reader>>
    BY <1>1 DEF vars
  <2> QED
    BY <2>1, PostedKept, WorkOfReader
<1>2. ASSUME NEW r \in Readers, ReaderStep(r) PROVE Work'
  BY <1>2, WorkAddWaiting, WorkPost, WorkReads, WorkStopCancel DEF ReaderStep
<1>3. CASE LoopStep
  BY <1>3, WorkIdles, WorkPopTask, WorkDeferTask, WorkLaunchTask, WorkRefuseTask,
     WorkRefuseFamily, WorkCancelTask, WorkNextTask, WorkReleaseSlot DEF LoopStep, Process
<1>4. ASSUME NEW s \in Slots, SlotStep(s) PROVE Work'
  <2>1. CASE SendPartial(s)
    <3>1. UNCHANGED <<queues, loop, answered, reader>>
      BY <2>1 DEF SendPartial
    <3> QED
      BY <3>1, PostedKept, WorkOfReader
  <2> QED
    BY <1>4, <2>1, WorkIdles, WorkAnswers DEF SlotStep
<1>5. CASE Terminate
  <2>1. UNCHANGED <<queues, loop, answered, reader>>
    BY <1>5 DEF Terminate
  <2> QED
    BY <2>1, PostedKept, WorkOfReader
<1> QED
  BY <1>1, <1>2, <1>3, <1>4, <1>5 DEF Next

-----------------------------------------------------------------------------
(***************************************************************************)
(* Types                                                                   *)
(***************************************************************************)

ReaderType == [phase : ReaderPhases, ids : SUBSET Ids, shape : Shapes,
               received_count : 0..2, cancelled : BOOLEAN, todo : SUBSET Ids]
SlotType == [state : SlotStates, id : Ids \cup {None}, parent : Ids \cup {None}]
ResultType == [id : Ids, kind : ResultKinds]

LoopTyped ==
  /\ running \in BOOLEAN /\ terminated \in BOOLEAN
  /\ pc \in LoopPhases
  /\ current \in Tasks \cup {None}
  /\ slot \in [Slots -> SlotType]
  /\ releasing \in Slots \cup {None}

MailTyped ==
  /\ waiting_task_ids \subseteq Ids
  /\ queue_results \in Seq(ResultType)
  /\ reader \in [Readers -> ReaderType]
  /\ answered \subseteq Ids /\ cancelled_ids \subseteq Ids

\* The type invariant by the parts that different steps change.
LEMMA TypesAre ==
  TypeOK <=> /\ queue_tasks \in Seq(Tasks) /\ queue_tasks_deferred \in Seq(Tasks)
             /\ LoopTyped /\ MailTyped
BY DEF TypeOK, LoopTyped, MailTyped, ReaderType, SlotType, ResultType

\* The types of the loop and its slots, left alone.
LEMMA LoopTypedKept ==
  ASSUME LoopTyped, UNCHANGED <<running, terminated, loop>>
  PROVE  LoopTyped'
BY DEF LoopTyped, loop

\* The types of results and readers, left alone.
LEMMA MailTypedKept ==
  ASSUME MailTyped, UNCHANGED <<results, reader, answered, cancelled_ids>>
  PROVE  MailTyped'
BY DEF MailTyped, results

\* A result that is sent has its type.
LEMMA SendTyped ==
  ASSUME MailTyped, NEW id \in Ids, NEW kind \in ResultKinds, send(id, kind)
  PROVE  queue_results' \in Seq(ResultType)
<1>1. [id |-> id, kind |-> kind] \in ResultType
  BY DEF ResultType
<1> QED
  BY <1>1, AppendProperties DEF send, MailTyped

\* A step of a reader keeps the types.
LEMMA ReaderTyped ==
  ASSUME TypeOK, NEW r \in Readers, ReaderFits(r), ReaderStep(r)
  PROVE  LoopTyped' /\ MailTyped'
<1>0. LoopTyped /\ MailTyped
  BY TypesAre
<1>1. UNCHANGED <<running, terminated, loop>>
  BY DEF ReaderStep, AddWaiting, Post, Recv, LetGo, StopUnwait, StopPurge, StopCancel
<1>2. LoopTyped'
  BY <1>0, <1>1, LoopTypedKept
<1>3. reader \in [Readers -> ReaderType] /\ reader[r] \in ReaderType
  BY <1>0 DEF MailTyped
<1>4. UNCHANGED <<answered, cancelled_ids>>
  BY DEF ReaderStep, AddWaiting, Post, Recv, LetGo, StopUnwait, StopPurge, StopCancel
<1>5. waiting_task_ids' \subseteq Ids
  <2>1. CASE AddWaiting(r)
    BY <1>0, <2>1, IdsOfAre DEF AddWaiting, MailTyped
  <2> QED
    BY <1>0, <2>1 DEF MailTyped, ReaderStep, Post, Recv, LetGo, StopUnwait, StopPurge, StopCancel, results
<1>6. queue_results' \in Seq(ResultType)
  <2>1. queue_results \in Seq(ResultType) /\ DOMAIN queue_results = 1 .. Len(queue_results)
    BY <1>0, LenProperties DEF MailTyped
  <2>2. queue_results' = queue_results
        \/ \E i \in 1 .. Len(queue_results) : queue_results' = DropAt(queue_results, i)
    <3>1. CASE Recv(r)
      BY <3>1, RecvIs, <2>1
    <3>2. CASE StopPurge(r)
      BY <3>2, <2>1 DEF StopPurge
    <3> QED
      BY <3>1, <3>2 DEF ReaderStep, AddWaiting, Post, LetGo, StopUnwait, StopCancel, results
  <2> QED
    BY <2>1, <2>2, DropAtIs
<1>7. reader' \in [Readers -> ReaderType]
  <2>1. CASE AddWaiting(r)
    <3>1. PICK shape \in Shapes : reader' = [reader EXCEPT
            ![r].phase = "post", ![r].shape = shape, ![r].ids = IdsOf(r, shape)]
      BY <2>1, QueueAssumption DEF AddWaiting
    <3>2. IdsOf(r, shape) \in SUBSET Ids
      BY IdsOfAre
    <3>3. "post" \in ReaderPhases
      BY DEF ReaderPhases
    <3> QED
      BY <1>3, <3>1, <3>2, <3>3 DEF ReaderType
  <2>2. CASE \E p \in ReaderPhases : reader' = [reader EXCEPT ![r].phase = p]
    BY <1>3, <2>2 DEF ReaderType
  <2>3. CASE Recv(r)
    <3>1. CASE reader' = [reader EXCEPT ![r].received_count = @ + 1]
      <4>1. reader[r].received_count < Cardinality(reader[r].ids) /\ reader[r].phase = "wait"
        BY <2>3 DEF Recv, HasNext
      <4>2. Cardinality(reader[r].ids) \in 0 .. 2
        BY <4>1, IdsOfAre DEF ReaderFits, Phased
      <4>3. reader[r].received_count \in 0 .. 2
        BY <1>3 DEF ReaderType
      <4>4. reader[r].received_count + 1 \in 0 .. 2
        BY <4>1, <4>2, <4>3
      <4> QED
        BY <1>3, <3>1, <4>4 DEF ReaderType
    <3>2. "stop" \in ReaderPhases
      BY DEF ReaderPhases
    <3> QED
      BY <1>3, <2>2, <2>3, <3>1, <3>2, RecvIs
  <2>4. CASE StopUnwait(r)
    <3>1. {"purge", "done"} \subseteq ReaderPhases
      BY DEF ReaderPhases
    <3>2. CASE reader' = [reader EXCEPT ![r].phase = "purge", ![r].cancelled = TRUE,
                                        ![r].todo = reader[r].ids]
      BY <1>3, <3>1, <3>2 DEF ReaderType
    <3> QED
      BY <2>2, <2>4, <3>1, <3>2 DEF StopUnwait
  <2>5. CASE StopPurge(r)
    <3>1. "cancel" \in ReaderPhases
      BY DEF ReaderPhases
    <3> QED
      BY <1>3, <2>2, <2>5, <3>1 DEF StopPurge
  <2>6. CASE StopCancel(r)
    <3>1. PICK x \in reader[r].todo : reader' = [reader EXCEPT
            ![r].todo = @ \ {x}, ![r].phase = IF reader[r].todo = {x} THEN "done" ELSE "cancel"]
      BY <2>6 DEF StopCancel
    <3>2. {"cancel", "done"} \subseteq ReaderPhases
      BY DEF ReaderPhases
    <3>3. PICK p \in ReaderPhases : reader' = [reader EXCEPT ![r].todo = @ \ {x}, ![r].phase = p]
      BY <3>1, <3>2
    <3>4. reader[r].todo \ {x} \in SUBSET Ids
      BY <1>3 DEF ReaderType
    <3> QED
      BY <1>3, <3>3, <3>4 DEF ReaderType
  <2>7. CASE Post(r) \/ LetGo(r)
    <3>1. {"wait", "stop"} \subseteq ReaderPhases
      BY DEF ReaderPhases
    <3> QED
      BY <2>2, <2>7, <3>1 DEF Post, LetGo
  <2> QED
    BY <2>1, <2>3, <2>4, <2>5, <2>6, <2>7 DEF ReaderStep
<1> QED
  BY <1>0, <1>2, <1>4, <1>5, <1>6, <1>7 DEF MailTyped

\* The phases the loop turns to are phases of the loop.
LEMMA LoopPhasesAre ==
  {"pop", "process", "update", "decode", "abort", "wait", "ended"} \subseteq LoopPhases
BY DEF LoopPhases

\* What a step of the loop does to its own state.
LEMMA LoopTypes ==
  ASSUME TypeOK, Work, LoopStep
  PROVE  LoopTyped'
<1>0. LoopTyped /\ IdleSlot \in SlotType
  BY TypesAre DEF IdleSlot, SlotType, SlotStates
<1>1. CASE StartLoop \/ UpdateSlots \/ EndUpdate \/ EndWait
  <2>1. UNCHANGED <<terminated, current, slot, releasing>> /\ running' \in {running, TRUE}
        /\ pc' \in {"pop", "decode", "wait"}
    BY <1>1 DEF StartLoop, UpdateSlots, EndUpdate, EndWait
  <2> QED
    BY <1>0, <2>1, LoopPhasesAre DEF LoopTyped
<1>2. CASE PopTask \/ DeferTask \/ RefuseTask \/ RefuseFamily \/ NextTask
  <2>1. UNCHANGED <<running, terminated, slot, releasing>>
        /\ pc' \in {"pop", "ended", "update", "process"}
    BY <1>2 DEF PopTask, DeferTask, RefuseTask, RefuseFamily, NextTask
  <2>2. current' \in Tasks \cup {None}
    <3>1. CASE PopTask
      <4>1. Orderly(queue_tasks)
        BY DEF Work, Framed
      <4> QED
        BY <1>0, <3>1, <4>1, TailOrderly DEF PopTask, LoopTyped
    <3> QED
      BY <1>2, <3>1 DEF DeferTask, RefuseTask, RefuseFamily, NextTask
  <2> QED
    BY <1>0, <2>1, <2>2, LoopPhasesAre DEF LoopTyped
<1>3. CASE LaunchTask
  <2>1. UNCHANGED <<running, terminated, releasing>> /\ pc' = "pop" /\ current' = None
        /\ pc = "process" /\ current.type = "completion"
    BY <1>3 DEF LaunchTask
  <2>2. current.id \in Ids /\ current.child \in Ids \cup {None}
    BY <2>1, CurrentIs DEF Tasks
  <2>3. /\ [state |-> "prompt", id |-> current.id, parent |-> None] \in SlotType
        /\ [state |-> "wait_other", id |-> current.child, parent |-> current.id] \in SlotType
    BY <2>2 DEF SlotType, SlotStates
  <2>4. slot' \in [Slots -> SlotType]
    BY <1>0, <1>3, <2>3 DEF LaunchTask, LoopTyped
  <2> QED
    BY <1>0, <2>1, <2>4, LoopPhasesAre DEF LoopTyped
<1>4. CASE CancelTask
  <2>1. UNCHANGED <<running, terminated, releasing>> /\ pc' = "pop" /\ current' = None
        /\ (slot' = slot \/ \E s \in Slots : slot' = [slot EXCEPT ![s] = IdleSlot])
    BY <1>4 DEF CancelTask
  <2>2. slot' \in [Slots -> SlotType]
    BY <1>0, <2>1 DEF LoopTyped
  <2> QED
    BY <1>0, <2>1, <2>2, LoopPhasesAre DEF LoopTyped
<1>5. CASE ReleaseSlot
  <2>1. UNCHANGED <<running, terminated, pc, current>> /\ releasing' = None
        /\ slot' = [slot EXCEPT ![releasing] = IdleSlot]
    BY <1>5 DEF ReleaseSlot
  <2>2. slot' \in [Slots -> SlotType]
    BY <1>0, <2>1 DEF LoopTyped
  <2> QED
    BY <1>0, <2>1, <2>2 DEF LoopTyped
<1> QED
  BY <1>1, <1>2, <1>3, <1>4, <1>5 DEF LoopStep, Process

\* A step of a slot keeps the types.
LEMMA SlotTypes ==
  ASSUME TypeOK, NEW s \in Slots, SlotStep(s)
  PROVE  LoopTyped'
<1>0. LoopTyped
  BY TypesAre
<1>1. CASE PromptDone(s)
  <2>1. UNCHANGED <<running, terminated, pc, current, releasing>>
    BY <1>1 DEF PromptDone
  <2>2. "generating" \in SlotStates
    BY DEF SlotStates
  <2>3. \A t \in Slots : slot[t] \in SlotType /\ [slot[t] EXCEPT !.state = "generating"] \in SlotType
    BY <1>0, <2>2 DEF LoopTyped, SlotType
  <2>4. slot' \in [Slots -> SlotType]
    BY <1>1, <2>3 DEF PromptDone
  <2> QED
    BY <1>0, <2>1, <2>4 DEF LoopTyped
<1>2. CASE SendPartial(s)
  BY <1>0, <1>2, LoopTypedKept DEF SendPartial
<1>3. CASE SendFinal(s) \/ SendError(s)
  <2>1. UNCHANGED <<running, terminated, current, slot>> /\ releasing' = s
        /\ (pc' = pc \/ pc' \in {"decode", "abort"})
    BY <1>3 DEF SendFinal, SendError
  <2> QED
    BY <1>0, <2>1, LoopPhasesAre DEF LoopTyped
<1> QED
  BY <1>1, <1>2, <1>3 DEF SlotStep

\* What these steps do to results and history.
LEMMA MailTypes ==
  ASSUME TypeOK, Work, LoopStep \/ \E s \in Slots : SlotStep(s)
  PROVE  MailTyped'
<1>0. MailTyped /\ {"partial", "final", "error"} \subseteq ResultKinds
  BY TypesAre DEF ResultKinds
<1>1. CASE UNCHANGED <<results, reader, answered, cancelled_ids>>
  BY <1>0, <1>1, MailTypedKept
<1>2. ASSUME NEW id \in Ids, NEW kind \in ResultKinds, send(id, kind),
             UNCHANGED <<waiting_task_ids, reader, cancelled_ids>>,
             answered' \in {answered, answered \cup {id}}
      PROVE  MailTyped'
  BY <1>0, <1>2, SendTyped DEF MailTyped
<1>3. CASE RefuseTask
  <2>1. pc = "process" /\ current.type = "completion"
    BY <1>3 DEF RefuseTask
  <2>2. PICK id \in {current.id, current.child} \ {None} :
          send(id, "error") /\ answered' = answered \cup {id}
    BY <1>3 DEF RefuseTask
  <2>3. id \in Ids
    BY <2>1, <2>2, CurrentIs
  <2>4. UNCHANGED <<waiting_task_ids, reader, cancelled_ids>>
    BY <1>3 DEF RefuseTask
  <2> QED
    BY <1>0, <1>2, <2>2, <2>3, <2>4
<1>4. CASE RefuseFamily
  <2>1. /\ pc = "process" /\ current.type = "completion" /\ send(current.id, "error")
        /\ answered' = answered \cup {current.id}
        /\ UNCHANGED <<waiting_task_ids, reader, cancelled_ids>>
    BY <1>4 DEF RefuseFamily
  <2>2. current.id \in Ids
    BY <2>1, CurrentIs
  <2> QED
    BY <1>0, <1>2, <2>1, <2>2
<1>5. ASSUME NEW s \in Slots, SendPartial(s) \/ SendFinal(s) \/ SendError(s)
      PROVE  MailTyped'
  <2>1. slot[s].state # "idle"
    BY <1>5 DEF SendPartial, SendFinal, SendError, IsProcessing
  <2>2. slot[s].id \in Ids
    BY <2>1 DEF Work, Framed, TypeOK
  <2>3. /\ \E kind \in {"partial", "final", "error"} : send(slot[s].id, kind)
        /\ UNCHANGED <<waiting_task_ids, reader, cancelled_ids>>
        /\ answered' \in {answered, answered \cup {slot[s].id}}
    BY <1>5 DEF SendPartial, SendFinal, SendError
  <2> QED
    BY <1>0, <1>2, <2>2, <2>3
<1>6. CASE CancelTask
  <2>1. current # None /\ current \in Tasks /\ WellFormed(current) /\ current.type = "cancel"
    BY <1>6 DEF CancelTask, Work, Framed, TypeOK
  <2>2. current.id \in Ids
    BY <2>1 DEF WellFormed
  <2>3. UNCHANGED <<results, reader, answered>> /\ cancelled_ids' = cancelled_ids \cup {current.id}
    BY <1>6 DEF CancelTask
  <2> QED
    BY <1>0, <2>2, <2>3 DEF MailTyped, results
<1>7. CASE \/ StartLoop \/ PopTask \/ DeferTask \/ LaunchTask \/ NextTask \/ UpdateSlots
           \/ ReleaseSlot \/ EndUpdate \/ EndWait \/ \E s \in Slots : PromptDone(s)
  BY <1>1, <1>7 DEF StartLoop, PopTask, DeferTask, LaunchTask, NextTask, UpdateSlots,
     ReleaseSlot, EndUpdate, EndWait, PromptDone
<1> QED
  BY <1>3, <1>4, <1>5, <1>6, <1>7 DEF LoopStep, Process, SlotStep

\* Every step keeps the types.
THEOREM TypeInv ==
  ASSUME IInv, [Next]_vars
  PROVE  TypeOK'
<1>1. TypeOK /\ Work /\ Mail /\ LoopTyped /\ MailTyped
  BY TypesAre DEF IInv
<1>2. queue_tasks' \in Seq(Tasks) /\ queue_tasks_deferred' \in Seq(Tasks)
  BY <1>1, WorkInv DEF Work, Framed, Orderly
<1>3. LoopTyped' /\ MailTyped'
  <2>1. CASE UNCHANGED vars
    <3>1. /\ UNCHANGED <<running, terminated, loop>>
          /\ UNCHANGED <<results, reader, answered, cancelled_ids>>
      BY <2>1 DEF vars
    <3> QED
      BY <1>1, <3>1, LoopTypedKept, MailTypedKept
  <2>2. ASSUME NEW r \in Readers, ReaderStep(r) PROVE LoopTyped' /\ MailTyped'
    BY <1>1, <2>2, ReaderTyped DEF Mail
  <2>3. CASE LoopStep
    BY <1>1, <2>3, LoopTypes, MailTypes
  <2>4. ASSUME NEW s \in Slots, SlotStep(s) PROVE LoopTyped' /\ MailTyped'
    BY <1>1, <2>4, SlotTypes, MailTypes
  <2>5. CASE Terminate
    <3>1. /\ UNCHANGED loop /\ running' = FALSE /\ terminated' = TRUE
          /\ UNCHANGED <<results, reader, answered, cancelled_ids>>
      BY <2>5 DEF Terminate
    <3> QED
      BY <1>1, <3>1, MailTypedKept DEF LoopTyped, loop
  <2> QED
    BY <2>1, <2>2, <2>3, <2>4, <2>5 DEF Next
<1>4. TypeOK' <=> /\ queue_tasks' \in Seq(Tasks) /\ queue_tasks_deferred' \in Seq(Tasks)
                  /\ LoopTyped' /\ MailTyped'
  BY DEF TypeOK, LoopTyped, MailTyped, ReaderType, SlotType, ResultType
<1> QED
  BY <1>2, <1>3, <1>4

-----------------------------------------------------------------------------
(***************************************************************************)
(* Results and counts                                                      *)
(***************************************************************************)

\* What the results in the queue are, index by index.
LEMMA ResultsAre ==
  ASSUME TypeOK
  PROVE  /\ queue_results \in Seq(ResultType) /\ Len(queue_results) \in Nat
         /\ DOMAIN queue_results = 1 .. Len(queue_results)
         /\ \A i \in DOMAIN queue_results :
              queue_results[i].id \in Ids /\ queue_results[i].kind \in ResultKinds
<1>1. queue_results \in Seq(ResultType)
  BY DEF TypeOK, ResultType
<1>2. Len(queue_results) \in Nat /\ DOMAIN queue_results = 1 .. Len(queue_results)
  BY <1>1, LenProperties
<1>3. \A i \in DOMAIN queue_results : queue_results[i] \in ResultType
  BY <1>1, <1>2, ElementOfSeq
<1> QED
  BY <1>1, <1>2, <1>3 DEF ResultType

\* What a reader counts is finite.
LEMMA ReadersAre ==
  ASSUME TypeOK, Mail, NEW r \in Readers
  PROVE  /\ IsFiniteSet(reader[r].ids) \/ reader[r].phase = "new"
         /\ reader[r].received_count \in Nat
         /\ reader[r].phase # "new" =>
              /\ \A id \in reader[r].ids : id \in Ids /\ id[1] = r
              /\ Cardinality(reader[r].ids) \in Nat
              /\ IsFiniteSet(Outstanding(r)) /\ Cardinality(Outstanding(r)) \in Nat
              /\ Cardinality(Outstanding(r)) <= Cardinality(reader[r].ids)
<1>1. reader[r].received_count \in 0 .. 2
  BY DEF TypeOK
<1>2. CASE reader[r].phase # "new"
  <2>0. reader[r].ids = IdsOf(r, reader[r].shape)
    BY <1>2 DEF Mail, ReaderFits, Phased
  <2>1. /\ IsFiniteSet(reader[r].ids) /\ Cardinality(reader[r].ids) \in 0 .. 2
        /\ \A id \in reader[r].ids : id \in Ids /\ id[1] = r
    <3>1. PICK shape : shape = reader[r].shape
      OBVIOUS
    <3>2. /\ IdsOf(r, shape) \subseteq Ids /\ \A id \in IdsOf(r, shape) : id[1] = r
          /\ IsFiniteSet(IdsOf(r, shape)) /\ Cardinality(IdsOf(r, shape)) \in 0 .. 2
      BY IdsOfAre
    <3>3. reader[r].ids = IdsOf(r, shape)
      BY <2>0, <3>1
    <3> QED
      BY <3>2, <3>3
  <2>2. Outstanding(r) \in SUBSET reader[r].ids
    BY DEF Outstanding
  <2>3. IsFiniteSet(Outstanding(r)) /\ Cardinality(Outstanding(r)) <= Cardinality(reader[r].ids)
    BY <2>1, <2>2, FS_Subset
  <2>4. Cardinality(Outstanding(r)) \in Nat
    BY <2>3, FS_CardinalityType
  <2> QED
    BY <1>1, <2>1, <2>3, <2>4
<1>3. CASE reader[r].phase = "new"
  BY <1>1, <1>3
<1> QED
  BY <1>2, <1>3

\* A reader that does not step and whose tasks are as far as before.
LEMMA ReaderFitsKept ==
  ASSUME NEW r \in Readers, ReaderFits(r), reader'[r] = reader[r], answered \subseteq answered',
         Open(r) => \A id \in reader[r].ids : Out(id)' <=> Out(id)
  PROVE  ReaderFits(r)'
<1>1. /\ (Phased(r)' <=> Phased(r)) /\ (Open(r)' <=> Open(r)) /\ (Finished(r)' <=> Finished(r))
      /\ Open(r) => Outstanding(r)' = Outstanding(r)
  BY DEF Phased, Open, Finished, Outstanding
<1>2. Open(r) => (Counts(r)' <=> Counts(r))
  BY <1>1 DEF Counts
<1> QED
  BY <1>1, <1>2 DEF ReaderFits

\* Results and answers that are left alone mean the same as before.
LEMMA OutKept ==
  ASSUME UNCHANGED <<queue_results, answered>>
  PROVE  /\ \A id : (Out(id)' <=> Out(id)) /\ (LastQueued(id)' <=> LastQueued(id))
         /\ \A i : (IsLast(i)' <=> IsLast(i)) /\ (Followed(i)' <=> Followed(i))
         /\ LastOnce' <=> LastOnce
BY DEF Out, LastQueued, IsLast, Followed, LastOnce

\* A result still has somebody to take it, or to purge it.
LEMMA ResultFitsKept ==
  ASSUME UNCHANGED <<queue_results, answered>>, NEW i, ResultFits(i),
         NEW id, queue_results[i].id = id,
         id \in Owner(id)'.ids, Reached(id[1])', Open(id[1])' => Open(id[1])
  PROVE  ResultFits(i)'
<1>1. (IsLast(i)' <=> IsLast(i)) /\ (Followed(i)' <=> Followed(i))
  BY OutKept
<1>2. /\ IsLast(i) => id \in answered
      /\ ~IsLast(i) /\ Open(id[1]) /\ id \in answered => Followed(i)
  BY DEF ResultFits
<1>3. queue_results'[i].id = id
  OBVIOUS
<1> QED
  BY <1>1, <1>2, <1>3 DEF ResultFits

\* Results, readers and answers that are left alone.
LEMMA MailKept ==
  ASSUME Mail, UNCHANGED <<results, reader, answered>>
  PROVE  Mail'
<1>1. /\ waiting_task_ids' = waiting_task_ids /\ queue_results' = queue_results
      /\ reader' = reader /\ answered' = answered
  BY DEF results
<1>2. /\ \A r : (Open(r)' <=> Open(r)) /\ (Listed(r)' <=> Listed(r)) /\ (Reached(r)' <=> Reached(r))
      /\ \A id : Owner(id)' = Owner(id)
  BY <1>1 DEF Open, Listed, Reached, Owner
<1>3. WaitsFit'
  BY <1>1, <1>2 DEF Mail, WaitsFit
<1>4. \A r \in Readers : ReaderFits(r)'
  BY <1>1, OutKept, ReaderFitsKept DEF Mail
<1>5. ASSUME NEW i \in DOMAIN queue_results PROVE ResultFits(i)'
  <2>1. ResultFits(i)
    BY DEF Mail
  <2>2. PICK id : queue_results[i].id = id
    OBVIOUS
  <2>3. id \in Owner(id).ids /\ Reached(id[1])
    BY <2>1, <2>2 DEF ResultFits
  <2> QED
    BY <1>1, <1>2, <2>1, <2>2, <2>3, ResultFitsKept
<1> QED
  BY <1>1, <1>3, <1>4, <1>5, OutKept DEF Mail

\* A reader steps; results and answers stay.  Its own part is left to show.
LEMMA MailOfReader ==
  ASSUME TypeOK, Mail, NEW r \in Readers, UNCHANGED <<queue_results, answered>>,
         \A x \in Readers \ {r} : reader'[x] = reader[x],
         WaitsFit', ReaderFits(r)',
         \A i \in DOMAIN queue_results : queue_results[i].id[1] = r =>
            /\ reader'[r].ids = reader[r].ids /\ Reached(r)' /\ (Open(r)' => Open(r))
  PROVE  Mail'
<1>1. ASSUME NEW x \in Readers PROVE ReaderFits(x)'
  <2>1. CASE x = r
    BY <2>1
  <2>2. CASE x # r
    <3>1. reader'[x] = reader[x] /\ ReaderFits(x)
      BY <2>2 DEF Mail
    <3> QED
      BY <3>1, OutKept, ReaderFitsKept
  <2> QED
    BY <2>1, <2>2
<1>2. ASSUME NEW i \in DOMAIN queue_results PROVE ResultFits(i)'
  <2>1. PICK id \in Ids : queue_results[i].id = id
    BY ResultsAre
  <2>2. id[1] \in Readers /\ ResultFits(i)
    BY IdsAre DEF Mail
  <2>3. id \in Owner(id).ids /\ Reached(id[1])
    BY <2>1, <2>2 DEF ResultFits
  <2>4. id \in Owner(id)'.ids /\ Reached(id[1])' /\ (Open(id[1])' => Open(id[1]))
    <3>1. CASE id[1] = r
      BY <2>1, <2>3, <3>1 DEF Owner
    <3>2. CASE id[1] # r
      <4>1. reader'[id[1]] = reader[id[1]]
        BY <2>2, <3>2
      <4> QED
        BY <2>3, <4>1 DEF Owner, Reached, Open
    <3> QED
      BY <3>1, <3>2
  <2> QED
    BY <2>1, <2>2, <2>4, ResultFitsKept
<1> QED
  BY <1>1, <1>2, OutKept DEF Mail

\* A reader that nobody has sent a result to yet.
LEMMA NoResultsYet ==
  ASSUME TypeOK, Mail, NEW r \in Readers, ~Reached(r), NEW i \in DOMAIN queue_results
  PROVE  queue_results[i].id[1] # r
BY DEF Mail, ResultFits

\* A reader begins to wait for ids nobody has answered.
LEMMA MailAddWaiting ==
  ASSUME TypeOK, Mail, NEW r \in Readers, AddWaiting(r)
  PROVE  Mail'
<1>1. PICK shape \in Shapes :
        /\ reader' = [reader EXCEPT ![r].phase = "post", ![r].shape = shape,
                                    ![r].ids = IdsOf(r, shape)]
        /\ waiting_task_ids' = waiting_task_ids \cup IdsOf(r, shape)
  BY QueueAssumption DEF AddWaiting
<1>2. UNCHANGED <<queue_results, answered>> /\ reader[r].phase = "new"
  BY DEF AddWaiting
<1>3. /\ reader'[r].phase = "post" /\ reader'[r].shape = shape /\ reader'[r].ids = IdsOf(r, shape)
      /\ reader'[r].cancelled = reader[r].cancelled
      /\ reader'[r].received_count = reader[r].received_count
      /\ \A x \in Readers \ {r} : reader'[x] = reader[x]
  BY <1>1 DEF TypeOK
<1>4. /\ ~Reached(r) /\ ~Listed(r) /\ ~Open(r)' /\ Listed(r)' /\ ~Finished(r)'
  BY <1>2, <1>3 DEF Reached, Listed, Open, Finished
<1>5. Phased(r)'
  BY <1>2, <1>3 DEF Mail, ReaderFits, Phased
<1>6. ReaderFits(r)'
  BY <1>4, <1>5 DEF ReaderFits
<1>7. WaitsFit'
  <2>1. ASSUME NEW id \in Ids
        PROVE  id \in waiting_task_ids' <=> id \in Owner(id)'.ids /\ Listed(id[1])'
    <3>1. id \in waiting_task_ids <=> id \in Owner(id).ids /\ Listed(id[1])
      BY DEF Mail, WaitsFit
    <3>2. id[1] \in Readers /\ (id \in IdsOf(r, shape) => id[1] = r)
      BY IdsAre, IdsOfAre
    <3>3. CASE id[1] = r
      BY <1>1, <1>3, <1>4, <3>1, <3>3 DEF Owner
    <3>4. CASE id[1] # r
      <4>1. reader'[id[1]] = reader[id[1]]
        BY <1>3, <3>2, <3>4
      <4> QED
        BY <1>1, <3>1, <3>2, <3>4, <4>1 DEF Owner, Listed
    <3> QED
      BY <3>3, <3>4
  <2> QED
    BY <2>1 DEF WaitsFit
<1> QED
  BY <1>2, <1>3, <1>4, <1>6, <1>7, NoResultsYet, MailOfReader

\* The phase of a reader changes and its ids stay on, or off, the waiting list.
LEMMA WaitsFitKept ==
  ASSUME TypeOK, Mail, NEW r \in Readers, waiting_task_ids' = waiting_task_ids,
         \A x \in Readers \ {r} : reader'[x] = reader[x],
         reader'[r].ids = reader[r].ids, Listed(r)' <=> Listed(r)
  PROVE  WaitsFit'
<1>1. ASSUME NEW id \in Ids
      PROVE  id \in waiting_task_ids' <=> id \in Owner(id)'.ids /\ Listed(id[1])'
  <2>1. id \in waiting_task_ids <=> id \in Owner(id).ids /\ Listed(id[1])
    BY DEF Mail, WaitsFit
  <2>2. CASE id[1] = r
    BY <2>1, <2>2 DEF Owner
  <2>3. CASE id[1] # r
    <3>1. reader'[id[1]] = reader[id[1]]
      BY <2>3, IdsAre
    <3> QED
      BY <2>1, <3>1 DEF Owner, Listed
  <2> QED
    BY <2>2, <2>3
<1> QED
  BY <1>1 DEF WaitsFit

\* A reader posts: nothing of it has been answered.
LEMMA MailPost ==
  ASSUME TypeOK, Mail, NEW r \in Readers, Post(r)
  PROVE  Mail'
<1>1. /\ UNCHANGED <<queue_results, answered, waiting_task_ids>> /\ reader[r].phase = "post"
      /\ reader' = [reader EXCEPT ![r].phase = "wait"]
  BY DEF Post, results
<1>2. /\ reader'[r].phase = "wait" /\ reader'[r].shape = reader[r].shape
      /\ reader'[r].ids = reader[r].ids /\ reader'[r].cancelled = reader[r].cancelled
      /\ reader'[r].received_count = reader[r].received_count
      /\ \A x \in Readers \ {r} : reader'[x] = reader[x]
  BY <1>1 DEF TypeOK
<1>3. ~Reached(r) /\ Listed(r) /\ Open(r)' /\ Listed(r)' /\ ~Finished(r)'
  BY <1>1, <1>2 DEF Reached, Listed, Open, Finished
<1>4. Phased(r)' /\ reader[r].received_count = 0
  BY <1>1, <1>2 DEF Mail, ReaderFits, Phased
<1>5. Counts(r)'
  <2>1. Outstanding(r)' = Outstanding(r)
    BY <1>1, <1>2, OutKept DEF Outstanding
  <2>2. /\ Cardinality(reader[r].ids) \in Nat /\ Cardinality(Outstanding(r)) \in Nat
        /\ Cardinality(Outstanding(r)) <= Cardinality(reader[r].ids)
    BY <1>1, ReadersAre
  <2> QED
    BY <1>2, <1>4, <2>1, <2>2 DEF Counts
<1>6. ReaderFits(r)'
  BY <1>3, <1>4, <1>5 DEF ReaderFits
<1>7. WaitsFit'
  BY <1>1, <1>2, <1>3, WaitsFitKept
<1> QED
  BY <1>1, <1>2, <1>3, <1>6, <1>7, NoResultsYet, MailOfReader

\* A reader that has everything, or no patience, turns to stop.
LEMMA MailLetGo ==
  ASSUME TypeOK, Mail, NEW r \in Readers, LetGo(r)
  PROVE  Mail'
<1>1. /\ UNCHANGED <<queue_results, answered, waiting_task_ids>> /\ reader[r].phase = "wait"
      /\ reader' = [reader EXCEPT ![r].phase = "stop"]
  BY DEF LetGo, results
<1>2. /\ reader'[r].phase = "stop" /\ reader'[r].shape = reader[r].shape
      /\ reader'[r].ids = reader[r].ids /\ reader'[r].cancelled = reader[r].cancelled
      /\ reader'[r].received_count = reader[r].received_count
      /\ \A x \in Readers \ {r} : reader'[x] = reader[x]
  BY <1>1 DEF TypeOK
<1>3. Reached(r)' /\ Open(r) /\ Listed(r) /\ Listed(r)' /\ ~Finished(r)'
  BY <1>1, <1>2 DEF Reached, Listed, Open, Finished
<1>4. Phased(r)'
  BY <1>1, <1>2 DEF Mail, ReaderFits, Phased
<1>5. Counts(r)'
  <2>1. Outstanding(r)' = Outstanding(r)
    BY <1>1, <1>2, OutKept DEF Outstanding
  <2>2. Counts(r)
    BY <1>3 DEF Mail, ReaderFits
  <2> QED
    BY <1>2, <2>1, <2>2 DEF Counts
<1>6. ReaderFits(r)'
  BY <1>3, <1>4, <1>5 DEF ReaderFits
<1>7. WaitsFit'
  BY <1>1, <1>2, <1>3, WaitsFitKept
<1> QED
  BY <1>1, <1>2, <1>3, <1>6, <1>7, MailOfReader

\* A reader that gave up posts its CANCELs.
LEMMA MailStopCancel ==
  ASSUME TypeOK, Mail, NEW r \in Readers, StopCancel(r)
  PROVE  Mail'
<1>1. UNCHANGED <<queue_results, answered, waiting_task_ids>> /\ reader[r].phase = "cancel"
  BY DEF StopCancel, results
<1>2. /\ reader'[r].phase \in {"cancel", "done"} /\ reader'[r].shape = reader[r].shape
      /\ reader'[r].ids = reader[r].ids /\ reader'[r].cancelled = reader[r].cancelled
      /\ \A x \in Readers \ {r} : reader'[x] = reader[x]
  BY DEF StopCancel, TypeOK
<1>3. reader[r].cancelled /\ Phased(r)
  BY <1>1 DEF Mail, ReaderFits, Phased
<1>4. ~Reached(r) /\ ~Open(r)' /\ ~Listed(r) /\ ~Listed(r)' /\ ~Finished(r)'
  BY <1>1, <1>2, <1>3 DEF Reached, Listed, Open, Finished
<1>5. Phased(r)'
  BY <1>1, <1>2, <1>3 DEF Phased
<1>6. ReaderFits(r)'
  BY <1>4, <1>5 DEF ReaderFits
<1>7. WaitsFit'
  BY <1>1, <1>2, <1>4, WaitsFitKept
<1> QED
  BY <1>1, <1>2, <1>4, <1>6, <1>7, NoResultsYet, MailOfReader

\* A reader that counts itself finished has no task out: nothing is queued for it.
LEMMA NothingOut ==
  ASSUME TypeOK, Mail, NEW r \in Readers, Open(r), ~HasNext(r)
  PROVE  /\ reader[r].ids \subseteq answered
         /\ \A i \in DOMAIN queue_results : queue_results[i].id[1] # r
<1>1. ~reader[r].cancelled /\ Counts(r) /\ reader[r].phase # "new"
  BY DEF Mail, ReaderFits, Phased, Open
<1>2. /\ reader[r].received_count \in Nat /\ Cardinality(reader[r].ids) \in Nat
      /\ IsFiniteSet(Outstanding(r)) /\ Cardinality(Outstanding(r)) \in Nat
  BY <1>1, ReadersAre
<1>3. reader[r].received_count >= Cardinality(reader[r].ids)
  BY <1>1, <1>2 DEF HasNext
<1>4. Cardinality(Outstanding(r)) = 0
  BY <1>1, <1>2, <1>3 DEF Counts
<1>5. Outstanding(r) = {}
  BY <1>2, <1>4, FS_EmptySet
<1>6. \A id \in reader[r].ids : id \in answered /\ ~LastQueued(id)
  BY <1>5 DEF Outstanding, Out
<1>7. ASSUME NEW i \in DOMAIN queue_results, queue_results[i].id[1] = r
      PROVE  FALSE
  <2>1. PICK id : id = queue_results[i].id
    OBVIOUS
  <2>2. /\ id \in reader[r].ids
        /\ ~IsLast(i) /\ id \in answered => Followed(i)
    BY <1>7, <2>1 DEF Mail, ResultFits, Owner
  <2>3. IsLast(i) \/ Followed(i) => LastQueued(id)
    BY <2>1 DEF LastQueued, Followed
  <2> QED
    BY <1>6, <2>2, <2>3
<1> QED
  BY <1>6, <1>7

\* The reader no longer waits for its ids; it is done, or has to purge.
LEMMA MailStopUnwait ==
  ASSUME TypeOK, Mail, NEW r \in Readers, StopUnwait(r)
  PROVE  Mail'
<1>1. /\ UNCHANGED <<queue_results, answered>> /\ reader[r].phase = "stop"
      /\ waiting_task_ids' = waiting_task_ids \ reader[r].ids
  BY DEF StopUnwait
<1>2. /\ reader'[r].shape = reader[r].shape /\ reader'[r].ids = reader[r].ids
      /\ HasNext(r) => reader'[r].phase = "purge" /\ reader'[r].cancelled = TRUE
      /\ ~HasNext(r) => reader'[r].phase = "done" /\ reader'[r].cancelled = reader[r].cancelled
      /\ \A x \in Readers \ {r} : reader'[x] = reader[x]
  BY DEF StopUnwait, TypeOK
<1>3. Open(r) /\ ~Open(r)' /\ ~Listed(r)' /\ (HasNext(r) => Reached(r)' /\ ~Finished(r)')
  BY <1>1, <1>2 DEF Reached, Listed, Open, Finished
<1>4. Phased(r)'
  BY <1>1, <1>2 DEF Mail, ReaderFits, Phased
<1>5. ~HasNext(r) => /\ reader[r].ids \subseteq answered
                     /\ \A i \in DOMAIN queue_results : queue_results[i].id[1] # r
  BY <1>3, NothingOut
<1>6. ReaderFits(r)'
  BY <1>1, <1>2, <1>3, <1>4, <1>5 DEF ReaderFits
<1>7. WaitsFit'
  <2>1. ASSUME NEW id \in Ids
        PROVE  id \in waiting_task_ids' <=> id \in Owner(id)'.ids /\ Listed(id[1])'
    <3>1. id \in waiting_task_ids <=> id \in Owner(id).ids /\ Listed(id[1])
      BY DEF Mail, WaitsFit
    <3>2. \A x \in reader[r].ids : x[1] = r
      BY <1>1, ReadersAre
    <3>3. CASE id[1] = r
      BY <1>1, <1>2, <1>3, <3>1, <3>3 DEF Owner
    <3>4. CASE id[1] # r
      <4>1. reader'[id[1]] = reader[id[1]]
        BY <1>2, <3>4, IdsAre
      <4> QED
        BY <1>1, <3>1, <3>2, <3>4, <4>1 DEF Owner, Listed
    <3> QED
      BY <3>3, <3>4
  <2> QED
    BY <2>1 DEF WaitsFit
<1> QED
  BY <1>1, <1>2, <1>3, <1>5, <1>6, <1>7, MailOfReader

\* A result is taken out of the queue: the others keep their order.
LEMMA DropResult ==
  ASSUME TypeOK, NEW i \in 1 .. Len(queue_results), queue_results' = DropAt(queue_results, i)
  PROVE  /\ i \in DOMAIN queue_results
         /\ \A j \in DOMAIN queue_results' : \E k \in DOMAIN queue_results :
              /\ k # i /\ queue_results'[j] = queue_results[k]
              /\ IsLast(j)' <=> IsLast(k)
              /\ j = IF k < i THEN k ELSE k - 1
         /\ \A k \in DOMAIN queue_results : k # i => \E j \in DOMAIN queue_results' :
              /\ queue_results'[j] = queue_results[k]
              /\ IsLast(j)' <=> IsLast(k)
              /\ j = IF k < i THEN k ELSE k - 1
<1>1. queue_results \in Seq(ResultType) /\ i \in DOMAIN queue_results
  BY ResultsAre
<1>2. /\ \A j \in DOMAIN queue_results' : \E k \in DOMAIN queue_results :
           /\ k # i /\ queue_results'[j] = queue_results[k]
           /\ j = IF k < i THEN k ELSE k - 1
      /\ \A k \in DOMAIN queue_results : k # i => \E j \in DOMAIN queue_results' :
           /\ queue_results'[j] = queue_results[k]
           /\ j = IF k < i THEN k ELSE k - 1
  BY <1>1, DropAtHas
<1>3. \A j \in DOMAIN queue_results' : \A k \in DOMAIN queue_results :
        queue_results'[j] = queue_results[k] => (IsLast(j)' <=> IsLast(k))
  BY DEF IsLast
<1> QED
  BY <1>1, <1>2, <1>3

\* Order is kept when an element is dropped.
LEMMA DropOrder ==
  ASSUME NEW i \in Nat, NEW k \in Nat, NEW m \in Nat, k # i, m # i, m > k,
         NEW j, j = IF k < i THEN k ELSE k - 1,
         NEW n, n = IF m < i THEN m ELSE m - 1
  PROVE  n > j
OBVIOUS

\* A result is taken out of the queue, by its reader or by a purge.
LEMMA MailDrops ==
  ASSUME TypeOK, Mail, NEW i \in 1 .. Len(queue_results),
         queue_results' = DropAt(queue_results, i), answered' = answered,
         \A r \in Readers : reader'[r].ids = reader[r].ids /\ (Open(r)' => Open(r)),
         \A id \in Ids : \A k \in DOMAIN queue_results :
           k # i /\ queue_results[k].id = id => Reached(id[1])',
         \A id \in Ids : \A k \in DOMAIN queue_results :
           k < i /\ queue_results[k].id = id /\ queue_results[i].id = id => ~Open(id[1])'
  PROVE  /\ \A j \in DOMAIN queue_results' : ResultFits(j)'
         /\ LastOnce'
         /\ \A id : LastQueued(id)' <=>
              \E k \in DOMAIN queue_results : k # i /\ IsLast(k) /\ queue_results[k].id = id
<1>1. /\ i \in DOMAIN queue_results
      /\ \A j \in DOMAIN queue_results' : \E k \in DOMAIN queue_results :
           /\ k # i /\ queue_results'[j] = queue_results[k] /\ (IsLast(j)' <=> IsLast(k))
           /\ j = IF k < i THEN k ELSE k - 1
      /\ \A k \in DOMAIN queue_results : k # i => \E j \in DOMAIN queue_results' :
           /\ queue_results'[j] = queue_results[k] /\ (IsLast(j)' <=> IsLast(k))
           /\ j = IF k < i THEN k ELSE k - 1
  BY DropResult
<1>2. \A k \in DOMAIN queue_results : k \in Nat /\ queue_results[k].id \in Ids
  BY ResultsAre
<1>3. \A id : LastQueued(id)' <=>
        \E k \in DOMAIN queue_results : k # i /\ IsLast(k) /\ queue_results[k].id = id
  BY <1>1 DEF LastQueued
<1>4. LastOnce'
  <2>1. ASSUME NEW a \in DOMAIN queue_results', NEW b \in DOMAIN queue_results',
               IsLast(a)', IsLast(b)', queue_results'[a].id = queue_results'[b].id
        PROVE  a = b
    <3>1. PICK k \in DOMAIN queue_results :
            /\ queue_results'[a] = queue_results[k] /\ (IsLast(a)' <=> IsLast(k))
            /\ a = IF k < i THEN k ELSE k - 1
      BY <1>1
    <3>2. PICK m \in DOMAIN queue_results :
            /\ queue_results'[b] = queue_results[m] /\ (IsLast(b)' <=> IsLast(m))
            /\ b = IF m < i THEN m ELSE m - 1
      BY <1>1
    <3>3. k = m
      BY <2>1, <3>1, <3>2 DEF Mail, LastOnce
    <3> QED
      BY <3>1, <3>2, <3>3
  <2> QED
    BY <2>1 DEF LastOnce
<1>5. ASSUME NEW j \in DOMAIN queue_results' PROVE ResultFits(j)'
  <2>1. PICK k \in DOMAIN queue_results :
          /\ k # i /\ queue_results'[j] = queue_results[k] /\ (IsLast(j)' <=> IsLast(k))
          /\ j = IF k < i THEN k ELSE k - 1
    BY <1>1
  <2>2. PICK id \in Ids : id = queue_results[k].id
    BY <1>2
  <2>3. /\ id[1] \in Readers /\ id \in reader[id[1]].ids
        /\ IsLast(k) => id \in answered
        /\ ~IsLast(k) /\ Open(id[1]) /\ id \in answered => Followed(k)
    BY <2>2, IdsAre DEF Mail, ResultFits, Owner
  <2>4. id \in reader'[id[1]].ids /\ Reached(id[1])' /\ (Open(id[1])' => Open(id[1]))
    BY <2>1, <2>2, <2>3
  <2>5. ASSUME ~IsLast(k), Open(id[1])', id \in answered
        PROVE  Followed(j)'
    <3>1. PICK m \in DOMAIN queue_results : m > k /\ IsLast(m) /\ queue_results[m].id = id
      BY <2>2, <2>3, <2>4, <2>5 DEF Followed
    <3>2. m # i
      <4>1. k < m
        BY <1>2, <3>1
      <4> QED
        BY <2>2, <2>5, <3>1, <4>1
    <3>3. PICK n \in DOMAIN queue_results' :
            /\ queue_results'[n] = queue_results[m] /\ (IsLast(n)' <=> IsLast(m))
            /\ n = IF m < i THEN m ELSE m - 1
      BY <1>1, <3>2
    <3>4. n > j
      BY <1>1, <1>2, <2>1, <3>1, <3>2, <3>3, DropOrder
    <3>5. IsLast(n)' /\ queue_results'[n].id = queue_results'[j].id
      BY <2>1, <2>2, <3>1, <3>3
    <3> QED
      BY <3>4, <3>5 DEF Followed
  <2>6. queue_results'[j].id = id
    BY <2>1, <2>2
  <2> QED
    BY <2>1, <2>3, <2>4, <2>5, <2>6 DEF ResultFits, Owner
<1> QED
  BY <1>3, <1>4, <1>5

\* The purge leaves no result of the reader.
LEMMA MailStopPurge ==
  ASSUME TypeOK, Mail, NEW r \in Readers, StopPurge(r)
  PROVE  Mail'
<1>1. UNCHANGED <<answered, waiting_task_ids>> /\ reader[r].phase = "purge"
  BY DEF StopPurge
<1>2. ~Open(r) /\ ~Listed(r) /\ Phased(r) /\ reader[r].cancelled
  BY <1>1 DEF Open, Listed, Mail, ReaderFits, Phased
<1>3. \A i \in DOMAIN queue_results : queue_results[i].id \in Ids
        /\ queue_results[i].id \in reader[queue_results[i].id[1]].ids
  BY ResultsAre DEF Mail, ResultFits, Owner
<1>4. CASE /\ {i \in DOMAIN queue_results : queue_results[i].id \in reader[r].ids} = {}
           /\ reader' = [reader EXCEPT ![r].phase = "cancel"] /\ queue_results' = queue_results
  <2>1. /\ reader'[r].phase = "cancel" /\ reader'[r].shape = reader[r].shape
        /\ reader'[r].ids = reader[r].ids /\ reader'[r].cancelled = reader[r].cancelled
        /\ \A x \in Readers \ {r} : reader'[x] = reader[x]
    BY <1>4 DEF TypeOK
  <2>2. ~Open(r)' /\ ~Listed(r)' /\ ~Finished(r)' /\ Phased(r)'
    BY <1>1, <1>2, <2>1 DEF Open, Listed, Finished, Phased
  <2>3. ReaderFits(r)'
    BY <2>2 DEF ReaderFits
  <2>4. WaitsFit'
    BY <1>1, <1>2, <2>1, <2>2, WaitsFitKept
  <2>5. \A i \in DOMAIN queue_results : queue_results[i].id[1] # r
    BY <1>3, <1>4
  <2> QED
    BY <1>1, <1>4, <2>1, <2>3, <2>4, <2>5, MailOfReader
<1>5. ASSUME NEW i \in DOMAIN queue_results, queue_results[i].id \in reader[r].ids,
             queue_results' = DropAt(queue_results, i), reader' = reader
      PROVE  Mail'
  <2>1. i \in 1 .. Len(queue_results)
    BY ResultsAre
  <2>2. \A x : (Open(x)' <=> Open(x)) /\ (Reached(x)' <=> Reached(x)) /\ (Listed(x)' <=> Listed(x))
    BY <1>5 DEF Open, Reached, Listed
  <2>3. \A k \in DOMAIN queue_results : Reached(queue_results[k].id[1])
    BY DEF Mail, ResultFits
  <2>4. \A x \in reader[r].ids : x[1] = r
    BY <1>1, ReadersAre
  <2>5. \A id \in Ids : queue_results[i].id = id => ~Open(id[1])'
    BY <1>2, <1>5, <2>2, <2>4
  <2>7. \A id \in Ids : \A k \in DOMAIN queue_results :
          queue_results[k].id = id => Reached(id[1])'
    BY <2>2, <2>3
  <2>8. /\ \A j \in DOMAIN queue_results' : ResultFits(j)'
        /\ LastOnce'
        /\ \A id : LastQueued(id)' <=>
             \E k \in DOMAIN queue_results : k # i /\ IsLast(k) /\ queue_results[k].id = id
    <3>1. \A x \in Readers : reader'[x].ids = reader[x].ids /\ (Open(x)' => Open(x))
      BY <1>5, <2>2
    <3> QED
      BY <1>1, <1>5, <2>1, <2>5, <2>7, <3>1, MailDrops
  <2>9. ASSUME NEW x \in Readers PROVE ReaderFits(x)'
    <3>1. ASSUME Open(x), NEW id \in reader[x].ids PROVE Out(id)' <=> Out(id)
      <4>1. id[1] = x /\ x # r
        BY <1>2, <3>1, ReadersAre DEF Open
      <4>2. queue_results[i].id # id
        BY <1>5, <2>4, <4>1
      <4>3. LastQueued(id)' <=> LastQueued(id)
        BY <2>8, <4>2 DEF LastQueued
      <4> QED
        BY <1>1, <4>3 DEF Out
    <3> QED
      BY <1>1, <1>5, <3>1, ReaderFitsKept DEF Mail
  <2>10. WaitsFit'
    BY <1>1, <1>5, <2>2 DEF Mail, WaitsFit, Owner
  <2> QED
    BY <2>8, <2>9, <2>10 DEF Mail
<1> QED
  BY <1>4, <1>5 DEF StopPurge

\* One more of the first kind and one less of the second.
LEMMA OneMore ==
  ASSUME NEW a \in Nat, NEW b \in Nat, NEW n, a + b <= n, NEW c, c = b - 1,
         NEW d \in Nat, d <= a + 1, n \in Nat
  PROVE  d + c <= n
OBVIOUS

\* A reader takes its first result and counts it, if it is the last of its task.
LEMMA MailRecv ==
  ASSUME TypeOK, Mail, NEW r \in Readers, Recv(r)
  PROVE  Mail'
<1>1. UNCHANGED <<answered, waiting_task_ids>> /\ reader[r].phase = "wait"
  BY DEF Recv
<1>2. PICK i \in 1 .. Len(queue_results) :
        /\ queue_results[i].id \in reader[r].ids
        /\ \A j \in DOMAIN queue_results : queue_results[j].id \in reader[r].ids => i <= j
        /\ queue_results' = DropAt(queue_results, i)
        /\ \/ queue_results[i].kind = "partial" /\ reader' = reader
           \/ /\ queue_results[i].kind = "error"
              /\ reader' = [reader EXCEPT ![r].phase = "stop"]
           \/ /\ queue_results[i].kind = "final"
              /\ reader' = [reader EXCEPT ![r].received_count = @ + 1]
  BY RecvIs
<1>3. i \in DOMAIN queue_results /\ \A j \in DOMAIN queue_results : j \in Nat
  BY ResultsAre
<1>4. PICK id \in Ids : id = queue_results[i].id
  BY <1>3, ResultsAre
<1>5. Open(r) /\ Listed(r) /\ ~Finished(r) /\ reader[r].phase # "new"
  BY <1>1 DEF Open, Listed, Finished
<1>6. id \in reader[r].ids /\ id[1] = r /\ \A x \in reader[r].ids : x[1] = r
  BY <1>2, <1>4, <1>5, ReadersAre
<1>7. /\ \A x \in Readers \ {r} : reader'[x] = reader[x]
      /\ reader'[r].ids = reader[r].ids /\ reader'[r].shape = reader[r].shape
      /\ reader'[r].cancelled = reader[r].cancelled
      /\ reader'[r].phase \in {"wait", "stop"}
      /\ queue_results[i].kind = "final" =>
           reader'[r].received_count = reader[r].received_count + 1
      /\ queue_results[i].kind # "final" =>
           reader'[r].received_count = reader[r].received_count
      /\ queue_results[i].kind = "partial" => reader' = reader
  BY <1>1, <1>2 DEF TypeOK
<1>8. Open(r)' /\ Listed(r)' /\ Reached(r)' /\ ~Finished(r)'
  BY <1>7 DEF Open, Listed, Reached, Finished
<1>9. /\ \A j \in DOMAIN queue_results' : ResultFits(j)'
      /\ LastOnce'
      /\ \A x : LastQueued(x)' <=>
           \E k \in DOMAIN queue_results : k # i /\ IsLast(k) /\ queue_results[k].id = x
  <2>1. ASSUME NEW x \in Readers
        PROVE  reader'[x].ids = reader[x].ids /\ (Open(x)' => Open(x)) /\ (Reached(x) => Reached(x)')
    <3>1. CASE x = r
      BY <1>5, <1>7, <1>8, <3>1
    <3>2. CASE x # r
      BY <1>7, <3>2 DEF Open, Reached
    <3> QED
      BY <3>1, <3>2
  <2>2. ASSUME NEW x \in Ids, NEW k \in DOMAIN queue_results, queue_results[k].id = x
        PROVE  Reached(x[1])' /\ ~(k < i /\ queue_results[i].id = x)
    <3>1. x[1] \in Readers /\ Reached(x[1])
      BY <2>2, IdsAre DEF Mail, ResultFits
    <3>2. ASSUME queue_results[i].id = x PROVE ~(k < i)
      <4>1. i <= k
        BY <1>2, <2>2, <3>2
      <4> QED
        BY <1>3, <4>1
    <3> QED
      BY <2>1, <3>1, <3>2
  <2> QED
    BY <1>1, <1>2, <2>1, <2>2, MailDrops
<1>10. ASSUME NEW x \in Readers \ {r} PROVE ReaderFits(x)'
  <2>1. ASSUME Open(x), NEW y \in reader[x].ids PROVE Out(y)' <=> Out(y)
    <3>1. y[1] = x
      BY <2>1, ReadersAre DEF Open
    <3>2. queue_results[i].id # y
      BY <1>4, <1>6, <3>1
    <3>3. LastQueued(y)' <=> LastQueued(y)
      BY <1>9, <3>2 DEF LastQueued
    <3> QED
      BY <1>1, <3>3 DEF Out
  <2> QED
    BY <1>1, <1>7, <2>1, ReaderFitsKept DEF Mail
<1>11. Phased(r)'
  BY <1>1, <1>7 DEF Mail, ReaderFits, Phased
<1>12. Counts(r)'
  <2>1. Counts(r)
    BY <1>5 DEF Mail, ReaderFits
  <2>2. ASSUME NEW y \in reader[r].ids, y # id \/ ~IsLast(i) PROVE Out(y)' <=> Out(y)
    <3>1. LastQueued(y)' <=> LastQueued(y)
      BY <1>3, <1>4, <1>9, <2>2 DEF LastQueued
    <3> QED
      BY <1>1, <3>1 DEF Out
  <2>3. CASE ~IsLast(i)
    <3>1. reader' = reader
      BY <1>7, <2>3 DEF IsLast
    <3>2. Outstanding(r)' = Outstanding(r)
      BY <2>2, <2>3, <3>1 DEF Outstanding
    <3> QED
      BY <2>1, <3>1, <3>2 DEF Counts
  <2>4. CASE IsLast(i)
    <3>1. Out(id) /\ id \in answered
      BY <1>3, <1>4, <2>4 DEF Out, LastQueued, Mail, ResultFits
    <3>2. ~LastQueued(id)'
      BY <1>3, <1>4, <1>9, <2>4 DEF Mail, LastOnce
    <3>3. ~Out(id)'
      BY <1>1, <3>1, <3>2 DEF Out
    <3>4. id \in Outstanding(r) /\ Outstanding(r)' = Outstanding(r) \ {id}
      BY <1>6, <1>7, <2>2, <3>1, <3>3 DEF Outstanding
    <3>5. /\ IsFiniteSet(Outstanding(r)) /\ Cardinality(Outstanding(r)) \in Nat
          /\ reader[r].received_count \in Nat /\ Cardinality(reader[r].ids) \in Nat
      BY <1>5, ReadersAre
    <3>6. Cardinality(Outstanding(r)') = Cardinality(Outstanding(r)) - 1
      BY <3>4, <3>5, FS_RemoveElement
    <3>7. reader'[r].received_count <= reader[r].received_count + 1 /\ reader'[r].received_count \in Nat
      BY <1>7, <3>5
    <3>8. reader'[r].ids = reader[r].ids
      BY <1>7
    <3>9. reader[r].received_count + Cardinality(Outstanding(r)) <= Cardinality(reader[r].ids)
      BY <2>1 DEF Counts
    <3>10. reader'[r].received_count + Cardinality(Outstanding(r)') <= Cardinality(reader'[r].ids)
      BY <3>5, <3>6, <3>7, <3>8, <3>9, OneMore
    <3> QED
      BY <3>10 DEF Counts
  <2> QED
    BY <2>3, <2>4
<1>13. ReaderFits(r)'
  BY <1>8, <1>11, <1>12 DEF ReaderFits
<1>14. WaitsFit'
  BY <1>1, <1>5, <1>7, <1>8, WaitsFitKept
<1> QED
  BY <1>9, <1>10, <1>13, <1>14 DEF Mail

-----------------------------------------------------------------------------

\* A result somebody waits for goes to the end of the queue.
LEMMA SentIs ==
  ASSUME TypeOK, NEW id \in Ids, NEW kind \in ResultKinds, send(id, kind), id \in waiting_task_ids
  PROVE  \E n \in DOMAIN queue_results' :
           /\ n \notin DOMAIN queue_results
           /\ \A i \in DOMAIN queue_results' : i \in DOMAIN queue_results \/ i = n
           /\ \A i \in DOMAIN queue_results :
                i \in DOMAIN queue_results' /\ queue_results'[i] = queue_results[i] /\ n > i
           /\ queue_results'[n].id = id /\ queue_results'[n].kind = kind
<1> DEFINE v == [id |-> id, kind |-> kind]
<1>1. /\ queue_results \in Seq(ResultType) /\ Len(queue_results) \in Nat
      /\ DOMAIN queue_results = 1 .. Len(queue_results) /\ v \in ResultType
  BY ResultsAre DEF ResultType
<1>2. queue_results' = Append(queue_results, v)
  BY DEF send
<1>3. v.id = id /\ v.kind = kind
  OBVIOUS
<1> HIDE DEF v
<1>4. /\ queue_results' \in Seq(ResultType) /\ Len(queue_results') = Len(queue_results) + 1
      /\ \A i \in 1 .. Len(queue_results) : queue_results'[i] = queue_results[i]
      /\ queue_results'[Len(queue_results) + 1] = v
  BY <1>1, <1>2, AppendProperties
<1>5. DOMAIN queue_results' = 1 .. Len(queue_results) + 1
  BY <1>4, LenProperties
<1>6. PICK n \in DOMAIN queue_results' : n = Len(queue_results) + 1
  BY <1>1, <1>5
<1>7. /\ n \notin DOMAIN queue_results
      /\ \A i \in DOMAIN queue_results' : i \in DOMAIN queue_results \/ i = n
      /\ \A i \in DOMAIN queue_results : i \in DOMAIN queue_results' /\ n > i
  BY <1>1, <1>5, <1>6
<1>8. /\ \A i \in DOMAIN queue_results : queue_results'[i] = queue_results[i]
      /\ queue_results'[n].id = id /\ queue_results'[n].kind = kind
  BY <1>1, <1>3, <1>4, <1>6
<1> QED
  BY <1>7, <1>8

\* A result for a task that has not been answered yet: the answer itself, or a
\* partial result.
LEMMA MailSends ==
  ASSUME TypeOK, Mail, NEW id \in Ids, Posted(id), id \notin answered,
         NEW kind \in ResultKinds, send(id, kind), UNCHANGED <<waiting_task_ids, reader>>,
         answered' = IF kind = "partial" THEN answered ELSE answered \cup {id}
  PROVE  Mail'
<1>1. /\ \A r : /\ (Open(r)' <=> Open(r)) /\ (Listed(r)' <=> Listed(r))
                /\ (Reached(r)' <=> Reached(r))
      /\ \A x : Owner(x)' = Owner(x)
      /\ answered \subseteq answered' /\ \A x : x # id => (x \in answered' <=> x \in answered)
  BY DEF Open, Listed, Reached, Owner
<1>2. WaitsFit'
  BY <1>1 DEF Mail, WaitsFit
<1>3. id[1] \in Readers /\ (Listed(id[1]) => Open(id[1])) /\ (Open(id[1]) => Listed(id[1]) /\ Reached(id[1]))
  BY IdsAre DEF Posted, Owner, Listed, Open, Reached
<1>4. id \in waiting_task_ids <=> Open(id[1])
  BY <1>3 DEF Mail, WaitsFit, Posted, Open, Listed
<1>5. \A i \in DOMAIN queue_results : queue_results[i].id \in Ids
        /\ (queue_results[i].id = id => ~IsLast(i))
  BY ResultsAre DEF Mail, ResultFits
<1>6. ~LastQueued(id)
  BY <1>5 DEF LastQueued
<1>7. CASE id \notin waiting_task_ids
  <2>1. queue_results' = queue_results
    BY <1>7 DEF send
  <2>2. /\ \A i : (IsLast(i)' <=> IsLast(i)) /\ (Followed(i)' <=> Followed(i))
        /\ \A x : LastQueued(x)' <=> LastQueued(x)
        /\ LastOnce' <=> LastOnce
    BY <2>1 DEF IsLast, Followed, LastQueued, LastOnce
  <2>3. ASSUME NEW r \in Readers PROVE ReaderFits(r)'
    <3>1. ASSUME Open(r), NEW x \in reader[r].ids PROVE Out(x)' <=> Out(x)
      <4>1. x[1] = r
        BY <3>1, ReadersAre DEF Open
      <4>2. x # id
        BY <1>4, <1>7, <3>1, <4>1
      <4> QED
        BY <1>1, <2>2, <4>2 DEF Out
    <3> QED
      BY <1>1, <3>1, ReaderFitsKept DEF Mail
  <2>4. ASSUME NEW i \in DOMAIN queue_results PROVE ResultFits(i)'
    <3>1. PICK x \in Ids : x = queue_results[i].id
      BY <1>5
    <3>2. /\ x \in Owner(x).ids /\ Reached(x[1])
          /\ IsLast(i) => x \in answered
          /\ ~IsLast(i) /\ Open(x[1]) /\ x \in answered => Followed(i)
      BY <3>1 DEF Mail, ResultFits
    <3>3. /\ IsLast(i)' => x \in answered'
          /\ ~IsLast(i)' /\ Open(x[1])' /\ x \in answered' => Followed(i)'
      BY <1>1, <1>4, <1>7, <2>2, <3>2
    <3>4. queue_results'[i].id = x /\ x \in Owner(x)'.ids /\ Reached(x[1])'
      BY <1>1, <2>1, <3>1, <3>2
    <3> QED
      BY <3>3, <3>4 DEF ResultFits
  <2> QED
    BY <1>2, <2>1, <2>2, <2>3, <2>4 DEF Mail
<1>8. CASE id \in waiting_task_ids
  <2>1. PICK n \in DOMAIN queue_results' :
           /\ n \notin DOMAIN queue_results
           /\ \A i \in DOMAIN queue_results' : i \in DOMAIN queue_results \/ i = n
           /\ \A i \in DOMAIN queue_results :
                i \in DOMAIN queue_results' /\ queue_results'[i] = queue_results[i] /\ n > i
           /\ queue_results'[n].id = id /\ queue_results'[n].kind = kind
    BY <1>8, SentIs
  <2>2. /\ \A i \in DOMAIN queue_results : IsLast(i)' <=> IsLast(i)
        /\ IsLast(n)' <=> kind # "partial"
    BY <2>1 DEF IsLast
  <2>3. \A x : LastQueued(x)' <=> LastQueued(x) \/ (x = id /\ kind # "partial")
    BY <2>1, <2>2 DEF LastQueued
  <2>4. LastOnce'
    <3>1. ASSUME NEW i \in DOMAIN queue_results', NEW j \in DOMAIN queue_results',
                 IsLast(i)', IsLast(j)', queue_results'[i].id = queue_results'[j].id
          PROVE  i = j
      <4>1. \A k \in DOMAIN queue_results : IsLast(k) => queue_results[k].id # id
        BY <1>5
      <4>2. CASE i = n \/ j = n
        BY <2>1, <2>2, <3>1, <4>1, <4>2
      <4>3. CASE i # n /\ j # n
        BY <2>1, <2>2, <3>1, <4>3 DEF Mail, LastOnce
      <4> QED
        BY <4>2, <4>3
    <3> QED
      BY <3>1 DEF LastOnce
  <2>5. ASSUME NEW r \in Readers PROVE ReaderFits(r)'
    <3>1. \A x : Out(x)' <=> Out(x)
      BY <1>1, <1>6, <2>3 DEF Out
    <3> QED
      BY <1>1, <3>1, ReaderFitsKept DEF Mail
  <2>6. ASSUME NEW i \in DOMAIN queue_results PROVE ResultFits(i)'
    <3>1. PICK x \in Ids : x = queue_results[i].id
      BY <1>5
    <3>2. /\ x \in Owner(x).ids /\ Reached(x[1])
          /\ IsLast(i) => x \in answered
          /\ ~IsLast(i) /\ Open(x[1]) /\ x \in answered => Followed(i)
      BY <3>1 DEF Mail, ResultFits
    <3>3. /\ i \in DOMAIN queue_results' /\ queue_results'[i].id = x
          /\ x \in Owner(x)'.ids /\ Reached(x[1])'
      BY <1>1, <2>1, <3>1, <3>2
    <3>4. ASSUME ~IsLast(i)', Open(x[1])', x \in answered' PROVE Followed(i)'
      <4>1. CASE x = id /\ kind # "partial"
        <5>1. n > i /\ IsLast(n)' /\ queue_results'[n].id = queue_results'[i].id
          BY <2>1, <2>2, <3>3, <4>1
        <5> QED
          BY <5>1 DEF Followed
      <4>2. CASE ~(x = id /\ kind # "partial")
        <5>1. x \in answered
          BY <1>1, <3>4, <4>2
        <5>2. PICK j \in DOMAIN queue_results : j > i /\ IsLast(j) /\ queue_results[j].id = x
          BY <1>1, <2>2, <3>1, <3>2, <3>4, <5>1 DEF Followed
        <5>3. j \in DOMAIN queue_results' /\ IsLast(j)' /\ queue_results'[j].id = queue_results'[i].id
          BY <2>1, <2>2, <3>3, <5>2
        <5> QED
          BY <5>2, <5>3 DEF Followed
      <4> QED
        BY <4>1, <4>2
    <3> QED
      BY <1>1, <2>2, <3>2, <3>3, <3>4 DEF ResultFits
  <2>7. ResultFits(n)'
    <3>1. kind # "partial" => id \in answered'
      OBVIOUS
    <3>2. kind = "partial" => id \notin answered'
      OBVIOUS
    <3>3. id \in Owner(id)'.ids /\ Reached(id[1])'
      BY <1>1, <1>3, <1>4, <1>8 DEF Posted
    <3> QED
      BY <2>1, <2>2, <3>1, <3>2, <3>3 DEF ResultFits
  <2> QED
    BY <1>2, <2>1, <2>4, <2>5, <2>6, <2>7 DEF Mail
<1> QED
  BY <1>7, <1>8

\* Only an unanswered task that has been posted is ever sent a result.
LEMMA MailAnswers ==
  ASSUME TypeOK, Work, Mail,
         RefuseTask \/ RefuseFamily \/ \E s \in Slots : SendPartial(s) \/ SendFinal(s) \/ SendError(s)
  PROVE  Mail'
<1>0. {"partial", "final", "error"} \subseteq ResultKinds
  BY DEF ResultKinds
<1>1. \A id \in Ids : Popped(id) => Posted(id) /\ id \notin answered
  BY DEF Work, Placed, Pending, Over
<1>2. CASE RefuseTask
  <2>1. pc = "process" /\ current.type = "completion" /\ UNCHANGED <<waiting_task_ids, reader>>
    BY <1>2 DEF RefuseTask
  <2>2. PICK id \in {current.id, current.child} \ {None} :
          send(id, "error") /\ answered' = answered \cup {id}
    BY <1>2 DEF RefuseTask
  <2>3. id \in Ids /\ Posted(id) /\ id \notin answered
    BY <1>1, <2>1, <2>2, CurrentIs
  <2>4. PICK kind \in ResultKinds : kind = "error"
    BY <1>0
  <2>5. send(id, kind) /\ answered' = IF kind = "partial" THEN answered ELSE answered \cup {id}
    BY <2>2, <2>4
  <2> QED
    BY <2>1, <2>3, <2>5, MailSends
<1>3. CASE RefuseFamily
  <2>1. /\ pc = "process" /\ current.type = "completion" /\ send(current.id, "error")
        /\ answered' = answered \cup {current.id}
        /\ UNCHANGED <<waiting_task_ids, reader>>
    BY <1>3 DEF RefuseFamily
  <2>2. PICK id \in Ids : id = current.id
    BY <2>1, CurrentIs
  <2>3. Posted(id) /\ id \notin answered
    BY <1>1, <2>1, <2>2, CurrentIs
  <2>4. PICK kind \in ResultKinds : kind = "error"
    BY <1>0
  <2>5. send(id, kind) /\ answered' = IF kind = "partial" THEN answered ELSE answered \cup {id}
    BY <2>1, <2>2, <2>4
  <2> QED
    BY <2>1, <2>3, <2>5, MailSends
<1>4. ASSUME NEW s \in Slots, SendPartial(s) \/ SendFinal(s) \/ SendError(s)
      PROVE  Mail'
  <2>1. slot[s].state # "idle" /\ releasing = None /\ UNCHANGED <<waiting_task_ids, reader>>
    BY <1>4 DEF SendPartial, SendFinal, SendError, IsProcessing
  <2>2. PICK id \in Ids : id = slot[s].id
    BY <2>1 DEF Work, Framed, TypeOK
  <2>3. Posted(id) /\ id \notin answered
    BY <2>1, <2>2, IdsAre DEF Work, Placed, Over, InSlot
  <2>4. \/ send(id, "partial") /\ answered' = answered
        \/ send(id, "final") /\ answered' = answered \cup {id}
        \/ send(id, "error") /\ answered' = answered \cup {id}
    BY <1>4, <2>2 DEF SendPartial, SendFinal, SendError
  <2>5. PICK kind \in ResultKinds :
          /\ send(id, kind)
          /\ answered' = IF kind = "partial" THEN answered ELSE answered \cup {id}
    BY <1>0, <2>4
  <2> QED
    BY <2>1, <2>3, <2>5, MailSends
<1> QED
  BY <1>2, <1>3, <1>4

\* Every step keeps results, readers and answers in agreement.
THEOREM MailInv ==
  ASSUME TypeOK, Work, Mail, [Next]_vars
  PROVE  Mail'
<1>1. CASE UNCHANGED <<results, reader, answered>>
  BY <1>1, MailKept
<1>2. CASE UNCHANGED vars \/ Terminate
  BY <1>1, <1>2 DEF vars, Terminate
<1>3. ASSUME NEW r \in Readers, ReaderStep(r) PROVE Mail'
  BY <1>3, MailAddWaiting, MailPost, MailRecv, MailLetGo, MailStopUnwait, MailStopPurge,
     MailStopCancel DEF ReaderStep
<1>4. CASE LoopStep
  <2>1. CASE \/ StartLoop \/ PopTask \/ DeferTask \/ LaunchTask \/ CancelTask \/ NextTask
             \/ UpdateSlots \/ ReleaseSlot \/ EndUpdate \/ EndWait
    BY <1>1, <2>1 DEF StartLoop, PopTask, DeferTask, LaunchTask, CancelTask, NextTask,
       UpdateSlots, ReleaseSlot, EndUpdate, EndWait
  <2> QED
    BY <1>4, <2>1, MailAnswers DEF LoopStep, Process
<1>5. ASSUME NEW s \in Slots, SlotStep(s) PROVE Mail'
  <2>1. CASE PromptDone(s)
    BY <1>1, <2>1 DEF PromptDone
  <2> QED
    BY <1>5, <2>1, MailAnswers DEF SlotStep
<1> QED
  BY <1>2, <1>3, <1>4, <1>5 DEF Next

-----------------------------------------------------------------------------
(***************************************************************************)
(* The theorems                                                            *)
(***************************************************************************)

\* Nothing is posted at first.
LEMMA InitInv ==
  Init => IInv
<1> SUFFICES ASSUME Init PROVE IInv
  OBVIOUS
<1>1. /\ queue_tasks = <<>> /\ queue_tasks_deferred = <<>> /\ queue_results = <<>>
      /\ current = None /\ releasing = None /\ pc = "off" /\ answered = {} /\ cancelled_ids = {}
      /\ waiting_task_ids = {} /\ running = FALSE /\ terminated = FALSE
  BY DEF Init
<1>2. \A s \in Slots : slot[s].state = "idle" /\ slot[s].id = None
  BY DEF Init, IdleSlot
<1>3. \A r \in Readers : /\ reader[r].phase = "new" /\ reader[r].ids = {}
                         /\ reader[r].received_count = 0 /\ reader[r].cancelled = FALSE
  BY DEF Init
<1>4. DOMAIN <<>> = {} /\ \A S : <<>> \in Seq(S)
  <2>1. \A S : <<>> \in Seq(S)
    BY EmptySeq
  <2>2. DOMAIN <<>> = {}
    OBVIOUS
  <2> QED
    BY <2>1, <2>2
<1>5. TypeOK
  <2>1. [phase |-> "new", ids |-> {}, shape |-> "single", received_count |-> 0,
         cancelled |-> FALSE, todo |-> {}] \in ReaderType
    BY DEF ReaderType, ReaderPhases, Shapes
  <2>2. reader \in [Readers -> ReaderType]
    BY <2>1 DEF Init
  <2>3. IdleSlot \in SlotType
    BY DEF IdleSlot, SlotType, SlotStates
  <2>4. slot \in [Slots -> SlotType]
    BY <2>3 DEF Init
  <2>5. LoopTyped
    BY <1>1, <2>4 DEF LoopTyped, LoopPhases
  <2>6. MailTyped
    BY <1>1, <1>4, <2>2 DEF MailTyped
  <2> QED
    BY <1>1, <1>4, <2>5, <2>6, TypesAre
<1>6. Work
  <2>1. Orderly(queue_tasks) /\ Orderly(queue_tasks_deferred)
    BY <1>1, <1>4 DEF Orderly, Once
  <2>2. Framed
    BY <1>1, <1>2, <2>1 DEF Framed
  <2>3. \A id \in Ids : ~Queued(id) /\ ~Deferred(id) /\ ~Popped(id) /\ \A s \in Slots : ~InSlot(s, id)
    BY <1>1, <1>2, <1>4, IdsAre DEF Queued, Deferred, Has, Popped, InSlot
  <2> QED
    BY <1>1, <2>2, <2>3 DEF Work, Apart, Placed, Pending
<1>7. Mail
  <2>1. WaitsFit
    BY <1>1, <1>3, IdsAre DEF WaitsFit, Owner
  <2>2. \A r \in Readers : ReaderFits(r)
    BY <1>3 DEF ReaderFits, Phased, Open, Finished
  <2> QED
    BY <1>1, <1>4, <2>1, <2>2 DEF Mail, LastOnce
<1> QED
  BY <1>5, <1>6, <1>7 DEF IInv

\* The invariant holds in every state, whatever the readers, slots and bounds.
THEOREM Invariant == Spec => []IInv
<1>1. ASSUME IInv, [Next]_vars PROVE IInv'
  <2>1. TypeOK /\ Work /\ Mail
    BY <1>1 DEF IInv
  <2> QED
    BY <1>1, <2>1, TypeInv, WorkInv, MailInv DEF IInv
<1> QED
  BY <1>1, InitInv, PTL DEF Spec

\* Every variable of the queue, the slots and the readers keeps to its type.
THEOREM TypeCorrect == Spec => []TypeOK
<1>1. IInv => TypeOK
  BY DEF IInv
<1> QED
  BY <1>1, Invariant, PTL

\* A task is queued, deferred, popped or in one slot, never in two of them: it
\* is not run twice however deferring, releasing and cancelling interleave.
THEOREM OnePlaceAlways == Spec => []TaskInOnePlace
<1>1. ASSUME IInv, NEW id \in Ids PROVE Cardinality(Places(id)) <= 1
  <2>1. Work
    BY <1>1 DEF IInv
  <2>2. /\ \A i, j \in DOMAIN queue_tasks :
             Carries(queue_tasks[i], id) /\ Carries(queue_tasks[j], id) => i = j
        /\ \A i, j \in DOMAIN queue_tasks_deferred :
             Carries(queue_tasks_deferred[i], id) /\ Carries(queue_tasks_deferred[j], id) => i = j
    BY <2>1 DEF Work, Framed, Orderly, Once
  <2>3. Apart(id)
    BY <2>1 DEF Work
  <2>4. \A p, q \in Places(id) : p = q
    BY <2>2, <2>3 DEF Places, Apart, Queued, Deferred, Has, Popped, InSlot
  <2>5. CASE Places(id) = {}
    BY <2>5, FS_EmptySet
  <2>6. CASE Places(id) # {}
    <3>1. PICK p : Places(id) = {p}
      BY <2>4, <2>6
    <3> QED
      BY <3>1, FS_Singleton
  <2> QED
    BY <2>5, <2>6
<1>2. IInv => TaskInOnePlace
  BY <1>1 DEF TaskInOnePlace
<1> QED
  BY <1>2, Invariant, PTL

\* Once a task has its last result or an error it is nowhere but in the slot
\* about to be released: it cannot be answered twice.
THEOREM OverAlways == Spec => []AnsweredIsOver
<1>1. ASSUME IInv, NEW id \in answered, NEW p \in Places(id) PROVE p = <<"slot", releasing>>
  <2>1. Over(id)
    BY <1>1 DEF IInv, Work
  <2> QED
    BY <1>1, <2>1 DEF Places, Over, Pending, Queued, Deferred, Has, Popped, InSlot
<1>2. IInv => AnsweredIsOver
  BY <1>1 DEF AnsweredIsOver
<1> QED
  BY <1>2, Invariant, PTL

\* A queued result always has a reader that can take it or will purge it: stop()
\* leaves none behind, although it purges only when the count says so.
THEOREM NoStrayAlways == Spec => []NoStrayResult
<1>1. IInv => NoStrayResult
  BY DEF IInv, Mail, ResultFits, Reached, NoStrayResult
<1> QED
  BY <1>1, Invariant, PTL

\* A reader that is done without having cancelled has had every task answered.
THEOREM CompleteAlways == Spec => []CompleteMeansAnswered
<1>1. IInv => CompleteMeansAnswered
  BY DEF IInv, Mail, ReaderFits, Finished, CompleteMeansAnswered
<1> QED
  BY <1>1, Invariant, PTL

=============================================================================
