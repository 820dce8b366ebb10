-------------------------- MODULE ServerSleepProofs --------------------------
(***************************************************************************)
(* Proofs about ServerSleep for any number of clients: as long as threads  *)
(* are not held up for longer than the idle time, a client that waits for  *)
(* the server to wake up has been heard.                                   *)
(***************************************************************************)
EXTENDS ServerSleep, TLAPS

\* The queue starts awake, with nobody waiting.
LEMMA SleepInvInit == Init => SleepInv
BY DEF Init, SleepInv, TypeOK, RequestIsCurrent, SleepFlag, AskedToWake, NobodyLate,
   MainPhases, ClientPhases

\* Every hold of mutex_tasks, and the passing of time, preserves the invariant.
LEMMA SleepInvStep ==
  ASSUME ~Slow, SleepInv, [Next]_vars
  PROVE  SleepInv'
<1> USE SleepAssumption DEF SleepInv, TypeOK, RequestIsCurrent, SleepFlag, AskedToWake, NobodyLate,
        flags, MainPhases, ClientPhases
<1>1. CASE Work
  BY <1>1 DEF Work
<1>2. CASE Check
  <2> USE <1>2 DEF Check
  <2>1. TypeOK'
    OBVIOUS
  <2>2. RequestIsCurrent' /\ SleepFlag'
    OBVIOUS
  <2>3. AskedToWake'
    OBVIOUS
  <2>4. NobodyLate'
    OBVIOUS
  <2>5. QED
    BY <2>1, <2>2, <2>3, <2>4
<1>3. CASE TimedWaitEnds
  BY <1>3 DEF TimedWaitEnds
<1>4. CASE Wake
  <2> USE <1>4 DEF Wake
  <2>1. TypeOK'
    OBVIOUS
  <2>2. RequestIsCurrent' /\ SleepFlag'
    OBVIOUS
  <2>3. AskedToWake'
    OBVIOUS
  <2>4. NobodyLate'
    OBVIOUS
  <2>5. QED
    BY <2>1, <2>2, <2>3, <2>4
<1>5. ASSUME NEW c \in Clients, Arrive(c)
      PROVE  SleepInv'
  <2> USE <1>5 DEF Arrive
  <2>1. TypeOK'
    OBVIOUS
  <2>2. RequestIsCurrent' /\ SleepFlag'
    OBVIOUS
  <2>3. AskedToWake'
    <3>1. CASE ~sleeping \/ req_stop_sleeping
      BY <3>1
    <3>2. CASE sleeping /\ ~req_stop_sleeping /\ running
      <4>1. \A d \in Clients : d \notin waiters
        BY <3>2
      <4>2. waiters \subseteq {Main}
        BY <4>1
      <4>3. Main \notin waiters'
        BY <3>2, <4>2
      <4>4. QED
        BY <3>2, <4>3
    <3>3. QED
      BY <3>1, <3>2
  <2>4. NobodyLate'
    OBVIOUS
  <2>5. QED
    BY <2>1, <2>2, <2>3, <2>4
<1>6. ASSUME NEW c \in Clients, Recheck(c)
      PROVE  SleepInv'
  <2> USE <1>6 DEF Recheck
  <2>1. TypeOK'
    OBVIOUS
  <2>2. RequestIsCurrent' /\ SleepFlag'
    OBVIOUS
  <2>3. AskedToWake'
    OBVIOUS
  <2>4. NobodyLate'
    OBVIOUS
  <2>5. QED
    BY <2>1, <2>2, <2>3, <2>4
<1>7. ASSUME NEW c \in Clients, Post(c)
      PROVE  SleepInv'
  BY <1>7 DEF Post, NotifyOne
<1>8. CASE IdleTimePasses
  BY <1>8 DEF IdleTimePasses, Delayed
<1>9. CASE Terminate
  BY <1>9 DEF Terminate
<1>10. CASE UNCHANGED vars
  BY <1>10 DEF vars
<1>11. QED
  BY <1>1, <1>2, <1>3, <1>4, <1>5, <1>6, <1>7, <1>8, <1>9, <1>10 DEF Next, MainStep

-----------------------------------------------------------------------------

\* SleepInv holds of every state the queue can reach.
THEOREM SleepSafety == ~Slow => (Spec => []SleepInv)
<1> SUFFICES ASSUME ~Slow PROVE Spec => []SleepInv
  OBVIOUS
<1>1. SleepInv /\ [Next]_vars => SleepInv'
  BY SleepInvStep
<1>2. QED
  BY SleepInvInit, <1>1, PTL DEF Spec

\* For any number of clients, a client inside wait_until_no_sleep is never left
\* behind: the loop has been asked to wake up and is not waiting itself.
THEOREM WaitersHeard == ~Slow => (Spec => []WaitersAreHeard)
<1> SUFFICES ASSUME ~Slow PROVE Spec => []WaitersAreHeard
  OBVIOUS
<1>1. SleepInv => WaitersAreHeard
  BY DEF SleepInv, WaitersAreHeard, SleepFlag, AskedToWake
<1>2. QED
  BY SleepSafety, <1>1, PTL

\* A request to wake up never outlives the sleep it was made in.
THEOREM RequestsCurrent == ~Slow => (Spec => []RequestIsCurrent)
<1> SUFFICES ASSUME ~Slow PROVE Spec => []RequestIsCurrent
  OBVIOUS
<1>1. SleepInv => RequestIsCurrent
  BY DEF SleepInv
<1>2. QED
  BY SleepSafety, <1>1, PTL
=============================================================================
