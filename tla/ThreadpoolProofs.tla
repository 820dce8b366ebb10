-------------------------- MODULE ThreadpoolProofs --------------------------
(***************************************************************************)
(* Theorems about the thread pool: for any number of threads and of        *)
(* chunks, and any graph, the nodes are computed in order, every part      *)
(* exactly once, and no worker is inside a graph when the next is set up.  *)
(*                                                                         *)
(* The argument: as long as a graph is computed, all its threads head for  *)
(* the same barrier (Dest, computed from where a thread stands), so none   *)
(* is further than the next barrier, and what has been computed is a       *)
(* function of where the threads stand (Done).                             *)
(***************************************************************************)
EXTENDS Threadpool, TLAPS, FiniteSetTheorems, WellFoundedInduction

StateType ==
  [last_graph : [number : Nat, threads : Nat], pending : BOOLEAN, node : Nat, nth : Nat,
   chunk : Nat, passed : Nat, back : {"advance", "mul first", "done"}]

CallerOnly == {"idle", "kickoff", "kick", "join", "freed"}
WorkerOnly == {"top", "stop?", "ended", "paused", "pause wait", "poll", "word", "polled",
               "lock", "work wait", "check"}
AtBarrier  == {"enter", "spin", "reset", "open"}
In         == InGraph \cup AtBarrier
Labels     == In \cup CallerOnly \cup WorkerOnly \cup {"done"}
ChunkPhase == {"mul first", "chunk", "next chunk"}

Bound == 0 .. NThreads + NChunks

Types ==
  /\ n_graph \in [number : Nat, threads : 0 .. NThreads]
  /\ n_barrier \in Nat /\ n_barrier_passed \in Nat /\ current_chunk \in Nat /\ abort \in Int
  /\ pc \in [Threads -> Labels]
  /\ state \in [Threads -> StateType]
  /\ computed \in [Nodes -> [Bound -> Nat]]

-----------------------------------------------------------------------------
(***************************************************************************)
(* Where a thread stands, and the barrier it heads for                     *)
(***************************************************************************)
K    == n_graph.threads
Part == 0 .. K - 1       \* the threads that compute the graph

\* A thread that has yet to begin the graph n_graph names.
Fresh(t) == IF t = 0 THEN pc[0] = "kick"
                     ELSE state[t].last_graph # n_graph \/ state[t].pending

\* A thread whose barrier is open, although it has yet to see that.
Released(t) == pc[t] = "spin" /\ state[t].passed # n_barrier_passed

Loc(t) == IF Fresh(t) THEN "begin" ELSE IF Released(t) THEN state[t].back ELSE pc[t]
Pos(t) == IF Loc(t) = "begin" THEN 0 ELSE state[t].node

LastOf(n)  == IF Kind(n) = "fused" THEN n + 1 ELSE n
EndDest(e) == IF e + 1 \in Nodes THEN <<"advance", e>> ELSE <<"done", e + 1>>

\* The first node from n on that is not skipped.
IsFirst(n, m) == /\ m = Len(Graph) \/ Kind(m) # "skip"
                 /\ \A j \in n .. m - 1 : Kind(j) = "skip"
First(n) == CHOOSE m \in n .. Len(Graph) : IsFirst(n, m)

StartDest(m) == IF m \notin Nodes THEN <<"done", m>>
                ELSE IF Kind(m) = "mul" THEN <<"mul first", m>> ELSE EndDest(LastOf(m))
NodeDest(n)  == IF n \notin Nodes \/ abort = n THEN <<"done", n>> ELSE StartDest(First(n))

DestOf(l, n, b) ==
  IF l \in {"begin", "node"} THEN NodeDest(n)
  ELSE IF l = "work" THEN EndDest(LastOf(n))
  ELSE IF l \in {"mul", "mul set"} THEN <<"mul first", n>>
  ELSE IF l \in ChunkPhase \cup {"after", "separate"} THEN EndDest(n)
  ELSE IF l = "advance" THEN NodeDest(n + 1)
  ELSE <<b, n>>
Dest(t) == DestOf(Loc(t), Pos(t), state[t].back)

\* The nodes before Front(t) are behind thread t.
FrontOf(l, n, b) ==
  IF l \in {"after", "separate", "advance"} \/ (l \in AtBarrier /\ b = "advance")
  THEN n + 1 ELSE n
Front(t) == FrontOf(Loc(t), Pos(t), state[t].back)

\* Every node that is behind a thread that heads for d is before Reach(d).
Reach(d) == IF d[1] = "advance" THEN d[2] + 1 ELSE d[2]

Clear(n) == ~(n > 0 /\ Kind(n - 1) = "fused")
Stands(l, n, b) ==
  /\ l \in {"begin", "node"} => n \in 0 .. Len(Graph) /\ Clear(n)
  /\ l = "work" => n \in Nodes /\ Kind(n) \in {"plain", "fused"} /\ Clear(n)
  /\ l \in ChunkPhase \cup {"mul", "mul set"} => n \in Nodes /\ Kind(n) = "mul" /\ Clear(n)
  /\ l \in {"after", "separate", "advance"} => n \in Nodes /\ Kind(n) \in {"plain", "mul"}
  /\ l \in AtBarrier =>
       /\ b = "advance" => n + 1 \in Nodes /\ n \in Nodes /\ Kind(n) \in {"plain", "mul"}
       /\ b = "mul first" => n \in Nodes /\ Kind(n) = "mul" /\ Clear(n)
       /\ b = "done" => n \in 0 .. Len(Graph) /\ Clear(n) /\ (n = Len(Graph) \/ abort = n)

-----------------------------------------------------------------------------
(***************************************************************************)
(* The inductive invariant                                                 *)
(***************************************************************************)
Joined(t) == t < K /\ (t # 0 => state[t].last_graph = n_graph /\ ~state[t].pending)

Local(t) ==
  /\ t = 0 => pc[t] \notin WorkerOnly /\ ~state[t].pending
  /\ t # 0 => pc[t] \notin CallerOnly
  /\ state[t].last_graph.number <= n_graph.number
  /\ state[t].last_graph.number = n_graph.number => state[t].last_graph = n_graph
  /\ state[t].passed <= n_barrier_passed
  /\ state[t].pending =>
       pc[t] \in {"polled", "check"} /\ state[t].last_graph = n_graph /\ t < K
  /\ pc[t] \in In \ {"spin"} => Joined(t)
  /\ pc[t] = "spin" => Joined(t) \/ (Released(t) /\ state[t].back = "done")
  /\ pc[t] \in {"enter", "reset", "open"} => state[t].passed = n_barrier_passed
  /\ pc[t] \in In \ {"begin"} /\ Joined(t) => state[t].nth = K
  /\ Loc(t) \in In => Stands(Loc(t), Pos(t), state[t].back)
Locals == \A t \in Threads : Local(t)

Aborts ==
  /\ abort # -1 => ec = "aborted" /\ abort \in 1 .. Len(Graph) /\ Kind(abort - 1) # "skip"
  /\ pc[0] = "kickoff" => abort = -1
  /\ pc[0] \notin CallerOnly \ {"kick"} => K > 0

Together == \A t, u \in Part : Loc(t) \in In => Loc(u) \in In /\ Dest(t) = Dest(u)

Waiting == {t \in Threads : pc[t] = "spin" /\ state[t].passed = n_barrier_passed}

Barriers ==
  /\ \A r \in Threads : pc[r] = "reset" => Waiting = Part \ {r} /\ n_barrier = K
  /\ \A r \in Threads : pc[r] = "open"  => Waiting = Part \ {r} /\ n_barrier = 0
  /\ (\A r \in Threads : pc[r] \notin {"reset", "open"}) =>
       n_barrier = Cardinality(Waiting) /\ (K > 0 => Waiting # Part)

InMul(t, n)   == Loc(t) \in ChunkPhase /\ Pos(t) = n
Through(t, n) == Front(t) > n
Holds(t, p)   == \/ Loc(t) = "mul first" /\ p = t
                 \/ Loc(t) = "chunk" /\ p = state[t].chunk
Given(p)      == p < current_chunk /\ \A u \in Part : ~Holds(u, p)

Chunks ==
  /\ \A t \in Part : Loc(t) \in ChunkPhase => K <= current_chunk
  /\ \A t \in Part : \A p \in Nat : Holds(t, p) => p < current_chunk
  /\ \A t, u \in Part : \A p \in Nat : Holds(t, p) /\ Holds(u, p) => t = u
  /\ Loc(0) = "mul set" \/ (Loc(0) \in AtBarrier /\ state[0].back = "mul first")
       => current_chunk = K
  /\ \A t, u \in Part : \A n \in Nodes :
       Computed(n) /\ InMul(t, n) /\ Through(u, n) => NChunks <= current_chunk

PlainDone(n) == \A p \in Bound : computed[n][p] = IF p \in Part /\ Through(p, n) THEN 1 ELSE 0
MulDone(n) ==
  /\ (\E u \in Part : ~InMul(u, n) /\ ~Through(u, n)) => Untouched(n)
  /\ (\A u \in Part : Through(u, n)) => Whole(n)
  /\ (\A u \in Part : InMul(u, n) \/ Through(u, n)) /\ (\E u \in Part : InMul(u, n)) =>
       \A p \in Bound : computed[n][p] = IF p < NChunks /\ Given(p) THEN 1 ELSE 0

Done == \A n \in Nodes :
          IF ~Computed(n) THEN Untouched(n)
          ELSE IF Kind(n) = "mul" THEN MulDone(n) ELSE PlainDone(n)

Finished == \A n \in Nodes :
              IF Computed(n) THEN Whole(n) \/ (ec = "aborted" /\ Untouched(n))
                             ELSE Untouched(n)

Results ==
  /\ Loc(0) \in In => Done
  /\ Loc(0) \notin In => NodesInOrder
  /\ Loc(0) = "done" => Finished
  /\ pc[0] = "kickoff" => computed = NothingComputed

Flags ==
  /\ {stop, pause} \subseteq BOOLEAN /\ mutex \in {-1, 0} /\ asleep \subseteq Workers
  /\ ec \in {"success", "aborted"}
  /\ n_graph.number <= MaxGraphs
  /\ pc[0] = "kickoff" => n_graph.number < MaxGraphs

IInv == Types /\ Locals /\ Aborts /\ Together /\ Barriers /\ Chunks /\ Results

-----------------------------------------------------------------------------
(***************************************************************************)
(* The graph, and the barrier at the end of a stretch of nodes             *)
(***************************************************************************)
LEMMA Kinds ==
  /\ Len(Graph) \in Nat /\ NThreads \in Nat \ {0} /\ NChunks \in Nat \ {0}
  /\ \A n \in Nodes : n \in Nat /\ Kind(n) \in {"plain", "mul", "fused", "skip"}
  /\ \A n \in Nodes : Kind(n) = "fused" => n + 1 \in Nodes /\ Kind(n + 1) = "plain"
<1>1. Len(Graph) \in Nat /\ NThreads \in Nat \ {0} /\ NChunks \in Nat \ {0}
  BY ThreadpoolAssumption
<1>2. ASSUME NEW n \in Nodes
      PROVE  /\ n \in Nat /\ Kind(n) \in {"plain", "mul", "fused", "skip"}
             /\ Kind(n) = "fused" => n + 1 \in Nodes /\ Kind(n + 1) = "plain"
  <2>1. n \in Nat /\ n + 1 \in 1 .. Len(Graph)
    BY <1>1 DEF Nodes
  <2>2. Graph[n + 1] \in {"plain", "mul", "fused", "skip"}
    BY <2>1, ThreadpoolAssumption
  <2>3. Graph[n + 1] = "fused" => n + 1 < Len(Graph) /\ Graph[(n + 1) + 1] = "plain"
    BY <2>1, ThreadpoolAssumption
  <2> QED
    BY <1>1, <2>1, <2>2, <2>3 DEF Nodes, Kind
<1> QED
  BY <1>1, <1>2

\* The nodes before a node are nodes.
LEMMA NodesBelow ==
  \A n \in Nodes : \A m \in 0 .. n - 1 : m \in Nodes
BY Kinds DEF Nodes

\* From every node on there is a first one that is computed, or the end.
LEMMA FirstExists ==
  ASSUME NEW n \in 0 .. Len(Graph)
  PROVE  First(n) \in n .. Len(Graph) /\ IsFirst(n, First(n))
<1> DEFINE S == {m \in n .. Len(Graph) : m = Len(Graph) \/ Kind(m) # "skip"}
           R == OpToRel(<, Nat)
<1>1. Len(Graph) \in Nat
  BY Kinds
<1>2. S # {} /\ S \subseteq Nat
  BY <1>1
<1>3. PICK m \in S : \A x \in S : ~(<<x, m>> \in R)
  BY <1>2, NatLessThanWellFounded, WFMin
<1>4. \A x \in S : ~(x < m)
  BY <1>2, <1>3 DEF OpToRel
<1>5. m \in n .. Len(Graph) /\ IsFirst(n, m)
  <2>1. ASSUME NEW j \in n .. m - 1 PROVE Kind(j) = "skip"
    BY <1>1, <1>4
  <2> QED
    BY <2>1 DEF IsFirst
<1> QED
  BY <1>5 DEF First

\* There is only one first node.
LEMMA FirstUnique ==
  ASSUME NEW n \in 0 .. Len(Graph), NEW m \in n .. Len(Graph), IsFirst(n, m)
  PROVE  First(n) = m
<1>1. First(n) \in n .. Len(Graph) /\ IsFirst(n, First(n))
  BY FirstExists
<1>2. Len(Graph) \in Nat
  BY Kinds
<1>3. ~(First(n) < m)
  BY <1>1, <1>2 DEF IsFirst
<1>4. ~(m < First(n))
  BY <1>1, <1>2 DEF IsFirst
<1> QED
  BY <1>1, <1>2, <1>3, <1>4

\* The first node, found one node at a time as the loop does.
LEMMA FirstStep ==
  ASSUME NEW n \in Nodes
  PROVE  First(n) = IF Kind(n) = "skip" THEN First(n + 1) ELSE n
<1>1. Len(Graph) \in Nat /\ n \in 0 .. Len(Graph) /\ n + 1 \in 0 .. Len(Graph)
  BY Kinds DEF Nodes
<1>2. CASE Kind(n) = "skip"
  <2>1. First(n + 1) \in n + 1 .. Len(Graph) /\ IsFirst(n + 1, First(n + 1))
    BY <1>1, FirstExists
  <2>2. First(n + 1) \in n .. Len(Graph) /\ IsFirst(n, First(n + 1))
    BY <1>1, <1>2, <2>1 DEF IsFirst
  <2> QED
    BY <1>1, <1>2, <2>2, FirstUnique
<1>3. CASE Kind(n) # "skip"
  <2>1. n \in n .. Len(Graph) /\ IsFirst(n, n)
    BY <1>1, <1>3 DEF IsFirst
  <2> QED
    BY <1>1, <1>3, <2>1, FirstUnique
<1> QED
  BY <1>2, <1>3

\* The loop over the nodes, one step.
LEMMA NodeDestStep ==
  ASSUME NEW n \in Nodes, abort # n
  PROVE  /\ Kind(n) = "mul" => NodeDest(n) = <<"mul first", n>>
         /\ Kind(n) \in {"plain", "fused"} => NodeDest(n) = EndDest(LastOf(n))
         /\ Kind(n) = "skip" /\ abort # n + 1 => NodeDest(n) = NodeDest(n + 1)
<1>1. First(n) = IF Kind(n) = "skip" THEN First(n + 1) ELSE n
  BY FirstStep
<1>2. CASE Kind(n) = "skip" /\ abort # n + 1
  <2>1. CASE n + 1 \in Nodes
    BY <1>1, <1>2, <2>1 DEF NodeDest
  <2>2. CASE n + 1 \notin Nodes
    <3>1. n + 1 = Len(Graph) /\ n + 1 \in 0 .. Len(Graph) /\ n + 1 \in n + 1 .. Len(Graph)
      BY <2>2, Kinds DEF Nodes
    <3>2. IsFirst(n + 1, n + 1)
      BY <3>1 DEF IsFirst
    <3>3. First(n + 1) = n + 1
      BY <3>1, <3>2, FirstUnique
    <3> QED
      BY <1>1, <1>2, <2>2, <3>3 DEF NodeDest, StartDest
  <2> QED
    BY <2>1, <2>2
<1> QED
  BY <1>1, <1>2 DEF NodeDest, StartDest

\* The reach of a thread that heads for a given place.
LEMMA PairReach ==
  ASSUME NEW n \in Nat, NEW b
  PROVE  Reach(<<b, n>>) = IF b = "advance" THEN n + 1 ELSE n
<1>1. <<b, n>>[1] = b /\ <<b, n>>[2] = n
  OBVIOUS
<1> QED
  BY <1>1 DEF Reach

\* From the end of a node a thread gets to the next node, or is done.
LEMMA EndReach ==
  ASSUME NEW e \in Nodes
  PROVE  Reach(EndDest(e)) = e + 1 /\ EndDest(e)[1] \in {"advance", "done"}
BY DEF Reach, EndDest

\* What lies between a node and the barrier it leads to.
LEMMA NodeReach ==
  ASSUME NEW n \in 0 .. Len(Graph), abort \in Int
  PROVE  /\ Reach(NodeDest(n)) \in Nat /\ n <= Reach(NodeDest(n))
         /\ \A m \in Nodes, k \in Nodes :
              n <= m /\ m < k /\ Computed(m) /\ Computed(k) => Reach(NodeDest(n)) <= k
         /\ \A m \in Nodes : n <= m /\ Computed(m) /\ Kind(m) = "mul" => Reach(NodeDest(n)) <= m
         /\ n \in Nodes /\ abort # n => NodeDest(n) # <<"advance", n - 1>>
<1> DEFINE f == First(n)
<1>1. Len(Graph) \in Nat /\ f \in n .. Len(Graph) /\ IsFirst(n, f)
  BY Kinds, FirstExists
<1>2. CASE n \notin Nodes \/ abort = n
  BY <1>1, <1>2 DEF NodeDest, Reach, Nodes
<1>3. CASE ~(n \notin Nodes \/ abort = n) /\ f \notin Nodes
  <2>1. f = Len(Graph) /\ NodeDest(n) = <<"done", f>>
    BY <1>1, <1>3 DEF NodeDest, StartDest, Nodes
  <2>2. \A m \in Nodes : n <= m => Kind(m) = "skip"
    BY <1>1, <2>1 DEF IsFirst, Nodes
  <2> QED
    BY <1>1, <2>1, <2>2 DEF Reach, Nodes, Computed
<1>4. CASE ~(n \notin Nodes \/ abort = n) /\ f \in Nodes
  <2>1. NodeDest(n) = IF Kind(f) = "mul" THEN <<"mul first", f>> ELSE EndDest(LastOf(f))
    BY <1>4 DEF NodeDest, StartDest
  <2>2. Kind(f) \in {"plain", "mul", "fused"} /\ f \in Nat
    BY <1>1, <1>4, Kinds DEF IsFirst, Nodes
  <2>3. \A m \in Nodes : n <= m /\ Computed(m) => f <= m
    <3> SUFFICES ASSUME NEW m \in Nodes, n <= m, Computed(m), ~(f <= m) PROVE FALSE
      OBVIOUS
    <3>1. m \in n .. f - 1
      BY <1>1, Kinds, <2>2 DEF Nodes
    <3> QED
      BY <1>1, <3>1 DEF IsFirst, Computed
  <2>4. CASE Kind(f) = "mul"
    <3> HIDE DEF f
    <3>1. NodeDest(n) = <<"mul first", f>>
      BY <2>1, <2>4
    <3>2. Reach(NodeDest(n)) = f /\ NodeDest(n) # <<"advance", n - 1>>
      <4>1. <<"mul first", f>>[1] = "mul first" /\ <<"mul first", f>>[2] = f
        OBVIOUS
      <4>2. <<"advance", n - 1>>[1] = "advance" /\ "mul first" # "advance"
        OBVIOUS
      <4>3. NodeDest(n)[1] = "mul first" /\ NodeDest(n)[2] = f
        BY <3>1, <4>1
      <4>4. NodeDest(n) # <<"advance", n - 1>>
        BY <4>2, <4>3
      <4> QED
        BY <4>2, <4>3, <4>4 DEF Reach
    <3>3. \A m \in Nodes : m \in Nat
      BY Kinds
    <3> QED
      BY <1>1, <2>2, <2>3, <3>2, <3>3
  <2>5. CASE Kind(f) # "mul"
    <3>1. LastOf(f) \in Nodes /\ LastOf(f) \in {f, f + 1} /\ (LastOf(f) = f + 1 <=> Kind(f) = "fused")
      BY <1>4, <2>2, Kinds DEF LastOf
    <3>2. Reach(NodeDest(n)) = LastOf(f) + 1 /\ NodeDest(n) = EndDest(LastOf(f))
      <4> HIDE DEF f
      <4> QED
        BY <2>1, <2>5, <3>1, EndReach
    <3>3. ASSUME NEW m \in Nodes, n <= m, Computed(m)
          PROVE  /\ f = m \/ LastOf(f) < m
                 /\ \A k \in Nodes : m < k /\ Computed(k) => LastOf(f) + 1 <= k
      <4>1. f <= m /\ m \in Nat
        BY <2>3, <3>3, Kinds
      <4>2. \A x \in Nodes : Computed(x) /\ Kind(f) = "fused" => x # f + 1
        BY <2>2 DEF Computed
      <4> HIDE DEF f
      <4> QED
        BY <2>2, <3>1, <3>3, <4>1, <4>2, Kinds
    <3>4. NodeDest(n) = <<"advance", n - 1>> => LastOf(f) = n - 1
      BY <3>2 DEF EndDest
    <3> HIDE DEF f
    <3>5. LastOf(f) \in Nat /\ n <= LastOf(f)
      BY <1>1, <2>2, <3>1
    <3>6. \A m \in Nodes : Kind(m) = "mul" => m # f
      BY <2>5
    <3> QED
      BY <1>1, <3>2, <3>3, <3>4, <3>5, <3>6, Kinds
  <2> QED
    BY <2>4, <2>5
<1> QED
  BY <1>2, <1>3, <1>4

Backs == {"advance", "mul first", "done"}

\* A thread is never behind what it has done; and it stops at a barrier before
\* it can do what comes after a node it has yet to do.
LEMMA StandReach ==
  ASSUME NEW l \in In, NEW n \in Nat, NEW b \in Backs, Stands(l, n, b), abort \in Int
  PROVE  /\ Reach(DestOf(l, n, b)) \in Nat /\ FrontOf(l, n, b) \in Nat
         /\ FrontOf(l, n, b) <= Reach(DestOf(l, n, b))
         /\ l \in ChunkPhase => Reach(DestOf(l, n, b)) = n + 1
         /\ \A m \in Nodes, k \in Nodes :
              FrontOf(l, n, b) <= m /\ m < k /\ Computed(m) /\ Computed(k)
                => Reach(DestOf(l, n, b)) <= k
         /\ \A m \in Nodes :
              FrontOf(l, n, b) <= m /\ Computed(m) /\ Kind(m) = "mul"
              /\ ~(l \in ChunkPhase /\ n = m) => Reach(DestOf(l, n, b)) <= m
<1>1. Len(Graph) \in Nat /\ \A m \in Nodes : m \in Nat /\ m < Len(Graph)
  BY Kinds DEF Nodes
<1>2. \A m \in Nodes, k \in Nodes : m + 1 = k /\ Kind(m) = "fused" => ~Computed(k)
  BY <1>1 DEF Computed
<1>3. CASE l \in {"begin", "node"}
  <2>1. n \in 0 .. Len(Graph) /\ DestOf(l, n, b) = NodeDest(n) /\ FrontOf(l, n, b) = n
    BY <1>3 DEF Stands, DestOf, FrontOf, AtBarrier
  <2> QED
    BY <1>1, <1>3, <2>1, NodeReach DEF ChunkPhase
<1>4. CASE l = "advance"
  <2>1. n + 1 \in 0 .. Len(Graph) /\ DestOf(l, n, b) = NodeDest(n + 1) /\ FrontOf(l, n, b) = n + 1
    BY <1>1, <1>4 DEF Stands, DestOf, FrontOf, AtBarrier, ChunkPhase
  <2> QED
    BY <1>1, <1>4, <2>1, NodeReach DEF ChunkPhase
<1>5. CASE l = "work"
  <2>1. /\ n \in Nodes /\ Kind(n) \in {"plain", "fused"}
        /\ DestOf(l, n, b) = EndDest(LastOf(n)) /\ FrontOf(l, n, b) = n
    BY <1>5 DEF Stands, DestOf, FrontOf, AtBarrier, ChunkPhase
  <2>2. LastOf(n) \in Nodes /\ LastOf(n) = IF Kind(n) = "fused" THEN n + 1 ELSE n
    BY <2>1, Kinds DEF LastOf
  <2>3. Reach(DestOf(l, n, b)) = LastOf(n) + 1
    BY <2>1, <2>2, EndReach
  <2> HIDE DEF LastOf
  <2> QED
    BY <1>1, <1>2, <1>5, <2>1, <2>2, <2>3 DEF ChunkPhase
<1>6. CASE l \in {"mul", "mul set"}
  <2>1. n \in Nodes /\ DestOf(l, n, b) = <<"mul first", n>> /\ FrontOf(l, n, b) = n
    BY <1>6 DEF Stands, DestOf, FrontOf, AtBarrier, ChunkPhase
  <2>2. Reach(DestOf(l, n, b)) = n
    BY <2>1, PairReach
  <2>3. l \notin ChunkPhase
    BY <1>6 DEF ChunkPhase
  <2>4. \A m \in Nodes, k \in Nodes : n <= m /\ m < k => n <= k
    BY <1>1
  <2>5. FrontOf(l, n, b) = n
    BY <2>1
  <2> QED
    BY <2>2, <2>3, <2>4, <2>5
<1>7. CASE l \in ChunkPhase \cup {"after", "separate"}
  <2>1. /\ n \in Nodes /\ DestOf(l, n, b) = EndDest(n)
        /\ FrontOf(l, n, b) = IF l \in ChunkPhase THEN n ELSE n + 1
    BY <1>7 DEF Stands, DestOf, FrontOf, AtBarrier, ChunkPhase
  <2>2. Reach(DestOf(l, n, b)) = n + 1
    BY <2>1, EndReach
  <2> QED
    BY <1>1, <1>7, <2>1, <2>2
<1>8. CASE l \in AtBarrier
  <2>1. /\ DestOf(l, n, b) = <<b, n>>
        /\ FrontOf(l, n, b) = IF b = "advance" THEN n + 1 ELSE n
    BY <1>8 DEF DestOf, FrontOf, AtBarrier, ChunkPhase
  <2>2. Reach(DestOf(l, n, b)) = IF b = "advance" THEN n + 1 ELSE n
    BY <2>1, PairReach
  <2>3. l \notin ChunkPhase
    BY <1>8 DEF AtBarrier, ChunkPhase
  <2> QED
    BY <1>1, <2>1, <2>2, <2>3
<1> QED
  BY <1>3, <1>4, <1>5, <1>6, <1>7, <1>8 DEF In, InGraph, ChunkPhase

-----------------------------------------------------------------------------
(***************************************************************************)
(* What follows for the nodes                                              *)
(***************************************************************************)
LEMMA ViewTypes ==
  ASSUME Types, NEW t \in Threads
  PROVE  Loc(t) \in Labels /\ Pos(t) \in Nat /\ state[t] \in StateType
         /\ state[t].back \in Backs /\ t \in Nat /\ K \in 0 .. NThreads /\ abort \in Int
<1>1. state[t] \in StateType /\ pc[t] \in Labels /\ n_graph.threads \in 0 .. NThreads
  BY DEF Types
<1>2. state[t].back \in Backs /\ state[t].node \in Nat
  BY <1>1 DEF StateType, Backs
<1>3. Loc(t) \in {"begin", state[t].back, pc[t]} /\ Pos(t) \in {0, state[t].node}
  BY DEF Loc, Pos
<1>4. Backs \subseteq Labels /\ "begin" \in Labels
  BY DEF Backs, Labels, In, InGraph
<1> QED
  BY <1>1, <1>2, <1>3, <1>4 DEF Types, Threads, K

\* The threads that take part are the first ones of the pool, as many as the graph has.
LEMMA PartThreads ==
  ASSUME Types
  PROVE  K \in Nat /\ Part \subseteq Threads /\ Part \subseteq Nat /\ Part \subseteq Bound
         /\ IsFiniteSet(Part) /\ Cardinality(Part) = K
<1>1. K \in 0 .. NThreads /\ NThreads \in Nat /\ NChunks \in Nat
  BY Kinds DEF Types, K
<1>2. IsFiniteSet(0 .. K - 1)
      /\ Cardinality(0 .. K - 1) = IF 0 > K - 1 THEN 0 ELSE (K - 1) - 0 + 1
  BY <1>1, FS_Interval
<1> QED
  BY <1>1, <1>2 DEF Part, Threads, Bound

\* The caller takes part in every graph that has a thread.
LEMMA ZeroIn ==
  0 \in Threads /\ (Types => \A t \in Part : 0 \in Part /\ K > 0)
<1>1. 0 \in Threads
  BY Kinds DEF Threads
<1>2. ASSUME Types, NEW t \in Part PROVE 0 \in Part /\ K > 0
  <2>1. K \in Nat
    BY <1>2, PartThreads
  <2> QED
    BY <2>1 DEF Part
<1> QED
  BY <1>1, <1>2

\* The reach of a thread, as a function of where it stands.
LEMMA ThreadReach ==
  ASSUME Types, Locals, NEW t \in Part, Loc(t) \in In
  PROVE  /\ Reach(Dest(t)) \in Nat /\ Front(t) \in Nat /\ Front(t) <= Reach(Dest(t))
         /\ Loc(t) \in ChunkPhase => Reach(Dest(t)) = Pos(t) + 1
         /\ \A m \in Nodes, k \in Nodes :
              ~Through(t, m) /\ m < k /\ Computed(m) /\ Computed(k) => Reach(Dest(t)) <= k
         /\ \A m \in Nodes :
              ~Through(t, m) /\ Computed(m) /\ Kind(m) = "mul" /\ ~InMul(t, m)
                => Reach(Dest(t)) <= m
<1>1. t \in Threads
  BY PartThreads
<1>2. Pos(t) \in Nat /\ state[t].back \in Backs /\ abort \in Int
  BY <1>1, ViewTypes
<1>3. Stands(Loc(t), Pos(t), state[t].back)
  BY <1>1 DEF Locals, Local
<1> DEFINE l == Loc(t)  n == Pos(t)  b == state[t].back
<1>4. Dest(t) = DestOf(l, n, b) /\ Front(t) = FrontOf(l, n, b)
  BY DEF Dest, Front
<1>5. \A m \in Nodes : m \in Nat
  BY Kinds
<1> HIDE DEF l, n, b
<1>6. l \in In /\ n \in Nat /\ b \in Backs /\ Stands(l, n, b)
  BY <1>2, <1>3 DEF l, n, b
<1>7. /\ Reach(Dest(t)) \in Nat /\ Front(t) \in Nat /\ Front(t) <= Reach(Dest(t))
      /\ l \in ChunkPhase => Reach(Dest(t)) = n + 1
      /\ \A m \in Nodes, k \in Nodes :
           Front(t) <= m /\ m < k /\ Computed(m) /\ Computed(k) => Reach(Dest(t)) <= k
      /\ \A m \in Nodes :
           Front(t) <= m /\ Computed(m) /\ Kind(m) = "mul" /\ ~(l \in ChunkPhase /\ n = m)
             => Reach(Dest(t)) <= m
  BY <1>2, <1>4, <1>6, StandReach
<1>8. \A m \in Nodes : (~Through(t, m) <=> Front(t) <= m)
                       /\ (InMul(t, m) <=> l \in ChunkPhase /\ n = m)
  BY <1>5, <1>7 DEF Through, InMul, l, n
<1> QED
  BY <1>7, <1>8 DEF l, n

\* If one thread is in a matrix product, or through, every other one is.
LEMMA SamePhase ==
  ASSUME Types, Locals, Together, NEW t \in Part, Loc(t) \in In, NEW n \in Nodes,
         Computed(n), Kind(n) = "mul", InMul(t, n) \/ Through(t, n)
  PROVE  \A u \in Part : InMul(u, n) \/ Through(u, n)
<1> SUFFICES ASSUME NEW u \in Part, ~InMul(u, n), ~Through(u, n) PROVE FALSE
  OBVIOUS
<1>1. Loc(u) \in In /\ Dest(t) = Dest(u) /\ n \in Nat
  BY Kinds DEF Together
<1>2. Reach(Dest(u)) <= n
  BY <1>1, ThreadReach
<1>3. Reach(Dest(t)) \in Nat /\ n + 1 <= Reach(Dest(t))
  BY <1>1, ThreadReach DEF InMul, Through
<1> QED
  BY <1>1, <1>2, <1>3

\* While a graph is computed, its nodes are computed in order.
LEMMA InOrder ==
  ASSUME Types, Locals, Together, 0 \in Part, Loc(0) \in In, Done
  PROVE  NodesInOrder
<1> SUFFICES ASSUME NEW n \in Nodes, Computed(n), ~Untouched(n),
                    NEW m \in 0 .. n - 1, Computed(m)
             PROVE  Whole(m)
  BY DEF NodesInOrder
<1>1. n \in Nat /\ m \in Nat /\ m \in Nodes /\ m < n
  BY Kinds DEF Nodes
<1>2. DOMAIN computed[n] = Bound /\ DOMAIN computed[m] = Bound
  BY <1>1 DEF Types
<1>3. PICK t \in Part : Through(t, n) \/ InMul(t, n)
  <2>1. CASE Kind(n) = "mul"
    BY <2>1 DEF Done, MulDone
  <2>2. CASE Kind(n) # "mul"
    <3>1. PICK p \in Bound : computed[n][p] # 0
      BY <1>2 DEF Untouched
    <3> QED
      BY <2>2, <3>1 DEF Done, PlainDone
  <2> QED
    BY <2>1, <2>2
<1>4. \A u \in Part : Loc(u) \in In /\ Dest(u) = Dest(0)
  BY DEF Together
<1>5. n + 1 <= Reach(Dest(t)) /\ Reach(Dest(t)) \in Nat
  BY <1>1, <1>3, <1>4, ThreadReach DEF InMul, Through
<1>6. ASSUME NEW u \in Part PROVE Through(u, m)
  <2> SUFFICES ASSUME ~Through(u, m) PROVE FALSE
    OBVIOUS
  <2>1. Reach(Dest(u)) <= n
    BY <1>1, <1>4, ThreadReach
  <2> QED
    BY <1>1, <1>4, <1>5, <2>1
<1>7. CASE Kind(m) = "mul"
  BY <1>1, <1>6, <1>7 DEF Done, MulDone
<1>8. CASE Kind(m) # "mul"
  <2>1. \A p \in Bound : computed[m][p] = IF p \in Part THEN 1 ELSE 0
    BY <1>1, <1>6, <1>8 DEF Done, PlainDone
  <2>2. computed[m] = [p \in Bound |-> computed[m][p]]
    BY <1>1 DEF Types
  <2> QED
    BY <1>2, <1>8, <2>1, <2>2 DEF Whole, Parts, Part, K
<1> QED
  BY <1>7, <1>8

-----------------------------------------------------------------------------
(***************************************************************************)
(* A step of one thread                                                    *)
(***************************************************************************)
Move(t) == /\ n_graph' = n_graph /\ n_barrier_passed' = n_barrier_passed
           /\ \A u \in Threads \ {t} : pc'[u] = pc[u] /\ state'[u] = state[u]

\* One thread goes to a label, the others stay.
LEMMA GoStep ==
  ASSUME Types, NEW t \in Threads, NEW l \in Labels, Go(t, l)
  PROVE  /\ pc' \in [Threads -> Labels] /\ pc'[t] = l
         /\ \A u \in Threads \ {t} : pc'[u] = pc[u]
BY DEF Types, Go

\* The state of one thread is set, the others keep theirs.
LEMMA SetStep ==
  ASSUME Types, NEW t \in Threads, NEW s \in StateType, state' = [state EXCEPT ![t] = s]
  PROVE  /\ state' \in [Threads -> StateType] /\ state'[t] = s
         /\ \A u \in Threads \ {t} : state'[u] = state[u]
BY DEF Types

\* The other threads stand where they stood.
LEMMA OthersStay ==
  ASSUME NEW t \in Threads, Move(t), NEW u \in Threads \ {t}
  PROVE  /\ Fresh(u)' = Fresh(u) /\ Released(u)' = Released(u) /\ Joined(u)' = Joined(u)
         /\ Loc(u)' = Loc(u) /\ Pos(u)' = Pos(u) /\ Front(u)' = Front(u)
         /\ state'[u] = state[u] /\ pc'[u] = pc[u]
         /\ \A n : (Through(u, n)' <=> Through(u, n)) /\ (InMul(u, n)' <=> InMul(u, n))
         /\ \A p : Holds(u, p)' <=> Holds(u, p)
         /\ abort' = abort => Dest(u)' = Dest(u)
<1>1. n_graph' = n_graph /\ n_barrier_passed' = n_barrier_passed
      /\ pc'[u] = pc[u] /\ state'[u] = state[u]
  BY DEF Move
<1>2. (Fresh(u)' <=> Fresh(u)) /\ (Released(u)' <=> Released(u)) /\ (Joined(u)' <=> Joined(u))
  BY <1>1 DEF Fresh, Released, Joined, K
<1>3. Loc(u)' = Loc(u)
  BY <1>1, <1>2 DEF Loc
<1>4. Pos(u)' = Pos(u)
  BY <1>1, <1>3 DEF Pos
<1>5. Front(u)' = Front(u)
  BY <1>1, <1>3, <1>4 DEF Front
<1>6. ASSUME abort' = abort PROVE Dest(u)' = Dest(u)
  <2>1. \A n : NodeDest(n)' = NodeDest(n)
    BY <1>6 DEF NodeDest
  <2> QED
    BY <1>1, <1>3, <1>4, <2>1 DEF Dest, DestOf
<1>7. \A n : (Through(u, n)' <=> Through(u, n)) /\ (InMul(u, n)' <=> InMul(u, n))
  BY <1>3, <1>4, <1>5 DEF Through, InMul
<1>8. \A p : Holds(u, p)' <=> Holds(u, p)
  BY <1>1, <1>3 DEF Holds
<1> QED
  BY <1>1, <1>2, <1>3, <1>4, <1>5, <1>6, <1>7, <1>8 DEF Fresh, Released, Joined

\* A step of one thread leaves alone what is known of another.
LEMMA OthersLocal ==
  ASSUME NEW t \in Threads, Move(t), abort' = abort, NEW u \in Threads \ {t}, Local(u)
  PROVE  Local(u)'
<1>1. /\ n_graph' = n_graph /\ n_barrier_passed' = n_barrier_passed
      /\ pc'[u] = pc[u] /\ state'[u] = state[u]
      /\ Released(u)' = Released(u) /\ Joined(u)' = Joined(u)
      /\ Loc(u)' = Loc(u) /\ Pos(u)' = Pos(u)
  BY OthersStay DEF Move
<1>2. Stands(Loc(u), Pos(u), state[u].back)' <=> Stands(Loc(u), Pos(u), state[u].back)
  BY <1>1 DEF Stands
<1> QED
  BY <1>1, <1>2 DEF Local, K

\* The threads at the barrier, when thread t neither arrives nor leaves.
LEMMA QuietBarriers ==
  ASSUME Barriers, NEW t \in Threads, Move(t), n_barrier' = n_barrier,
         pc[t] \notin {"reset", "open"}, pc'[t] \notin {"reset", "open"},
         pc[t] = "spin" => state[t].passed # n_barrier_passed,
         pc'[t] = "spin" => state'[t].passed # n_barrier_passed
  PROVE  Barriers'
<1>1. Waiting' = Waiting
  BY DEF Waiting, Move
<1>2. K' = K /\ Part' = Part
  BY DEF Move, K, Part
<1>3. \A r \in Threads : \A l \in {"reset", "open"} : pc'[r] = l <=> pc[r] = l
  BY DEF Move
<1> QED
  BY <1>1, <1>2, <1>3 DEF Barriers

\* A thread that heads for the same barrier as before stays with the others.
LEMMA MoveTogether ==
  ASSUME Types, Together, NEW t \in Threads, Move(t), abort' = abort,
         t \in Part => /\ Loc(t)' \in In <=> Loc(t) \in In
                       /\ Loc(t) \in In => Dest(t)' = Dest(t)
  PROVE  Together'
<1>1. Part' = Part /\ Part \subseteq Threads
  BY PartThreads DEF Move, Part, K
<1>2. \A u \in Part : (Loc(u)' \in In <=> Loc(u) \in In) /\ (Loc(u) \in In => Dest(u)' = Dest(u))
  BY <1>1, OthersStay
<1> QED
  BY <1>1, <1>2 DEF Together

\* Nothing is computed, and no thread gets through a node.
SameView ==
  /\ n_graph' = n_graph /\ computed' = computed
  /\ current_chunk' = current_chunk \/ \A u \in Part : Loc(u) \notin ChunkPhase
  /\ \A u \in Part : /\ Loc(u)' \in In <=> Loc(u) \in In
                     /\ Loc(u)' \in ChunkPhase => Loc(u) \in ChunkPhase
  /\ \A u \in Part : \A n \in Nodes : Loc(u) \in In /\ Computed(n) =>
       (Through(u, n)' <=> Through(u, n)) /\ (InMul(u, n)' <=> InMul(u, n))
  /\ \A u \in Part : \A p \in Nat : Holds(u, p)' <=> Holds(u, p)

\* What is done stays done while the threads are seen where they were.
LEMMA SameDone ==
  ASSUME Done, SameView, \A u \in Part : Loc(u) \in In
  PROVE  Done'
<1>1. Part' = Part /\ K' = K
  BY DEF Part, K, SameView
<1>2. \A n \in Nodes : (Untouched(n)' <=> Untouched(n)) /\ (Whole(n)' <=> Whole(n))
  BY DEF Untouched, Whole, Parts, SameView
<1>4. \A p \in Bound : p \in Nat
  BY DEF Bound
<1>5. ASSUME NEW n \in Nodes, Computed(n), PlainDone(n) PROVE PlainDone(n)'
  BY <1>1, <1>5 DEF PlainDone, SameView
<1>6. ASSUME NEW n \in Nodes, Computed(n), MulDone(n) PROVE MulDone(n)'
  <2>1. \A u \in Part : (Through(u, n)' <=> Through(u, n)) /\ (InMul(u, n)' <=> InMul(u, n))
    BY <1>6 DEF SameView
  <2>2. computed' = computed
    BY DEF SameView
  <2>3. CASE current_chunk' = current_chunk
    <3>1. \A p \in Nat : Given(p)' <=> Given(p)
      BY <1>1, <2>3 DEF Given, SameView
    <3> QED
      BY <1>1, <1>2, <1>4, <1>6, <2>1, <2>2, <3>1 DEF MulDone
  <2>4. CASE \A u \in Part : Loc(u) \notin ChunkPhase
    <3>1. \A u \in Part : ~InMul(u, n)
      BY <2>4 DEF InMul
    <3> QED
      BY <1>1, <1>2, <1>6, <2>1, <3>1 DEF MulDone
  <2> QED
    BY <2>3, <2>4 DEF SameView
<1> QED
  BY <1>2, <1>5, <1>6 DEF Done

\* What holds of the results as long as nothing is computed.
LEMMA SameResults ==
  ASSUME computed' = computed, n_graph' = n_graph
  PROVE  (NodesInOrder => NodesInOrder') /\ (ec' = ec /\ Finished => Finished')
<1>1. \A n \in Nodes : (Untouched(n)' <=> Untouched(n)) /\ (Whole(n)' <=> Whole(n))
  BY DEF Untouched, Whole, Parts
<1> QED
  BY <1>1, NodesBelow DEF NodesInOrder, Finished

\* Chunks are in hand inside a product only.
LEMMA ChunkHolds ==
  \A t \in Threads : /\ \A n : InMul(t, n) => Loc(t) \in ChunkPhase
                     /\ \A p : Holds(t, p) => Loc(t) \in ChunkPhase
                     /\ Loc(t) \in ChunkPhase => Loc(t) \in In
BY DEF InMul, Holds, ChunkPhase, In, InGraph

\* A step in which no thread gets on, as far as the results are concerned.
LEMMA QuietResults ==
  ASSUME Types, Results, Chunks, Together, SameView,
         ec' = ec \/ Loc(0)' # "done",
         Loc(0) \in In => 0 \in Part,
         Loc(0)' \in In <=> Loc(0) \in In, Loc(0)' = "done" => Loc(0) = "done",
         pc'[0] = "kickoff" => pc[0] = "kickoff",
         Loc(0)' = "mul set" \/ (Loc(0)' \in AtBarrier /\ state'[0].back = "mul first")
           => current_chunk' = K
  PROVE  Results' /\ Chunks'
<1>1. Part' = Part /\ K' = K /\ Part \subseteq Threads
  BY PartThreads DEF Part, K, SameView
<1>2. Loc(0) \in In => \A u \in Part : Loc(u) \in In
  BY DEF Together
<1>3. Loc(0) \in In => Done'
  BY <1>2, SameDone DEF Results
<1>4. computed' = computed /\ n_graph' = n_graph
  BY DEF SameView
<1>5. Results'
  BY <1>3, <1>4, SameResults DEF Results
<1>6. Chunks'
  <2>1. \A u \in Part : Loc(u)' \in ChunkPhase => K' <= current_chunk'
    BY <1>1 DEF Chunks, SameView
  <2>2. \A u \in Part : \A p \in Nat : Holds(u, p)' => p < current_chunk'
    <3>1. CASE current_chunk' = current_chunk
      BY <3>1 DEF Chunks, SameView
    <3>2. CASE \A u \in Part : Loc(u) \notin ChunkPhase
      BY <1>1, <3>2, ChunkHolds DEF SameView
    <3> QED
      BY <3>1, <3>2 DEF SameView
  <2>3. \A t, u \in Part : \A p \in Nat : Holds(t, p)' /\ Holds(u, p)' => t = u
    BY DEF Chunks, SameView
  <2>4. ASSUME NEW t \in Part, NEW u \in Part, NEW n \in Nodes,
               Computed(n), InMul(t, n)', Through(u, n)'
        PROVE  NChunks <= current_chunk'
    <3>1. Loc(t)' \in ChunkPhase
      BY <2>4 DEF InMul
    <3>2. Loc(t) \in ChunkPhase /\ Loc(t) \in In
      BY <1>1, <3>1, ChunkHolds DEF SameView
    <3>3. Loc(u) \in In
      BY <3>2 DEF Together
    <3>4. InMul(t, n) /\ Through(u, n) /\ current_chunk' = current_chunk
      BY <2>4, <3>2, <3>3 DEF SameView
    <3> QED
      BY <2>4, <3>4 DEF Chunks
  <2> QED
    BY <1>1, <2>1, <2>2, <2>3, <2>4 DEF Chunks
<1> QED
  BY <1>5, <1>6

\* The caller is in the graph, through it, or outside with nothing to do there.
LEMMA Caller ==
  ASSUME Types, Local(0), Aborts
  PROVE  /\ 0 \in Threads
         /\ Loc(0) \in In \cup {"done"} => 0 \in Part
         /\ pc[0] \in CallerOnly \ {"kick"} => Loc(0) = pc[0] /\ Loc(0) \notin In
<1>1. 0 \in Threads /\ K \in Nat
  BY Kinds, PartThreads DEF Threads
<1>2. pc[0] \in CallerOnly \ {"kick"} => Loc(0) = pc[0] /\ Loc(0) \notin In \cup {"done"}
  BY DEF Loc, Fresh, Released, CallerOnly, In, InGraph, AtBarrier
<1> QED
  BY <1>1, <1>2 DEF Aborts, Part

-----------------------------------------------------------------------------
(***************************************************************************)
(* A thread gets on inside a graph, without passing a barrier              *)
(***************************************************************************)
LEMMA ActiveView ==
  ASSUME Types, NEW t \in Threads, Local(t), pc[t] \in In \ {"spin"}
  PROVE  /\ t \in Part /\ Joined(t) /\ Loc(t) = pc[t]
         /\ Pos(t) = IF pc[t] = "begin" THEN 0 ELSE state[t].node
         /\ pc[t] # "begin" => state[t].nth = K
         /\ Stands(pc[t], Pos(t), state[t].back)
         /\ Dest(t) = DestOf(pc[t], Pos(t), state[t].back)
         /\ Front(t) = FrontOf(pc[t], Pos(t), state[t].back)
<1>1. Joined(t)
  BY DEF Local
<1>2. t \in Part
  BY <1>1, ViewTypes DEF Joined, Part
<1>3. ~Fresh(t) /\ ~Released(t)
  BY <1>1 DEF Joined, Fresh, Released, In, InGraph, AtBarrier
<1>4. Loc(t) = pc[t]
  BY <1>3 DEF Loc
<1> QED
  BY <1>1, <1>2, <1>4 DEF Local, Pos, Dest, Front

\* Thread t stands at l.
Steps(t, l) ==
  /\ Move(t) /\ pc'[t] = l
  /\ state'[t].last_graph = state[t].last_graph /\ state'[t].pending = state[t].pending
  /\ state'[t].passed <= n_barrier_passed
  /\ l \in AtBarrier => state'[t].passed = n_barrier_passed
  /\ state'[t].nth = K

\* Where a thread that takes one step is seen after it.
LEMMA NextView ==
  ASSUME Types, NEW t \in Threads, Local(t), pc[t] \in In \ {"spin"},
         NEW l \in (In \ {"begin"}) \cup {"done"}, Steps(t, l)
  PROVE  /\ Joined(t)' /\ Loc(t)' = l /\ Pos(t)' = state'[t].node
         /\ abort' = abort => Dest(t)' = DestOf(l, state'[t].node, state'[t].back)
         /\ Front(t)' = FrontOf(l, state'[t].node, state'[t].back)
<1>1. Joined(t)
  BY ActiveView
<1>2. Joined(t)'
  BY <1>1 DEF Joined, Steps, Move, K
<1>3. l # "kick" /\ l # "begin"
  BY DEF In, InGraph, AtBarrier
<1>4. ~Fresh(t)'
  BY <1>2, <1>3 DEF Joined, Fresh, Steps
<1>5. ~Released(t)'
  BY DEF Released, Steps, Move, AtBarrier
<1>6. Loc(t)' = l
  BY <1>4, <1>5 DEF Loc, Steps
<1>7. Pos(t)' = state'[t].node
  BY <1>3, <1>6 DEF Pos
<1>8. ASSUME abort' = abort PROVE Dest(t)' = DestOf(l, state'[t].node, state'[t].back)
  <2>1. \A n : NodeDest(n)' = NodeDest(n)
    BY <1>8 DEF NodeDest
  <2> QED
    BY <1>6, <1>7, <2>1 DEF Dest, DestOf
<1> QED
  BY <1>2, <1>6, <1>7, <1>8 DEF Front

\* A thread that goes where its node allows keeps what is known of it.
LEMMA StepLocal ==
  ASSUME Types, NEW t \in Threads, Local(t), pc[t] \in In \ {"spin"},
         NEW l \in (In \ {"begin"}) \cup {"done"}, Steps(t, l),
         l \in In => Stands(l, state[t].node, state[t].back)'
  PROVE  Local(t)'
<1>1. Joined(t)' /\ Loc(t)' = l /\ Pos(t)' = state'[t].node
  BY NextView
<1>2. Joined(t) /\ K' = K
  BY ActiveView DEF Steps, Move, K
<1>3. pc'[t] = l /\ l \notin CallerOnly /\ l \notin WorkerOnly
  BY DEF Steps, In, InGraph, AtBarrier, CallerOnly, WorkerOnly
<1>4. t = 0 => pc'[t] \notin WorkerOnly /\ ~state'[t].pending
  BY <1>3 DEF Local, Steps
<1>5. /\ state'[t].last_graph.number <= n_graph'.number
      /\ state'[t].last_graph.number = n_graph'.number => state'[t].last_graph = n_graph'
      /\ state'[t].passed <= n_barrier_passed'
  BY DEF Local, Steps, Move
<1>6. ~state'[t].pending
  BY <1>2, <1>4 DEF Joined, Steps
<1>7. pc'[t] \in {"enter", "reset", "open"} => state'[t].passed = n_barrier_passed'
  BY DEF Steps, Move, AtBarrier
<1>8. state'[t].nth = K'
  BY <1>2 DEF Steps
<1>9. Loc(t)' \in In => Stands(Loc(t), Pos(t), state[t].back)'
  BY <1>1 DEF Stands
<1> QED
  BY <1>1, <1>3, <1>4, <1>5, <1>6, <1>7, <1>8, <1>9 DEF Local

\* A step that neither computes nor passes a barrier.
LEMMA Stride ==
  ASSUME Types, Locals, Aborts, Together, Results, Chunks,
         NEW t \in Threads, pc[t] \in In \ {"spin"},
         NEW l \in In \ {"begin"}, Steps(t, l),
         abort' = abort, ec' = ec, computed' = computed,
         DestOf(l, state'[t].node, state'[t].back) = DestOf(pc[t], Pos(t), state[t].back),
         \A n \in Nodes : Computed(n) =>
           (FrontOf(l, state'[t].node, state'[t].back) > n
              <=> FrontOf(pc[t], Pos(t), state[t].back) > n),
         Stands(l, state'[t].node, state'[t].back),
         pc[t] \in ChunkPhase \/ l \in ChunkPhase =>
           /\ pc[t] = "mul first" /\ l = "chunk" /\ state'[t].chunk = t
           /\ state'[t].node = state[t].node,
         current_chunk' = current_chunk
           \/ (t = 0 /\ pc[t] = "mul" /\ current_chunk' = K),
         t = 0 /\ (l = "mul set" \/ (l \in AtBarrier /\ state'[t].back = "mul first"))
           => current_chunk' = K
  PROVE  Locals' /\ Aborts' /\ Together' /\ Results' /\ Chunks'
<1>1. /\ Move(t) /\ pc'[t] = l /\ Local(t) /\ K' = K
      /\ t \in Part /\ Joined(t) /\ Loc(t) = pc[t] /\ Loc(t) \in In
      /\ Dest(t) = DestOf(pc[t], Pos(t), state[t].back)
      /\ Front(t) = FrontOf(pc[t], Pos(t), state[t].back)
  BY ActiveView DEF Locals, Steps, Move, K
<1>2. /\ Loc(t)' = l /\ Pos(t)' = state'[t].node
      /\ Dest(t)' = DestOf(l, state'[t].node, state'[t].back)
      /\ Front(t)' = FrontOf(l, state'[t].node, state'[t].back)
  BY <1>1, NextView
<1>3. Locals'
  <2>1. Stands(l, state[t].node, state[t].back)'
    BY DEF Stands
  <2>2. Local(t)'
    BY <1>1, <2>1, StepLocal
  <2> QED
    BY <1>1, <2>2, OthersLocal DEF Locals
<1>4. Aborts'
  <2>1. pc'[0] \notin CallerOnly \ {"kick"} => K > 0
    BY <1>1, ZeroIn
  <2>2. pc'[0] = "kickoff" => pc[0] = "kickoff"
    <3>1. CASE t = 0
      BY <1>1, <3>1 DEF In, InGraph, AtBarrier
    <3>2. CASE t # 0
      BY <1>1, <3>2, ZeroIn DEF Move
    <3> QED
      BY <3>1, <3>2
  <2> QED
    BY <1>1, <2>1, <2>2 DEF Aborts
<1>5. Together'
  BY <1>1, <1>2, MoveTogether
<1>6. 0 \in Part /\ Loc(0) \in In /\ Local(0) /\ Part \subseteq Threads
  <2>1. 0 \in Threads /\ Part \subseteq Threads
    BY ZeroIn, PartThreads
  <2>2. 0 \in Part
    BY <1>1, ZeroIn
  <2> QED
    BY <1>1, <2>1, <2>2 DEF Together, Locals
<1>7. SameView
  <2>1. n_graph' = n_graph
    BY <1>1 DEF Move
  <2>2. current_chunk' = current_chunk \/ \A u \in Part : Loc(u) \notin ChunkPhase
    <3>1. CASE t = 0 /\ pc[t] = "mul"
      <4>1. Dest(0) = <<"mul first", Pos(0)>>
        BY <1>1, <3>1 DEF DestOf
      <4>2. ASSUME NEW u \in Part, Loc(u) \in ChunkPhase PROVE FALSE
        <5>1. Dest(u) = EndDest(Pos(u)) /\ Loc(u) \in In /\ Dest(u) = Dest(0)
          BY <1>6, <4>2 DEF Dest, DestOf, ChunkPhase, Together
        <5>2. Pos(u) \in Nodes
          BY <1>6, <4>2, <5>1 DEF Locals, Local, Stands
        <5>3. EndDest(Pos(u))[1] # "mul first"
          BY <5>2, EndReach
        <5>4. <<"mul first", Pos(0)>>[1] = "mul first"
          OBVIOUS
        <5> QED
          BY <4>1, <5>1, <5>3, <5>4
      <4> QED
        BY <4>2
    <3> QED
      BY <3>1
  <2>3. \A u \in Part : /\ Loc(u)' \in In <=> Loc(u) \in In
                        /\ Loc(u)' \in ChunkPhase => Loc(u) \in ChunkPhase
    <3>1. Loc(t)' \in ChunkPhase => Loc(t) \in ChunkPhase
      BY <1>1, <1>2 DEF ChunkPhase
    <3> QED
      BY <1>1, <1>2, <1>6, <3>1, OthersStay
  <2>4. ASSUME NEW u \in Part, NEW n \in Nodes, Computed(n)
        PROVE  (Through(u, n)' <=> Through(u, n)) /\ (InMul(u, n)' <=> InMul(u, n))
    <3>1. CASE u = t
      <4>1. Through(t, n)' <=> Through(t, n)
        BY <1>1, <1>2, <2>4 DEF Through
      <4>2. InMul(t, n)' <=> InMul(t, n)
        <5>1. CASE pc[t] \in ChunkPhase \/ l \in ChunkPhase
          <6>1. Pos(t) = state[t].node
            BY <1>1, <5>1, ActiveView
          <6> QED
            BY <1>1, <1>2, <5>1, <6>1 DEF InMul, ChunkPhase
        <5>2. CASE ~(pc[t] \in ChunkPhase \/ l \in ChunkPhase)
          BY <1>1, <1>2, <5>2 DEF InMul
        <5> QED
          BY <5>1, <5>2
      <4> QED
        BY <3>1, <4>1, <4>2
    <3>2. CASE u # t
      BY <1>1, <1>6, <3>2, OthersStay
    <3> QED
      BY <3>1, <3>2
  <2>5. ASSUME NEW u \in Part, NEW p \in Nat PROVE Holds(u, p)' <=> Holds(u, p)
    <3>1. CASE u = t
      <4>1. Holds(t, p)' <=> Holds(t, p)
        BY <1>1, <1>2 DEF Holds, ChunkPhase
      <4> QED
        BY <3>1, <4>1
    <3>2. CASE u # t
      BY <1>1, <1>6, <3>2, OthersStay
    <3> QED
      BY <3>1, <3>2
  <2> QED
    BY <2>1, <2>2, <2>3, <2>4, <2>5 DEF SameView
<1>8. /\ Loc(0)' \in In <=> Loc(0) \in In
      /\ Loc(0)' = "done" => Loc(0) = "done"
      /\ pc'[0] = "kickoff" => pc[0] = "kickoff"
      /\ Loc(0)' = "mul set" \/ (Loc(0)' \in AtBarrier /\ state'[0].back = "mul first")
           => current_chunk' = K
  <2>1. CASE t = 0
    BY <1>1, <1>2, <1>6, <2>1 DEF In, InGraph, AtBarrier
  <2>2. CASE t # 0
    <3>1. /\ Loc(0)' = Loc(0) /\ state'[0].back = state[0].back /\ pc'[0] = pc[0]
          /\ current_chunk' = current_chunk
      BY <1>1, <1>6, <2>2, OthersStay
    <3> QED
      BY <1>6, <3>1 DEF Chunks
  <2> QED
    BY <2>1, <2>2
<1>9. Results' /\ Chunks'
  BY <1>6, <1>7, <1>8, QuietResults
<1> QED
  BY <1>3, <1>4, <1>5, <1>9

-----------------------------------------------------------------------------
(***************************************************************************)
(* All the threads of a graph pass a barrier                               *)
(***************************************************************************)
PassAll(b, n) ==
  /\ n_graph' = n_graph /\ abort' = abort /\ ec' = ec /\ computed' = computed
  /\ current_chunk' = current_chunk /\ pc'[0] # "kickoff"
  /\ 0 \in Part
  /\ \A u \in Part : /\ Loc(u) \in In /\ Loc(u) \notin ChunkPhase
                     /\ Front(u) = IF b = "advance" THEN n + 1 ELSE n
                     /\ Loc(u)' = b /\ Pos(u)' = n
  /\ b = "mul first" => current_chunk = K /\ n \in Nodes /\ Kind(n) = "mul" /\ Computed(n)
  /\ b = "done" => n = Len(Graph) \/ abort = n

\* A node whose every thread has computed its part is computed whole.
LEMMA WholeNode ==
  ASSUME Types, NEW m \in Nodes, Kind(m) # "mul",
         \A p \in Bound : computed[m][p] = IF p \in Part THEN 1 ELSE 0
  PROVE  Whole(m)
<1>1. DOMAIN computed[m] = Bound /\ computed[m] = [p \in Bound |-> computed[m][p]]
  BY DEF Types
<1> QED
  BY <1>1 DEF Whole, Parts, Part, K

\* The results when the last thread opens the barrier.
LEMMA PassAllResults ==
  ASSUME Types, Locals, Aborts, Together, Results, NEW b \in Backs, NEW n \in Nat, PassAll(b, n)
  PROVE  Together' /\ Chunks' /\ Results'
<1>1. /\ Part' = Part /\ K' = K /\ Part \subseteq Nat /\ Part \subseteq Bound /\ 0 \in Part
      /\ Part \subseteq Threads /\ K \in Nat
  BY PartThreads DEF PassAll, Part, K
<1>a. ASSUME NEW u \in Part
      PROVE  /\ Loc(u)' = b /\ Pos(u)' = n /\ Loc(u) \notin ChunkPhase
             /\ Front(u) = IF b = "advance" THEN n + 1 ELSE n
             /\ Front(u)' = IF b = "advance" THEN n + 1 ELSE n
  <2>1. Loc(u)' = b /\ Pos(u)' = n /\ Loc(u) \notin ChunkPhase
    BY DEF PassAll
  <2>2. Front(u)' = IF b = "advance" THEN n + 1 ELSE n
    BY <2>1 DEF Front, FrontOf, Backs, AtBarrier
  <2>3. Front(u) = IF b = "advance" THEN n + 1 ELSE n
    BY DEF PassAll
  <2> QED
    BY <2>1, <2>2, <2>3
<1>b. \A u \in Part : \A m \in Nodes : Through(u, m)' <=> Through(u, m)
  BY <1>a DEF Through
<1>c. \A u \in Part : \A m \in Nodes : ~InMul(u, m)
  BY <1>a DEF InMul
<1>d. \A u \in Part : \A m \in Nodes : InMul(u, m)' <=> b = "mul first" /\ m = n
  BY <1>a DEF InMul, Backs, ChunkPhase
<1>e. \A u \in Part : \A p \in Nat : Holds(u, p)' <=> b = "mul first" /\ p = u
  BY <1>a DEF Holds, Backs
<1>f. \A u \in Part : Loc(u)' \in In <=> b # "done"
  BY <1>a DEF Backs, In, InGraph, AtBarrier
<1>g. b # "done" =>
        \A u \in Part : Dest(u)' = IF b = "advance" THEN NodeDest(n + 1) ELSE EndDest(n)
  <2> SUFFICES ASSUME b # "done", NEW u \in Part
               PROVE  Dest(u)' = IF b = "advance" THEN NodeDest(n + 1) ELSE EndDest(n)
    OBVIOUS
  <2>1. \A k : NodeDest(k)' = NodeDest(k)
    BY DEF NodeDest, PassAll
  <2>2. Dest(u)' = DestOf(b, n, state[u].back)'
    BY <1>a DEF Dest, DestOf
  <2> QED
    BY <2>1, <2>2 DEF DestOf, Backs, ChunkPhase
<1>h. b = "mul first" => current_chunk' = K
  BY DEF PassAll
<1>3. Together'
  BY <1>1, <1>f, <1>g DEF Together
<1>4. Chunks'
  <2>1. ASSUME NEW u \in Part, Loc(u)' \in ChunkPhase PROVE K' <= current_chunk'
    <3>1. b = "mul first"
      BY <1>a, <2>1 DEF ChunkPhase, Backs
    <3>2. current_chunk' = K
      BY <1>h, <3>1
    <3> QED
      BY <1>1, <3>2
  <2>2. ASSUME NEW u \in Part, NEW p \in Nat, Holds(u, p)' PROVE p < current_chunk'
    <3>1. b = "mul first" /\ p = u
      BY <1>e, <2>2
    <3>2. current_chunk' = K /\ p = u
      BY <1>h, <3>1
    <3> QED
      BY <1>1, <3>2 DEF Part
  <2>3. \A t, u \in Part : \A p \in Nat : Holds(t, p)' /\ Holds(u, p)' => t = u
    BY <1>e
  <2>4. ASSUME NEW t \in Part, NEW u \in Part, NEW m \in Nodes, InMul(t, m)', Through(u, m)'
        PROVE  FALSE
    <3>1. b = "mul first" /\ m = n
      BY <1>d, <2>4
    <3>2. Front(u)' = m
      BY <1>a, <3>1
    <3>3. m \in Nat
      BY Kinds
    <3> QED
      BY <2>4, <3>2, <3>3 DEF Through
  <2>5. ~(Loc(0)' = "mul set" \/ (Loc(0)' \in AtBarrier /\ state'[0].back = "mul first"))
    BY <1>1, <1>a DEF Backs, AtBarrier
  <2> QED
    BY <1>1, <2>1, <2>2, <2>3, <2>4, <2>5 DEF Chunks
<1>5. Loc(0) \in In /\ Loc(0)' = b /\ pc'[0] # "kickoff" /\ Done
  BY <1>1 DEF PassAll, Results
<1>6. \A m \in Nodes : (Untouched(m)' <=> Untouched(m)) /\ (Whole(m)' <=> Whole(m))
  BY DEF Untouched, Whole, Parts, PassAll
<1>7. \A m \in Nodes : m \in Nat /\ m < Len(Graph)
  BY Kinds DEF Nodes
<1>8. CASE b # "done"
  <2>1. Done'
    <3>1. ASSUME NEW m \in Nodes, ~Computed(m) PROVE Untouched(m)'
      BY <1>5, <1>6, <3>1 DEF Done
    <3>2. ASSUME NEW m \in Nodes, Computed(m), Kind(m) # "mul" PROVE PlainDone(m)'
      <4>1. PlainDone(m) /\ computed' = computed
        BY <1>5, <3>2 DEF Done, PassAll
      <4> QED
        BY <1>1, <1>b, <4>1 DEF PlainDone
    <3>3. ASSUME NEW m \in Nodes, Computed(m), Kind(m) = "mul" PROVE MulDone(m)'
      <4>1. MulDone(m) /\ computed' = computed
        BY <1>5, <3>3 DEF Done, PassAll
      <4>2. CASE b = "mul first" /\ m = n
        <5>1. ~InMul(0, n) /\ ~Through(0, n)
          <6>1. Front(0) = n
            BY <1>1, <1>a, <4>2
          <6>2. ~InMul(0, n)
            BY <1>1, <1>c, <4>2
          <6> QED
            BY <6>1, <6>2 DEF Through
        <5>2. Untouched(n)
          BY <1>1, <4>1, <4>2, <5>1 DEF MulDone
        <5>3. DOMAIN computed[n] = Bound
          BY <4>2 DEF Types
        <5>4. \A p \in Bound : computed'[n][p] = 0
          BY <4>1, <5>2, <5>3 DEF Untouched
        <5>5. \A p \in Bound : ~Given(p)'
          <6>1. \A p \in Bound : p < K => p \in Part
            BY <1>1 DEF Part, Bound
          <6>2. current_chunk' = K
            BY <4>2 DEF PassAll
          <6>3. \A p \in Part : Holds(p, p)'
            BY <1>1, <1>e, <4>2
          <6> QED
            BY <1>1, <6>1, <6>2, <6>3 DEF Given
        <5>6. (\A u \in Part : InMul(u, n)') /\ ~Through(0, n)'
          BY <1>1, <1>a, <1>b, <1>d, <4>2, <5>1
        <5> QED
          BY <1>1, <4>2, <5>4, <5>5, <5>6 DEF MulDone
      <4>3. CASE ~(b = "mul first" /\ m = n)
        <5>1. \A u \in Part : ~InMul(u, m) /\ ~InMul(u, m)' /\ (Through(u, m)' <=> Through(u, m))
          BY <1>b, <1>c, <1>d, <4>3
        <5> QED
          BY <1>1, <1>6, <4>1, <5>1 DEF MulDone
      <4> QED
        BY <4>2, <4>3
    <3> QED
      BY <3>1, <3>2, <3>3 DEF Done
  <2>2. Loc(0)' \in In /\ Loc(0)' # "done"
    BY <1>1, <1>f, <1>5, <1>8
  <2> QED
    BY <1>3, <1>4, <1>5, <2>1, <2>2 DEF Results
<1>9. CASE b = "done"
  <2>1. NodesInOrder'
    <3>1. NodesInOrder
      BY <1>1, <1>5, InOrder
    <3> QED
      BY <3>1, SameResults DEF PassAll
  <2>2. Finished'
    <3>1. ASSUME NEW m \in Nodes, Computed(m) PROVE Whole(m) \/ (ec = "aborted" /\ Untouched(m))
      <4>1. CASE m < n
        <5>1. \A u \in Part : Through(u, m)
          BY <1>a, <1>7, <1>9, <4>1 DEF Through
        <5>2. CASE Kind(m) = "mul"
          BY <1>5, <3>1, <5>1, <5>2 DEF Done, MulDone
        <5>3. CASE Kind(m) # "mul"
          <6>1. \A p \in Bound : computed[m][p] = IF p \in Part THEN 1 ELSE 0
            BY <1>5, <3>1, <5>1, <5>3 DEF Done, PlainDone
          <6> QED
            BY <5>3, <6>1, WholeNode
        <5> QED
          BY <5>2, <5>3
      <4>2. CASE ~(m < n)
        <5>1. ec = "aborted"
          <6>1. abort = n
            BY <1>7, <1>9, <4>2 DEF PassAll
          <6> QED
            BY <6>1 DEF Aborts
        <5>2. \A u \in Part : ~Through(u, m) /\ ~InMul(u, m)
          BY <1>a, <1>c, <1>7, <1>9, <4>2 DEF Through
        <5>3. CASE Kind(m) = "mul"
          BY <1>1, <1>5, <3>1, <5>1, <5>2, <5>3 DEF Done, MulDone
        <5>4. CASE Kind(m) # "mul"
          <6>1. \A p \in Bound : computed[m][p] = 0
            BY <1>5, <3>1, <5>2, <5>4 DEF Done, PlainDone
          <6>2. DOMAIN computed[m] = Bound
            BY DEF Types
          <6> QED
            BY <5>1, <6>1, <6>2 DEF Untouched
        <5> QED
          BY <5>3, <5>4
      <4> QED
        BY <4>1, <4>2
    <3>2. Finished
      BY <1>5, <3>1 DEF Finished, Done
    <3> QED
      BY <3>2, SameResults DEF PassAll
  <2>3. Loc(0)' \notin In
    BY <1>1, <1>f, <1>9
  <2> QED
    BY <1>3, <1>4, <1>5, <2>1, <2>2, <2>3 DEF Results
<1> QED
  BY <1>8, <1>9

-----------------------------------------------------------------------------
(***************************************************************************)
(* The steps of a thread inside a graph                                    *)
(***************************************************************************)
Strides(t, l) ==
  /\ pc[t] \in In \ {"spin"} /\ l \in In \ {"begin"} /\ Steps(t, l)
  /\ abort' = abort /\ ec' = ec /\ computed' = computed
  /\ DestOf(l, state'[t].node, state'[t].back) = DestOf(pc[t], Pos(t), state[t].back)
  /\ \A n \in Nodes : Computed(n) =>
       (FrontOf(l, state'[t].node, state'[t].back) > n
          <=> FrontOf(pc[t], Pos(t), state[t].back) > n)
  /\ Stands(l, state'[t].node, state'[t].back)
  /\ pc[t] \in ChunkPhase \/ l \in ChunkPhase =>
       /\ pc[t] = "mul first" /\ l = "chunk" /\ state'[t].chunk = t
       /\ state'[t].node = state[t].node
  /\ current_chunk' = current_chunk \/ (t = 0 /\ pc[t] = "mul" /\ current_chunk' = K)
  /\ t = 0 /\ (l = "mul set" \/ (l \in AtBarrier /\ state'[t].back = "mul first"))
       => current_chunk' = K

\* A stride of a thread away from the barriers keeps the invariant.
LEMMA StrideInv ==
  ASSUME IInv, Types', NEW t \in Threads, NEW l \in In \ {"begin", "spin", "reset", "open"},
         Strides(t, l), pc[t] \notin {"reset", "open"}, n_barrier' = n_barrier
  PROVE  IInv'
<1>1. Locals' /\ Aborts' /\ Together' /\ Results' /\ Chunks'
  BY Stride DEF Strides, IInv
<1>2. Barriers'
  <2>1. pc[t] # "spin" /\ pc'[t] = l /\ Move(t)
    BY DEF Strides, Steps
  <2> QED
    BY <2>1, QuietBarriers DEF IInv
<1> QED
  BY <1>1, <1>2 DEF IInv

\* One thread gets a new label and a new state.
LEMMA TakeStep ==
  ASSUME Types, NEW t \in Threads, NEW l \in Labels, NEW s \in StateType,
         Go(t, l), state' = [state EXCEPT ![t] = s],
         n_graph' = n_graph, n_barrier_passed' = n_barrier_passed
  PROVE  /\ pc' \in [Threads -> Labels] /\ state' \in [Threads -> StateType]
         /\ Move(t) /\ pc'[t] = l /\ state'[t] = s
BY GoStep, SetStep DEF Move

\* A step that only turns a thread to another label.
LEMMA GoOnly ==
  ASSUME Types, NEW t \in Threads, NEW l \in Labels, Go(t, l), state' = state,
         n_graph' = n_graph, n_barrier_passed' = n_barrier_passed
  PROVE  /\ pc' \in [Threads -> Labels] /\ state' \in [Threads -> StateType]
         /\ Move(t) /\ pc'[t] = l /\ state'[t] = state[t]
BY GoStep DEF Move, Types

\* The fields of a thread that steps set, within their types.
LEMMA SetFields ==
  ASSUME NEW s \in StateType, NEW v \in Nat, NEW w \in Nat
  PROVE  /\ [s EXCEPT !.node = v] \in StateType
         /\ [s EXCEPT !.chunk = v] \in StateType
         /\ [s EXCEPT !.nth = v, !.node = w] \in StateType
         /\ \A b \in Backs : [s EXCEPT !.passed = v, !.back = b] \in StateType
BY DEF StateType, Backs

\* What Local and Aborts say of a thread inside a graph.
LEMMA Inside ==
  ASSUME IInv, NEW t \in Threads, pc[t] \in In \ {"spin"}
  PROVE  /\ Types /\ Local(t) /\ Aborts /\ t \in Part /\ Joined(t) /\ Loc(t) = pc[t]
         /\ Pos(t) = IF pc[t] = "begin" THEN 0 ELSE state[t].node
         /\ pc[t] # "begin" => state[t].nth = K
         /\ Stands(pc[t], Pos(t), state[t].back)
         /\ state[t] \in StateType /\ state[t].node \in Nat /\ state[t].back \in Backs
         /\ state[t].passed <= n_barrier_passed /\ K \in Nat /\ K > 0 /\ t \in Nat
         /\ Loc(0) \in In /\ 0 \in Part
         /\ \A u \in Part : Loc(u) \in In /\ Dest(u) = DestOf(pc[t], Pos(t), state[t].back)
<1>1. Types /\ Locals /\ Local(t) /\ Aborts /\ Together
  BY DEF IInv, Locals
<1>2. /\ t \in Part /\ Joined(t) /\ Loc(t) = pc[t]
      /\ Pos(t) = IF pc[t] = "begin" THEN 0 ELSE state[t].node
      /\ pc[t] # "begin" => state[t].nth = K
      /\ Stands(pc[t], Pos(t), state[t].back)
      /\ Dest(t) = DestOf(pc[t], Pos(t), state[t].back)
  BY <1>1, ActiveView
<1>3. state[t] \in StateType /\ state[t].node \in Nat /\ state[t].back \in Backs
      /\ state[t].passed <= n_barrier_passed /\ K \in Nat /\ t \in Nat
  <2>1. state[t] \in StateType /\ state[t].back \in Backs /\ K \in Nat /\ t \in Nat
    BY <1>1, ViewTypes
  <2>2. state[t].node \in Nat
    BY <2>1 DEF StateType
  <2>3. state[t].passed <= n_barrier_passed
    BY <1>1 DEF Local
  <2> QED
    BY <2>1, <2>2, <2>3
<1>4. K > 0 /\ 0 \in Part
  BY <1>2, <1>3 DEF Part
<1>5. \A u \in Part : Loc(u) \in In /\ Dest(u) = Dest(t)
  BY <1>1, <1>2 DEF Together
<1> QED
  BY <1>1, <1>2, <1>3, <1>4, <1>5

\* A stride outside the chunks of a matrix product.
LEMMA PlainStrides ==
  ASSUME IInv, NEW t \in Threads, NEW l \in In \ {"begin"}, l \notin ChunkPhase,
         pc[t] \in In \ {"spin"}, pc[t] \notin ChunkPhase, Steps(t, l),
         abort' = abort, ec' = ec, computed' = computed, current_chunk' = current_chunk,
         NEW n \in Nat, state'[t].node = n, NEW b, state'[t].back = b,
         DestOf(l, n, b) = DestOf(pc[t], Pos(t), state[t].back),
         \A m \in Nodes : Computed(m) =>
           (FrontOf(l, n, b) > m <=> FrontOf(pc[t], Pos(t), state[t].back) > m),
         Stands(l, n, b),
         t = 0 /\ (l = "mul set" \/ (l \in AtBarrier /\ b = "mul first")) => current_chunk = K
  PROVE  Strides(t, l)
<1>1. /\ FrontOf(l, state'[t].node, state'[t].back) = FrontOf(l, n, b)
      /\ DestOf(l, state'[t].node, state'[t].back) = DestOf(l, n, b)
      /\ Stands(l, state'[t].node, state'[t].back)
  OBVIOUS
<1>2. \A m \in Nodes : Computed(m) =>
        (FrontOf(l, state'[t].node, state'[t].back) > m
           <=> FrontOf(pc[t], Pos(t), state[t].back) > m)
  BY <1>1
<1>3. ~(pc[t] \in ChunkPhase \/ l \in ChunkPhase)
  OBVIOUS
<1>4. t = 0 /\ (l = "mul set" \/ (l \in AtBarrier /\ state'[t].back = "mul first"))
        => current_chunk' = K
  OBVIOUS
<1> QED
  BY <1>1, <1>2, <1>3, <1>4 DEF Strides

\* A thread takes up the graph.
LEMMA BeginStep ==
  ASSUME IInv, NEW t \in Threads, Begin(t)
  PROVE  IInv'
<1>1. pc[t] = "begin" /\ pc[t] \in In
  BY DEF Begin, In, InGraph
<1> DEFINE s == [state[t] EXCEPT !.nth = K, !.node = 0]
<1>2. /\ Types /\ state[t] \in StateType /\ K \in Nat /\ Pos(t) = 0
      /\ Stands(pc[t], Pos(t), state[t].back) /\ state[t].passed <= n_barrier_passed
  BY <1>1, Inside
<1>3. s \in StateType
  BY <1>2, SetFields
<1>4. /\ s.nth = K /\ s.node = 0 /\ s.last_graph = state[t].last_graph
      /\ s.pending = state[t].pending /\ s.passed = state[t].passed /\ s.back = state[t].back
  BY <1>2 DEF StateType
<1>5. Go(t, "node") /\ state' = [state EXCEPT ![t] = s] /\ UNCHANGED <<shared, computed>>
  BY DEF Begin, K
<1> HIDE DEF s
<1>6. "node" \in Labels /\ "node" \in In \ {"begin", "spin", "reset", "open"}
      /\ "node" \notin AtBarrier /\ "node" \notin ChunkPhase /\ "begin" \notin ChunkPhase
      /\ "begin" \notin AtBarrier
  BY DEF Labels, In, InGraph, AtBarrier, ChunkPhase
<1>7. /\ pc' \in [Threads -> Labels] /\ state' \in [Threads -> StateType]
      /\ Move(t) /\ pc'[t] = "node" /\ state'[t] = s
  BY <1>2, <1>3, <1>5, <1>6, TakeStep DEF shared
<1>8. Types'
  BY <1>2, <1>5, <1>7 DEF Types, shared
<1>9. Strides(t, "node")
  <2>1. Steps(t, "node")
    BY <1>2, <1>4, <1>6, <1>7 DEF Steps
  <2>2. DestOf("node", 0, s.back) = DestOf("begin", 0, s.back)
        /\ FrontOf("node", 0, s.back) = FrontOf("begin", 0, s.back)
    BY <1>6 DEF DestOf, FrontOf
  <2>3. Stands("node", 0, s.back)
    BY <1>1, <1>2, <1>6 DEF Stands, ChunkPhase, AtBarrier
  <2> QED
    BY <1>1, <1>2, <1>4, <1>5, <1>6, <1>7, <2>1, <2>2, <2>3, PlainStrides DEF shared
<1> QED
  BY <1>1, <1>5, <1>6, <1>8, <1>9, StrideInv DEF shared

\* A stride that sets no more than the node.
LEMMA NodeStride ==
  ASSUME IInv, NEW t \in Threads, pc[t] \in In \ (AtBarrier \cup ChunkPhase \cup {"begin"}),
         NEW l \in In \ (AtBarrier \cup ChunkPhase \cup {"begin"}), NEW v \in Nat,
         Go(t, l), state' = [state EXCEPT ![t].node = v],
         UNCHANGED <<n_graph, n_barrier, n_barrier_passed, current_chunk, abort, ec, computed>>,
         DestOf(l, v, state[t].back) = DestOf(pc[t], state[t].node, state[t].back),
         \A m \in Nodes : Computed(m) =>
           (FrontOf(l, v, state[t].back) > m
              <=> FrontOf(pc[t], state[t].node, state[t].back) > m),
         Stands(l, v, state[t].back),
         t = 0 /\ l = "mul set" => current_chunk = K
  PROVE  IInv'
<1> DEFINE s == [state[t] EXCEPT !.node = v]
<1>1. /\ Types /\ state[t] \in StateType /\ K \in Nat /\ Pos(t) = state[t].node
      /\ state[t].passed <= n_barrier_passed /\ state[t].nth = K
  BY Inside DEF AtBarrier
<1>2. s \in StateType
  BY <1>1, SetFields
<1>3. /\ s.nth = K /\ s.node = v /\ s.last_graph = state[t].last_graph
      /\ s.pending = state[t].pending /\ s.passed = state[t].passed /\ s.back = state[t].back
  BY <1>1 DEF StateType
<1>4. state' = [state EXCEPT ![t] = s]
  OBVIOUS
<1> HIDE DEF s
<1>5. l \in Labels /\ pc[t] # "spin"
  BY DEF Labels, AtBarrier
<1>6. /\ pc' \in [Threads -> Labels] /\ state' \in [Threads -> StateType]
      /\ Move(t) /\ pc'[t] = l /\ state'[t] = s
  BY <1>1, <1>2, <1>4, <1>5, TakeStep
<1>7. Types'
  BY <1>1, <1>6 DEF Types
<1>8. Steps(t, l)
  BY <1>1, <1>3, <1>6 DEF Steps
<1>9. Strides(t, l)
  <2>1. state'[t].node = v /\ state'[t].back = state[t].back
    BY <1>3, <1>6
  <2> QED
    BY <1>1, <1>5, <1>8, <2>1, PlainStrides
<1> QED
  BY <1>7, <1>9, StrideInv DEF AtBarrier

\* A stride that sets the label only.
LEMMA LabelStride ==
  ASSUME IInv, NEW t \in Threads, pc[t] \in In \ (AtBarrier \cup ChunkPhase \cup {"begin"}),
         NEW l \in In \ (AtBarrier \cup ChunkPhase \cup {"begin"}),
         Go(t, l), state' = state,
         UNCHANGED <<n_graph, n_barrier, n_barrier_passed, current_chunk, abort, ec, computed>>,
         LET n == state[t].node  b == state[t].back
         IN  /\ DestOf(l, n, b) = DestOf(pc[t], n, b) /\ FrontOf(l, n, b) = FrontOf(pc[t], n, b)
             /\ Stands(l, n, b),
         t = 0 /\ l = "mul set" => current_chunk = K
  PROVE  IInv'
<1>1. state[t] \in StateType /\ state \in [Threads -> StateType] /\ state[t].node \in Nat
  BY Inside DEF AtBarrier, Types
<1>2. state' = [state EXCEPT ![t].node = state[t].node]
  <2>1. [state[t] EXCEPT !.node = state[t].node] = state[t]
    BY <1>1 DEF StateType
  <2> QED
    BY <1>1, <2>1
<1> QED
  BY <1>1, <1>2, NodeStride

\* A thread behind the barrier between two nodes goes to the next one.
LEMMA AdvanceStep ==
  ASSUME IInv, NEW t \in Threads, Advance(t)
  PROVE  IInv'
<1>1. pc[t] = "advance" /\ pc[t] \in In \ (AtBarrier \cup ChunkPhase \cup {"begin"})
      /\ "node" \in In \ (AtBarrier \cup ChunkPhase \cup {"begin"})
  BY DEF Advance, In, InGraph, AtBarrier, ChunkPhase
<1> DEFINE n == state[t].node
<1>2. n \in Nat /\ Pos(t) = n /\ Stands("advance", n, state[t].back)
  BY <1>1, Inside DEF AtBarrier
<1>3. Go(t, "node") /\ state' = [state EXCEPT ![t].node = n + 1] /\ UNCHANGED <<shared, computed>>
  BY DEF Advance
<1> HIDE DEF n
<1>4. n \in Nodes /\ Kind(n) \in {"plain", "mul"}
  BY <1>2 DEF Stands
<1>5. n + 1 \in 0 .. Len(Graph) /\ Clear(n + 1)
  <2>1. n + 1 \in 0 .. Len(Graph) /\ (n + 1) - 1 = n
    BY <1>2, <1>4, Kinds DEF Nodes
  <2> QED
    BY <1>4, <2>1 DEF Clear
<1>6. /\ DestOf("node", n + 1, state[t].back) = DestOf("advance", n, state[t].back)
      /\ FrontOf("node", n + 1, state[t].back) = FrontOf("advance", n, state[t].back)
      /\ Stands("node", n + 1, state[t].back)
  BY <1>5 DEF DestOf, FrontOf, Stands, ChunkPhase, AtBarrier
<1>7. UNCHANGED <<n_graph, n_barrier, n_barrier_passed, current_chunk, abort, ec, computed>>
      /\ n + 1 \in Nat
  BY <1>2, <1>3 DEF shared
<1> QED
  BY <1>1, <1>3, <1>6, <1>7, NodeStride DEF n

\* The loop over the nodes, as long as there is a node to compute.
LEMMA NodeOnStep ==
  ASSUME IInv, NEW t \in Threads, Node(t), state[t].node \in Nodes, abort # state[t].node
  PROVE  IInv'
<1>1. pc[t] = "node" /\ pc[t] \in In \ (AtBarrier \cup ChunkPhase \cup {"begin"})
      /\ {"node", "mul", "work"} \subseteq In \ (AtBarrier \cup ChunkPhase \cup {"begin"})
  BY DEF Node, In, InGraph, AtBarrier, ChunkPhase
<1> DEFINE n == state[t].node  b == state[t].back
<1>2. n \in Nat /\ Pos(t) = n /\ Stands("node", n, b) /\ Aborts
  BY <1>1, Inside DEF AtBarrier
<1>3. UNCHANGED <<n_graph, n_barrier, n_barrier_passed, current_chunk, abort, ec, computed>>
  BY DEF Node, shared
<1>4. Kind(n) \in {"plain", "mul", "fused", "skip"} /\ Clear(n) /\ n \in Nodes /\ n + 1 \in Nat
  <2>1. Clear(n)
    BY <1>2 DEF Stands
  <2>2. n \in Nodes /\ n + 1 \in Nat
    BY <1>2
  <2>3. Kind(n) \in {"plain", "mul", "fused", "skip"}
    BY <2>2, Kinds
  <2> QED
    BY <2>1, <2>2, <2>3
<1>5. CASE Kind(n) = "skip"
  <2>1. Go(t, "node") /\ state' = [state EXCEPT ![t].node = n + 1]
    <3>1. pc' = pc /\ state' = [state EXCEPT ![t].node = n + 1]
      BY <1>5 DEF Node
    <3>2. pc = [pc EXCEPT ![t] = "node"]
      BY <1>1 DEF IInv, Types
    <3> QED
      BY <3>1, <3>2 DEF Go
  <2> HIDE DEF n, b
  <2>2. n + 1 \in 0 .. Len(Graph) /\ (n + 1) - 1 = n
    BY <1>2, <1>4, Kinds DEF Nodes
  <2>3. Clear(n + 1) /\ abort # n + 1
    BY <1>2, <1>5, <2>2 DEF Clear, Aborts
  <2>4. NodeDest(n + 1) = NodeDest(n)
    BY <1>4, <1>5, <2>3, NodeDestStep DEF n
  <2>5. DestOf("node", n + 1, b) = DestOf("node", n, b) /\ Stands("node", n + 1, b)
        /\ FrontOf("node", n, b) = n /\ FrontOf("node", n + 1, b) = n + 1
    BY <2>2, <2>3, <2>4 DEF DestOf, Stands, FrontOf, AtBarrier, ChunkPhase
  <2>6. ASSUME NEW m \in Nodes, Computed(m) PROVE n + 1 > m <=> n > m
    BY <1>2, <1>5, <2>6, Kinds DEF Computed
  <2> QED
    BY <1>1, <1>3, <1>4, <2>1, <2>5, <2>6, NodeStride DEF n, b
<1>6. CASE Kind(n) # "skip"
  <2> DEFINE l == IF Kind(n) = "mul" THEN "mul" ELSE "work"
  <2>1. Go(t, l) /\ state' = state
    BY <1>6 DEF Node
  <2> HIDE DEF n, b
  <2>2. DestOf(l, n, b) = DestOf("node", n, b)
    BY <1>4, <1>6, NodeDestStep DEF DestOf, n
  <2>3. Stands(l, n, b) /\ FrontOf(l, n, b) = FrontOf("node", n, b)
    BY <1>4, <1>6 DEF Stands, FrontOf, ChunkPhase, AtBarrier
  <2>4. l \in In \ (AtBarrier \cup ChunkPhase \cup {"begin"}) /\ l # "mul set"
    BY <1>1
  <2> HIDE DEF l
  <2> QED
    BY <1>1, <1>3, <2>1, <2>2, <2>3, <2>4, LabelStride DEF n, b
<1> QED
  BY <1>5, <1>6

\* Behind the last node a thread goes on without a barrier.
LEMMA SeparateLastStep ==
  ASSUME IInv, NEW t \in Threads, Separate(t), state[t].node + 1 \notin Nodes
  PROVE  IInv'
<1>1. /\ pc[t] = "separate" /\ Go(t, "advance") /\ state' = state
      /\ UNCHANGED <<n_graph, n_barrier, n_barrier_passed, current_chunk, abort, ec, computed>>
  BY DEF Separate, shared
<1>2. /\ pc[t] \in In \ (AtBarrier \cup ChunkPhase \cup {"begin"})
      /\ "advance" \in In \ (AtBarrier \cup ChunkPhase \cup {"begin"})
  BY <1>1 DEF In, InGraph, AtBarrier, ChunkPhase
<1> DEFINE n == state[t].node  b == state[t].back
<1>3. n \in Nat /\ Pos(t) = n /\ Stands("separate", n, b)
  BY <1>1, <1>2, Inside DEF AtBarrier
<1>4. n + 1 \notin Nodes
  OBVIOUS
<1> HIDE DEF n, b
<1>5. /\ DestOf("advance", n, b) = DestOf("separate", n, b)
      /\ FrontOf("advance", n, b) = FrontOf("separate", n, b) /\ Stands("advance", n, b)
  BY <1>3, <1>4 DEF DestOf, FrontOf, Stands, ChunkPhase, AtBarrier, EndDest, NodeDest
<1> QED
  BY <1>1, <1>2, <1>5, LabelStride DEF n, b

\* The first thread sets the counter of the chunks.
LEMMA MulSetStep ==
  ASSUME IInv, NEW t \in Threads, MulSet(t)
  PROVE  IInv'
<1>1. /\ pc[t] = "mul" /\ Go(t, "mul set") /\ state' = state
      /\ current_chunk' = IF t = 0 THEN state[t].nth ELSE current_chunk
      /\ UNCHANGED <<n_graph, n_barrier, n_barrier_passed, abort, ec, computed>>
  BY DEF MulSet
<1>2. /\ pc[t] \in In \ (AtBarrier \cup ChunkPhase \cup {"begin"})
      /\ "mul set" \in In \ (AtBarrier \cup ChunkPhase \cup {"begin"})
  BY <1>1 DEF In, InGraph, AtBarrier, ChunkPhase
<1> DEFINE n == state[t].node  b == state[t].back
<1>3. /\ n \in Nat /\ Pos(t) = n /\ Stands("mul", n, b) /\ state[t].nth = K /\ Types /\ K \in Nat
      /\ state[t].passed <= n_barrier_passed
  BY <1>1, <1>2, Inside DEF AtBarrier
<1> HIDE DEF n, b
<1>4. /\ DestOf("mul set", n, b) = DestOf("mul", n, b)
      /\ FrontOf("mul set", n, b) = FrontOf("mul", n, b) /\ Stands("mul set", n, b)
  BY <1>3 DEF DestOf, FrontOf, Stands, ChunkPhase, AtBarrier
<1>5. CASE t # 0
  BY <1>1, <1>2, <1>4, <1>5, LabelStride DEF n, b
<1>6. CASE t = 0
  <2>1. "mul set" \in Labels
    BY <1>2 DEF Labels
  <2>2. /\ pc' \in [Threads -> Labels] /\ state' \in [Threads -> StateType]
        /\ Move(t) /\ pc'[t] = "mul set" /\ state'[t] = state[t]
    BY <1>1, <1>3, <2>1, GoOnly
  <2>3. current_chunk' = K
    BY <1>1, <1>3, <1>6
  <2>4. Types'
    BY <1>1, <1>3, <2>2, <2>3 DEF Types
  <2>5. Steps(t, "mul set")
    BY <1>2, <1>3, <2>2 DEF Steps
  <2>6. state'[t].node = n /\ state'[t].back = b
    BY <2>2 DEF n, b
  <2>7. /\ DestOf("mul set", state'[t].node, state'[t].back) = DestOf(pc[t], Pos(t), state[t].back)
        /\ FrontOf("mul set", state'[t].node, state'[t].back)
             = FrontOf(pc[t], Pos(t), state[t].back)
        /\ Stands("mul set", state'[t].node, state'[t].back)
    BY <1>1, <1>3, <1>4, <2>6 DEF b
  <2>8. Strides(t, "mul set")
    BY <1>1, <1>2, <1>6, <2>3, <2>5, <2>7 DEF Strides, AtBarrier
  <2> QED
    BY <1>1, <1>2, <2>4, <2>8, StrideInv DEF AtBarrier
<1> QED
  BY <1>5, <1>6

\* A thread takes the chunk that carries its own number.
LEMMA MulFirstStep ==
  ASSUME IInv, NEW t \in Threads, MulFirst(t)
  PROVE  IInv'
<1>1. /\ pc[t] = "mul first" /\ Go(t, "chunk") /\ state' = [state EXCEPT ![t].chunk = t]
      /\ UNCHANGED <<shared, computed>>
  BY DEF MulFirst
<1>2. /\ pc[t] \in In \ {"spin", "reset", "open", "begin"} /\ "chunk" \in Labels
      /\ "chunk" \in In \ {"begin", "spin", "reset", "open"} /\ "chunk" \notin AtBarrier
      /\ {"mul first", "chunk"} \subseteq ChunkPhase
  BY <1>1 DEF In, InGraph, AtBarrier, ChunkPhase, Labels
<1> DEFINE s == [state[t] EXCEPT !.chunk = t]
<1>3. /\ Types /\ state[t] \in StateType /\ K \in Nat /\ Pos(t) = state[t].node /\ t \in Nat
      /\ state[t].passed <= n_barrier_passed /\ state[t].nth = K
      /\ Stands("mul first", state[t].node, state[t].back)
  BY <1>1, <1>2, Inside
<1>4. s \in StateType
  BY <1>3, SetFields
<1>5. /\ s.nth = K /\ s.node = state[t].node /\ s.last_graph = state[t].last_graph /\ s.chunk = t
      /\ s.pending = state[t].pending /\ s.passed = state[t].passed /\ s.back = state[t].back
  BY <1>3 DEF StateType
<1>6. state' = [state EXCEPT ![t] = s]
  BY <1>1
<1> HIDE DEF s
<1>7. /\ pc' \in [Threads -> Labels] /\ state' \in [Threads -> StateType]
      /\ Move(t) /\ pc'[t] = "chunk" /\ state'[t] = s
  BY <1>1, <1>2, <1>3, <1>4, <1>6, TakeStep DEF shared
<1>8. Types'
  BY <1>1, <1>3, <1>7 DEF Types, shared
<1>9. Steps(t, "chunk")
  BY <1>2, <1>3, <1>5, <1>7 DEF Steps
<1>10. /\ state'[t].node = state[t].node /\ state'[t].back = state[t].back /\ state'[t].chunk = t
  BY <1>5, <1>7
<1>11. \A n, b : DestOf("chunk", n, b) = DestOf("mul first", n, b)
                 /\ FrontOf("chunk", n, b) = FrontOf("mul first", n, b)
                 /\ (Stands("mul first", n, b) => Stands("chunk", n, b))
  BY DEF DestOf, FrontOf, Stands, ChunkPhase, AtBarrier
<1>12. /\ DestOf("chunk", state'[t].node, state'[t].back) = DestOf(pc[t], Pos(t), state[t].back)
       /\ FrontOf("chunk", state'[t].node, state'[t].back)
             = FrontOf(pc[t], Pos(t), state[t].back)
       /\ Stands("chunk", state'[t].node, state'[t].back)
  BY <1>1, <1>3, <1>10, <1>11
<1>13. Strides(t, "chunk")
  BY <1>1, <1>2, <1>9, <1>10, <1>12 DEF Strides, shared
<1> QED
  BY <1>1, <1>2, <1>8, <1>13, StrideInv DEF shared

StretchEnds     == {"node", "mul set", "separate"}
ChunksSet(t, b) == t = 0 /\ b = "mul first" => current_chunk = K

\* A thread comes to a barrier; in a graph of one thread, it is through at once.
LEMMA BarrierStep ==
  ASSUME IInv, NEW t \in Threads, pc[t] \in StretchEnds, NEW b \in Backs,
         Barrier(t, b), UNCHANGED <<shared, computed>>,
         DestOf(pc[t], state[t].node, state[t].back) = <<b, state[t].node>>,
         FrontOf(pc[t], state[t].node, state[t].back) = FrontOf("enter", state[t].node, b),
         Stands("enter", state[t].node, b), ChunksSet(t, b)
  PROVE  IInv'
<1>1. /\ pc[t] \in In \ {"spin", "reset", "open", "begin"} /\ pc[t] \notin ChunkPhase
      /\ "enter" \in Labels /\ "enter" \in In \ {"begin", "spin", "reset", "open"}
      /\ "enter" \notin ChunkPhase /\ "enter" \in AtBarrier
      /\ b \in Labels
  BY DEF StretchEnds, In, InGraph, AtBarrier, ChunkPhase, Labels, Backs
<1>2. /\ UNCHANGED <<n_graph, n_barrier, n_barrier_passed, current_chunk, abort, ec, computed>>
  BY DEF shared
<1> DEFINE n == state[t].node
<1>3. /\ Types /\ state[t] \in StateType /\ K \in Nat /\ Pos(t) = n /\ n \in Nat
      /\ state[t].passed <= n_barrier_passed /\ state[t].nth = K /\ t \in Nat
      /\ t \in Part /\ 0 \in Part /\ Aborts /\ Local(t)
      /\ n_barrier_passed \in Nat
  BY <1>1, Inside DEF Types
<1>4. CASE K # 1
  <2> DEFINE s == [state[t] EXCEPT !.passed = n_barrier_passed, !.back = b]
  <2>1. Go(t, "enter") /\ state' = [state EXCEPT ![t] = s]
    BY <1>4 DEF Barrier, K
  <2>2. s \in StateType
    BY <1>3, SetFields
  <2>3. /\ s.nth = K /\ s.node = state[t].node /\ s.last_graph = state[t].last_graph
        /\ s.pending = state[t].pending /\ s.passed = n_barrier_passed /\ s.back = b
    BY <1>3 DEF StateType, Backs
  <2> HIDE DEF s
  <2>4. /\ pc' \in [Threads -> Labels] /\ state' \in [Threads -> StateType]
        /\ Move(t) /\ pc'[t] = "enter" /\ state'[t] = s
    BY <1>1, <1>2, <1>3, <2>1, <2>2, TakeStep
  <2>5. Types'
    BY <1>2, <1>3, <2>4 DEF Types
  <2>6. Steps(t, "enter")
    <3>1. state'[t].passed = n_barrier_passed /\ n_barrier_passed <= n_barrier_passed
      BY <1>3, <2>3, <2>4
    <3> QED
      BY <1>3, <2>3, <2>4, <3>1 DEF Steps
  <2>7. DestOf("enter", n, b) = <<b, n>>
    BY DEF DestOf, ChunkPhase
  <2>8. state'[t].node = n /\ state'[t].back = b
    BY <2>3, <2>4
  <2>9. Strides(t, "enter")
    BY <1>1, <1>2, <1>3, <2>6, <2>7, <2>8, PlainStrides DEF ChunksSet
  <2> QED
    BY <1>1, <1>2, <2>5, <2>9, StrideInv
<1>5. CASE K = 1
  <2>1. Go(t, b) /\ state' = state
    BY <1>5 DEF Barrier, K
  <2>2. t = 0 /\ Part = {0}
    <3>1. Part = 0 .. 0
      BY <1>5 DEF Part
    <3>2. \A x \in 0 .. 0 : x = 0
      OBVIOUS
    <3> QED
      BY <1>3, <3>1, <3>2
  <2>3. /\ pc' \in [Threads -> Labels] /\ state' \in [Threads -> StateType]
        /\ Move(t) /\ pc'[t] = b /\ state'[t] = state[t]
    BY <1>1, <1>2, <1>3, <2>1, GoOnly
  <2>4. Types'
    BY <1>2, <1>3, <2>3 DEF Types
  <2>5. b \in (In \ {"begin"}) \cup {"done"} /\ b \notin AtBarrier /\ b # "kickoff"
    BY DEF Backs, In, InGraph, AtBarrier
  <2>6. Steps(t, b)
    BY <1>3, <2>3, <2>5 DEF Steps
  <2>7. Joined(t)' /\ Loc(t)' = b /\ Pos(t)' = n
    BY <1>1, <1>3, <2>3, <2>5, <2>6, NextView
  <2>8. b = "advance" => n + 1 \in Nodes /\ n \in Nodes /\ Kind(n) \in {"plain", "mul"}
    BY <1>1 DEF Stands
  <2>9. b = "mul first" => n \in Nodes /\ Kind(n) = "mul" /\ Clear(n)
    BY <1>1 DEF Stands
  <2>10. b = "done" => n = Len(Graph) \/ abort = n
    BY <1>1 DEF Stands
  <2>11. b \in In => Stands(b, n, b)
    BY <2>5, <2>8, <2>9 DEF Stands, Backs, ChunkPhase, In, InGraph, AtBarrier
  <2>12. Local(t)'
    <3>1. b \in In => Stands(b, state[t].node, state[t].back)'
      <4>1. state'[t].node = n
        BY <2>3
      <4> HIDE DEF n
      <4> QED
        BY <2>8, <2>9, <2>5, <4>1 DEF Stands, Backs, ChunkPhase, In, InGraph, AtBarrier
    <3> QED
      BY <1>1, <1>3, <2>5, <2>6, <3>1, StepLocal
  <2>13. Locals'
    BY <1>2, <2>3, <2>12, OthersLocal DEF IInv, Locals
  <2>14. Aborts'
    <3>1. K' = K /\ K > 0 /\ pc'[0] # "kickoff"
      BY <1>2, <1>3, <1>5, <2>2, <2>3, <2>5 DEF K
    <3> QED
      BY <1>2, <1>3, <3>1 DEF Aborts
  <2>15. Barriers'
    <3>1. pc[t] \notin {"spin", "reset", "open"} /\ b \notin {"spin", "reset", "open"}
      BY <1>1, <2>5 DEF AtBarrier
    <3> QED
      BY <1>2, <2>3, <3>1, QuietBarriers DEF IInv
  <2>16. PassAll(b, n)
    <3>1. Front(t) = IF b = "advance" THEN n + 1 ELSE n
      BY <1>1, <1>3, ActiveView DEF FrontOf
    <3>2. Loc(t) \in In /\ Loc(t) \notin ChunkPhase
      BY <1>1, Inside
    <3>3. b = "mul first" => Computed(n)
      BY <2>9 DEF Clear, Computed
    <3>4. pc'[0] # "kickoff"
      BY <2>2, <2>3, <2>5
    <3> QED
      BY <1>2, <2>2, <2>7, <2>9, <2>10, <3>1, <3>2, <3>3, <3>4 DEF PassAll, ChunksSet
  <2>17. Together' /\ Chunks' /\ Results'
    BY <1>3, <2>16, PassAllResults DEF IInv
  <2> QED
    BY <2>4, <2>13, <2>14, <2>15, <2>17 DEF IInv
<1> QED
  BY <1>4, <1>5

\* A thread comes to the barrier before the chunks.
LEMMA MulBarrierStep ==
  ASSUME IInv, NEW t \in Threads, MulBarrier(t)
  PROVE  IInv'
<1>1. /\ pc[t] = "mul set" /\ Barrier(t, "mul first") /\ UNCHANGED <<shared, computed>>
  BY DEF MulBarrier
<1>2. pc[t] \in In \ {"spin", "begin"} /\ pc[t] \in StretchEnds /\ "mul first" \in Backs
  BY <1>1 DEF In, InGraph, AtBarrier, StretchEnds, Backs
<1> DEFINE n == state[t].node
<1>3. Stands("mul set", n, state[t].back) /\ Loc(t) = "mul set" /\ n \in Nat
  BY <1>1, <1>2, Inside
<1>4. /\ DestOf("mul set", n, state[t].back) = <<"mul first", n>>
      /\ FrontOf("mul set", n, state[t].back) = FrontOf("enter", n, "mul first")
      /\ Stands("enter", n, "mul first")
  <2> HIDE DEF n
  <2> QED
    BY <1>3 DEF DestOf, FrontOf, Stands, ChunkPhase, AtBarrier
<1>5. ChunksSet(t, "mul first")
  BY <1>3 DEF ChunksSet, IInv, Chunks
<1> QED
  BY <1>1, <1>2, <1>4, <1>5, BarrierStep

\* A thread comes to the end of the graph, or to the node it was aborted at.
LEMMA NodeEndStep ==
  ASSUME IInv, NEW t \in Threads, Node(t), ~(state[t].node \in Nodes /\ abort # state[t].node)
  PROVE  IInv'
<1>1. /\ pc[t] = "node" /\ Barrier(t, "done") /\ UNCHANGED <<shared, computed>>
  BY DEF Node
<1>2. pc[t] \in In \ {"spin", "begin"} /\ pc[t] \in StretchEnds /\ "done" \in Backs
  BY <1>1 DEF In, InGraph, AtBarrier, StretchEnds, Backs
<1> DEFINE n == state[t].node
<1>3. Stands("node", n, state[t].back) /\ n \in Nat
  BY <1>1, <1>2, Inside
<1>4. n \notin Nodes \/ abort = n
  OBVIOUS
<1>5. /\ DestOf("node", n, state[t].back) = <<"done", n>>
      /\ FrontOf("node", n, state[t].back) = FrontOf("enter", n, "done")
      /\ Stands("enter", n, "done")
  <2> HIDE DEF n
  <2>1. n \in 0 .. Len(Graph) /\ Clear(n)
    BY <1>3 DEF Stands
  <2>2. n = Len(Graph) \/ abort = n
    BY <1>3, <1>4, <2>1, Kinds DEF Nodes
  <2> QED
    BY <1>4, <2>1, <2>2 DEF DestOf, FrontOf, Stands, ChunkPhase, AtBarrier, NodeDest
<1>6. ChunksSet(t, "done")
  BY DEF ChunksSet
<1> QED
  BY <1>1, <1>2, <1>5, <1>6, BarrierStep

\* A thread comes to the barrier between two nodes.
LEMMA SeparateStep ==
  ASSUME IInv, NEW t \in Threads, Separate(t), state[t].node + 1 \in Nodes
  PROVE  IInv'
<1>1. /\ pc[t] = "separate" /\ Barrier(t, "advance") /\ UNCHANGED <<shared, computed>>
  BY DEF Separate
<1>2. pc[t] \in In \ {"spin", "begin"} /\ pc[t] \in StretchEnds /\ "advance" \in Backs
  BY <1>1 DEF In, InGraph, AtBarrier, StretchEnds, Backs
<1> DEFINE n == state[t].node
<1>3. Stands("separate", n, state[t].back) /\ n \in Nat
  BY <1>1, <1>2, Inside
<1>4. n + 1 \in Nodes
  OBVIOUS
<1>5. /\ DestOf("separate", n, state[t].back) = <<"advance", n>>
      /\ FrontOf("separate", n, state[t].back) = FrontOf("enter", n, "advance")
      /\ Stands("enter", n, "advance")
  <2> HIDE DEF n
  <2> QED
    BY <1>3, <1>4 DEF DestOf, FrontOf, Stands, ChunkPhase, AtBarrier, EndDest
<1>6. ChunksSet(t, "advance")
  BY DEF ChunksSet
<1> QED
  BY <1>1, <1>2, <1>5, <1>6, BarrierStep

\* A thread that is no longer released has joined the graph.
LEMMA WaitingIn ==
  ASSUME IInv
  PROVE  /\ Waiting \subseteq Part /\ IsFiniteSet(Waiting) /\ Cardinality(Waiting) \in Nat
         /\ IsFiniteSet(Part) /\ Cardinality(Part) = K /\ K \in Nat
<1>1. Types /\ Locals
  BY DEF IInv
<1>2. ASSUME NEW u \in Waiting PROVE u \in Part
  <2>1. u \in Threads /\ pc[u] = "spin" /\ ~Released(u)
    BY DEF Waiting, Released
  <2>2. Joined(u)
    BY <1>1, <2>1 DEF Locals, Local
  <2> QED
    BY <1>1, <2>1, <2>2, ViewTypes DEF Joined, Part
<1>3. IsFiniteSet(Part) /\ Cardinality(Part) = K /\ K \in Nat
  BY <1>1, PartThreads
<1> QED
  BY <1>2, <1>3, FS_Subset, FS_CardinalityType

\* While a thread of the graph is on its way, no other one opens the barrier.
LEMMA OneOpens ==
  ASSUME IInv, NEW t \in Part, pc[t] # "spin"
  PROVE  \A r \in Threads \ {t} : pc[r] \notin {"reset", "open"}
BY DEF IInv, Barriers, Waiting

\* The stride from one place of a barrier to the next.
LEMMA BarrierStride ==
  ASSUME IInv, NEW t \in Threads, pc[t] \in {"enter", "reset"},
         NEW l \in {"spin", "reset", "open"}, Go(t, l), state' = state, n_barrier' \in Nat,
         UNCHANGED <<n_graph, n_barrier_passed, current_chunk, abort, ec, computed>>
  PROVE  /\ Types' /\ Locals' /\ Aborts' /\ Together' /\ Results' /\ Chunks'
         /\ Move(t) /\ pc'[t] = l /\ t \in Part
<1>1. /\ pc[t] \in In \ {"spin", "begin"} /\ l \in Labels /\ l \in In \ {"begin"}
      /\ pc[t] \in AtBarrier /\ l \in AtBarrier /\ l # "mul set"
      /\ pc[t] \notin ChunkPhase /\ l \notin ChunkPhase
  BY DEF In, InGraph, AtBarrier, Labels, ChunkPhase
<1> DEFINE n == state[t].node  b == state[t].back
<1>2. /\ Types /\ n \in Nat /\ Pos(t) = n /\ Stands(pc[t], n, b) /\ t \in Part /\ Local(t)
      /\ state[t].nth = K /\ state[t].passed <= n_barrier_passed /\ Loc(t) = pc[t]
  BY <1>1, Inside
<1>3. state[t].passed = n_barrier_passed
  BY <1>2 DEF Local
<1>4. /\ pc' \in [Threads -> Labels] /\ state' \in [Threads -> StateType]
      /\ Move(t) /\ pc'[t] = l /\ state'[t] = state[t]
  BY <1>1, <1>2, GoOnly
<1>5. Types'
  BY <1>2, <1>4 DEF Types
<1>6. Steps(t, l)
  BY <1>2, <1>3, <1>4 DEF Steps
<1>7. state'[t].node = n /\ state'[t].back = b
  BY <1>4
<1>8. t = 0 /\ b = "mul first" => current_chunk = K
  BY <1>1, <1>2 DEF IInv, Chunks
<1> HIDE DEF n, b
<1>9. DestOf(l, n, b) = DestOf(pc[t], n, b) /\ FrontOf(l, n, b) = FrontOf(pc[t], n, b)
  BY <1>1 DEF DestOf, FrontOf, AtBarrier, ChunkPhase
<1>10. Stands(l, n, b)
  BY <1>1, <1>2 DEF Stands, AtBarrier, ChunkPhase
<1>11. /\ DestOf(l, n, b) = DestOf(pc[t], Pos(t), state[t].back)
       /\ FrontOf(l, n, b) = FrontOf(pc[t], Pos(t), state[t].back)
  BY <1>2, <1>9 DEF b
<1>12. Strides(t, l)
  BY <1>1, <1>2, <1>6, <1>7, <1>8, <1>10, <1>11, PlainStrides
<1>13. Locals' /\ Aborts' /\ Together' /\ Results' /\ Chunks'
  BY <1>12, Stride DEF Strides, IInv
<1> QED
  BY <1>2, <1>4, <1>5, <1>13

\* A thread is counted at the barrier; the last one goes on to open it.
LEMMA BarrierEnterStep ==
  ASSUME IInv, NEW t \in Threads, BarrierEnter(t)
  PROVE  IInv'
<1> DEFINE l == IF n_barrier = K - 1 THEN "reset" ELSE "spin"
<1>1. /\ pc[t] = "enter" /\ Go(t, l) /\ state' = state /\ n_barrier' = n_barrier + 1
      /\ UNCHANGED <<n_graph, n_barrier_passed, current_chunk, abort, ec, computed>>
  BY DEF BarrierEnter, K
<1>2. n_barrier \in Nat /\ Types /\ Locals
  BY DEF IInv, Types
<1>3. l \in {"spin", "reset", "open"}
  OBVIOUS
<1> HIDE DEF l
<1>4. /\ Types' /\ Locals' /\ Aborts' /\ Together' /\ Results' /\ Chunks'
      /\ Move(t) /\ pc'[t] = l /\ t \in Part
  BY <1>1, <1>2, <1>3, BarrierStride
<1>5. \A r \in Threads : pc[r] \notin {"reset", "open"}
  BY <1>1, <1>4, OneOpens
<1>6. K' = K /\ Part' = Part
  BY <1>1 DEF K, Part
<1>7. /\ Waiting \subseteq Part /\ IsFiniteSet(Waiting) /\ Cardinality(Waiting) \in Nat
      /\ IsFiniteSet(Part) /\ Cardinality(Part) = K /\ K \in Nat
  BY WaitingIn
<1>8. n_barrier = Cardinality(Waiting) /\ Waiting # Part /\ t \notin Waiting /\ K > 0
  BY <1>1, <1>2, <1>4, <1>5, ZeroIn DEF IInv, Barriers, Waiting
<1>9. Waiting \cup {t} \subseteq Part /\ IsFiniteSet(Waiting \cup {t})
      /\ Cardinality(Waiting \cup {t}) = n_barrier + 1
  BY <1>4, <1>7, <1>8, FS_AddElement
<1>10. n_barrier + 1 = K => Waiting \cup {t} = Part
  BY <1>7, <1>9, FS_Subset
<1>11. \A r \in Threads \ {t} : pc'[r] = pc[r] /\ state'[r] = state[r]
  BY <1>4 DEF Move
<1>12. state[t].passed = n_barrier_passed
  BY <1>1, <1>2 DEF Locals, Local
<1>13. CASE l = "reset"
  <2>1. n_barrier = K - 1
    BY <1>13 DEF l
  <2>2. Waiting' = Waiting
    BY <1>1, <1>4, <1>8, <1>11, <1>13 DEF Waiting
  <2>3. Waiting = Part \ {t} /\ n_barrier' = K
    BY <1>1, <1>7, <1>8, <1>10, <2>1
  <2>4. \A r \in Threads : pc'[r] \in {"reset", "open"} <=> r = t
    BY <1>4, <1>5, <1>11, <1>13
  <2>5. pc'[t] = "reset"
    BY <1>4, <1>13
  <2>6. Barriers'
    BY <1>6, <2>2, <2>3, <2>4, <2>5 DEF Barriers
  <2> QED
    BY <1>4, <2>6 DEF IInv
<1>14. CASE l = "spin"
  <2>1. n_barrier # K - 1
    BY <1>14 DEF l
  <2>2. Waiting' = Waiting \cup {t}
    <3>1. pc'[t] = "spin" /\ state'[t] = state[t]
      BY <1>1, <1>4, <1>14
    <3> QED
      BY <1>1, <1>11, <1>12, <3>1 DEF Waiting
  <2>3. Waiting' # Part
    <3>1. n_barrier + 1 # K
      BY <1>2, <1>7, <2>1
    <3> QED
      BY <1>7, <1>9, <2>2, <3>1
  <2>4. \A r \in Threads : pc'[r] \notin {"reset", "open"}
    BY <1>4, <1>5, <1>11, <1>14
  <2>5. n_barrier' = Cardinality(Waiting')
    BY <1>1, <1>9, <2>2
  <2>6. Barriers'
    BY <1>6, <2>3, <2>4, <2>5 DEF Barriers
  <2> QED
    BY <1>4, <2>6 DEF IInv
<1> QED
  BY <1>13, <1>14 DEF l

\* The last thread resets the counter of the barrier.
LEMMA BarrierResetStep ==
  ASSUME IInv, NEW t \in Threads, BarrierReset(t)
  PROVE  IInv'
<1>1. /\ pc[t] = "reset" /\ Go(t, "open") /\ state' = state /\ n_barrier' = 0
      /\ UNCHANGED <<n_graph, n_barrier_passed, current_chunk, abort, ec, computed>>
  BY DEF BarrierReset
<1>2. /\ Types' /\ Locals' /\ Aborts' /\ Together' /\ Results' /\ Chunks'
      /\ Move(t) /\ pc'[t] = "open" /\ t \in Part
  BY <1>1, BarrierStride
<1>3. \A r \in Threads \ {t} : pc[r] \notin {"reset", "open"} /\ pc'[r] = pc[r] /\ state'[r] = state[r]
  BY <1>1, <1>2, OneOpens DEF Move
<1>4. Waiting = Part \ {t}
  BY <1>1 DEF IInv, Barriers
<1>5. K' = K /\ Part' = Part /\ Waiting' = Waiting
  BY <1>1, <1>2, <1>3 DEF K, Part, Waiting
<1>6. Barriers'
  BY <1>1, <1>2, <1>3, <1>4, <1>5 DEF Barriers
<1> QED
  BY <1>2, <1>6 DEF IInv

\* The last thread opens the barrier: all the threads of the graph are through.
LEMMA BarrierOpenStep ==
  ASSUME IInv, NEW t \in Threads, BarrierOpen(t)
  PROVE  IInv'
<1> DEFINE n == state[t].node  b == state[t].back
<1>1. /\ pc[t] = "open" /\ Go(t, b) /\ state' = state /\ n_barrier' = n_barrier
      /\ n_barrier_passed' = n_barrier_passed + 1
      /\ UNCHANGED <<n_graph, current_chunk, abort, ec, computed>>
  BY DEF BarrierOpen
<1>2. /\ pc[t] \in In \ {"spin", "begin"} /\ pc[t] \in AtBarrier
  BY <1>1 DEF In, InGraph, AtBarrier
<1>3. /\ Types /\ n \in Nat /\ b \in Backs /\ Pos(t) = n /\ Stands("open", n, b) /\ t \in Part
      /\ Loc(t) = "open" /\ Aborts /\ Joined(t) /\ state[t].nth = K /\ K \in Nat
      /\ \A u \in Part : Loc(u) \in In /\ Dest(u) = DestOf("open", n, b)
      /\ 0 \in Part /\ Locals
  BY <1>1, <1>2, Inside DEF IInv
<1> HIDE DEF n, b
<1>4. n_barrier_passed \in Nat /\ n_barrier \in Nat /\ Part \subseteq Threads /\ b \in Labels
  BY <1>3, PartThreads DEF Types, Backs, Labels, In, InGraph
<1>5. K' = K /\ Part' = Part
  BY <1>1 DEF K, Part
<1>6. Waiting = Part \ {t} /\ n_barrier = 0
  BY <1>1 DEF IInv, Barriers
<1>7. \A r \in Threads \ {t} : pc[r] \notin {"reset", "open"}
  BY <1>1, <1>3, OneOpens
<1>8. pc' \in [Threads -> Labels] /\ pc'[t] = b /\ \A r \in Threads \ {t} : pc'[r] = pc[r]
  BY <1>1, <1>3, <1>4, GoStep
<1>9. Types'
  BY <1>1, <1>3, <1>4, <1>8 DEF Types
<1>10. b \notin AtBarrier /\ b \notin CallerOnly /\ b \notin WorkerOnly /\ b # "begin"
  BY <1>3 DEF Backs, AtBarrier, CallerOnly, WorkerOnly
<1>11. ASSUME NEW u \in Part
       PROVE  /\ pc[u] = IF u = t THEN "open" ELSE "spin"
              /\ state[u].passed = n_barrier_passed /\ Joined(u) /\ Loc(u) = pc[u]
              /\ state[u].back = b /\ state[u].node = n /\ Pos(u) = n /\ state[u].nth = K
  <2>1. pc[u] = IF u = t THEN "open" ELSE "spin"
    BY <1>1, <1>6 DEF Waiting
  <2>2. Local(u) /\ u \in Threads
    BY <1>3, <1>4 DEF Locals
  <2>3. state[u].passed = n_barrier_passed
    <3>1. CASE u = t
      BY <1>1, <2>2, <3>1 DEF Local
    <3>2. CASE u # t
      BY <1>6, <3>2 DEF Waiting
    <3> QED
      BY <3>1, <3>2
  <2>4. Joined(u)
    BY <2>1, <2>2, <2>3 DEF Local, Released, In, AtBarrier
  <2>5. Loc(u) = pc[u]
    BY <2>1, <2>3, <2>4 DEF Loc, Fresh, Released, Joined
  <2>6. Pos(u) = state[u].node
    BY <2>1, <2>5 DEF Pos
  <2>7. Loc(u) \in AtBarrier
    BY <2>1, <2>5 DEF AtBarrier
  <2>8. Dest(u) = <<state[u].back, state[u].node>>
    BY <2>6, <2>7 DEF Dest, DestOf, AtBarrier, ChunkPhase
  <2>9. DestOf("open", n, b) = <<b, n>>
    BY DEF DestOf, ChunkPhase
  <2>10. state[u].back = b /\ state[u].node = n
    BY <1>3, <2>8, <2>9
  <2>11. state[u].nth = K
    BY <2>1, <2>2, <2>4 DEF Local, In, AtBarrier
  <2> QED
    BY <2>1, <2>3, <2>4, <2>5, <2>6, <2>10, <2>11
<1>12. ASSUME NEW u \in Part
       PROVE  Joined(u)' /\ Loc(u)' = b /\ Pos(u)' = n
  <2>1. Joined(u)' /\ state'[u] = state[u]
    BY <1>1, <1>11 DEF Joined, K
  <2>2. pc'[u] = IF u = t THEN b ELSE "spin"
    BY <1>4, <1>8, <1>11
  <2>3. ~Fresh(u)'
    BY <1>10, <2>1, <2>2 DEF Fresh, Joined, CallerOnly
  <2>4. state'[u].passed # n_barrier_passed'
    BY <1>1, <1>4, <1>11
  <2>5. Loc(u)' = b
    BY <1>10, <1>11, <2>1, <2>2, <2>3, <2>4 DEF Loc, Released, AtBarrier
  <2> QED
    BY <1>10, <1>11, <2>1, <2>5 DEF Pos
<1>13. /\ b = "advance" => n + 1 \in Nodes /\ n \in Nodes /\ Kind(n) \in {"plain", "mul"}
       /\ b = "mul first" => n \in Nodes /\ Kind(n) = "mul" /\ Clear(n)
       /\ b = "done" => n = Len(Graph) \/ abort = n
  BY <1>3 DEF Stands, AtBarrier
<1>15. ASSUME NEW u \in Part PROVE Local(u)'
  <2>1. Local(u) /\ u \in Threads /\ state'[u] = state[u] /\ n_graph' = n_graph
    BY <1>1, <1>3, <1>4 DEF Locals
  <2>2. pc'[u] \in {"spin", b} /\ (pc'[u] = "spin" => pc[u] = "spin")
    BY <1>4, <1>8, <1>10, <1>11 DEF AtBarrier
  <2>3. u = 0 => pc'[u] \notin WorkerOnly /\ ~state'[u].pending
    BY <1>10, <2>1, <2>2 DEF Local, WorkerOnly
  <2>4. u # 0 => pc'[u] \notin CallerOnly
    BY <1>10, <2>2 DEF CallerOnly
  <2>5. state'[u].last_graph.number <= n_graph'.number
        /\ (state'[u].last_graph.number = n_graph'.number => state'[u].last_graph = n_graph')
    BY <2>1 DEF Local
  <2>6. state'[u].passed <= n_barrier_passed'
    BY <1>1, <1>4, <1>11, <2>1
  <2>7. ~state'[u].pending
    BY <1>11, <2>1, <2>3 DEF Joined
  <2>8. pc'[u] \notin {"enter", "reset", "open"}
    BY <1>10, <2>2 DEF AtBarrier
  <2>9. state'[u].nth = K'
    BY <1>5, <1>11, <2>1
  <2>10. Loc(u)' \in In => Stands(Loc(u), Pos(u), state[u].back)'
    <3>1. b \in In => Stands(b, n, state[u].back)
      BY <1>3, <1>10, <1>13 DEF Stands, Backs, ChunkPhase, In, InGraph, AtBarrier
    <3> QED
      BY <1>1, <1>12, <2>1, <3>1 DEF Stands
  <2> QED
    BY <1>12, <2>3, <2>4, <2>5, <2>6, <2>7, <2>8, <2>9, <2>10 DEF Local
<1>16. ASSUME NEW u \in Threads \ Part PROVE Local(u)'
  <2>1. Local(u) /\ pc'[u] = pc[u] /\ state'[u] = state[u] /\ n_graph' = n_graph
    BY <1>1, <1>3, <1>8 DEF Locals
  <2>2. ~Joined(u) /\ (Joined(u)' <=> Joined(u))
    BY <1>1, <1>3, ViewTypes DEF Joined, Part, K
  <2>3. /\ pc[u] \notin In \ {"spin"}
        /\ pc[u] = "spin" => Released(u) /\ state[u].back = "done"
    BY <2>1, <2>2 DEF Local
  <2>4. state[u].passed <= n_barrier_passed /\ state[u] \in StateType
    BY <1>3, <2>1 DEF Local, Types
  <2>5. state[u].passed \in Nat
    BY <2>4 DEF StateType
  <2>6. /\ state'[u].passed <= n_barrier_passed'
        /\ state[u].passed # n_barrier_passed => state'[u].passed # n_barrier_passed'
        /\ state'[u].passed # n_barrier_passed'
    BY <1>1, <1>4, <2>1, <2>4, <2>5
  <2>7. Released(u)' <=> Released(u)
    BY <2>1, <2>3, <2>6 DEF Released
  <2>8. Loc(u)' = Loc(u) /\ Pos(u)' = Pos(u)
    <3>1. Fresh(u)' <=> Fresh(u)
      <4>1. u # 0
        BY <1>3
      <4> QED
        BY <2>1, <4>1 DEF Fresh
    <3>2. Loc(u)' = Loc(u)
      BY <2>1, <2>7, <3>1 DEF Loc
    <3> QED
      BY <2>1, <3>2 DEF Pos
  <2>9. Loc(u)' \in In => Stands(Loc(u), Pos(u), state[u].back)'
    <3>1. Loc(u) \in In => Stands(Loc(u), Pos(u), state[u].back)
      BY <2>1 DEF Local
    <3> QED
      BY <1>1, <2>1, <2>8, <3>1 DEF Stands
  <2>10. pc[u] \notin {"enter", "reset", "open"}
    BY <2>3 DEF In, AtBarrier
  <2> QED
    BY <1>5, <2>1, <2>2, <2>3, <2>6, <2>7, <2>9, <2>10 DEF Local
<1>17. Locals'
  BY <1>4, <1>15, <1>16 DEF Locals
<1>18. Aborts'
  <2>1. K' = K /\ K > 0
    BY <1>3, <1>5, ZeroIn
  <2>2. pc'[0] # "kickoff"
    BY <1>3, <1>4, <1>8, <1>10, <1>11 DEF CallerOnly
  <2> QED
    BY <1>1, <1>3, <2>1, <2>2 DEF Aborts
<1>19. Barriers'
  <2>1. ASSUME NEW u \in Waiting' PROVE FALSE
    <3>1. u \in Threads /\ state[u].passed = n_barrier_passed + 1
      BY <1>1, <2>1 DEF Waiting
    <3>2. state[u].passed <= n_barrier_passed
      BY <1>3, <3>1 DEF Locals, Local
    <3> QED
      BY <1>4, <3>1, <3>2
  <2>2. Waiting' = {}
    BY <2>1
  <2>3. \A r \in Threads : pc'[r] \notin {"reset", "open"}
    BY <1>7, <1>8, <1>10 DEF AtBarrier
  <2>4. Waiting' # Part' /\ n_barrier' = Cardinality(Waiting')
    BY <1>1, <1>3, <1>5, <1>6, <2>2, FS_EmptySet
  <2> QED
    BY <2>3, <2>4 DEF Barriers
<1>20. PassAll(b, n)
  <2>1. ASSUME NEW u \in Part
        PROVE  /\ Loc(u) \in In /\ Loc(u) \notin ChunkPhase
               /\ Front(u) = IF b = "advance" THEN n + 1 ELSE n
    <3>1. Loc(u) \in AtBarrier
      BY <1>11 DEF AtBarrier
    <3> QED
      BY <1>11, <3>1 DEF Front, FrontOf, AtBarrier, ChunkPhase, In
  <2>2. b = "mul first" => current_chunk = K
    <3>1. Loc(0) \in AtBarrier /\ state[0].back = b
      BY <1>3, <1>11 DEF AtBarrier
    <3> QED
      BY <3>1 DEF IInv, Chunks
  <2>3. b = "mul first" => Computed(n)
    BY <1>13 DEF Clear, Computed
  <2>4. pc'[0] # "kickoff"
    BY <1>3, <1>4, <1>8, <1>10, <1>11 DEF CallerOnly
  <2> QED
    BY <1>1, <1>3, <1>12, <1>13, <2>1, <2>2, <2>3, <2>4 DEF PassAll
<1>21. Together' /\ Chunks' /\ Results'
  BY <1>3, <1>20, PassAllResults DEF IInv
<1> QED
  BY <1>9, <1>17, <1>18, <1>19, <1>21 DEF IInv

-----------------------------------------------------------------------------
(***************************************************************************)
(* Steps after which every thread stands where it stood                    *)
(***************************************************************************)
Stays(t) ==
  \/ /\ Loc(t)' = Loc(t) /\ Pos(t)' = Pos(t)
     /\ state'[t].back = state[t].back /\ state'[t].chunk = state[t].chunk
  \/ Loc(t) \notin In /\ Loc(t)' \notin In

\* A step that leaves every thread seen where it was keeps the invariant.
LEMMA StandStill ==
  ASSUME IInv, Types', NEW t \in Threads, Move(t),
         UNCHANGED <<abort, ec, computed, current_chunk, n_barrier>>,
         pc[t] \notin {"reset", "open"}, pc'[t] \notin {"reset", "open"},
         pc[t] = "spin" => state[t].passed # n_barrier_passed,
         pc'[t] = "spin" => state'[t].passed # n_barrier_passed,
         Local(t)', t \in Part \/ t = 0 => Stays(t),
         t = 0 => /\ Loc(0)' = "done" => Loc(0) = "done"
                  /\ pc'[0] # "kickoff"
                  /\ pc'[0] \notin CallerOnly \ {"kick"} => K > 0
  PROVE  IInv'
<1>1. Types /\ Locals /\ Aborts /\ Together /\ Barriers /\ Chunks /\ Results
  BY DEF IInv
<1>2. n_graph' = n_graph /\ K' = K /\ Part' = Part /\ Part \subseteq Threads
      /\ Local(0) /\ 0 \in Threads
  BY <1>1, PartThreads, ZeroIn DEF Move, K, Part, Locals
<1>3. Locals'
  BY <1>1, OthersLocal DEF Locals
<1>4. Barriers'
  BY <1>1, QuietBarriers
<1>5. Aborts'
  <2>1. pc'[0] = "kickoff" => pc[0] = "kickoff"
    BY <1>2 DEF Move
  <2>2. pc'[0] \notin CallerOnly \ {"kick"} => K > 0
    BY <1>1, <1>2 DEF Move, Aborts
  <2> QED
    BY <1>1, <1>2, <2>1, <2>2 DEF Aborts
<1>6. \A n : NodeDest(n)' = NodeDest(n)
  BY DEF NodeDest
<1>7. ASSUME Stays(t)
      PROVE  /\ Loc(t)' \in In <=> Loc(t) \in In
             /\ Loc(t)' \in ChunkPhase => Loc(t) \in ChunkPhase
             /\ Loc(t) \in In => Dest(t)' = Dest(t)
             /\ Loc(t) \in In => \A n \in Nodes : Through(t, n)' <=> Through(t, n)
             /\ \A n \in Nodes : InMul(t, n)' <=> InMul(t, n)
             /\ \A p \in Nat : Holds(t, p)' <=> Holds(t, p)
             /\ Loc(t) \in In => Loc(t)' = Loc(t) /\ state'[t].back = state[t].back
  <2>1. CASE Loc(t) \notin In /\ Loc(t)' \notin In
    <3>1. Loc(t) \notin ChunkPhase /\ Loc(t)' \notin ChunkPhase
      BY <2>1 DEF In, InGraph, ChunkPhase
    <3> QED
      BY <2>1, <3>1 DEF InMul, Holds, ChunkPhase
  <2>2. CASE /\ Loc(t)' = Loc(t) /\ Pos(t)' = Pos(t)
             /\ state'[t].back = state[t].back /\ state'[t].chunk = state[t].chunk
    <3>1. Dest(t)' = Dest(t) /\ Front(t)' = Front(t)
      BY <1>6, <2>2 DEF Dest, DestOf, Front
    <3>2. \A n \in Nodes : (Through(t, n)' <=> Through(t, n)) /\ (InMul(t, n)' <=> InMul(t, n))
      BY <2>2, <3>1 DEF Through, InMul
    <3>3. \A p \in Nat : Holds(t, p)' <=> Holds(t, p)
      BY <2>2 DEF Holds
    <3> QED
      BY <2>2, <3>1, <3>2, <3>3
  <2> QED
    BY <1>7, <2>1, <2>2 DEF Stays
<1>8. Together'
  BY <1>1, <1>7, MoveTogether
<1>9. SameView
  <2>1. ASSUME NEW u \in Part
        PROVE  /\ Loc(u)' \in In <=> Loc(u) \in In
               /\ Loc(u)' \in ChunkPhase => Loc(u) \in ChunkPhase
               /\ Loc(u) \in In => \A n \in Nodes : Through(u, n)' <=> Through(u, n)
               /\ \A n \in Nodes : InMul(u, n)' <=> InMul(u, n)
               /\ \A p \in Nat : Holds(u, p)' <=> Holds(u, p)
    <3>1. CASE u = t
      BY <1>7, <3>1
    <3>2. CASE u # t
      BY <1>2, <3>2, OthersStay
    <3> QED
      BY <3>1, <3>2
  <2> QED
    BY <1>2, <2>1 DEF SameView
<1>10. Loc(0) \in In => 0 \in Part
  BY <1>1, <1>2, Caller
<1>11. /\ Loc(0)' \in In <=> Loc(0) \in In
       /\ Loc(0)' = "done" => Loc(0) = "done"
       /\ pc'[0] = "kickoff" => pc[0] = "kickoff"
       /\ Loc(0)' = "mul set" \/ (Loc(0)' \in AtBarrier /\ state'[0].back = "mul first")
           => current_chunk' = K
  <2>1. CASE t = 0
    <3>1. Loc(0)' \in In <=> Loc(0) \in In
      BY <1>7, <2>1
    <3>2. Loc(0) \in In => Loc(0)' = Loc(0) /\ state'[0].back = state[0].back
      BY <1>7, <2>1
    <3>3. {"mul set"} \cup AtBarrier \subseteq In
      BY DEF In, InGraph
    <3> QED
      BY <1>1, <2>1, <3>1, <3>2, <3>3 DEF Chunks
  <2>2. CASE t # 0
    <3>1. Loc(0)' = Loc(0) /\ state'[0].back = state[0].back /\ pc'[0] = pc[0]
      BY <1>2, <2>2, OthersStay
    <3> QED
      BY <1>1, <3>1 DEF Chunks
  <2> QED
    BY <2>1, <2>2
<1>12. Results' /\ Chunks'
  BY <1>1, <1>9, <1>10, <1>11, QuietResults
<1> QED
  BY <1>3, <1>4, <1>5, <1>8, <1>12 DEF IInv

\* A thread begins a graph at its first node.
LEMMA BeginStands == \A b : Stands("begin", 0, b)
BY Kinds DEF Stands, Clear, AtBarrier, ChunkPhase

\* The last thread opens the barrier; a thread that sees it open is through.
LEMMA BarrierPassedStep ==
  ASSUME IInv, NEW t \in Threads, BarrierPassed(t)
  PROVE  IInv'
<1> DEFINE b == state[t].back
<1>1. /\ pc[t] = "spin" /\ Released(t) /\ Go(t, b) /\ state' = state
      /\ UNCHANGED <<shared, computed>>
  BY DEF BarrierPassed, Released
<1>2. Types /\ Local(t) /\ b \in Backs /\ Aborts
  BY ViewTypes DEF IInv, Locals
<1>3. b \in Labels /\ b \notin CallerOnly /\ b \notin WorkerOnly /\ b \notin AtBarrier /\ b # "begin"
  BY <1>2 DEF Backs, Labels, In, InGraph, CallerOnly, WorkerOnly, AtBarrier
<1>4. /\ pc' \in [Threads -> Labels] /\ state' \in [Threads -> StateType]
      /\ Move(t) /\ pc'[t] = b /\ state'[t] = state[t] /\ n_graph' = n_graph
      /\ n_barrier_passed' = n_barrier_passed
  BY <1>1, <1>2, <1>3, GoOnly DEF shared
<1>5. Types'
  BY <1>1, <1>2, <1>4 DEF Types, shared
<1>6. (Fresh(t)' <=> Fresh(t)) /\ (Joined(t)' <=> Joined(t))
  BY <1>1, <1>3, <1>4 DEF Fresh, Joined, CallerOnly, K
<1>7. ~Released(t)'
  BY <1>3, <1>4 DEF Released, AtBarrier
<1>8. Loc(t)' = Loc(t) /\ Pos(t)' = Pos(t)
  <2>1. Loc(t)' = Loc(t)
    BY <1>1, <1>4, <1>6, <1>7 DEF Loc
  <2> QED
    BY <1>4, <2>1 DEF Pos
<1>9. Local(t)'
  <2>1. Joined(t) \/ b = "done"
    BY <1>1, <1>2 DEF Local
  <2>2. t = 0 => ~state[t].pending
    BY <1>2 DEF Local
  <2>3. ~state[t].pending
    BY <1>1, <1>2 DEF Local
  <2>4. pc'[t] \in In => Joined(t)'
    BY <1>4, <1>6, <2>1 DEF In, InGraph, AtBarrier
  <2>5. pc'[t] \in In /\ Joined(t)' => state[t].nth = K
    BY <1>1, <1>2, <1>4, <1>6 DEF Local, In, InGraph, AtBarrier
  <2>6. pc'[t] \notin {"enter", "reset", "open", "spin"}
    BY <1>3, <1>4 DEF AtBarrier
  <2>7. Loc(t)' \in In => Stands(Loc(t), Pos(t), state[t].back)'
    <3>1. Loc(t) \in In => Stands(Loc(t), Pos(t), state[t].back)
      BY <1>2 DEF Local
    <3> QED
      BY <1>1, <1>4, <1>8, <3>1 DEF Stands, shared
  <2>8. /\ state[t].last_graph.number <= n_graph.number
        /\ state[t].last_graph.number = n_graph.number => state[t].last_graph = n_graph
        /\ state[t].passed <= n_barrier_passed
    BY <1>2 DEF Local
  <2>9. K' = K
    BY <1>4 DEF K
  <2>10. pc'[t] \notin WorkerOnly /\ pc'[t] \notin CallerOnly
    BY <1>3, <1>4
  <2> HIDE DEF b
  <2> QED
    BY <1>4, <2>3, <2>4, <2>5, <2>6, <2>7, <2>8, <2>9, <2>10 DEF Local
<1>10. t = 0 => /\ Loc(0)' = "done" => Loc(0) = "done"
                /\ pc'[0] # "kickoff"
                /\ pc'[0] \notin CallerOnly \ {"kick"} => K > 0
  <2>1. t = 0 => K > 0
    BY <1>1, <1>2 DEF Aborts, CallerOnly
  <2> QED
    BY <1>3, <1>4, <1>8, <2>1 DEF CallerOnly
<1>11. Stays(t)
  BY <1>4, <1>8 DEF Stays
<1>12. pc'[t] \notin {"spin", "reset", "open"} /\ state[t].passed # n_barrier_passed
  BY <1>1, <1>3, <1>4 DEF AtBarrier, Released
<1> QED
  BY <1>1, <1>4, <1>5, <1>9, <1>10, <1>11, <1>12, StandStill DEF shared

-----------------------------------------------------------------------------
(***************************************************************************)
(* Steps of a worker between two graphs                                    *)
(***************************************************************************)
\* The worker goes on, or takes note of the new word n_graph.
Looks(t, s, l) ==
  /\ s.passed = state[t].passed /\ s.back = state[t].back /\ s.chunk = state[t].chunk
  /\ s.node = state[t].node /\ s.nth = state[t].nth
  /\ \/ s.last_graph = state[t].last_graph /\ s.pending = state[t].pending
     \/ s.last_graph = n_graph /\ s.pending = (t < K) /\ state[t].last_graph # n_graph
  /\ s.pending => l \in {"polled", "check"}

Outside == WorkerOnly \cup {"done"}

\* A worker outside the graph is in no place of it.
LEMMA OutsideIn ==
  /\ \A l \in Outside : l \notin In /\ l \notin AtBarrier /\ l \in Labels /\ l \notin CallerOnly
  /\ \A l \in WorkerOnly : l \in Outside
BY DEF Outside, WorkerOnly, In, InGraph, AtBarrier, Labels, CallerOnly

\* A worker outside the graph looks at the flags and goes on outside.
LEMMA LookStep ==
  ASSUME IInv, NEW t \in Workers, NEW l \in WorkerOnly, NEW s \in StateType,
         Go(t, l), state' = [state EXCEPT ![t] = s], pc[t] \in Outside, Looks(t, s, l),
         UNCHANGED <<n_graph, n_barrier, n_barrier_passed, current_chunk, abort, ec, computed>>
  PROVE  IInv'
<1>1. /\ Types /\ t \in Threads /\ t # 0 /\ Local(t)
      /\ l \in Labels /\ l \notin CallerOnly /\ l \notin In /\ l \notin AtBarrier
      /\ pc[t] \notin In /\ pc[t] \notin AtBarrier
  BY OutsideIn DEF IInv, Locals, Workers
<1>2. /\ pc' \in [Threads -> Labels] /\ state' \in [Threads -> StateType]
      /\ Move(t) /\ pc'[t] = l /\ state'[t] = s
  BY <1>1, TakeStep
<1>3. Types'
  BY <1>1, <1>2 DEF Types
<1>4. K' = K /\ n_graph' = n_graph /\ n_barrier_passed' = n_barrier_passed
  BY DEF K
<1>5. Fresh(t)' <=> (s.last_graph # n_graph \/ s.pending)
  BY <1>1, <1>2 DEF Fresh
<1>6. ~Released(t) /\ ~Released(t)'
  BY <1>1, <1>2 DEF Released, AtBarrier
<1>7. Loc(t) = (IF Fresh(t) THEN "begin" ELSE pc[t]) /\ Loc(t)' = IF Fresh(t)' THEN "begin" ELSE l
  BY <1>2, <1>6 DEF Loc
<1>8. t \in Part => t < K
  BY <1>1, ViewTypes DEF Part
<1>9. t \in Part => (Fresh(t)' <=> Fresh(t))
  <2>1. Fresh(t) <=> (state[t].last_graph # n_graph \/ state[t].pending)
    BY <1>1 DEF Fresh
  <2>2. CASE s.last_graph = state[t].last_graph /\ s.pending = state[t].pending
    BY <1>5, <2>1, <2>2
  <2>3. CASE s.pending = (t < K) /\ state[t].last_graph # n_graph
    BY <1>5, <1>8, <2>1, <2>3
  <2> QED
    BY <2>2, <2>3 DEF Looks
<1>10. t \in Part => Stays(t)
  <2>1. CASE Fresh(t) /\ Fresh(t)'
    <3>1. Loc(t) = "begin" /\ Loc(t)' = "begin"
      BY <1>7, <2>1
    <3>2. Pos(t) = 0 /\ Pos(t)' = 0
      BY <3>1 DEF Pos
    <3> QED
      BY <1>2, <3>1, <3>2 DEF Stays, Looks
  <2>2. CASE ~Fresh(t) /\ ~Fresh(t)'
    BY <1>1, <1>7, <2>2 DEF Stays
  <2> QED
    BY <1>9, <2>1, <2>2
<1>11. Local(t)'
  <2>1. /\ s.last_graph.number <= n_graph.number
        /\ s.last_graph.number = n_graph.number => s.last_graph = n_graph
    <3>1. n_graph.number \in Nat
      BY <1>1 DEF Types
    <3> QED
      BY <1>1, <3>1 DEF Local, Looks
  <2>2. s.passed <= n_barrier_passed
    BY <1>1 DEF Local, Looks
  <2>3. s.pending => l \in {"polled", "check"} /\ s.last_graph = n_graph /\ t < K
    BY <1>1 DEF Local, Looks
  <2>4. Loc(t)' \in In => Stands(Loc(t), Pos(t), state[t].back)'
    <3> SUFFICES ASSUME Loc(t)' \in In PROVE Stands(Loc(t), Pos(t), state[t].back)'
      OBVIOUS
    <3>1. Loc(t)' = "begin" /\ Pos(t)' = 0
      BY <1>1, <1>7 DEF Pos
    <3>2. Stands("begin", 0, state'[t].back)
      BY BeginStands
    <3> QED
      BY <3>1, <3>2 DEF Stands
  <2>5. l \notin In /\ l # "spin" /\ l \notin {"enter", "reset", "open"}
    BY <1>1 DEF AtBarrier
  <2> QED
    BY <1>1, <1>2, <1>4, <2>1, <2>2, <2>3, <2>4, <2>5 DEF Local
<1>12. pc[t] \notin {"spin", "reset", "open"} /\ pc'[t] \notin {"spin", "reset", "open"}
  BY <1>1, <1>2 DEF AtBarrier
<1> QED
  BY <1>1, <1>2, <1>3, <1>10, <1>11, <1>12, StandStill

\* A worker outside the graph goes on with what it knows.
LEMMA LookOn ==
  ASSUME IInv, NEW t \in Workers, NEW l \in WorkerOnly, Go(t, l), state' = state,
         pc[t] \in Outside, state[t].pending => l \in {"polled", "check"},
         UNCHANGED <<n_graph, n_barrier, n_barrier_passed, current_chunk, abort, ec, computed>>
  PROVE  IInv'
<1>1. state[t] \in StateType /\ state' = [state EXCEPT ![t] = state[t]]
  BY DEF IInv, Types, Workers
<1>2. Looks(t, state[t], l)
  BY DEF Looks
<1> QED
  BY <1>1, <1>2, LookStep

\* A worker takes note of a new graph.
LEMMA TakeNoteStep ==
  ASSUME IInv, NEW t \in Workers, NEW l \in {"polled", "check"}, Go(t, l), TakeNote(t),
         NewWork(t), pc[t] \in Outside,
         UNCHANGED <<n_graph, n_barrier, n_barrier_passed, current_chunk, abort, ec, computed>>
  PROVE  IInv'
<1> DEFINE s == [state[t] EXCEPT !.pending = t < K, !.last_graph = n_graph]
<1>1. state[t] \in StateType /\ n_graph \in [number : Nat, threads : Nat]
  BY DEF IInv, Types, Workers
<1>2. s \in StateType /\ state' = [state EXCEPT ![t] = s]
  <2>1. (t < K) \in BOOLEAN
    OBVIOUS
  <2>2. s \in StateType
    BY <1>1, <2>1 DEF StateType
  <2>3. state' = [state EXCEPT ![t] = s]
    BY DEF TakeNote, K
  <2> QED
    BY <2>2, <2>3
<1>3. /\ s.passed = state[t].passed /\ s.back = state[t].back /\ s.chunk = state[t].chunk
      /\ s.node = state[t].node /\ s.nth = state[t].nth
      /\ s.last_graph = n_graph /\ s.pending = (t < K)
  BY <1>1 DEF StateType
<1>4. Looks(t, s, l) /\ l \in WorkerOnly
  BY <1>3 DEF Looks, NewWork, WorkerOnly
<1> HIDE DEF s
<1> QED
  BY <1>2, <1>4, LookStep

\* A worker that is not about to begin has no graph pending.
LEMMA NotPending ==
  ASSUME IInv, NEW t \in Workers, pc[t] \notin {"polled", "check"}
  PROVE  ~state[t].pending
BY DEF IInv, Locals, Local, Workers

\* Polling, sleeping, waking up and stopping.
LEMMA BetweenSteps ==
  ASSUME IInv, NEW t \in Workers, WorkerStep(t), ~Check(t)
  PROVE  IInv'
<1>1. CASE Top(t) \/ StopCheck(t) \/ PauseWake(t) \/ WorkerReturn(t)
  <2>1. /\ pc[t] \in {"top", "stop?", "pause wait", "done"} /\ state' = state
        /\ \E l \in {"paused", "stop?", "ended", "poll", "top"} : Go(t, l)
        /\ UNCHANGED <<shared, computed>>
    BY <1>1 DEF Top, StopCheck, PauseWake, WorkerReturn
  <2>2. ~state[t].pending /\ pc[t] \in Outside
    BY <2>1, NotPending DEF Outside, WorkerOnly
  <2> QED
    BY <2>1, <2>2, LookOn DEF shared, WorkerOnly
<1>2. CASE PauseLock(t)
  <2>1. /\ pc[t] = "paused" /\ state' = state /\ \E l \in {"pause wait", "top"} : Go(t, l)
        /\ UNCHANGED <<n_graph, n_barrier, n_barrier_passed, current_chunk, abort, ec, computed>>
    BY <1>2 DEF PauseLock
  <2>2. ~state[t].pending /\ pc[t] \in Outside
    BY <2>1, NotPending DEF Outside, WorkerOnly
  <2> QED
    BY <2>1, <2>2, LookOn DEF WorkerOnly
<1>3. CASE Poll(t) \/ Polled(t)
  <2>1. /\ pc[t] \in {"poll", "polled"} /\ state' = state
        /\ \E l \in {"polled", "word", "check", "lock"} :
             Go(t, l) /\ (state[t].pending => l \in {"polled", "check"})
        /\ UNCHANGED <<shared, computed>>
    BY <1>3 DEF Poll, Polled
  <2>2. pc[t] \in Outside
    BY <2>1 DEF Outside, WorkerOnly
  <2> QED
    BY <2>1, <2>2, LookOn DEF shared, WorkerOnly
<1>4. CASE PollWord(t)
  <2>1. pc[t] = "word" /\ UNCHANGED <<shared, computed>>
    BY <1>4 DEF PollWord
  <2>2. ~state[t].pending /\ pc[t] \in Outside
    BY <2>1, NotPending DEF Outside, WorkerOnly
  <2>3. CASE NewWork(t)
    BY <1>4, <2>1, <2>2, <2>3, TakeNoteStep DEF PollWord, shared
  <2>4. CASE ~NewWork(t)
    <3>1. state' = state /\ \E l \in {"poll", "polled"} : Go(t, l)
      BY <1>4, <2>4 DEF PollWord
    <3> QED
      BY <2>1, <2>2, <3>1, LookOn DEF shared, WorkerOnly
  <2> QED
    BY <2>3, <2>4
<1>5. CASE LockReady(t)
  <2>1. /\ pc[t] \in {"lock", "work wait"}
        /\ UNCHANGED <<n_graph, n_barrier, n_barrier_passed, current_chunk, abort, ec, computed>>
    BY <1>5 DEF LockReady
  <2>2. ~state[t].pending /\ pc[t] \in Outside
    BY <2>1, NotPending DEF Outside, WorkerOnly
  <2>3. \/ state' = state /\ \E l \in {"check", "work wait"} : Go(t, l)
        \/ NewWork(t) /\ TakeNote(t) /\ Go(t, "check")
    BY <1>5 DEF LockReady
  <2>4. CASE state' = state /\ \E l \in {"check", "work wait"} : Go(t, l)
    BY <2>1, <2>2, <2>4, LookOn DEF WorkerOnly
  <2>5. CASE NewWork(t) /\ TakeNote(t) /\ Go(t, "check")
    BY <2>1, <2>2, <2>5, TakeNoteStep
  <2> QED
    BY <2>3, <2>4, <2>5
<1> QED
  BY <1>1, <1>2, <1>3, <1>4, <1>5 DEF WorkerStep

\* A worker with a graph pending begins it; another one goes back to the top.
LEMMA CheckStep ==
  ASSUME IInv, NEW t \in Workers, Check(t)
  PROVE  IInv'
<1> DEFINE s == [state[t] EXCEPT !.pending = FALSE]
<1>1. /\ Types /\ Local(t) /\ t \in Threads /\ t # 0 /\ state[t] \in StateType
      /\ pc[t] = "check" /\ state' = [state EXCEPT ![t] = s] /\ UNCHANGED <<shared, computed>>
  BY DEF Check, IInv, Locals, Types, Workers
<1>2. /\ s \in StateType /\ s.last_graph = state[t].last_graph /\ ~s.pending
      /\ s.passed = state[t].passed /\ s.back = state[t].back /\ s.chunk = state[t].chunk
      /\ s.node = state[t].node /\ s.nth = state[t].nth
  BY <1>1 DEF StateType
<1> HIDE DEF s
<1>3. CASE ~state[t].pending
  <2>1. Go(t, "top") /\ "top" \in WorkerOnly /\ pc[t] \in Outside
    BY <1>1, <1>3 DEF Check, WorkerOnly, Outside
  <2>2. s.pending = state[t].pending
    BY <1>1, <1>2, <1>3 DEF StateType
  <2>3. Looks(t, s, "top")
    BY <1>2, <2>2 DEF Looks
  <2> QED
    BY <1>1, <1>2, <2>1, <2>3, LookStep DEF shared
<1>4. CASE state[t].pending
  <2>1. state[t].last_graph = n_graph /\ t < K
    BY <1>1, <1>4 DEF Local
  <2>2. Go(t, "begin") /\ "begin" \in Labels
    BY <1>1, <1>4 DEF Check, Labels, In, InGraph
  <2>3. /\ pc' \in [Threads -> Labels] /\ state' \in [Threads -> StateType]
        /\ Move(t) /\ pc'[t] = "begin" /\ state'[t] = s
        /\ n_graph' = n_graph /\ n_barrier_passed' = n_barrier_passed /\ K' = K
    BY <1>1, <1>2, <2>2, TakeStep DEF shared, K
  <2>4. Types'
    BY <1>1, <2>3 DEF Types, shared
  <2>5. Loc(t) = "begin" /\ Loc(t)' = "begin"
    BY <1>1, <1>2, <1>4, <2>1, <2>3 DEF Loc, Fresh, Released
  <2>6. Pos(t) = 0 /\ Pos(t)' = 0
    BY <2>5 DEF Pos
  <2>7. Stays(t)
    BY <1>2, <2>3, <2>5, <2>6 DEF Stays
  <2>8. Local(t)'
    <3>1. Joined(t)'
      BY <1>2, <2>1, <2>3 DEF Joined
    <3>2. Stands("begin", 0, state'[t].back)
      BY BeginStands
    <3>3. Stands(Loc(t), Pos(t), state[t].back)'
      BY <1>1, <2>5, <2>6, <3>2 DEF Stands, shared
    <3>4. "begin" \notin CallerOnly
      BY DEF CallerOnly
    <3> QED
      BY <1>1, <1>2, <2>3, <3>1, <3>3, <3>4 DEF Local
  <2> QED
    BY <1>1, <2>3, <2>4, <2>7, <2>8, StandStill DEF shared
<1> QED
  BY <1>3, <1>4

\* A step that leaves alone what the invariant is about.
LEMMA NoMove ==
  ASSUME IInv, UNCHANGED <<n_graph, n_barrier, n_barrier_passed, current_chunk, abort, ec,
                           pc, state, computed>>
  PROVE  IInv'
<1>1. K' = K /\ Part' = Part /\ Waiting' = Waiting
  BY DEF K, Part, Waiting
<1>2. \A t : /\ Loc(t)' = Loc(t) /\ Pos(t)' = Pos(t)
             /\ (Released(t)' <=> Released(t)) /\ (Joined(t)' <=> Joined(t))
  BY DEF Loc, Pos, Fresh, Released, Joined, K
<1>3. \A n : NodeDest(n)' = NodeDest(n)
  BY DEF NodeDest
<1>4. \A t : Dest(t)' = Dest(t) /\ Front(t)' = Front(t)
  BY <1>2, <1>3 DEF Dest, DestOf, Front
<1>5. \A t, n : (InMul(t, n)' <=> InMul(t, n)) /\ (Through(t, n)' <=> Through(t, n))
                /\ (Holds(t, n)' <=> Holds(t, n))
  BY <1>2, <1>4 DEF InMul, Through, Holds
<1>6. Types'
  BY DEF IInv, Types
<1>7. Locals'
  <2>1. ASSUME NEW t
        PROVE  Stands(Loc(t), Pos(t), state[t].back)' <=> Stands(Loc(t), Pos(t), state[t].back)
    <3>1. Loc(t)' = Loc(t) /\ Pos(t)' = Pos(t) /\ state[t]' = state[t] /\ abort' = abort
      BY <1>2
    <3> QED
      BY <3>1, ZenonT(60) DEF Stands
  <2> QED
    BY <1>1, <1>2, <2>1 DEF IInv, Locals, Local
<1>8. Aborts' /\ Together' /\ Barriers'
  BY <1>1, <1>2, <1>4 DEF IInv, Aborts, Together, Barriers
<1>9. Chunks'
  BY <1>1, <1>2, <1>5 DEF IInv, Chunks
<1>10. \A n : (Untouched(n)' <=> Untouched(n)) /\ (Whole(n)' <=> Whole(n))
  BY DEF Untouched, Whole, Parts
<1>11. Done' <=> Done
  <2>1. \A n : PlainDone(n)' <=> PlainDone(n)
    BY <1>1, <1>5 DEF PlainDone
  <2>2. \A p : Given(p)' <=> Given(p)
    BY <1>1, <1>5 DEF Given
  <2>3. \A n : MulDone(n)' <=> MulDone(n)
    BY <1>1, <1>5, <1>10, <2>2 DEF MulDone
  <2> QED
    BY <1>10, <2>1, <2>3 DEF Done
<1>12. Results'
  BY <1>2, <1>10, <1>11 DEF IInv, Results, NodesInOrder, Finished
<1> QED
  BY <1>6, <1>7, <1>8, <1>9, <1>12 DEF IInv

-----------------------------------------------------------------------------
(***************************************************************************)
(* Steps of the caller                                                     *)
(***************************************************************************)
LEMMA CallerOn ==
  ASSUME IInv, NEW l \in {"begin", "idle", "join", "freed"}, Go(0, l), state' = state,
         pc[0] \in {"kick", "done", "idle", "join"}, pc[0] = "kick" <=> l = "begin",
         UNCHANGED <<n_graph, n_barrier, n_barrier_passed, current_chunk, abort, ec, computed>>
  PROVE  IInv'
<1>1. Types /\ 0 \in Threads /\ Local(0) /\ Aborts
  BY ZeroIn DEF IInv, Locals
<1>2. l \in Labels /\ l \notin AtBarrier /\ l \notin WorkerOnly
  BY DEF Labels, In, InGraph, AtBarrier, CallerOnly, WorkerOnly
<1>3. /\ pc' \in [Threads -> Labels] /\ state' \in [Threads -> StateType]
      /\ Move(0) /\ pc'[0] = l /\ state'[0] = state[0]
  BY <1>1, <1>2, GoOnly
<1>4. Types'
  BY <1>1, <1>3 DEF Types
<1>5. ~Released(0) /\ ~Released(0)' /\ ~Fresh(0)' /\ (Fresh(0) <=> pc[0] = "kick")
  BY <1>3 DEF Released, Fresh
<1>6. Loc(0)' = l /\ Loc(0) = IF pc[0] = "kick" THEN "begin" ELSE pc[0]
  BY <1>3, <1>5 DEF Loc
<1>7. Stays(0)
  <2>1. CASE pc[0] = "kick"
    <3>1. Loc(0) = "begin" /\ Loc(0)' = "begin"
      BY <1>6, <2>1
    <3>2. Pos(0) = 0 /\ Pos(0)' = 0
      BY <3>1 DEF Pos
    <3> QED
      BY <1>3, <3>1, <3>2 DEF Stays
  <2>2. CASE pc[0] # "kick"
    BY <1>6, <2>2 DEF Stays, In, InGraph, AtBarrier
  <2> QED
    BY <2>1, <2>2
<1>8. K' = K /\ (l = "begin" => 0 < K) /\ (l # "begin" => l \notin In)
  <2>1. K \in Nat
    BY <1>1, PartThreads
  <2> QED
    BY <1>1, <2>1 DEF Aborts, K, In, InGraph, AtBarrier
<1>9. Local(0)'
  <2>1. ~state[0].pending
    BY <1>1 DEF Local
  <2>2. l \in In => Joined(0)'
    BY <1>8 DEF Joined
  <2>3. Loc(0)' \in In => Stands(Loc(0), Pos(0), state[0].back)'
    <3> SUFFICES ASSUME Loc(0)' \in In PROVE Stands(Loc(0), Pos(0), state[0].back)'
      OBVIOUS
    <3>1. Loc(0)' = "begin" /\ Pos(0)' = 0
      BY <1>6, <1>8 DEF Pos
    <3>2. Stands("begin", 0, state'[0].back)
      BY BeginStands
    <3> QED
      BY <3>1, <3>2 DEF Stands
  <2>4. l \notin {"enter", "reset", "open", "spin"} /\ (l \in In \ {"begin"} => FALSE)
    BY <1>2, <1>8 DEF AtBarrier
  <2> QED
    BY <1>1, <1>2, <1>3, <1>8, <2>1, <2>2, <2>3, <2>4 DEF Local
<1>10. /\ Loc(0)' = "done" => Loc(0) = "done"
       /\ pc'[0] # "kickoff"
       /\ pc'[0] \notin CallerOnly \ {"kick"} => K > 0
  BY <1>3, <1>6, <1>8 DEF CallerOnly
<1> QED
  BY <1>1, <1>3, <1>4, <1>7, <1>9, <1>10, StandStill

\* The caller wakes the workers, returns, joins them or frees the pool.
LEMMA CallerSteps ==
  ASSUME IInv, KickoffWake \/ Return \/ Join \/ Free
  PROVE  IInv'
<1>1. CASE KickoffWake
  BY <1>1, CallerOn DEF KickoffWake
<1>2. CASE Return
  BY <1>2, CallerOn DEF Return, shared
<1>3. CASE Join
  BY <1>3, CallerOn DEF Join, shared
<1>4. CASE Free
  BY <1>4, CallerOn DEF Free
<1> QED
  BY <1>1, <1>2, <1>3, <1>4

\* The caller is between two graphs: every thread is out of the last one.
LEMMA AllOut ==
  ASSUME IInv, pc[0] \in CallerOnly \ {"kick"}
  PROVE  /\ 0 \in Threads /\ Loc(0) = pc[0] /\ Loc(0) \notin In
         /\ \A u \in Part : Loc(u) \notin In
         /\ \A u \in Threads : /\ ~Fresh(u) \/ u \notin Part
                               /\ ~state[u].pending
                               /\ pc[u] \in In => pc[u] = "spin" /\ Released(u)
                                                  /\ state[u].back = "done"
<1>1. Types /\ Locals /\ Local(0) /\ Aborts /\ Together
  BY ZeroIn DEF IInv, Locals
<1>2. 0 \in Threads /\ Loc(0) = pc[0] /\ Loc(0) \notin In
  BY <1>1, Caller
<1>3. ASSUME NEW u \in Part PROVE Loc(u) \notin In
  <2>1. 0 \in Part
    BY <1>1, ZeroIn
  <2> QED
    BY <1>1, <1>2, <2>1 DEF Together
<1>4. ASSUME NEW u \in Threads
      PROVE  /\ ~Fresh(u) \/ u \notin Part
             /\ ~state[u].pending
             /\ pc[u] \in In => pc[u] = "spin" /\ Released(u) /\ state[u].back = "done"
  <2>1. Local(u) /\ K \in Nat /\ u \in Nat
    BY <1>1, PartThreads DEF Locals, Threads
  <2>2. ASSUME u \in Part PROVE ~Fresh(u)
    BY <1>3, <2>2 DEF Loc, In, InGraph
  <2>3. Joined(u) => u \in Part /\ ~Fresh(u)
    BY <1>2, <2>1 DEF Joined, Part, Fresh, CallerOnly
  <2>4. ~state[u].pending
    <3>1. state[u].pending => u # 0 /\ u \in Part
      BY <2>1 DEF Local, Part
    <3> QED
      BY <2>2, <3>1 DEF Fresh
  <2>5. ASSUME pc[u] \in In PROVE pc[u] = "spin" /\ Released(u) /\ state[u].back = "done"
    <3>1. CASE Joined(u)
      <4>1. u \in Part /\ ~Fresh(u) /\ Loc(u) \notin In
        BY <1>3, <2>3, <3>1
      <4>2. Released(u) /\ state[u].back \notin In
        BY <2>5, <4>1 DEF Loc
      <4>3. state[u].back \in {"advance", "mul first", "done"}
        BY <1>1, ViewTypes DEF Backs
      <4> QED
        BY <4>2, <4>3 DEF Released, In, InGraph
    <3>2. CASE ~Joined(u)
      BY <2>1, <2>5, <3>2 DEF Local, Released
    <3> QED
      BY <3>1, <3>2
  <2> QED
    BY <2>2, <2>4, <2>5
<1> QED
  BY <1>2, <1>3, <1>4

\* No part of any node is computed.
LEMMA NothingDone ==
  /\ NothingComputed \in [Nodes -> [Bound -> Nat]]
  /\ \A n \in Nodes : \A p \in Bound : NothingComputed[n][p] = 0
  /\ \A n \in Nodes : DOMAIN NothingComputed[n] = Bound
BY DEF NothingComputed, Bound

\* The caller sets up a graph while no other thread is in one.
LEMMA SetUpStep ==
  ASSUME IInv, Compute
  PROVE  IInv'
<1>1. /\ pc[0] = "idle" /\ Go(0, "kickoff") /\ state' = state /\ n_graph' = n_graph
      /\ n_barrier' = n_barrier /\ n_barrier_passed' = n_barrier_passed
      /\ current_chunk' = 0 /\ abort' = -1 /\ computed' = NothingComputed
  BY DEF Compute
<1>2. /\ 0 \in Threads /\ Types /\ Locals /\ Barriers
      /\ \A u \in Part : Loc(u) \notin In
      /\ \A u \in Threads : /\ ~Fresh(u) \/ u \notin Part
                            /\ ~state[u].pending
                            /\ pc[u] \in In => pc[u] = "spin" /\ Released(u)
                                               /\ state[u].back = "done"
  BY <1>1, AllOut DEF CallerOnly, IInv
<1>3. "kickoff" \in Labels /\ "kickoff" \notin In /\ "kickoff" \notin WorkerOnly
  BY DEF Labels, CallerOnly, WorkerOnly, In, InGraph, AtBarrier
<1>4. /\ pc' \in [Threads -> Labels] /\ state' \in [Threads -> StateType]
      /\ Move(0) /\ pc'[0] = "kickoff" /\ state'[0] = state[0]
  BY <1>1, <1>2, <1>3, GoOnly
<1>5. K' = K /\ Part' = Part /\ Part \subseteq Threads
  BY <1>1, <1>2, PartThreads DEF K, Part
<1>6. Types'
  BY <1>1, <1>2, <1>4, NothingDone DEF Types
<1>7. Loc(0)' = "kickoff"
  BY <1>4 DEF Loc, Fresh, Released
<1>8. \A u \in Threads \ {0} : Loc(u)' = Loc(u) /\ (Loc(u) \in In => Loc(u) = "begin")
  <2>1. ASSUME NEW u \in Threads \ {0} PROVE Loc(u)' = Loc(u)
    BY <1>2, <1>4, OthersStay
  <2>2. ASSUME NEW u \in Threads \ {0}, Loc(u) \in In PROVE Loc(u) = "begin"
    <3>1. "done" \notin In /\ "spin" \in In
      BY DEF In, InGraph, AtBarrier
    <3>2. pc[u] \in In => pc[u] = "spin" /\ Released(u) /\ state[u].back = "done"
      BY <1>2
    <3>3. Released(u) => pc[u] = "spin"
      BY DEF Released
    <3> QED
      BY <2>2, <3>1, <3>2, <3>3 DEF Loc
  <2> QED
    BY <2>1, <2>2
<1>9. Locals'
  <2>1. ASSUME NEW u \in Threads \ {0} PROVE Local(u)'
    <3>1. /\ pc'[u] = pc[u] /\ state'[u] = state[u]
          /\ Released(u)' = Released(u) /\ Joined(u)' = Joined(u) /\ Local(u)
      BY <1>2, <1>4, OthersStay DEF Locals
    <3>2. Loc(u)' \in In => Stands(Loc(u), Pos(u), state[u].back)'
      <4> SUFFICES ASSUME Loc(u)' \in In PROVE Stands(Loc(u), Pos(u), state[u].back)'
        OBVIOUS
      <4>1. Loc(u)' = "begin" /\ Pos(u)' = 0
        BY <1>8 DEF Pos
      <4>2. Len(Graph) \in Nat
        BY Kinds
      <4> QED
        BY <4>1, <4>2 DEF Stands, Clear, AtBarrier, ChunkPhase
    <3> QED
      BY <1>1, <1>5, <3>1, <3>2 DEF Local
  <2>2. Local(0)'
    <3>1. Local(0)
      BY <1>2 DEF Locals
    <3> QED
      BY <1>1, <1>2, <1>3, <1>4, <1>5, <1>7, <3>1 DEF Local, In, AtBarrier
  <2> QED
    BY <2>1, <2>2 DEF Locals
<1>10. Aborts'
  BY <1>1, <1>4 DEF Aborts, CallerOnly
<1>11. \A u \in Part : Loc(u)' \notin In
  BY <1>2, <1>3, <1>5, <1>7, <1>8
<1>12. Together'
  BY <1>5, <1>11 DEF Together
<1>13. Barriers'
  BY <1>1, <1>2, <1>4, QuietBarriers
<1>14. Chunks'
  <2>1. \A u \in Part : Loc(u)' \notin ChunkPhase
    BY <1>11 DEF In, InGraph, ChunkPhase
  <2>2. \A u \in Part : \A p : ~Holds(u, p)' /\ ~InMul(u, p)'
    BY <2>1 DEF Holds, InMul, ChunkPhase
  <2>3. Loc(0)' # "mul set" /\ Loc(0)' \notin AtBarrier
    BY <1>7 DEF AtBarrier
  <2> QED
    BY <1>5, <2>1, <2>2, <2>3 DEF Chunks
<1>15. Results'
  <2>1. \A n \in Nodes : Untouched(n)'
    BY <1>1, NothingDone DEF Untouched
  <2>2. NothingComputed' = NothingComputed
    BY DEF NothingComputed, Nodes
  <2> QED
    BY <1>1, <1>3, <1>7, <2>1, <2>2 DEF Results, NodesInOrder
<1> QED
  BY <1>6, <1>9, <1>10, <1>12, <1>13, <1>14, <1>15 DEF IInv

\* The caller kicks the graph off.
LEMMA KickoffStep ==
  ASSUME IInv, NEW k \in 1 .. NThreads, Kickoff(k)
  PROVE  IInv'
<1>1. /\ pc[0] = "kickoff" /\ Go(0, "kick") /\ n_graph' = Word(k)
      /\ UNCHANGED <<n_barrier, n_barrier_passed, current_chunk, abort, ec, state, computed>>
  BY DEF Kickoff
<1>2. /\ 0 \in Threads /\ Types /\ Locals /\ Aborts /\ Barriers /\ Results
      /\ \A u \in Threads : /\ ~state[u].pending
                            /\ pc[u] \in In => pc[u] = "spin" /\ Released(u)
                                               /\ state[u].back = "done"
  BY <1>1, AllOut DEF CallerOnly, IInv
<1>3. "kick" \in Labels /\ "kick" \notin In /\ "kick" \notin WorkerOnly
  BY DEF Labels, CallerOnly, WorkerOnly, In, InGraph, AtBarrier
<1>4. /\ pc' \in [Threads -> Labels] /\ pc'[0] = "kick"
      /\ \A u \in Threads \ {0} : pc'[u] = pc[u]
  BY <1>1, <1>2, <1>3, GoStep
<1>5. /\ K' = k /\ k > 0 /\ Part' = 0 .. k - 1 /\ 0 \in Part' /\ Part' \subseteq Threads
      /\ n_graph'.number = n_graph.number + 1 /\ n_graph.number \in Nat
      /\ n_graph' \in [number : Nat, threads : 0 .. NThreads]
  <2>1. NThreads \in Nat /\ n_graph.number \in Nat
    BY <1>2, Kinds DEF Types
  <2> QED
    BY <1>1, <2>1 DEF Word, K, Part, Threads
<1>6. Types'
  BY <1>1, <1>2, <1>4, <1>5 DEF Types
<1>7. \A u \in Threads : Loc(u)' = "begin" /\ Pos(u)' = 0 /\ (u # 0 => ~Joined(u)')
  <2> SUFFICES ASSUME NEW u \in Threads
               PROVE  Loc(u)' = "begin" /\ Pos(u)' = 0 /\ (u # 0 => ~Joined(u)')
    OBVIOUS
  <2>1. state[u].last_graph.number <= n_graph.number /\ state[u].last_graph.number \in Nat
    BY <1>2 DEF Locals, Local, Types, StateType
  <2>2. state'[u].last_graph # n_graph'
    BY <1>1, <1>5, <2>1
  <2>3. Fresh(u)'
    BY <1>4, <2>2 DEF Fresh
  <2>4. Loc(u)' = "begin"
    BY <2>3 DEF Loc
  <2> QED
    BY <2>2, <2>4 DEF Pos, Joined
<1>8. Locals'
  <2>1. ASSUME NEW u \in Threads PROVE Local(u)'
    <3>1. Local(u) /\ state'[u] = state[u]
      BY <1>1, <1>2 DEF Locals
    <3>2. /\ state'[u].last_graph.number <= n_graph'.number
          /\ state'[u].last_graph.number # n_graph'.number
      <4>1. state[u].last_graph.number <= n_graph.number /\ state[u].last_graph.number \in Nat
        BY <1>2, <3>1 DEF Local, Types, StateType
      <4> QED
        BY <1>5, <3>1, <4>1
    <3>3. Stands(Loc(u), Pos(u), state[u].back)'
      <4>1. Loc(u)' = "begin" /\ Pos(u)' = 0
        BY <1>7
      <4>2. Stands("begin", 0, state'[u].back)
        BY BeginStands
      <4> QED
        BY <1>1, <4>1, <4>2 DEF Stands
    <3>4. pc'[u] \in In => pc'[u] = "spin" /\ Released(u)' /\ state'[u].back = "done" /\ u # 0
      BY <1>1, <1>2, <1>3, <1>4 DEF Released
    <3>5. u = 0 => pc'[u] \notin WorkerOnly
      BY <1>3, <1>4
    <3>6. u # 0 => pc'[u] \notin CallerOnly
      BY <1>4, <3>1 DEF Local
    <3>7. state[u].passed <= n_barrier_passed /\ ~state[u].pending
      BY <1>2, <3>1 DEF Local
    <3>8. {"enter", "reset", "open", "spin"} \subseteq In
      BY DEF In, AtBarrier
    <3>9. u # 0 => ~Joined(u)'
      BY <1>7
    <3> QED
      BY <1>1, <3>1, <3>2, <3>3, <3>4, <3>5, <3>6, <3>7, <3>8, <3>9 DEF Local
  <2> QED
    BY <2>1 DEF Locals
<1>9. Aborts'
  BY <1>1, <1>2, <1>4, <1>5 DEF Aborts
<1>10. Together'
  <2>1. \A u \in Part' : Dest(u)' = NodeDest(0)'
    BY <1>5, <1>7 DEF Dest, DestOf
  <2>2. \A u \in Part' : Loc(u)' \in In
    BY <1>5, <1>7 DEF In, InGraph
  <2> QED
    BY <2>1, <2>2 DEF Together
<1>11. Barriers'
  <2>1. \A r \in Threads : pc[r] \notin {"reset", "open"} /\ pc'[r] \notin {"reset", "open"}
    BY <1>2, <1>3, <1>4 DEF In, AtBarrier
  <2>2. Waiting = {}
    BY <1>2 DEF Waiting, Released, In, AtBarrier
  <2>3. Waiting' = {}
    BY <1>1, <1>2, <1>3, <1>4 DEF Waiting, Released, In, AtBarrier
  <2>4. n_barrier' = 0
    BY <1>1, <1>2, <2>1, <2>2, FS_EmptySet DEF Barriers
  <2> QED
    BY <1>5, <2>1, <2>3, <2>4, FS_EmptySet DEF Barriers
<1>12. Chunks'
  <2>1. \A u \in Part' : Loc(u)' \notin ChunkPhase
    BY <1>5, <1>7 DEF ChunkPhase
  <2>2. \A u \in Part' : \A p : ~Holds(u, p)' /\ ~InMul(u, p)'
    BY <2>1 DEF Holds, InMul, ChunkPhase
  <2>3. Loc(0)' # "mul set" /\ Loc(0)' \notin AtBarrier
    BY <1>2, <1>7 DEF AtBarrier
  <2> QED
    BY <2>1, <2>2, <2>3 DEF Chunks
<1>13. Results'
  <2>1. computed' = NothingComputed
    BY <1>1, <1>2 DEF Results
  <2>2. \A n \in Nodes : \A p \in Bound : computed'[n][p] = 0
    BY <2>1, NothingDone
  <2>3. \A n \in Nodes : Untouched(n)'
    BY <2>1, NothingDone DEF Untouched
  <2>4. ASSUME NEW u \in Part', NEW n \in Nodes PROVE ~Through(u, n)' /\ ~InMul(u, n)'
    <3>1. Loc(u)' = "begin" /\ Pos(u)' = 0
      BY <1>5, <1>7
    <3>2. Front(u)' = 0
      BY <3>1 DEF Front, FrontOf, AtBarrier
    <3>3. n \in Nat
      BY Kinds
    <3> QED
      BY <3>1, <3>2, <3>3 DEF Through, InMul, ChunkPhase
  <2>5. Done'
    <3>1. \A n \in Nodes : PlainDone(n)'
      BY <2>2, <2>4 DEF PlainDone
    <3>2. \A n \in Nodes : MulDone(n)'
      BY <1>5, <2>3, <2>4 DEF MulDone
    <3> QED
      BY <2>3, <3>1, <3>2 DEF Done
  <2>6. Loc(0)' \in In /\ Loc(0)' # "done" /\ pc'[0] # "kickoff"
    BY <1>2, <1>4, <1>7 DEF In, InGraph
  <2> QED
    BY <2>5, <2>6 DEF Results
<1> QED
  BY <1>6, <1>8, <1>9, <1>10, <1>11, <1>12, <1>13 DEF IInv

-----------------------------------------------------------------------------
(***************************************************************************)
(* Steps that compute                                                      *)
(***************************************************************************)
Inner == In \ (AtBarrier \cup {"begin"})

\* A thread goes on inside a graph, towards the barrier it headed for.
GoesOn(t, l, v) ==
  /\ pc[t] \in Inner /\ l \in Inner
  /\ n_graph' = n_graph /\ n_barrier' = n_barrier /\ n_barrier_passed' = n_barrier_passed
  /\ abort' = abort /\ ec' = ec
  /\ Go(t, l)
  /\ state' = [state EXCEPT ![t] = v]
  /\ v.nth = state[t].nth /\ v.last_graph = state[t].last_graph /\ v.pending = state[t].pending
  /\ v.passed = state[t].passed /\ v.back = state[t].back
  /\ DestOf(l, v.node, v.back) = DestOf(pc[t], state[t].node, state[t].back)
  /\ Stands(l, v.node, v.back)

\* The places inside a node are no barriers.
LEMMA Inners ==
  \A l \in Inner : /\ l \in Labels /\ l \in In \ {"begin", "spin", "reset", "open"}
                   /\ l \notin AtBarrier /\ l # "begin"
BY DEF Inner, Labels, AtBarrier

\* A thread goes on inside a node, as far as all but the results are concerned.
LEMMA GoesOnStep ==
  ASSUME IInv, NEW t \in Threads, NEW l, NEW v \in StateType, GoesOn(t, l, v),
         computed' \in [Nodes -> [Bound -> Nat]], current_chunk' \in Nat
  PROVE  /\ Types' /\ Locals' /\ Aborts' /\ Together' /\ Barriers'
         /\ Move(t) /\ pc'[t] = l /\ state'[t] = v
         /\ Loc(t)' = l /\ Pos(t)' = v.node /\ Front(t)' = FrontOf(l, v.node, v.back)
         /\ Loc(t) = pc[t] /\ Pos(t) = state[t].node
         /\ Front(t) = FrontOf(pc[t], state[t].node, state[t].back)
         /\ \A u \in Part : Loc(u) \in In /\ Loc(u)' \in In
<1>1. /\ pc[t] \in In \ {"spin"} /\ pc[t] \notin {"reset", "open"} /\ pc[t] # "begin"
      /\ l \in In \ {"begin"} /\ l \in Labels /\ l \notin AtBarrier
      /\ l \notin {"spin", "reset", "open"}
  BY Inners DEF GoesOn
<1>2. /\ Types /\ Local(t) /\ Aborts /\ t \in Part /\ Loc(t) = pc[t] /\ Pos(t) = state[t].node
      /\ state[t].nth = K /\ state[t].passed <= n_barrier_passed
      /\ Dest(t) = DestOf(pc[t], state[t].node, state[t].back)
      /\ Front(t) = FrontOf(pc[t], state[t].node, state[t].back)
      /\ \A u \in Part : Loc(u) \in In
  BY <1>1, Inside DEF Dest, Front
<1>3. /\ pc' \in [Threads -> Labels] /\ state' \in [Threads -> StateType]
      /\ Move(t) /\ pc'[t] = l /\ state'[t] = v
  BY <1>1, <1>2, TakeStep DEF GoesOn
<1>4. Types'
  BY <1>2, <1>3 DEF Types, GoesOn
<1>5. Steps(t, l)
  BY <1>1, <1>2, <1>3 DEF Steps, GoesOn
<1>6. /\ Loc(t)' = l /\ Pos(t)' = v.node /\ Front(t)' = FrontOf(l, v.node, v.back)
      /\ Dest(t)' = DestOf(l, v.node, v.back)
  BY <1>1, <1>2, <1>3, <1>5, NextView DEF GoesOn
<1>7. Locals'
  <2>1. Stands(l, state[t].node, state[t].back)'
    <3>1. Stands(l, v.node, v.back) /\ abort' = abort
      BY DEF GoesOn
    <3> QED
      BY <1>3, <3>1 DEF Stands
  <2>2. Local(t)'
    BY <1>1, <1>2, <1>5, <2>1, StepLocal
  <2> QED
    BY <1>3, <2>2, OthersLocal DEF IInv, Locals, GoesOn
<1>8. Dest(t)' = Dest(t)
  BY <1>2, <1>6 DEF GoesOn
<1>9. Together'
  BY <1>1, <1>2, <1>3, <1>6, <1>8, MoveTogether DEF IInv, GoesOn
<1>10. Barriers'
  BY <1>1, <1>3, QuietBarriers DEF IInv, GoesOn
<1>11. Aborts'
  <2>1. K' = K /\ K > 0
    BY <1>2, ZeroIn DEF GoesOn, K
  <2>2. pc'[0] = "kickoff" => pc[0] = "kickoff"
    <3>1. l # "kickoff" /\ 0 \in Threads
      BY <1>1, ZeroIn DEF In, InGraph, AtBarrier
    <3> QED
      BY <1>3, <3>1 DEF Move
  <2> QED
    BY <1>2, <2>1, <2>2 DEF Aborts, GoesOn
<1>12. ASSUME NEW u \in Part PROVE Loc(u)' \in In
  <2>1. u \in Threads
    BY <1>2, PartThreads
  <2> QED
    BY <1>1, <1>2, <1>3, <1>6, <2>1, OthersStay
<1> QED
  BY <1>2, <1>3, <1>4, <1>6, <1>7, <1>9, <1>10, <1>11, <1>12

\* A node that the step does not compute.
LEMMA NodeKept ==
  ASSUME NEW n \in Nodes, n_graph' = n_graph, computed'[n] = computed[n],
         \A u \in Part : (Through(u, n)' <=> Through(u, n)) /\ (InMul(u, n)' <=> InMul(u, n)),
         (\A p \in Bound : Given(p)' <=> Given(p)) \/ (\A u \in Part : ~InMul(u, n))
  PROVE  /\ PlainDone(n) => PlainDone(n)'
         /\ MulDone(n) => MulDone(n)'
         /\ Untouched(n) => Untouched(n)'
<1>1. Part' = Part
  BY DEF Part, K
<1>2. (Untouched(n)' <=> Untouched(n)) /\ (Whole(n)' <=> Whole(n))
  BY DEF Untouched, Whole, Parts
<1>3. PlainDone(n) => PlainDone(n)'
  BY <1>1 DEF PlainDone
<1>4. ASSUME MulDone(n) PROVE MulDone(n)'
  <2>1. CASE \A p \in Bound : Given(p)' <=> Given(p)
    BY <1>1, <1>2, <1>4, <2>1 DEF MulDone
  <2>2. CASE \A u \in Part : ~InMul(u, n)
    BY <1>1, <1>2, <1>4, <2>2 DEF MulDone
  <2> QED
    BY <2>1, <2>2
<1> QED
  BY <1>2, <1>3, <1>4

\* One part of a node has been computed once more.
LEMMA CountOne ==
  ASSUME Types, NEW n \in Nodes, NEW p \in Bound, ComputePart(n, p)
  PROVE  /\ computed' \in [Nodes -> [Bound -> Nat]]
         /\ computed'[n][p] = computed[n][p] + 1
         /\ \A q \in Bound \ {p} : computed'[n][q] = computed[n][q]
         /\ \A m \in Nodes \ {n} : computed'[m] = computed[m]
<1>1. computed \in [Nodes -> [Bound -> Nat]]
  BY DEF Types
<1> DEFINE c == [computed[n] EXCEPT ![p] = @ + 1]
<1>2. computed[n] \in [Bound -> Nat] /\ computed[n][p] \in Nat
  BY <1>1
<1>3. c \in [Bound -> Nat] /\ c[p] = computed[n][p] + 1
      /\ \A q \in Bound \ {p} : c[q] = computed[n][q]
  BY <1>2
<1>4. computed' = [computed EXCEPT ![n] = c]
  BY DEF ComputePart
<1> HIDE DEF c
<1> QED
  BY <1>1, <1>3, <1>4

\* A thread computes its part of a node.
LEMMA WorkStep ==
  ASSUME IInv, NEW t \in Threads, Work(t)
  PROVE  IInv'
<1>a. PICK n \in Nat : n = state[t].node
  BY DEF IInv, Types, StateType
<1>b. PICK e : e = LastOf(n)
  OBVIOUS
<1> DEFINE v == [state[t] EXCEPT !.node = e]
<1>1. /\ pc[t] = "work" /\ ComputePart(n, t) /\ state' = [state EXCEPT ![t] = v]
      /\ Go(t, "after") /\ UNCHANGED shared
  BY <1>a, <1>b DEF Work, LastOf
<1>2. /\ pc[t] \in Inner /\ "after" \in Inner /\ pc[t] \in In \ {"spin"}
      /\ {"work", "after"} \cap ChunkPhase = {} /\ {"work", "after"} \cap AtBarrier = {}
  BY <1>1 DEF Inner, In, InGraph, AtBarrier, ChunkPhase
<1>3. /\ Types /\ Done /\ Chunks /\ state[t] \in StateType /\ t \in Part /\ t \in Nat
      /\ 0 \in Part /\ Loc(0) \in In /\ n \in Nat /\ K \in Nat
      /\ Stands("work", n, state[t].back) /\ Part \subseteq Bound /\ Part \subseteq Threads
  <2>1. /\ Types /\ state[t] \in StateType /\ t \in Part /\ t \in Nat /\ Loc(0) \in In
        /\ 0 \in Part /\ n \in Nat /\ K \in Nat /\ Stands("work", n, state[t].back)
    BY <1>1, <1>2, <1>a, Inside
  <2> QED
    BY <2>1, PartThreads DEF IInv, Results
<1>4. /\ n \in Nodes /\ Kind(n) \in {"plain", "fused"} /\ Computed(n) /\ Kind(n) # "mul"
      /\ e \in Nodes /\ Kind(e) = "plain" /\ e \in {n, n + 1} /\ e \in Nat
      /\ e = n + 1 => ~Computed(e)
  <2>1. n \in Nodes /\ Kind(n) \in {"plain", "fused"} /\ Clear(n)
    BY <1>2, <1>3 DEF Stands
  <2>2. Kind(n) = "fused" => n + 1 \in Nodes /\ Kind(n + 1) = "plain"
    BY <2>1, Kinds
  <2>3. e = (IF Kind(n) = "fused" THEN n + 1 ELSE n)
    BY <1>b DEF LastOf
  <2>4. e = n + 1 => ~Computed(e)
    <3>1. n \in Nat
      BY <2>1, Kinds
    <3> QED
      BY <2>3, <3>1 DEF Computed
  <2> QED
    BY <2>1, <2>2, <2>3, <2>4, Kinds DEF Clear, Computed
<1>5. v \in StateType /\ v.node = e /\ v.nth = state[t].nth
      /\ v.last_graph = state[t].last_graph /\ v.pending = state[t].pending
      /\ v.passed = state[t].passed /\ v.back = state[t].back
  <2>1. v \in StateType
    BY <1>3, <1>4, SetFields
  <2> QED
    BY <1>3, <2>1 DEF StateType
<1> HIDE DEF v
<1>6. DestOf("after", e, v.back) = DestOf("work", n, state[t].back)
      /\ Stands("after", e, v.back)
      /\ FrontOf("after", e, v.back) = e + 1 /\ FrontOf("work", n, state[t].back) = n
  <2>1. LastOf(n) = e
    BY <1>b
  <2>2. DestOf("after", e, v.back) = EndDest(e) /\ DestOf("work", n, state[t].back) = EndDest(e)
    BY <2>1 DEF DestOf
  <2>3. Stands("after", e, v.back)
    BY <1>2, <1>4 DEF Stands, ChunkPhase
  <2>4. FrontOf("after", e, v.back) = e + 1 /\ FrontOf("work", n, state[t].back) = n
    BY <1>2 DEF FrontOf
  <2> QED
    BY <2>2, <2>3, <2>4
<1>7. GoesOn(t, "after", v)
  BY <1>1, <1>2, <1>5, <1>6, <1>a DEF GoesOn, shared
<1>8. t \in Bound
  BY <1>3
<1>9. /\ computed' \in [Nodes -> [Bound -> Nat]]
      /\ computed'[n][t] = computed[n][t] + 1
      /\ \A q \in Bound \ {t} : computed'[n][q] = computed[n][q]
      /\ \A m \in Nodes \ {n} : computed'[m] = computed[m]
  BY <1>1, <1>3, <1>4, <1>8, CountOne
<1>10. current_chunk' = current_chunk /\ current_chunk \in Nat /\ n_graph' = n_graph
       /\ K' = K /\ Part' = Part
  BY <1>1, <1>3 DEF shared, Types, K, Part
<1>11. /\ Types' /\ Locals' /\ Aborts' /\ Together' /\ Barriers'
       /\ Move(t) /\ pc'[t] = "after"
       /\ Loc(t)' = "after" /\ Pos(t)' = e /\ Front(t)' = e + 1
       /\ Loc(t) = "work" /\ Pos(t) = n /\ Front(t) = n
       /\ \A u \in Part : Loc(u) \in In /\ Loc(u)' \in In
  BY <1>1, <1>5, <1>6, <1>7, <1>9, <1>10, <1>a, GoesOnStep
<1>12. \A m \in Nodes : ~InMul(t, m) /\ ~InMul(t, m)'
  BY <1>2, <1>11 DEF InMul
<1>13. \A p \in Nat : ~Holds(t, p) /\ ~Holds(t, p)'
  BY <1>11 DEF Holds
<1>14. \A u \in Part \ {t} : /\ \A p \in Nat : Holds(u, p)' <=> Holds(u, p)
                             /\ Loc(u)' = Loc(u) /\ state'[u] = state[u] /\ pc'[u] = pc[u]
  BY <1>3, <1>11, OthersStay
<1>c. ASSUME NEW u \in Part
      PROVE  /\ \A m \in Nodes : InMul(u, m)' <=> InMul(u, m)
             /\ u # t => \A m \in Nodes : Through(u, m)' <=> Through(u, m)
  <2>1. CASE u = t
    BY <1>12, <2>1
  <2>2. CASE u # t
    BY <1>3, <1>11, <2>2, OthersStay
  <2> QED
    BY <2>1, <2>2
<1>15. ASSUME NEW m \in Nodes, m # n, Computed(m) PROVE Through(t, m)' <=> Through(t, m)
  <2>1. m \in Nat /\ m # e
    BY <1>4, <1>15, Kinds
  <2> QED
    BY <1>3, <1>4, <1>11, <1>15, <2>1 DEF Through
<1>16. \A p \in Bound : Given(p)' <=> Given(p)
  <2>1. \A p \in Bound : p \in Nat
    BY DEF Bound
  <2> QED
    BY <1>10, <1>13, <1>14, <2>1 DEF Given
<1>17. Done'
  <2>1. ASSUME NEW m \in Nodes, ~Computed(m) PROVE Untouched(m)'
    <3>1. Untouched(m) /\ computed'[m] = computed[m]
      BY <1>3, <1>4, <1>9, <2>1 DEF Done
    <3> QED
      BY <3>1 DEF Untouched
  <2>2. ASSUME NEW m \in Nodes, m # n, Computed(m)
        PROVE  IF Kind(m) = "mul" THEN MulDone(m)' ELSE PlainDone(m)'
    <3>1. computed'[m] = computed[m]
      BY <1>9, <2>2
    <3>2. \A u \in Part : (Through(u, m)' <=> Through(u, m)) /\ (InMul(u, m)' <=> InMul(u, m))
      BY <1>c, <1>15, <2>2
    <3> QED
      BY <1>3, <1>10, <1>16, <2>2, <3>1, <3>2, NodeKept DEF Done
  <2>3. PlainDone(n)'
    <3>1. PlainDone(n)
      BY <1>3, <1>4 DEF Done
    <3>2. ~Through(t, n) /\ Through(t, n)'
      BY <1>3, <1>4, <1>11 DEF Through
    <3>3. \A p \in Bound \ {t} : computed'[n][p] = IF p \in Part /\ Through(p, n)' THEN 1 ELSE 0
      <4> SUFFICES ASSUME NEW p \in Bound, p # t
                   PROVE  computed'[n][p] = IF p \in Part /\ Through(p, n)' THEN 1 ELSE 0
        OBVIOUS
      <4>1. p \in Part => (Through(p, n)' <=> Through(p, n))
        BY <1>c, <1>4
      <4>2. computed'[n][p] = IF p \in Part /\ Through(p, n) THEN 1 ELSE 0
        BY <1>9, <3>1 DEF PlainDone
      <4> QED
        BY <4>1, <4>2
    <3>4. computed[n][t] = 0
      BY <1>8, <3>1, <3>2 DEF PlainDone
    <3>5. computed'[n][t] = 1
      BY <1>9, <3>4
    <3> QED
      BY <1>3, <1>10, <3>2, <3>3, <3>5 DEF PlainDone
  <2> QED
    BY <1>4, <2>1, <2>2, <2>3 DEF Done
<1>18. Results'
  <2>1. pc'[0] # "kickoff" /\ Loc(0)' \in In
    <3>1. pc[0] # "kickoff"
      BY <1>3, Caller DEF IInv, Locals, CallerOnly
    <3> QED
      BY <1>3, <1>11, <1>14, <3>1
  <2> QED
    BY <1>17, <2>1 DEF Results, In, InGraph, AtBarrier
<1>19. Chunks'
  <2>1. \A u \in Part : Loc(u)' \in ChunkPhase => u # t
    BY <1>2, <1>11
  <2>2. Loc(0)' = "mul set" \/ (Loc(0)' \in AtBarrier /\ state'[0].back = "mul first") => t # 0
    BY <1>2, <1>11
  <2>3. \A x, u \in Part : \A m \in Nodes :
          Computed(m) /\ InMul(x, m)' /\ Through(u, m)' => NChunks <= current_chunk
    <3> SUFFICES ASSUME NEW x \in Part, NEW u \in Part, NEW m \in Nodes,
                        Computed(m), InMul(x, m)', Through(u, m)'
                 PROVE  NChunks <= current_chunk
      OBVIOUS
    <3>1. InMul(x, m)
      BY <1>c
    <3>2. CASE m = n
      <4>1. Loc(x) \in ChunkPhase /\ Pos(x) = n
        BY <3>1, <3>2 DEF InMul
      <4>2. Kind(n) = "mul"
        BY <1>3, <1>11, <4>1 DEF IInv, Locals, Local, Stands
      <4> QED
        BY <1>4, <4>2
    <3>3. CASE m # n
      <4>1. Through(u, m)
        BY <1>c, <1>15, <3>3
      <4> QED
        BY <1>3, <3>1, <4>1 DEF Chunks
    <3> QED
      BY <3>2, <3>3
  <2> QED
    BY <1>3, <1>10, <1>13, <1>14, <2>1, <2>2, <2>3 DEF Chunks
<1> QED
  BY <1>11, <1>18, <1>19 DEF IInv

\* The threads among the chunks of a matrix product are all at the same product.
LEMMA InPhase ==
  ASSUME Types, Locals, Together, NEW t \in Part, Loc(t) \in ChunkPhase
  PROVE  /\ Pos(t) \in Nodes /\ Kind(Pos(t)) = "mul" /\ Computed(Pos(t))
         /\ \A u \in Part : Loc(u) \in ChunkPhase => Pos(u) = Pos(t)
         /\ \A u \in Part : Loc(u) # "mul set"
                            /\ ~(Loc(u) \in AtBarrier /\ state[u].back = "mul first")
<1>1. Loc(t) \in In /\ t \in Threads
  BY PartThreads DEF In, InGraph, ChunkPhase
<1>2. Stands(Loc(t), Pos(t), state[t].back)
  BY <1>1 DEF Locals, Local
<1>3. Pos(t) \in Nodes /\ Kind(Pos(t)) = "mul" /\ Computed(Pos(t))
  BY <1>2 DEF Stands, Clear, Computed
<1>4. ASSUME NEW u \in Part, Loc(u) \in ChunkPhase PROVE Pos(u) = Pos(t)
  <2>1. Loc(u) \in In /\ Dest(u) = Dest(t)
    BY <1>1 DEF Together
  <2>2. Reach(Dest(t)) = Pos(t) + 1 /\ Reach(Dest(u)) = Pos(u) + 1
    BY <1>1, <1>4, <2>1, ThreadReach
  <2>3. Pos(t) \in Nat /\ Pos(u) \in Nat
    BY <1>1, PartThreads, ViewTypes
  <2> QED
    BY <2>1, <2>2, <2>3
<1>5. Dest(t) = EndDest(Pos(t))
  BY DEF Dest, DestOf, ChunkPhase
<1>6. Dest(t)[1] # "mul first"
  BY <1>3, <1>5, EndReach
<1>7. ASSUME NEW u \in Part, Loc(u) = "mul set" \/ (Loc(u) \in AtBarrier /\ state[u].back = "mul first")
      PROVE  FALSE
  <2>1. Dest(u) = Dest(t)
    BY <1>1 DEF Together
  <2>2. Dest(u) = <<"mul first", Pos(u)>>
    BY <1>7 DEF Dest, DestOf, AtBarrier, ChunkPhase
  <2>3. <<"mul first", Pos(u)>>[1] = "mul first"
    OBVIOUS
  <2> QED
    BY <1>6, <2>1, <2>2, <2>3
<1> QED
  BY <1>3, <1>4, <1>7

\* A step of a thread among the chunks of node n.
ChunkMove(t, n, l, v) ==
  /\ GoesOn(t, l, v)
  /\ pc[t] \in {"chunk", "next chunk"} /\ l \in {"chunk", "next chunk", "after"}
  /\ state[t].node = n /\ v.node = n
  /\ computed' \in [Nodes -> [Bound -> Nat]] /\ current_chunk' \in Nat
  /\ current_chunk <= current_chunk'
  /\ \A m \in Nodes \ {n} : computed'[m] = computed[m]
  /\ l = "after" => NChunks <= current_chunk'
  /\ l = "chunk" => v.chunk < current_chunk' /\ current_chunk <= v.chunk

GivenDone(n) == \A p \in Bound : computed[n][p] = IF p < NChunks /\ Given(p) THEN 1 ELSE 0

\* Where the threads stand before and after.
LEMMA ChunkMoveView ==
  ASSUME IInv, NEW t \in Threads, NEW n \in Nodes, NEW l, NEW v \in StateType, ChunkMove(t, n, l, v)
  PROVE  /\ Types' /\ Locals' /\ Aborts' /\ Together' /\ Barriers' /\ Types /\ t \in Part
         /\ Part' = Part /\ K' = K /\ Part \subseteq Threads /\ Move(t)
         /\ Loc(t)' = l /\ state'[t] = v /\ Pos(t)' = n /\ pc'[t] = l
         /\ Front(t)' = IF l = "after" THEN n + 1 ELSE n
         /\ Loc(t) = pc[t] /\ Pos(t) = n /\ Front(t) = n
         /\ Computed(n) /\ Kind(n) = "mul"
         /\ \A u \in Part : Loc(u) \in In /\ Loc(u)' \in In
         /\ \A u \in Part : Loc(u) \in ChunkPhase => Pos(u) = n
         /\ \A u \in Part : Loc(u)' \in ChunkPhase => Pos(u)' = n
         /\ \A u \in Part : /\ Loc(u)' # "mul set"
                            /\ ~(Loc(u)' \in AtBarrier /\ state'[u].back = "mul first")
<1>1. GoesOn(t, l, v) /\ pc[t] \in ChunkPhase /\ pc[t] \in In \ {"spin"} /\ pc[t] # "begin"
      /\ l \in {"chunk", "next chunk", "after"} /\ state[t].node = n /\ v.node = n
  BY DEF ChunkMove, ChunkPhase, In, InGraph, AtBarrier
<1>2. /\ Types' /\ Locals' /\ Aborts' /\ Together' /\ Barriers'
      /\ Move(t) /\ pc'[t] = l /\ state'[t] = v
      /\ Loc(t)' = l /\ Pos(t)' = n /\ Front(t)' = FrontOf(l, n, v.back)
      /\ Loc(t) = pc[t] /\ Pos(t) = n
      /\ Front(t) = FrontOf(pc[t], n, state[t].back)
      /\ \A u \in Part : Loc(u) \in In /\ Loc(u)' \in In
  <2>1. computed' \in [Nodes -> [Bound -> Nat]] /\ current_chunk' \in Nat
    BY DEF ChunkMove
  <2>2. /\ Types' /\ Locals' /\ Aborts' /\ Together' /\ Barriers'
        /\ Move(t) /\ pc'[t] = l /\ state'[t] = v
        /\ Loc(t)' = l /\ Pos(t)' = v.node /\ Front(t)' = FrontOf(l, v.node, v.back)
        /\ Loc(t) = pc[t] /\ Pos(t) = state[t].node
        /\ Front(t) = FrontOf(pc[t], state[t].node, state[t].back)
        /\ \A u \in Part : Loc(u) \in In /\ Loc(u)' \in In
    BY <1>1, <2>1, GoesOnStep
  <2> QED
    BY <1>1, <2>2
<1>3. Types /\ Locals /\ Together /\ t \in Part /\ Part \subseteq Threads /\ Part' = Part /\ K' = K
  BY <1>1, Inside, PartThreads DEF IInv, GoesOn, Part, K
<1>4. FrontOf(l, n, v.back) = (IF l = "after" THEN n + 1 ELSE n)
      /\ FrontOf(pc[t], n, state[t].back) = n
  BY <1>1 DEF FrontOf, AtBarrier, ChunkPhase
<1>5. /\ Computed(n) /\ Kind(n) = "mul"
      /\ \A u \in Part : Loc(u) \in ChunkPhase => Pos(u) = n
      /\ \A u \in Part : Loc(u) # "mul set"
                         /\ ~(Loc(u) \in AtBarrier /\ state[u].back = "mul first")
  <2>1. Loc(t) \in ChunkPhase /\ Pos(t) = n
    BY <1>1, <1>2
  <2> QED
    BY <1>3, <2>1, InPhase
<1>6. ASSUME NEW u \in Part
      PROVE  /\ Loc(u)' \in ChunkPhase => Pos(u)' = n
             /\ Loc(u)' # "mul set" /\ ~(Loc(u)' \in AtBarrier /\ state'[u].back = "mul first")
  <2>1. CASE u = t
    <3>1. Loc(u)' = l /\ Pos(u)' = n
      BY <1>2, <2>1
    <3> QED
      BY <1>1, <3>1 DEF AtBarrier
  <2>2. CASE u # t
    <3>1. Loc(u)' = Loc(u) /\ Pos(u)' = Pos(u) /\ state'[u] = state[u]
      BY <1>2, <1>3, <2>2, OthersStay
    <3> QED
      BY <1>5, <3>1
  <2> QED
    BY <2>1, <2>2
<1> QED
  BY <1>2, <1>3, <1>4, <1>5, <1>6

\* While a thread is among the chunks of node n, what is done is what was given out.
LEMMA PhaseDone ==
  ASSUME IInv, NEW t \in Part, NEW n \in Nodes, Computed(n), Kind(n) = "mul",
         Loc(t) \in ChunkPhase, Pos(t) = n
  PROVE  GivenDone(n)
<1>1. Types /\ Locals /\ Together /\ Results /\ Loc(t) \in In /\ InMul(t, n)
  BY DEF IInv, In, InGraph, ChunkPhase, InMul
<1>2. \A u \in Part : InMul(u, n) \/ Through(u, n)
  BY <1>1, SamePhase
<1>3. 0 \in Part
  BY <1>1, ZeroIn
<1>4. Done
  BY <1>1, <1>3 DEF Together, Results
<1>5. MulDone(n)
  BY <1>4 DEF Done
<1> QED
  BY <1>1, <1>2, <1>5 DEF MulDone, GivenDone

\* A thread among the chunks goes on, and what is done is what was given out.
LEMMA ChunkMoveInv ==
  ASSUME IInv, NEW t \in Threads, NEW n \in Nodes, NEW l, NEW v \in StateType,
         ChunkMove(t, n, l, v), GivenDone(n)'
  PROVE  IInv'
<1>1. /\ Types' /\ Locals' /\ Aborts' /\ Together' /\ Barriers' /\ Types /\ t \in Part
      /\ Part' = Part /\ K' = K /\ Part \subseteq Threads /\ Move(t)
      /\ Loc(t)' = l /\ state'[t] = v /\ Pos(t)' = n /\ pc'[t] = l
      /\ Front(t)' = IF l = "after" THEN n + 1 ELSE n
      /\ Loc(t) = pc[t] /\ Pos(t) = n /\ Front(t) = n
      /\ Computed(n) /\ Kind(n) = "mul"
      /\ \A u \in Part : Loc(u) \in In /\ Loc(u)' \in In
      /\ \A u \in Part : Loc(u) \in ChunkPhase => Pos(u) = n
      /\ \A u \in Part : Loc(u)' \in ChunkPhase => Pos(u)' = n
      /\ \A u \in Part : /\ Loc(u)' # "mul set"
                         /\ ~(Loc(u)' \in AtBarrier /\ state'[u].back = "mul first")
  BY ChunkMoveView
<1>2. /\ Locals /\ Together /\ Chunks /\ Results /\ n \in Nat /\ K \in Nat /\ NChunks \in Nat
      /\ 0 \in Part
  BY <1>1, PartThreads, ZeroIn, Kinds DEF IInv
<1>a. pc[t] \in {"chunk", "next chunk"} /\ l \in {"chunk", "next chunk", "after"}
  BY DEF ChunkMove
<1>b. l = "after" => NChunks <= current_chunk'
  BY DEF ChunkMove
<1>c. l = "chunk" => v.chunk < current_chunk' /\ current_chunk <= v.chunk
  BY DEF ChunkMove
<1>3. /\ current_chunk' \in Nat /\ current_chunk \in Nat /\ current_chunk <= current_chunk'
      /\ \A m \in Nodes \ {n} : computed'[m] = computed[m]
      /\ n_graph' = n_graph /\ v.chunk \in Nat
  BY <1>1 DEF ChunkMove, GoesOn, Types, StateType
<1>d. Front(t) = n /\ Front(t)' \in {n, n + 1} /\ Loc(t)' = l /\ Pos(t) = n /\ Pos(t)' = n
  BY <1>1
<1>e. (l = "after" => Front(t)' = n + 1) /\ (l # "after" => Front(t)' = n)
  BY <1>1
<1>f. Part' = Part
  BY <1>1
<1>4. Loc(t) \in ChunkPhase /\ (l # "after" => l \in ChunkPhase) /\ "after" \notin ChunkPhase
  BY <1>1, <1>a DEF ChunkPhase
<1>5. ASSUME NEW u \in Part, u # t
      PROVE  /\ Loc(u)' = Loc(u) /\ Pos(u)' = Pos(u) /\ Front(u)' = Front(u)
             /\ \A m \in Nodes : (Through(u, m)' <=> Through(u, m))
                                 /\ (InMul(u, m)' <=> InMul(u, m))
             /\ \A p \in Nat : Holds(u, p)' <=> Holds(u, p)
  BY <1>1, <1>5, OthersStay
<1>6. \A u \in Part : \A m \in Nodes : m # n => ~InMul(u, m) /\ ~InMul(u, m)'
  BY <1>1 DEF InMul
<1>7. InMul(t, n) /\ ~Through(t, n)
  BY <1>2, <1>4, <1>d DEF InMul, Through
<1>8. (l # "after" => InMul(t, n)' /\ ~Through(t, n)') /\ (l = "after" => Through(t, n)')
  <2>1. CASE l = "after"
    <3>1. Front(t)' = n + 1
      BY <1>e, <2>1
    <3>2. Through(t, n)'
      BY <1>2, <3>1 DEF Through
    <3> QED
      BY <2>1, <3>2
  <2>2. CASE l # "after"
    <3>1. Front(t)' = n /\ Loc(t)' \in ChunkPhase /\ Pos(t)' = n
      BY <1>4, <1>d, <1>e, <2>2
    <3>2. InMul(t, n)' /\ ~Through(t, n)'
      BY <1>2, <3>1 DEF InMul, Through
    <3> QED
      BY <2>2, <3>2
  <2> QED
    BY <2>1, <2>2
<1>9. \A u \in Part : InMul(u, n)' \/ Through(u, n)'
  <2>1. \A u \in Part : InMul(u, n) \/ Through(u, n)
    BY <1>1, <1>2, <1>7, SamePhase
  <2>2. ASSUME NEW u \in Part PROVE InMul(u, n)' \/ Through(u, n)'
    <3>1. CASE u = t
      BY <1>8, <3>1
    <3>2. CASE u # t
      BY <1>5, <2>1, <3>2
    <3> QED
      BY <3>1, <3>2
  <2> QED
    BY <2>2
<1>10. \A u \in Part : Through(u, n)' => Loc(u)' \notin ChunkPhase
  <2> SUFFICES ASSUME NEW u \in Part, Loc(u)' \in ChunkPhase PROVE ~Through(u, n)'
    OBVIOUS
  <2>1. Pos(u)' = n
    BY <1>1
  <2>2. Front(u)' = n
    BY <2>1 DEF Front, FrontOf, ChunkPhase, AtBarrier
  <2> QED
    BY <1>2, <2>2 DEF Through
<1>11. \A u \in Part : \A p : Holds(u, p)' => Loc(u)' \in ChunkPhase
  BY DEF Holds, ChunkPhase
<1>12. Done'
  <2>1. ASSUME NEW m \in Nodes, m # n
        PROVE  IF ~Computed(m) THEN Untouched(m)'
               ELSE IF Kind(m) = "mul" THEN MulDone(m)' ELSE PlainDone(m)'
    <3>1. \A u \in Part : Through(u, m)' <=> Through(u, m)
      <4>1. ASSUME NEW u \in Part PROVE Through(u, m)' <=> Through(u, m)
        <5>1. CASE u = t
          <6>1. m \in Nat
            BY Kinds
          <6> QED
            BY <1>2, <1>d, <2>1, <5>1, <6>1 DEF Through
        <5>2. CASE u # t
          BY <1>5, <5>2
        <5> QED
          BY <5>1, <5>2
      <4> QED
        BY <4>1
    <3>2. \A u \in Part : ~InMul(u, m) /\ ~InMul(u, m)'
      BY <1>6, <2>1
    <3>3. computed'[m] = computed[m]
      BY <1>3, <2>1
    <3>4. /\ PlainDone(m) => PlainDone(m)'
          /\ MulDone(m) => MulDone(m)'
          /\ Untouched(m) => Untouched(m)'
      BY <1>3, <3>1, <3>2, <3>3, NodeKept
    <3>5. Done
      BY <1>1, <1>2 DEF Results
    <3> QED
      BY <3>4, <3>5 DEF Done
  <2>2. MulDone(n)'
    <3>1. ASSUME \A u \in Part : Through(u, n)' PROVE Whole(n)'
      <4>1. NChunks <= current_chunk'
        BY <1>1, <1>8, <1>b, <3>1
      <4>2. \A u \in Part : \A p : ~Holds(u, p)'
        BY <1>10, <1>11, <3>1
      <4>3. \A p \in Bound : p < NChunks => Given(p)'
        <5>1. \A p \in Bound : p \in Nat
          BY DEF Bound
        <5> QED
          BY <1>2, <1>3, <1>f, <4>1, <4>2, <5>1 DEF Given
      <4>4. \A p \in Bound : computed'[n][p] = IF p < NChunks THEN 1 ELSE 0
        BY <4>3 DEF GivenDone
      <4>5. DOMAIN computed'[n] = Bound /\ computed'[n] = [p \in Bound |-> computed'[n][p]]
        BY <1>1 DEF Types
      <4>6. \A p \in Bound : p \in 0 .. NChunks - 1 <=> p < NChunks
        BY <1>2 DEF Bound
      <4> QED
        BY <1>1, <4>4, <4>5, <4>6 DEF Whole, Parts
    <3>2. ~(\E u \in Part : ~InMul(u, n)' /\ ~Through(u, n)')
      BY <1>9
    <3> QED
      BY <1>1, <3>1, <3>2 DEF MulDone, GivenDone
  <2> QED
    BY <1>1, <2>1, <2>2 DEF Done
<1>13. Results'
  <2>1. pc'[0] # "kickoff"
    <3>1. CASE t = 0
      BY <1>1, <1>a, <3>1
    <3>2. CASE t # 0
      <4>1. pc'[0] = pc[0] /\ Loc(0) \in In
        BY <1>1, <1>2, <3>2 DEF Move
      <4> QED
        BY <1>2, <4>1, ZeroIn, Caller DEF IInv, Locals, CallerOnly
    <3> QED
      BY <3>1, <3>2
  <2>2. Loc(0)' \in In
    BY <1>1, <1>2
  <2> QED
    BY <1>12, <2>1, <2>2 DEF Results, In, InGraph, AtBarrier
<1>14. \A u \in Part : \A p \in Nat :
         Holds(u, p)' => (u = t /\ l = "chunk" /\ p = v.chunk) \/ (u # t /\ Holds(u, p))
  <2>1. \A p \in Nat : Holds(t, p)' => l = "chunk" /\ p = v.chunk
    BY <1>1, <1>a DEF Holds
  <2>2. ASSUME NEW u \in Part, NEW p \in Nat, Holds(u, p)'
        PROVE  (u = t /\ l = "chunk" /\ p = v.chunk) \/ (u # t /\ Holds(u, p))
    <3>1. CASE u = t
      BY <2>1, <2>2, <3>1
    <3>2. CASE u # t
      BY <1>5, <2>2, <3>2
    <3> QED
      BY <3>1, <3>2
  <2> QED
    BY <2>2
<1>15. \A u \in Part : \A p \in Nat : Holds(u, p) => p < current_chunk
  BY <1>2 DEF Chunks
<1>16. Chunks'
  <2>1. \A u \in Part : Loc(u)' \in ChunkPhase => K <= current_chunk'
    <3>1. K <= current_chunk
      BY <1>1, <1>2, <1>4 DEF Chunks
    <3>2. K <= current_chunk'
      BY <1>2, <1>3, <3>1
    <3> QED
      BY <3>2
  <2>2. \A u \in Part : \A p \in Nat : Holds(u, p)' => p < current_chunk'
    <3> SUFFICES ASSUME NEW u \in Part, NEW p \in Nat, Holds(u, p)' PROVE p < current_chunk'
      OBVIOUS
    <3>1. CASE u = t
      BY <1>14, <1>c, <3>1
    <3>2. CASE u # t
      <4>1. p < current_chunk
        BY <1>14, <1>15, <3>2
      <4> QED
        BY <1>3, <4>1
    <3> QED
      BY <3>1, <3>2
  <2>3. \A x, u \in Part : \A p \in Nat : Holds(x, p)' /\ Holds(u, p)' => x = u
    <3> SUFFICES ASSUME NEW x \in Part, NEW u \in Part, NEW p \in Nat,
                        Holds(x, p)', Holds(u, p)', x # u
                 PROVE  FALSE
      OBVIOUS
    <3>1. CASE x = t
      <4>1. p = v.chunk /\ l = "chunk" /\ Holds(u, p)
        BY <1>14, <3>1
      <4>2. p < current_chunk /\ current_chunk <= p
        BY <1>15, <1>c, <4>1
      <4> QED
        BY <1>3, <4>2
    <3>2. CASE u = t
      <4>1. p = v.chunk /\ l = "chunk" /\ Holds(x, p)
        BY <1>14, <3>2
      <4>2. p < current_chunk /\ current_chunk <= p
        BY <1>15, <1>c, <4>1
      <4> QED
        BY <1>3, <4>2
    <3>3. CASE x # t /\ u # t
      <4>1. Holds(x, p) /\ Holds(u, p)
        BY <1>14, <3>3
      <4> QED
        BY <1>2, <4>1 DEF Chunks
    <3> QED
      BY <3>1, <3>2, <3>3
  <2>4. ASSUME NEW x \in Part, NEW u \in Part, NEW m \in Nodes, InMul(x, m)', Through(u, m)'
        PROVE  NChunks <= current_chunk'
    <3>1. m = n
      BY <1>6, <2>4
    <3>2. CASE u = t
      BY <1>8, <1>b, <2>4, <3>1, <3>2
    <3>3. CASE u # t
      <4>1. Through(u, n) /\ InMul(t, n)
        BY <1>5, <1>7, <2>4, <3>1, <3>3
      <4>2. NChunks <= current_chunk
        BY <1>1, <1>2, <4>1 DEF Chunks
      <4> QED
        BY <1>2, <1>3, <4>2
    <3> QED
      BY <3>2, <3>3
  <2>5. ~(Loc(0)' = "mul set" \/ (Loc(0)' \in AtBarrier /\ state'[0].back = "mul first"))
    BY <1>1, <1>2
  <2> QED
    BY <1>1, <2>1, <2>2, <2>3, <2>4, <2>5 DEF Chunks
<1> QED
  BY <1>1, <1>13, <1>16 DEF IInv

\* What is known of a thread among the chunks.
LEMMA InChunks ==
  ASSUME IInv, NEW t \in Threads, pc[t] \in {"chunk", "next chunk"}
  PROVE  /\ Types /\ Chunks /\ t \in Part /\ state[t] \in StateType /\ state \in [Threads -> StateType]
         /\ Loc(t) = pc[t] /\ Pos(t) = state[t].node /\ state[t].nth = K /\ K \in Nat
         /\ state[t].node \in Nodes /\ Kind(state[t].node) = "mul" /\ Computed(state[t].node)
         /\ Stands(pc[t], state[t].node, state[t].back) /\ current_chunk \in Nat
         /\ K <= current_chunk /\ GivenDone(state[t].node)
<1>1. pc[t] \in In \ {"spin"} /\ pc[t] # "begin" /\ pc[t] \in ChunkPhase
  BY DEF In, InGraph, AtBarrier, ChunkPhase
<1>2. /\ Types /\ Chunks /\ t \in Part /\ state[t] \in StateType
      /\ state \in [Threads -> StateType] /\ current_chunk \in Nat
      /\ Loc(t) = pc[t] /\ Pos(t) = state[t].node /\ state[t].nth = K /\ K \in Nat
      /\ Stands(pc[t], state[t].node, state[t].back)
  BY <1>1, Inside DEF Types, IInv
<1>3. state[t].node \in Nodes /\ Kind(state[t].node) = "mul" /\ Computed(state[t].node)
  BY <1>1, <1>2 DEF Stands, Clear, Computed
<1>4. GivenDone(state[t].node)
  BY <1>1, <1>2, <1>3, PhaseDone
<1>5. K <= current_chunk
  BY <1>1, <1>2 DEF Chunks
<1> QED
  BY <1>2, <1>3, <1>4, <1>5

Leaving == {"next chunk", "after"}

\* From the chunks every thread heads for the barrier behind the product.
LEMMA ChunkDests ==
  ASSUME NEW l \in {"chunk", "next chunk", "after"}, NEW n \in Nodes, NEW b
  PROVE  /\ l \in Inner /\ DestOf(l, n, b) = EndDest(n)
         /\ Kind(n) = "mul" /\ Clear(n) => Stands(l, n, b)
BY DEF Inner, In, InGraph, AtBarrier, DestOf, ChunkPhase, Stands

\* Parts are numbered from zero.
LEMMA BoundNat ==
  (\A p \in Bound : p \in Nat) /\ (\A q \in Nat : q < NChunks => q \in Bound)
BY Kinds DEF Bound

\* A thread takes the next chunk from the counter, which may be past the last.
LEMMA NextChunkStep ==
  ASSUME IInv, NEW t \in Threads, NextChunk(t)
  PROVE  IInv'
<1>a. PICK n \in Nat : n = state[t].node
  BY DEF IInv, Types, StateType
<1>b. PICK c \in Nat : c = current_chunk
  BY DEF IInv, Types
<1> DEFINE v == [state[t] EXCEPT !.chunk = c]
<1>1. /\ pc[t] = "next chunk" /\ Go(t, "chunk") /\ state' = [state EXCEPT ![t] = v]
      /\ UNCHANGED <<n_graph, n_barrier, n_barrier_passed, abort, ec, computed>>
  BY <1>b DEF NextChunk
<1>c. current_chunk' = c + 1 /\ current_chunk = c
  BY <1>b DEF NextChunk
<1>2. /\ Types /\ Chunks /\ t \in Part /\ state[t] \in StateType
      /\ Loc(t) = pc[t] /\ Pos(t) = n
      /\ n \in Nodes /\ Kind(n) = "mul" /\ Computed(n)
      /\ Stands("next chunk", n, state[t].back) /\ GivenDone(n)
  BY <1>1, <1>a, InChunks
<1>3. v \in StateType /\ v.node = n /\ v.nth = state[t].nth /\ v.chunk = c
      /\ v.last_graph = state[t].last_graph /\ v.pending = state[t].pending
      /\ v.passed = state[t].passed /\ v.back = state[t].back
  <2>1. v \in StateType
    BY <1>2, SetFields
  <2> QED
    BY <1>2, <1>a, <2>1 DEF StateType
<1> HIDE DEF v
<1>4. GoesOn(t, "chunk", v)
  <2>1. "chunk" \in Inner /\ "next chunk" \in Inner
    BY <1>2, ChunkDests
  <2>2. DestOf("chunk", n, v.back) = EndDest(n) /\ DestOf("next chunk", n, v.back) = EndDest(n)
    BY <1>2, ChunkDests
  <2>3. Stands("chunk", n, v.back)
    BY <1>2, <1>3, ChunkDests DEF Stands, ChunkPhase
  <2> QED
    BY <1>1, <1>3, <1>a, <2>1, <2>2, <2>3 DEF GoesOn
<1>5. ChunkMove(t, n, "chunk", v)
  <2>1. computed' \in [Nodes -> [Bound -> Nat]]
    BY <1>1, <1>2 DEF Types
  <2>2. current_chunk' \in Nat /\ current_chunk <= current_chunk' /\ c < current_chunk'
    BY <1>c
  <2>3. v.chunk = current_chunk /\ v.chunk = c
    BY <1>3, <1>c
  <2>4. current_chunk <= v.chunk
    BY <1>c, <2>3
  <2> QED
    BY <1>1, <1>3, <1>4, <1>a, <2>1, <2>2, <2>3, <2>4 DEF ChunkMove
<1>6. Part' = Part /\ Part \subseteq Threads /\ Move(t) /\ Loc(t)' = "chunk" /\ state'[t] = v
  <2>1. n \in Nodes /\ v \in StateType
    BY <1>2, <1>3
  <2>2. Part' = Part /\ Part \subseteq Threads /\ Move(t) /\ Loc(t)' = "chunk"
    BY <1>5, <2>1, ChunkMoveView
  <2>3. state'[t] = v
    BY <1>1, <1>2 DEF Types
  <2> QED
    BY <2>2, <2>3
<1>7. \A p \in Nat : (Holds(t, p)' <=> p = c) /\ ~Holds(t, p)
  BY <1>1, <1>2, <1>3, <1>6 DEF Holds
<1>8. ASSUME NEW p \in Nat PROVE Given(p)' <=> Given(p)
  <2>1. CASE p = c
    <3>1. ~Given(p)
      BY <1>c, <2>1 DEF Given
    <3>2. Holds(t, p)'
      BY <1>7, <2>1
    <3> QED
      BY <1>2, <1>6, <3>1, <3>2 DEF Given
  <2>2. CASE p # c
    <3>1. p < current_chunk' <=> p < current_chunk
      BY <1>c, <2>2
    <3>2. \A u \in Part : Holds(u, p)' <=> Holds(u, p)
      <4>1. ASSUME NEW u \in Part PROVE Holds(u, p)' <=> Holds(u, p)
        <5>1. CASE u = t
          BY <1>7, <2>2, <5>1
        <5>2. CASE u # t
          BY <1>6, <5>2, OthersStay
        <5> QED
          BY <5>1, <5>2
      <4> QED
        BY <4>1
    <3> QED
      BY <1>6, <3>1, <3>2 DEF Given
  <2> QED
    BY <2>1, <2>2
<1>9. GivenDone(n)'
  <2>1. \A p \in Bound : Given(p)' <=> Given(p)
    BY <1>8, BoundNat
  <2> QED
    BY <1>1, <1>2, <2>1 DEF GivenDone
<1> QED
  BY <1>2, <1>3, <1>5, <1>9, ChunkMoveInv

\* A thread computes the chunk it holds.
LEMMA ChunkStep ==
  ASSUME IInv, NEW t \in Threads, Chunk(t)
  PROVE  IInv'
<1>a. PICK n \in Nat : n = state[t].node
  BY DEF IInv, Types, StateType
<1>b. PICK q \in Nat : q = state[t].chunk
  BY DEF IInv, Types, StateType
<1> DEFINE v == state[t]
<1>1. /\ pc[t] = "chunk" /\ UNCHANGED <<shared, state>>
      /\ q < NChunks => ComputePart(n, q)
      /\ ~(q < NChunks) => computed' = computed
      /\ \E l \in Leaving :
           Go(t, l) /\ (l = "after" => ~(q < NChunks) \/ state[t].nth >= NChunks)
  BY <1>a, <1>b DEF Chunk, Leaving
<1>2. /\ Types /\ Chunks /\ t \in Part /\ state[t] \in StateType /\ state \in [Threads -> StateType]
      /\ Loc(t) = "chunk" /\ Pos(t) = n /\ state[t].nth = K /\ K \in Nat /\ NChunks \in Nat
      /\ n \in Nodes /\ Kind(n) = "mul" /\ Computed(n) /\ current_chunk \in Nat
      /\ Stands("chunk", n, state[t].back) /\ GivenDone(n) /\ K <= current_chunk
  BY <1>1, <1>a, InChunks, Kinds
<1>3. PICK l \in Leaving :
        Go(t, l) /\ (l = "after" => ~(q < NChunks) \/ K >= NChunks)
  BY <1>1, <1>2
<1>4. Holds(t, q) /\ q < current_chunk
  <2>1. Holds(t, q)
    BY <1>2, <1>b DEF Holds
  <2> QED
    BY <1>2, <2>1 DEF Chunks
<1>5. l = "after" => NChunks <= current_chunk
  <2> SUFFICES ASSUME l = "after" PROVE NChunks <= current_chunk
    OBVIOUS
  <2>1. ~(q < NChunks) \/ K >= NChunks
    BY <1>3
  <2> QED
    BY <1>2, <1>4, <2>1
<1>6. q < NChunks => q \in Bound
  BY BoundNat
<1>7. /\ computed' \in [Nodes -> [Bound -> Nat]]
      /\ \A m \in Nodes \ {n} : computed'[m] = computed[m]
      /\ \A p \in Bound : computed'[n][p] = IF p = q /\ q < NChunks THEN computed[n][p] + 1
                                                                   ELSE computed[n][p]
  <2>1. CASE q < NChunks
    BY <1>1, <1>2, <1>6, <2>1, CountOne
  <2>2. CASE ~(q < NChunks)
    BY <1>1, <1>2, <2>2 DEF Types
  <2> QED
    BY <2>1, <2>2
<1>8. GoesOn(t, l, state[t])
  <2>1. l \in Inner /\ "chunk" \in Inner /\ l \in {"chunk", "next chunk", "after"}
    BY <1>2, ChunkDests DEF Leaving
  <2>2. DestOf(l, n, state[t].back) = DestOf("chunk", n, state[t].back)
    <3>1. DestOf(l, n, state[t].back) = EndDest(n)
      BY <1>2, <2>1, ChunkDests
    <3>2. DestOf("chunk", n, state[t].back) = EndDest(n)
      BY <1>2, ChunkDests
    <3> QED
      BY <3>1, <3>2
  <2>3. Stands(l, n, state[t].back)
    BY <1>2, <2>1, ChunkDests DEF Stands, ChunkPhase
  <2>4. state' = [state EXCEPT ![t] = state[t]]
    BY <1>1, <1>2
  <2> QED
    BY <1>1, <1>3, <1>a, <2>1, <2>2, <2>3, <2>4 DEF GoesOn, shared
<1>9. ChunkMove(t, n, l, state[t])
  <2>1. current_chunk' = current_chunk /\ current_chunk' \in Nat /\ current_chunk <= current_chunk'
    <3>1. current_chunk' = current_chunk /\ current_chunk \in Nat
      BY <1>1, <1>2 DEF shared
    <3> QED
      BY <3>1
  <2>2. l = "after" => NChunks <= current_chunk'
    BY <1>5, <2>1
  <2> QED
    BY <1>1, <1>7, <1>8, <1>a, <2>1, <2>2 DEF ChunkMove, Leaving
<1>10. /\ Part' = Part /\ Part \subseteq Threads /\ Move(t) /\ Loc(t)' = l
  BY <1>2, <1>9, ChunkMoveView
<1>11. \A p \in Nat : ~Holds(t, p)' /\ (Holds(t, p) <=> p = q)
  BY <1>2, <1>10, <1>b DEF Holds, Leaving
<1>12. ASSUME NEW p \in Nat PROVE Given(p)' <=> Given(p) \/ p = q
  <2>1. current_chunk' = current_chunk
    BY <1>1 DEF shared
  <2>2. \A u \in Part : Holds(u, p)' <=> Holds(u, p) /\ u # t
    <3>1. ASSUME NEW u \in Part PROVE Holds(u, p)' <=> Holds(u, p) /\ u # t
      <4>1. CASE u = t
        BY <1>11, <4>1
      <4>2. CASE u # t
        BY <1>10, <4>2, OthersStay
      <4> QED
        BY <4>1, <4>2
    <3> QED
      BY <3>1
  <2>3. CASE p = q
    <3>1. \A u \in Part : Holds(u, q) => u = t
      BY <1>2, <1>4 DEF Chunks
    <3> QED
      BY <1>4, <1>10, <2>1, <2>2, <2>3, <3>1 DEF Given
  <2>4. CASE p # q
    <3>1. ~Holds(t, p)
      BY <1>11, <2>4
    <3> QED
      BY <1>10, <2>1, <2>2, <2>4, <3>1 DEF Given
  <2> QED
    BY <2>3, <2>4
<1>13. GivenDone(n)'
  <2> SUFFICES ASSUME NEW p \in Bound
               PROVE  computed'[n][p] = IF p < NChunks /\ Given(p)' THEN 1 ELSE 0
    BY DEF GivenDone
  <2>1. p \in Nat
    BY BoundNat
  <2>2. computed[n][p] = IF p < NChunks /\ Given(p) THEN 1 ELSE 0
    BY <1>2 DEF GivenDone
  <2>3. ~Given(q)
    BY <1>2, <1>4 DEF Given
  <2> QED
    BY <1>7, <1>12, <2>1, <2>2, <2>3
<1> QED
  BY <1>2, <1>9, <1>13, ChunkMoveInv

-----------------------------------------------------------------------------
(***************************************************************************)
(* The abort mark                                                          *)
(***************************************************************************)
\* It is set to the node the threads' next barrier leads to: none turns off
\* before that barrier.
LEMMA DestKept ==
  ASSUME NEW n \in Nodes, NEW k \in 0 .. Len(Graph), abort \in Int, abort' = n + 1,
         NodeDest(k) = EndDest(n)
  PROVE  NodeDest(k)' = EndDest(n)
<1>1. n \in Nat /\ Len(Graph) \in Nat /\ n < Len(Graph) /\ k \in Nat
  BY Kinds DEF Nodes
<1>2. CASE k \notin Nodes
  BY <1>2 DEF NodeDest
<1>3. CASE k \in Nodes /\ abort = k
  <2>1. EndDest(n) = <<"done", k>>
    BY <1>3 DEF NodeDest
  <2>2. CASE n + 1 \in Nodes
    <3>1. <<"advance", n>> = <<"done", k>>
      BY <2>1, <2>2 DEF EndDest
    <3>2. <<"advance", n>>[1] = "advance" /\ <<"done", k>>[1] = "done"
      OBVIOUS
    <3> QED
      BY <3>1, <3>2
  <2>3. CASE n + 1 \notin Nodes
    <3>1. <<"done", n + 1>> = <<"done", k>>
      BY <2>1, <2>3 DEF EndDest
    <3>2. <<"done", n + 1>>[2] = n + 1 /\ <<"done", k>>[2] = k
      OBVIOUS
    <3>3. n + 1 = k
      BY <3>1, <3>2
    <3> QED
      BY <1>3, <2>3, <3>3
  <2> QED
    BY <2>2, <2>3
<1>4. CASE k \in Nodes /\ abort # k
  <2>1. NodeDest(k) = StartDest(First(k)) /\ NodeDest(k) # <<"advance", k - 1>>
    BY <1>4, NodeReach DEF NodeDest
  <2>2. k # n + 1
    <3> SUFFICES ASSUME k = n + 1 PROVE FALSE
      OBVIOUS
    <3>1. EndDest(n) = <<"advance", n>> /\ k - 1 = n
      BY <1>1, <1>4 DEF EndDest
    <3> QED
      BY <2>1, <3>1
  <2> QED
    BY <1>4, <2>1, <2>2 DEF NodeDest
<1> QED
  BY <1>2, <1>3, <1>4

\* What a thread reads of the abort mark, and where it stands after.
LEMMA AbortView ==
  ASSUME IInv, NEW n \in Nodes, NEW u \in Part, u # 0, Move(0), abort' = n + 1,
         Loc(u) \in In, Dest(u) = EndDest(n)
  PROVE  Dest(u)' = Dest(u) /\ Stands(Loc(u), Pos(u), state[u].back)'
<1>1. /\ u \in Threads /\ Types /\ abort \in Int /\ Pos(u) \in Nat /\ n \in Nat
      /\ Stands(Loc(u), Pos(u), state[u].back) /\ n < Len(Graph) /\ Len(Graph) \in Nat
  <2>1. u \in Threads /\ Types
    BY PartThreads DEF IInv
  <2>2. Stands(Loc(u), Pos(u), state[u].back)
    BY <2>1 DEF IInv, Locals, Local
  <2> QED
    BY <2>1, <2>2, ViewTypes, Kinds DEF Nodes
<1>2. Loc(u)' = Loc(u) /\ Pos(u)' = Pos(u) /\ state'[u] = state[u]
  BY <1>1, ZeroIn, OthersStay
<1>a. PICK p \in Nat : p = Pos(u)
  BY <1>1
<1>3. CASE Loc(u) \in {"begin", "node"}
  <2>1. Dest(u) = NodeDest(p) /\ Dest(u)' = NodeDest(p)'
    BY <1>2, <1>3, <1>a DEF Dest, DestOf
  <2>2. p \in 0 .. Len(Graph)
    BY <1>1, <1>3, <1>a DEF Stands
  <2>3. NodeDest(p)' = EndDest(n)
    BY <1>1, <2>1, <2>2, DestKept
  <2>4. Loc(u) \notin AtBarrier
    BY <1>3 DEF AtBarrier
  <2> QED
    BY <1>1, <1>2, <2>1, <2>3, <2>4 DEF Stands
<1>4. CASE Loc(u) = "advance"
  <2>1. Dest(u) = NodeDest(p + 1) /\ Dest(u)' = NodeDest(p + 1)'
    BY <1>2, <1>4, <1>a DEF Dest, DestOf, ChunkPhase
  <2>2. p \in Nodes
    BY <1>1, <1>4, <1>a DEF Stands
  <2>3. p + 1 \in 0 .. Len(Graph)
    BY <1>1, <2>2 DEF Nodes
  <2>4. NodeDest(p + 1)' = EndDest(n)
    BY <1>1, <2>1, <2>3, DestKept
  <2>5. Loc(u) \notin AtBarrier
    BY <1>4 DEF AtBarrier
  <2> QED
    BY <1>1, <1>2, <2>1, <2>4, <2>5 DEF Stands
<1>5. CASE Loc(u) \in AtBarrier
  <2>1. Dest(u) = <<state[u].back, p>> /\ Dest(u)' = Dest(u)
    BY <1>2, <1>5, <1>a DEF Dest, DestOf, AtBarrier, ChunkPhase
  <2>2. ASSUME state[u].back = "done" PROVE p = Len(Graph)
    <3>1. EndDest(n) = <<"done", p>>
      BY <2>1, <2>2
    <3>2. CASE n + 1 \in Nodes
      <4>1. <<"advance", n>> = <<"done", p>>
        BY <3>1, <3>2 DEF EndDest
      <4>2. <<"advance", n>>[1] = "advance" /\ <<"done", p>>[1] = "done"
        OBVIOUS
      <4> QED
        BY <4>1, <4>2
    <3>3. CASE n + 1 \notin Nodes
      <4>1. <<"done", n + 1>> = <<"done", p>>
        BY <3>1, <3>3 DEF EndDest
      <4>2. <<"done", n + 1>>[2] = n + 1 /\ <<"done", p>>[2] = p
        OBVIOUS
      <4>3. n + 1 = p
        BY <4>1, <4>2
      <4> QED
        BY <1>1, <3>3, <4>3 DEF Nodes
    <3> QED
      BY <3>2, <3>3
  <2> QED
    BY <1>1, <1>2, <1>5, <1>a, <2>1, <2>2 DEF Stands, AtBarrier
<1>6. CASE Loc(u) \notin {"begin", "node", "advance"} \cup AtBarrier
  <2>1. Dest(u)' = Dest(u)
    BY <1>2, <1>6 DEF Dest, DestOf
  <2> QED
    BY <1>1, <1>2, <1>6, <2>1 DEF Stands
<1> QED
  BY <1>3, <1>4, <1>5, <1>6

\* Between a node and its barrier the first thread may mark the graph as aborted.
LEMMA AfterNodeStep ==
  ASSUME IInv, NEW t \in Threads, AfterNode(t)
  PROVE  IInv'
<1>a. PICK n \in Nat : n = state[t].node
  BY DEF IInv, Types, StateType
<1>1. /\ pc[t] = "after" /\ Go(t, "separate") /\ state' = state
      /\ UNCHANGED <<n_graph, n_barrier, n_barrier_passed, current_chunk, computed>>
  BY DEF AfterNode
<1>2. /\ {"after", "separate"} \subseteq In \ (AtBarrier \cup ChunkPhase \cup {"begin"})
      /\ {"after", "separate"} \subseteq Labels /\ AtBarrier = {"enter", "spin", "reset", "open"}
      /\ pc[t] \in In \ {"spin"}
  BY <1>1 DEF In, InGraph, AtBarrier, ChunkPhase, Labels
<1>3. /\ Types /\ Local(t) /\ Aborts /\ t \in Part /\ Joined(t) /\ Loc(t) = "after" /\ Pos(t) = n
      /\ state[t].nth = K /\ state[t].passed <= n_barrier_passed
      /\ Stands("after", n, state[t].back) /\ K > 0 /\ K \in Nat
      /\ Loc(0) \in In /\ 0 \in Part
      /\ \A u \in Part : Loc(u) \in In /\ Dest(u) = DestOf("after", n, state[t].back)
  BY <1>1, <1>2, <1>a, Inside
<1>4. \A m, b : /\ DestOf("after", m, b) = EndDest(m) /\ DestOf("separate", m, b) = EndDest(m)
                /\ FrontOf("after", m, b) = m + 1 /\ FrontOf("separate", m, b) = m + 1
                /\ Stands("after", m, b) => Stands("separate", m, b)
                                            /\ m \in Nodes /\ Kind(m) \in {"plain", "mul"}
  BY DEF DestOf, FrontOf, Stands, ChunkPhase, AtBarrier
<1>5. CASE UNCHANGED <<abort, ec>>
  <2>1. LET m == state[t].node  b == state[t].back
        IN  /\ DestOf("separate", m, b) = DestOf(pc[t], m, b)
            /\ FrontOf("separate", m, b) = FrontOf(pc[t], m, b)
            /\ Stands("separate", m, b)
    BY <1>1, <1>3, <1>4, <1>a
  <2>2. pc[t] \in In \ (AtBarrier \cup ChunkPhase \cup {"begin"})
        /\ "separate" \in In \ (AtBarrier \cup ChunkPhase \cup {"begin"}) /\ "separate" # "mul set"
    BY <1>1, <1>2
  <2> QED
    BY <1>1, <1>5, <2>1, <2>2, LabelStride
<1>6. CASE t = 0 /\ abort' = n + 1 /\ ec' = "aborted"
  <2>1. n \in Nodes /\ Kind(n) \in {"plain", "mul"} /\ n < Len(Graph) /\ Len(Graph) \in Nat
    BY <1>3, <1>4, Kinds DEF Nodes
  <2>2. /\ pc' \in [Threads -> Labels] /\ state' \in [Threads -> StateType]
        /\ Move(0) /\ pc'[0] = "separate" /\ state'[0] = state[0]
    BY <1>1, <1>2, <1>3, <1>6, GoOnly
  <2>3. Types'
    BY <1>1, <1>3, <1>6, <2>1, <2>2 DEF Types
  <2>4. Part' = Part /\ K' = K /\ Part \subseteq Threads
    BY <1>1, <1>3, PartThreads DEF Part, K
  <2>5. /\ Joined(0)' /\ ~Released(0)' /\ Loc(0)' = "separate" /\ Pos(0)' = n
        /\ Front(0)' = n + 1 /\ Front(0) = n + 1 /\ Dest(0)' = EndDest(n) /\ Dest(0) = EndDest(n)
    <3>1. Joined(0)' /\ ~Released(0)' /\ ~Fresh(0)'
      BY <1>3, <2>2, <2>4 DEF Joined, Released, Fresh, Part
    <3>2. Loc(0)' = "separate"
      BY <2>2, <3>1 DEF Loc
    <3>3. Pos(0)' = n
      BY <1>6, <1>a, <2>2, <3>2 DEF Pos
    <3>4. Front(0)' = FrontOf("separate", n, state'[0].back)
          /\ Front(0) = FrontOf("after", n, state[0].back)
      BY <1>3, <1>6, <3>2, <3>3 DEF Front
    <3>5. Dest(0)' = EndDest(n)
      BY <3>2, <3>3 DEF Dest, DestOf, ChunkPhase
    <3> QED
      BY <1>3, <1>4, <1>6, <3>1, <3>2, <3>3, <3>4, <3>5
  <2>6. \A u \in Part : Loc(u) \in In /\ Dest(u) = EndDest(n)
    BY <1>3, <1>4
  <2>7. \A u \in Part : u # 0 => Dest(u)' = Dest(u) /\ Stands(Loc(u), Pos(u), state[u].back)'
    BY <1>6, <2>1, <2>2, <2>6, AbortView
  <2>8. \A u \in Threads \ {0} :
          /\ Loc(u)' = Loc(u) /\ Pos(u)' = Pos(u) /\ Front(u)' = Front(u)
          /\ Released(u)' = Released(u) /\ Joined(u)' = Joined(u)
          /\ pc'[u] = pc[u] /\ state'[u] = state[u]
    BY <2>2, ZeroIn, OthersStay
  <2>9. Locals'
    <3>1. ASSUME NEW u \in Threads \ {0} PROVE Local(u)'
      <4>1. Local(u)
        BY DEF IInv, Locals
      <4>2. Loc(u) \in In => u \in Part \/ Loc(u) = "begin"
        <5>1. Joined(u) => u \in Part
          BY <1>3, ViewTypes DEF Joined, Part
        <5>2. CASE pc[u] = "spin"
          BY <4>1, <5>1, <5>2 DEF Local, Loc, In, InGraph, AtBarrier
        <5>3. CASE pc[u] # "spin"
          BY <4>1, <5>1, <5>3 DEF Local, Loc, Released
        <5> QED
          BY <5>2, <5>3
      <4>3. Loc(u)' \in In => Stands(Loc(u), Pos(u), state[u].back)'
        <5> SUFFICES ASSUME Loc(u)' \in In PROVE Stands(Loc(u), Pos(u), state[u].back)'
          OBVIOUS
        <5>1. CASE u \in Part
          BY <2>7, <5>1
        <5>2. CASE Loc(u) = "begin"
          <6>1. Loc(u)' = "begin" /\ Pos(u)' = 0
            BY <2>8, <5>2 DEF Pos
          <6> QED
            BY <2>1, <6>1 DEF Stands, Clear, AtBarrier, ChunkPhase
        <5> QED
          BY <2>8, <4>2, <5>1, <5>2
      <4> QED
        BY <1>1, <2>4, <2>8, <4>1, <4>3 DEF Local
    <3>2. Local(0)'
      <4>1. Stands("separate", n, state[0].back)'
        <5>1. Stands("separate", n, state[0].back)
          BY <1>3, <1>4, <1>6
        <5> QED
          BY <1>2, <2>2, <5>1 DEF Stands
      <4>2. Stands(Loc(0), Pos(0), state[0].back)'
        BY <2>5, <4>1 DEF Stands
      <4>3. "separate" \notin WorkerOnly
        BY DEF WorkerOnly
      <4>4. Local(0) /\ ~state[0].pending
        BY <1>3, <1>6 DEF Local
      <4> QED
        BY <1>1, <1>2, <1>3, <1>6, <2>2, <2>4, <2>5, <4>2, <4>3, <4>4 DEF Local
    <3> QED
      BY <3>1, <3>2 DEF Locals
  <2>10. Aborts'
    <3>1. abort' \in 1 .. Len(Graph) /\ abort' - 1 = n
      BY <1>6, <2>1
    <3> QED
      BY <1>3, <1>6, <2>1, <2>2, <2>4, <3>1 DEF Aborts
  <2>11. Together'
    <3>1. \A u \in Part : Loc(u)' \in In /\ Dest(u)' = EndDest(n)
      <4>1. ASSUME NEW u \in Part PROVE Loc(u)' \in In /\ Dest(u)' = EndDest(n)
        <5>1. CASE u = 0
          BY <1>2, <2>5, <5>1
        <5>2. CASE u # 0
          BY <2>4, <2>6, <2>7, <2>8, <5>2
        <5> QED
          BY <5>1, <5>2
      <4> QED
        BY <4>1
    <3> QED
      BY <2>4, <3>1 DEF Together
  <2>12. Barriers'
    BY <1>1, <1>2, <1>6, <2>2, QuietBarriers DEF IInv
  <2>13. SameView
    <3>1. ASSUME NEW u \in Part
          PROVE  /\ Loc(u)' \in In <=> Loc(u) \in In
                 /\ Loc(u)' \in ChunkPhase => Loc(u) \in ChunkPhase
                 /\ \A m \in Nodes : (Through(u, m)' <=> Through(u, m))
                                     /\ (InMul(u, m)' <=> InMul(u, m))
                 /\ \A p \in Nat : Holds(u, p)' <=> Holds(u, p)
      <4>1. CASE u = 0
        <5>1. Loc(u) = "after" /\ Loc(u)' = "separate" /\ Front(u)' = Front(u)
          BY <1>3, <1>6, <2>5, <4>1
        <5> QED
          BY <1>2, <5>1 DEF Through, InMul, Holds
      <4>2. CASE u # 0
        BY <2>2, <2>4, <4>2, ZeroIn, OthersStay
      <4> QED
        BY <4>1, <4>2
    <3> QED
      BY <1>1, <3>1 DEF SameView
  <2>14. Results' /\ Chunks'
    <3>1. Loc(0)' = "separate" /\ pc'[0] = "separate" /\ "separate" \notin AtBarrier
          /\ "separate" \in In
      BY <1>2, <2>2, <2>5
    <3> QED
      BY <1>3, <2>13, <3>1, QuietResults DEF IInv
  <2> QED
    BY <2>3, <2>9, <2>10, <2>11, <2>12, <2>14 DEF IInv
<1> QED
  BY <1>5, <1>6, <1>a DEF AfterNode

-----------------------------------------------------------------------------
(***************************************************************************)
(* The invariant                                                           *)
(***************************************************************************)
LEMMA InitInv == Init => IInv
<1> SUFFICES ASSUME Init PROVE IInv
  OBVIOUS
<1>1. NThreads \in Nat \ {0} /\ 0 \in Threads
  BY Kinds, ZeroIn
<1>2. /\ n_graph = [number |-> 0, threads |-> 0] /\ K = 0
      /\ n_barrier = 0 /\ n_barrier_passed = 0 /\ current_chunk = 0 /\ abort = -1
      /\ pc = [t \in Threads |-> IF t = 0 THEN "idle" ELSE "top"]
      /\ computed = NothingComputed
  BY DEF Init, K
<1>3. \A t \in Threads :
        state[t] = [last_graph |-> n_graph, pending |-> FALSE, node |-> 0, nth |-> 0,
                    chunk |-> 0, passed |-> 0, back |-> "done"]
  BY DEF Init
<1>4. Part = {}
  BY <1>2 DEF Part
<1>5. "idle" \in CallerOnly /\ "top" \in WorkerOnly /\ "idle" \notin WorkerOnly
      /\ "top" \notin CallerOnly /\ {"idle", "top"} \cap In = {} /\ {"idle", "top"} \subseteq Labels
  BY DEF CallerOnly, WorkerOnly, In, InGraph, AtBarrier, Labels
<1>6. Types
  <2>1. state \in [Threads -> StateType]
    <3>1. [last_graph |-> n_graph, pending |-> FALSE, node |-> 0, nth |-> 0,
           chunk |-> 0, passed |-> 0, back |-> "done"] \in StateType
      BY <1>2 DEF StateType
    <3> QED
      BY <3>1 DEF Init
  <2>2. pc \in [Threads -> Labels]
    BY <1>2, <1>5
  <2> QED
    BY <1>1, <1>2, <2>1, <2>2, NothingDone DEF Types
<1>7. \A t \in Threads : ~Released(t) /\ ~Fresh(t) /\ Loc(t) = pc[t] /\ pc[t] \in {"idle", "top"}
  <2> SUFFICES ASSUME NEW t \in Threads
               PROVE  ~Released(t) /\ ~Fresh(t) /\ Loc(t) = pc[t] /\ pc[t] \in {"idle", "top"}
    OBVIOUS
  <2>1. pc[t] \in {"idle", "top"}
    BY <1>2
  <2>2. ~Released(t) /\ ~Fresh(t)
    BY <1>3, <2>1 DEF Released, Fresh
  <2> QED
    BY <2>1, <2>2 DEF Loc
<1>8. Locals
  <2>1. ASSUME NEW t \in Threads PROVE Local(t)
    <3>1. pc[t] \notin In /\ Loc(t) \notin In /\ (t = 0 => pc[t] = "idle") /\ (t # 0 => pc[t] = "top")
      BY <1>2, <1>5, <1>7
    <3>2. {"spin", "enter", "reset", "open"} \subseteq In
      BY DEF In, AtBarrier
    <3>3. /\ state[t].last_graph = n_graph /\ ~state[t].pending /\ n_graph.number = 0
          /\ state[t].passed = 0
      BY <1>2, <1>3
    <3> QED
      BY <1>2, <1>5, <3>1, <3>2, <3>3 DEF Local
  <2> QED
    BY <2>1 DEF Locals
<1>9. Aborts
  BY <1>1, <1>2, <1>5 DEF Aborts
<1>10. Together /\ Chunks
  <2>1. Loc(0) = "idle" /\ "idle" \notin AtBarrier
    BY <1>1, <1>2, <1>7 DEF AtBarrier
  <2> QED
    BY <1>4, <2>1 DEF Together, Chunks
<1>11. Barriers
  <2>1. \A t \in Threads : pc[t] \notin {"reset", "open", "spin"}
    BY <1>7
  <2>2. Waiting = {}
    BY <2>1 DEF Waiting
  <2> QED
    BY <1>2, <2>1, <2>2, FS_EmptySet DEF Barriers
<1>12. Results
  <2>1. \A n \in Nodes : Untouched(n)
    BY <1>2, NothingDone DEF Untouched
  <2>2. Loc(0) = "idle" /\ Loc(0) \notin In /\ pc[0] = "idle"
    BY <1>1, <1>2, <1>5, <1>7
  <2> QED
    BY <2>1, <2>2 DEF Results, NodesInOrder
<1> QED
  BY <1>6, <1>8, <1>9, <1>10, <1>11, <1>12 DEF IInv

\* Every step of a thread inside a graph keeps the invariant.
LEMMA ComputeSteps ==
  ASSUME IInv, NEW t \in Threads, ComputeStep(t)
  PROVE  IInv'
<1>1. CASE Node(t)
  BY <1>1, NodeOnStep, NodeEndStep
<1>2. CASE Separate(t)
  BY <1>2, SeparateStep, SeparateLastStep
<1> QED
  BY <1>1, <1>2, BarrierEnterStep, BarrierResetStep, BarrierOpenStep, BarrierPassedStep,
     BeginStep, WorkStep, MulSetStep, MulBarrierStep, MulFirstStep, ChunkStep, NextChunkStep,
     AfterNodeStep, AdvanceStep DEF ComputeStep

\* Every step keeps the invariant.
LEMMA NextInv == IInv /\ [Next]_vars => IInv'
<1> SUFFICES ASSUME IInv, [Next]_vars PROVE IInv'
  OBVIOUS
<1>1. CASE \E t \in Threads : ComputeStep(t)
  BY <1>1, ComputeSteps
<1>2. CASE \E t \in Workers : WorkerStep(t)
  BY <1>2, BetweenSteps, CheckStep
<1>3. CASE \E t \in Workers : Spurious(t)
  BY <1>3, NoMove DEF Spurious
<1>4. CASE CallerStep \/ Free
  BY <1>4, KickoffStep, CallerSteps DEF CallerStep
<1>5. CASE Compute
  BY <1>5, SetUpStep
<1>6. CASE \E p \in BOOLEAN : Pause(p)
  BY <1>6, NoMove DEF Pause
<1>7. CASE UNCHANGED vars
  BY <1>7, NoMove DEF vars, shared
<1> QED
  BY <1>1, <1>2, <1>3, <1>4, <1>5, <1>6, <1>7 DEF Next

\* The inductive invariant, from which the theorems follow.
THEOREM Invariant == Spec => []IInv
BY InitInv, NextInv, PTL DEF Spec

-----------------------------------------------------------------------------
(***************************************************************************)
(* The flags, the mutex and the number of the graph                        *)
(***************************************************************************)
Quiet == UNCHANGED <<n_graph, stop, pause, mutex, asleep>> /\ ec' \in {ec, "aborted"}

\* Inside a graph the flags stay, but an abort may be recorded.
LEMMA QuietStep ==
  ASSUME Types, NEW t \in Threads, ComputeStep(t)
  PROVE  Quiet /\ \E l : l # "kickoff" /\ (Go(t, l) \/ pc' = pc)
<1>1. state[t].back # "kickoff"
  BY ViewTypes DEF Backs
<1>2. CASE BarrierEnter(t) \/ BarrierReset(t) \/ BarrierOpen(t) \/ BarrierPassed(t)
  BY <1>1, <1>2 DEF BarrierEnter, BarrierReset, BarrierOpen, BarrierPassed, Quiet, shared
<1>3. CASE Begin(t) \/ Work(t) \/ MulSet(t) \/ MulFirst(t) \/ Advance(t)
  BY <1>3 DEF Begin, Work, MulSet, MulFirst, Advance, Quiet, shared
<1>4. CASE Node(t) \/ MulBarrier(t) \/ Separate(t)
  BY <1>4 DEF Node, MulBarrier, Separate, Barrier, Quiet, shared
<1>5. CASE Chunk(t) \/ NextChunk(t) \/ AfterNode(t)
  BY <1>5 DEF Chunk, NextChunk, AfterNode, Quiet, shared
<1> QED
  BY <1>2, <1>3, <1>4, <1>5 DEF ComputeStep

\* Every step keeps the flags of the pool in agreement with the caller.
LEMMA FlagsStep == Types /\ Flags /\ [Next]_vars => Flags'
<1> SUFFICES ASSUME Types, Flags, [Next]_vars PROVE Flags'
  OBVIOUS
<1>1. 0 \in Threads /\ pc \in [Threads -> Labels] /\ n_graph.number \in Nat /\ MaxGraphs \in Nat
  BY ZeroIn, ThreadpoolAssumption DEF Types
<1>2. CASE \E t \in Threads : ComputeStep(t)
  <2> SUFFICES ASSUME NEW t \in Threads, ComputeStep(t) PROVE Flags'
    BY <1>2
  <2>1. Quiet /\ (pc'[0] = "kickoff" => pc[0] = "kickoff")
    BY <1>1, QuietStep DEF Go
  <2> QED
    BY <2>1 DEF Flags, Quiet
<1>3. CASE \E t \in Workers : WorkerStep(t) \/ Spurious(t)
  <2> SUFFICES ASSUME NEW t \in Workers, WorkerStep(t) \/ Spurious(t) PROVE Flags'
    BY <1>3
  <2>1. t # 0 /\ t \in Threads
    BY DEF Workers
  <2>2. /\ UNCHANGED <<n_graph, stop, pause, mutex, ec>> /\ asleep' \subseteq asleep \cup {t}
        /\ \E l : Go(t, l) \/ pc' = pc
    <3>1. CASE Top(t) \/ StopCheck(t) \/ PauseWake(t) \/ Poll(t) \/ Polled(t) \/ Check(t)
               \/ WorkerReturn(t)
      BY <3>1 DEF Top, StopCheck, PauseWake, Poll, Polled, Check, WorkerReturn, shared
    <3>2. CASE PauseLock(t) \/ PollWord(t) \/ LockReady(t) \/ Spurious(t)
      BY <3>2 DEF PauseLock, PollWord, LockReady, Spurious, shared
    <3> QED
      BY <3>1, <3>2 DEF WorkerStep
  <2>3. pc'[0] = pc[0]
    BY <1>1, <2>1, <2>2 DEF Go
  <2> QED
    BY <2>2, <2>3 DEF Flags
<1>4. CASE \E k \in 1 .. NThreads : Kickoff(k)
  <2>1. /\ n_graph'.number = n_graph.number + 1 /\ n_graph.number < MaxGraphs
        /\ mutex' = 0 /\ pc'[0] = "kick"
        /\ UNCHANGED <<stop, pause, asleep, ec>>
    BY <1>1, <1>4 DEF Kickoff, Word, Go, Flags
  <2>2. n_graph'.number <= MaxGraphs
    BY <1>1, <2>1
  <2> QED
    BY <2>1, <2>2 DEF Flags
<1>5. CASE KickoffWake \/ Return \/ Join \/ Free
  BY <1>1, <1>5 DEF KickoffWake, Return, Join, Free, Go, Flags, shared
<1>6. CASE Compute
  BY <1>1, <1>6 DEF Compute, Go, Flags
<1>7. CASE \E p \in BOOLEAN : Pause(p)
  BY <1>7 DEF Pause, Flags
<1>8. CASE UNCHANGED vars
  BY <1>8 DEF vars, shared, Flags
<1> QED
  BY <1>2, <1>3, <1>4, <1>5, <1>6, <1>7, <1>8 DEF Next, CallerStep

\* The flags of the pool agree with the caller in every state.
LEMMA FlagsInv == Spec => []Flags
<1>1. Init => Flags
  <2> SUFFICES ASSUME Init PROVE Flags
    OBVIOUS
  <2>1. pc[0] = "idle"
    BY ZeroIn DEF Init
  <2>2. n_graph.number <= MaxGraphs
    <3>1. n_graph.number = 0 /\ MaxGraphs \in Nat
      BY ThreadpoolAssumption DEF Init
    <3> QED
      BY <3>1
  <2>3. /\ {stop, pause} \subseteq BOOLEAN /\ mutex = -1 /\ asleep = {} /\ ec = "success"
    BY DEF Init
  <2> QED
    BY <2>1, <2>2, <2>3 DEF Flags
<1>2. IInv => Types
  BY DEF IInv
<1> QED
  BY <1>1, <1>2, FlagsStep, Invariant, PTL DEF Spec

-----------------------------------------------------------------------------
(***************************************************************************)
(* Theorems                                                                *)
(***************************************************************************)
\* The barrier counts no more threads than there are, the abort mark names a
\* node or its successor, and no graph is kicked off beyond the bound.
THEOREM TypeCorrect == Spec => []TypeOK
<1>1. IInv /\ Flags => TypeOK
  <2> SUFFICES ASSUME IInv, Flags PROVE TypeOK
    OBVIOUS
  <2>1. Types /\ Barriers /\ Aborts /\ NThreads \in Nat \ {0} /\ Len(Graph) \in Nat
        /\ MaxGraphs \in Nat
    BY Kinds, ThreadpoolAssumption DEF IInv
  <2>2. n_graph \in [number : 0 .. MaxGraphs, threads : 0 .. NThreads]
    BY <2>1 DEF Types, Flags
  <2>3. n_barrier \in 0 .. NThreads
    <3>1. K \in 0 .. NThreads
      BY <2>1 DEF Types, K
    <3>2. CASE \E r \in Threads : pc[r] \in {"reset", "open"}
      BY <2>1, <3>1, <3>2 DEF Barriers
    <3>3. CASE \A r \in Threads : pc[r] \notin {"reset", "open"}
      <4>1. n_barrier = Cardinality(Waiting)
        BY <2>1, <3>3 DEF Barriers
      <4>2. IsFiniteSet(Threads) /\ Cardinality(Threads) = NThreads
        BY <2>1, FS_Interval DEF Threads
      <4>3. Waiting \subseteq Threads
        BY DEF Waiting
      <4>4. Cardinality(Waiting) \in Nat /\ Cardinality(Waiting) <= NThreads
        BY <4>2, <4>3, FS_Subset, FS_CardinalityType
      <4> QED
        BY <2>1, <4>1, <4>4
    <3> QED
      BY <3>2, <3>3
  <2>4. abort \in -1 .. Len(Graph)
    BY <2>1 DEF Types, Aborts
  <2> QED
    BY <2>1, <2>2, <2>3, <2>4 DEF TypeOK, Types, Flags
<1> QED
  BY <1>1, Invariant, FlagsInv, PTL

\* No part of a node is computed before all that comes before it is whole: the
\* barrier between the nodes, and the one before the chunks of a product.
THEOREM InOrderAlways == Spec => []NodesInOrder
<1>1. IInv => NodesInOrder
  <2> SUFFICES ASSUME IInv PROVE NodesInOrder
    OBVIOUS
  <2>1. CASE Loc(0) \in In
    <3>1. 0 \in Part
      BY <2>1, Caller, ZeroIn DEF IInv, Locals
    <3> QED
      BY <2>1, <3>1, InOrder DEF IInv, Results
  <2>2. CASE Loc(0) \notin In
    BY <2>2 DEF IInv, Results
  <2> QED
    BY <2>1, <2>2
<1> QED
  BY <1>1, Invariant, PTL

\* When the caller returns, every part of every node has been computed exactly
\* once, or the graph was aborted and the nodes from some node on are untouched.
THEOREM WholeAlways == Spec => []GraphWhole
<1>1. IInv => GraphWhole
  <2> SUFFICES ASSUME IInv, pc[0] = "done" PROVE Finished
    BY DEF GraphWhole, Finished
  <2>1. Loc(0) = "done"
    BY DEF Loc, Fresh, Released
  <2> QED
    BY <2>1 DEF IInv, Results
<1> QED
  BY <1>1, Invariant, PTL

\* When the caller sets up the next graph, no worker is inside the last one: it
\* has left the last barrier, or has only to see that the barrier is open.
THEOREM OutAlways == Spec => []WorkersOut
<1>1. IInv => WorkersOut
  <2> SUFFICES ASSUME IInv, pc[0] \in {"idle", "kickoff", "join", "freed"}, NEW t \in Workers
               PROVE  pc[t] \notin InGraph \cup {"enter", "reset", "open"} /\ ~state[t].pending
    BY DEF WorkersOut
  <2>1. ~state[t].pending /\ (pc[t] \in In => pc[t] = "spin")
    BY AllOut DEF CallerOnly, Workers
  <2>2. InGraph \cup {"enter", "reset", "open"} \subseteq In /\ "spin" \notin InGraph
    BY DEF In, InGraph, AtBarrier
  <2> QED
    BY <2>1, <2>2
<1> QED
  BY <1>1, Invariant, PTL

=============================================================================
