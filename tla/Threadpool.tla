----------------------------- MODULE Threadpool -----------------------------
(***************************************************************************)
(* The thread pool of the CPU backend (src/ggml/src/ggml-cpu/ggml-cpu.c,   *)
(* the build without OpenMP): the threads that compute the nodes of a      *)
(* graph, the barrier between the nodes, the chunks of a matrix product,   *)
(* kicking off, pausing, aborting and freeing.                             *)
(*                                                                         *)
(* A step is one access to shared memory; what is done under the mutex is  *)
(* one step unless a thread that only polls can see the middle of it.      *)
(* Memory is sequentially consistent.  Thread 0 is the one that calls      *)
(* ggml_graph_compute, the others are the workers.                         *)
(***************************************************************************)
EXTENDS Integers, Sequences, FiniteSets

CONSTANTS NThreads,    \* the threads of the pool
          Graph,       \* the kinds of the nodes: "plain", "mul", "fused", "skip"
          NChunks,     \* nchunk0 * nchunk1 of a matrix product
          MayAbort,    \* there is an abort callback
          MaxGraphs    \* bound: the graphs that are computed

ASSUME ThreadpoolAssumption ==
  /\ NThreads \in Nat \ {0} /\ NChunks \in Nat \ {0} /\ MaxGraphs \in Nat
  /\ MayAbort \in BOOLEAN
  /\ Graph \in Seq({"plain", "mul", "fused", "skip"})
  /\ \A i \in 1 .. Len(Graph) : Graph[i] = "fused" =>
       i < Len(Graph) /\ Graph[i + 1] = "plain"   \* RMS_NORM, then MUL

Threads == 0 .. NThreads - 1
Workers == Threads \ {0}
Nodes   == 0 .. Len(Graph) - 1
Kind(n) == Graph[n + 1]

VARIABLES
  n_graph,           \* number of the graph and its threads, in one word
  n_barrier,
  n_barrier_passed,
  current_chunk,
  stop, pause, abort, ec,
  mutex,             \* held by the kick-off
  asleep,            \* the threads in ggml_cond_wait
  pc,
  state,             \* per thread: last_graph, pending, node, nth, chunk, passed, back
  computed           \* how often each part of each node has been computed

shared == <<n_graph, n_barrier, n_barrier_passed, current_chunk, stop, pause, abort, ec, mutex,
            asleep>>
vars == <<shared, pc, state, computed>>

Go(t, l) == pc' = [pc EXCEPT ![t] = l]

(***************************************************************************)
(* ggml_barrier: enter, and go on at a label                               *)
(***************************************************************************)
Barrier(t, back) ==
  IF n_graph.threads = 1 THEN Go(t, back) /\ UNCHANGED state
  ELSE /\ Go(t, "enter")
       /\ state' = [state EXCEPT ![t].passed = n_barrier_passed, ![t].back = back]

BarrierEnter(t) ==
  /\ pc[t] = "enter"
  /\ n_barrier' = n_barrier + 1
  /\ Go(t, IF n_barrier = n_graph.threads - 1 THEN "reset" ELSE "spin")
  /\ UNCHANGED <<n_graph, n_barrier_passed, current_chunk, stop, pause, abort, ec, mutex, asleep,
                 state, computed>>

\* Mutant of BarrierReset: the count is not set back.
BarrierNoReset(t) ==
  /\ pc[t] = "reset"
  /\ Go(t, "open")
  /\ UNCHANGED <<shared, state, computed>>

BarrierReset(t) ==
  /\ pc[t] = "reset"
  /\ n_barrier' = 0
  /\ Go(t, "open")
  /\ UNCHANGED <<n_graph, n_barrier_passed, current_chunk, stop, pause, abort, ec, mutex, asleep,
                 state, computed>>

BarrierOpen(t) ==
  /\ pc[t] = "open"
  /\ n_barrier_passed' = n_barrier_passed + 1
  /\ Go(t, state[t].back)
  /\ UNCHANGED <<n_graph, n_barrier, current_chunk, stop, pause, abort, ec, mutex, asleep,
                 state, computed>>

BarrierPassed(t) ==
  /\ pc[t] = "spin"
  /\ n_barrier_passed # state[t].passed
  /\ Go(t, state[t].back)
  /\ UNCHANGED <<shared, state, computed>>

(***************************************************************************)
(* ggml_graph_compute_thread                                               *)
(***************************************************************************)
Begin(t) ==
  /\ pc[t] = "begin"
  /\ state' = [state EXCEPT ![t].nth = n_graph.threads, ![t].node = 0]
  /\ Go(t, "node")
  /\ UNCHANGED <<shared, computed>>

\* Mutant of Node: no barrier at the end.
NodeNoBarrier(t) ==
  LET n == state[t].node
  IN  /\ pc[t] = "node"
      /\ IF n \in Nodes /\ abort # n
         THEN IF Kind(n) = "skip"
              THEN state' = [state EXCEPT ![t].node = n + 1] /\ UNCHANGED pc
              ELSE Go(t, IF Kind(n) = "mul" THEN "mul" ELSE "work") /\ UNCHANGED state
         ELSE Go(t, "done") /\ UNCHANGED state
      /\ UNCHANGED <<shared, computed>>

\* The head of the loop over the nodes; the end of the loop.
Node(t) ==
  LET n == state[t].node
  IN  /\ pc[t] = "node"
      /\ IF n \in Nodes /\ abort # n
         THEN IF Kind(n) = "skip"
              THEN state' = [state EXCEPT ![t].node = n + 1] /\ UNCHANGED pc
              ELSE Go(t, IF Kind(n) = "mul" THEN "mul" ELSE "work") /\ UNCHANGED state
         ELSE Barrier(t, "done")
      /\ UNCHANGED <<shared, computed>>

ComputePart(n, p) == computed' = [computed EXCEPT ![n][p] = @ + 1]

\* A node that is divided by thread number; one that is fused with the next.
Work(t) ==
  LET n == state[t].node
  IN  /\ pc[t] = "work"
      /\ ComputePart(n, t)
      /\ state' = [state EXCEPT ![t].node = IF Kind(n) = "fused" THEN n + 1 ELSE n]
      /\ Go(t, "after")
      /\ UNCHANGED shared

\* Matrix product: thread 0 sets the first chunk nobody begins with.
MulSet(t) ==
  /\ pc[t] = "mul"
  /\ current_chunk' = IF t = 0 THEN state[t].nth ELSE current_chunk
  /\ Go(t, "mul set")
  /\ UNCHANGED <<n_graph, n_barrier, n_barrier_passed, stop, pause, abort, ec, mutex, asleep,
                 state, computed>>

MulBarrier(t) ==
  /\ pc[t] = "mul set"
  /\ Barrier(t, "mul first")
  /\ UNCHANGED <<shared, computed>>

MulFirst(t) ==
  /\ pc[t] = "mul first"
  /\ state' = [state EXCEPT ![t].chunk = t]
  /\ Go(t, "chunk")
  /\ UNCHANGED <<shared, computed>>

Chunk(t) ==
  /\ pc[t] = "chunk"
  /\ IF state[t].chunk < NChunks
     THEN /\ ComputePart(state[t].node, state[t].chunk)
          /\ Go(t, IF state[t].nth >= NChunks THEN "after" ELSE "next chunk")
     ELSE Go(t, "after") /\ UNCHANGED computed
  /\ UNCHANGED <<shared, state>>

\* Mutant of NextChunk: an increment may be lost.
NextChunkNotAtomic(t) ==
  /\ pc[t] = "next chunk"
  /\ state' = [state EXCEPT ![t].chunk = current_chunk]
  /\ current_chunk' \in {current_chunk, current_chunk + 1}
  /\ Go(t, "chunk")
  /\ UNCHANGED <<n_graph, n_barrier, n_barrier_passed, stop, pause, abort, ec, mutex, asleep,
                 computed>>

NextChunk(t) ==
  /\ pc[t] = "next chunk"
  /\ state' = [state EXCEPT ![t].chunk = current_chunk]
  /\ current_chunk' = current_chunk + 1
  /\ Go(t, "chunk")
  /\ UNCHANGED <<n_graph, n_barrier, n_barrier_passed, stop, pause, abort, ec, mutex, asleep,
                 computed>>

\* The abort callback, which only thread 0 asks.
AfterNode(t) ==
  /\ pc[t] = "after"
  /\ \/ UNCHANGED <<abort, ec>>
     \/ t = 0 /\ MayAbort /\ abort' = state[t].node + 1 /\ ec' = "aborted"
  /\ Go(t, "separate")
  /\ UNCHANGED <<n_graph, n_barrier, n_barrier_passed, current_chunk, stop, pause, mutex, asleep,
                 state, computed>>

\* Mutant of Separate: no barrier between the nodes.
SeparateNot(t) ==
  /\ pc[t] = "separate"
  /\ Go(t, "advance")
  /\ UNCHANGED <<shared, state, computed>>

Separate(t) ==
  /\ pc[t] = "separate"
  /\ IF state[t].node + 1 \in Nodes THEN Barrier(t, "advance")
                                    ELSE Go(t, "advance") /\ UNCHANGED state
  /\ UNCHANGED <<shared, computed>>

Advance(t) ==
  /\ pc[t] = "advance"
  /\ state' = [state EXCEPT ![t].node = @ + 1]
  /\ Go(t, "node")
  /\ UNCHANGED <<shared, computed>>

(***************************************************************************)
(* ggml_graph_compute, pausing and freeing: thread 0                       *)
(***************************************************************************)
NothingComputed == [n \in Nodes |-> [p \in 0 .. NThreads + NChunks |-> 0]]

Word(k) == [number |-> n_graph.number + 1, threads |-> k]

\* The parameters of the graph are set, without the mutex.
Compute ==
  /\ pc[0] = "idle" /\ n_graph.number < MaxGraphs
  /\ current_chunk' = 0 /\ abort' = -1 /\ ec' = "success"
  /\ computed' = NothingComputed
  /\ Go(0, "kickoff")
  /\ UNCHANGED <<n_graph, n_barrier, n_barrier_passed, stop, pause, mutex, asleep, state>>

\* ggml_graph_compute_kickoff, with any number of threads.
Kickoff(k) ==
  /\ pc[0] = "kickoff" /\ mutex = -1
  /\ mutex' = 0
  /\ n_graph' = Word(k)
  /\ Go(0, "kick")
  /\ UNCHANGED <<n_barrier, n_barrier_passed, current_chunk, stop, pause, abort, ec, asleep,
                 state, computed>>

\* Mutant of KickoffWake: only a pool that is paused is woken up.
KickoffWakePaused ==
  /\ pc[0] = "kick"
  /\ mutex' = -1 /\ pause' = FALSE
  /\ asleep' = IF pause THEN {} ELSE asleep
  /\ Go(0, "begin")
  /\ UNCHANGED <<n_graph, n_barrier, n_barrier_passed, current_chunk, stop, abort, ec, state,
                 computed>>

KickoffWake ==
  /\ pc[0] = "kick"
  /\ mutex' = -1 /\ pause' = FALSE /\ asleep' = {}
  /\ Go(0, "begin")
  /\ UNCHANGED <<n_graph, n_barrier, n_barrier_passed, current_chunk, stop, abort, ec, state,
                 computed>>

Return ==
  /\ pc[0] = "done"
  /\ Go(0, "idle")
  /\ UNCHANGED <<shared, state, computed>>

\* ggml_threadpool_pause and ggml_threadpool_resume
Pause(p) ==
  /\ pc[0] = "idle" /\ mutex = -1 /\ n_graph.number < MaxGraphs
  /\ pause # p
  /\ pause' = p /\ asleep' = {}
  /\ UNCHANGED <<n_graph, n_barrier, n_barrier_passed, current_chunk, stop, abort, ec, mutex,
                 pc, state, computed>>

\* Mutant of Free: a pool that is paused stays so.
FreePaused ==
  /\ pc[0] = "idle" /\ mutex = -1
  /\ stop' = TRUE /\ asleep' = {}
  /\ Go(0, "join")
  /\ UNCHANGED <<n_graph, n_barrier, n_barrier_passed, current_chunk, pause, abort, ec, mutex,
                 state, computed>>

\* ggml_threadpool_free
Free ==
  /\ pc[0] = "idle" /\ mutex = -1
  /\ stop' = TRUE /\ pause' = FALSE /\ asleep' = {}
  /\ Go(0, "join")
  /\ UNCHANGED <<n_graph, n_barrier, n_barrier_passed, current_chunk, abort, ec, mutex, state,
                 computed>>

Join ==
  /\ pc[0] = "join"
  /\ \A t \in Workers : pc[t] = "ended"
  /\ Go(0, "freed")
  /\ UNCHANGED <<shared, state, computed>>

(***************************************************************************)
(* ggml_graph_compute_secondary_thread                                     *)
(***************************************************************************)
Top(t) ==
  /\ pc[t] = "top"
  /\ Go(t, IF pause THEN "paused" ELSE "stop?")
  /\ UNCHANGED <<shared, state, computed>>

StopCheck(t) ==
  /\ pc[t] = "stop?"
  /\ Go(t, IF stop THEN "ended" ELSE "poll")
  /\ UNCHANGED <<shared, state, computed>>

\* The pause loop: the mutex is taken, and given up while waiting.
PauseLock(t) ==
  /\ pc[t] = "paused" /\ mutex = -1
  /\ IF pause THEN asleep' = asleep \cup {t} /\ Go(t, "pause wait")
              ELSE Go(t, "top") /\ UNCHANGED asleep
  /\ UNCHANGED <<n_graph, n_barrier, n_barrier_passed, current_chunk, stop, pause, abort, ec,
                 mutex, state, computed>>

PauseWake(t) ==
  /\ pc[t] = "pause wait" /\ t \notin asleep /\ mutex = -1
  /\ Go(t, "top")
  /\ UNCHANGED <<shared, state, computed>>

\* ggml_graph_compute_thread_ready: the flags, then the word n_graph.
NewWork(t) == n_graph # state[t].last_graph

TakeNote(t) ==
  state' = [state EXCEPT ![t].pending = t < n_graph.threads, ![t].last_graph = n_graph]

\* Polling: after any number of rounds the thread goes on to sleep.
Poll(t) ==
  /\ pc[t] = "poll"
  /\ Go(t, IF state[t].pending \/ stop \/ pause THEN "polled" ELSE "word")
  /\ UNCHANGED <<shared, state, computed>>

PollWord(t) ==
  /\ pc[t] = "word"
  /\ IF NewWork(t) THEN TakeNote(t) /\ Go(t, "polled")
     ELSE (Go(t, "poll") \/ Go(t, "polled")) /\ UNCHANGED state
  /\ UNCHANGED <<shared, computed>>

Polled(t) ==
  /\ pc[t] = "polled"
  /\ Go(t, IF state[t].pending THEN "check" ELSE "lock")
  /\ UNCHANGED <<shared, state, computed>>

\* Under the mutex: ready, or to sleep; again after every wake-up.
LockReady(t) ==
  /\ \/ pc[t] = "lock"
     \/ pc[t] = "work wait" /\ t \notin asleep
  /\ mutex = -1
  /\ \/ /\ state[t].pending \/ stop \/ pause
        /\ Go(t, "check") /\ UNCHANGED <<state, asleep>>
     \/ /\ ~(state[t].pending \/ stop \/ pause) /\ NewWork(t)
        /\ TakeNote(t) /\ Go(t, "check") /\ UNCHANGED asleep
     \/ /\ ~(state[t].pending \/ stop \/ pause) /\ ~NewWork(t)
        /\ asleep' = asleep \cup {t} /\ Go(t, "work wait") /\ UNCHANGED state
  /\ UNCHANGED <<n_graph, n_barrier, n_barrier_passed, current_chunk, stop, pause, abort, ec,
                 mutex, computed>>

Check(t) ==
  /\ pc[t] = "check"
  /\ state' = [state EXCEPT ![t].pending = FALSE]
  /\ Go(t, IF state[t].pending THEN "begin" ELSE "top")
  /\ UNCHANGED <<shared, computed>>

WorkerReturn(t) ==
  /\ t # 0 /\ pc[t] = "done"
  /\ Go(t, "top")
  /\ UNCHANGED <<shared, state, computed>>

\* ggml_cond_wait may return without a signal.
Spurious(t) ==
  /\ asleep' = asleep \ {t} /\ t \in asleep
  /\ UNCHANGED <<n_graph, n_barrier, n_barrier_passed, current_chunk, stop, pause, abort, ec,
                 mutex, pc, state, computed>>

-----------------------------------------------------------------------------
\* ggml_threadpool_new_impl
Init ==
  /\ n_graph = [number |-> 0, threads |-> 0]
  /\ n_barrier = 0 /\ n_barrier_passed = 0 /\ current_chunk = 0
  /\ stop = FALSE /\ pause \in BOOLEAN /\ abort = -1 /\ ec = "success"
  /\ mutex = -1 /\ asleep = {}
  /\ pc = [t \in Threads |-> IF t = 0 THEN "idle" ELSE "top"]
  /\ state = [t \in Threads |-> [last_graph |-> n_graph, pending |-> FALSE, node |-> 0, nth |-> 0,
                                 chunk |-> 0, passed |-> 0, back |-> "done"]]
  /\ computed = NothingComputed

ComputeStep(t) ==
  \/ BarrierEnter(t) \/ BarrierReset(t) \/ BarrierOpen(t) \/ BarrierPassed(t)
  \/ Begin(t) \/ Node(t) \/ Work(t)
  \/ MulSet(t) \/ MulBarrier(t) \/ MulFirst(t) \/ Chunk(t) \/ NextChunk(t)
  \/ AfterNode(t) \/ Separate(t) \/ Advance(t)

WorkerStep(t) ==
  \/ Top(t) \/ StopCheck(t) \/ PauseLock(t) \/ PauseWake(t)
  \/ Poll(t) \/ PollWord(t) \/ Polled(t) \/ LockReady(t) \/ Check(t) \/ WorkerReturn(t)

CallerStep == (\E k \in 1 .. NThreads : Kickoff(k)) \/ KickoffWake \/ Return \/ Join

Next ==
  \/ \E t \in Threads : ComputeStep(t)
  \/ \E t \in Workers : WorkerStep(t) \/ Spurious(t)
  \/ CallerStep
  \/ Compute \/ (\E p \in BOOLEAN : Pause(p)) \/ Free

Spec == Init /\ [][Next]_vars

\* Every thread is scheduled again and again; whether there is another graph
\* is up to the caller.
FairSpec ==
  /\ Spec
  /\ \A t \in Threads : WF_vars(ComputeStep(t))
  /\ \A t \in Workers : WF_vars(WorkerStep(t))
  /\ WF_vars(CallerStep)

-----------------------------------------------------------------------------
(***************************************************************************)
(* Properties                                                              *)
(***************************************************************************)
TypeOK ==
  /\ n_graph \in [number : 0 .. MaxGraphs, threads : 0 .. NThreads]
  /\ n_barrier \in 0 .. NThreads /\ n_barrier_passed \in Nat /\ current_chunk \in Nat
  /\ {stop, pause} \subseteq BOOLEAN /\ abort \in -1 .. Len(Graph)
  /\ ec \in {"success", "aborted"} /\ mutex \in {-1, 0} /\ asleep \subseteq Workers

Computed(n) == Kind(n) # "skip" /\ ~(n > 0 /\ Kind(n - 1) = "fused")

Parts(n) == IF Kind(n) = "mul" THEN 0 .. NChunks - 1 ELSE 0 .. n_graph.threads - 1

Whole(n) == computed[n] = [p \in DOMAIN computed[n] |-> IF p \in Parts(n) THEN 1 ELSE 0]

Untouched(n) == \A p \in DOMAIN computed[n] : computed[n][p] = 0

\* A node reads what the nodes before it wrote: as long as one of them lacks a
\* part, no part of a later one is computed.
NodesInOrder ==
  \A n \in Nodes : Computed(n) /\ ~Untouched(n) =>
    \A m \in 0 .. n - 1 : Computed(m) => Whole(m)

\* When ggml_graph_compute returns, every part of every node has been computed
\* exactly once; if it was aborted, of the nodes up to one of them.
GraphWhole ==
  pc[0] = "done" =>
    \A n \in Nodes :
      IF Computed(n) THEN Whole(n) \/ (ec = "aborted" /\ Untouched(n)) ELSE Untouched(n)

\* The places where a thread uses the graph, the plan, the chunk counter or the
\* abort mark.
InGraph == {"begin", "node", "work", "mul", "mul set", "mul first", "chunk", "next chunk",
            "after", "separate", "advance"}

\* "No worker threads should be accessing the parameters below at this stage":
\* between two graphs no worker is inside the last one, or on its way into or
\* through its last barrier; it has at most to see that the barrier is open.
WorkersOut ==
  pc[0] \in {"idle", "kickoff", "join", "freed"} =>
    \A t \in Workers : pc[t] \notin InGraph \cup {"enter", "reset", "open"} /\ ~state[t].pending

\* A graph that is kicked off comes to its end.
GraphReturns == pc[0] = "kickoff" ~> pc[0] = "done"

\* Freeing the pool ends, whatever the workers were doing.
PoolFreed == pc[0] = "join" ~> pc[0] = "freed"
=============================================================================
