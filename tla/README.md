# A TLA+ development for lmcode

lmcode is a coding agent for the terminal on top of llama.cpp. A language model
runs in the same process behind the task queue of llama-server; the agent feeds
it a conversation, parses tool calls out of its answers, asks the user where it
has to, runs the tools (mostly on files of the working directory) and feeds the
results back. This directory holds TLA+ models of the parts of that system where
order, interruption and failure matter, TLC configurations that check them on
small instances, and TLAPS proofs of the main safety properties for instances of
any size.

## 1. Inventory

### Agent loop and REPL (`tools/lmcode/cli.cpp`)

*State*: the message list, the interrupt flag, plan mode, three counters of the
turn (tool calls, model turns, failed calls), the fragment of a tool call that
`n_predict` cut off (`pending_incomplete_json`), and the stream `std::cin`.
*Operations*: a user message, `/regen`, `/clear`, `/plan` and `/auto`; posting a
completion and receiving partial, final and error results
(`generate_completion`); taking up, refusing, answering and executing a call
(`handle_tool_call`); the SIGINT handler.
*Interaction*: posts to the server queue and reads from its result queue, calls
the parser, the executor and the task manager, and reads confirmations.
*Hard*: the handler runs between any two instructions; a partial answer is parsed
and its calls executed even after an interrupt; three budgets are counted and
checked in different places; a failed read leaves `std::cin` failed for good.
*Correct when*: the budgets hold, every call that is taken up is answered exactly
once, nothing that needs a confirmation runs without one, a fragment never leaks
into another turn, a turn ends, and the message list changes only in the ways a
chat template can render.

### File tools (`tools/lmcode/cli-tool-exec.cpp`)

*State*: the files; `file_sessions_`, the hash of what `read_file_range` showed the
model; `active_write_sessions_`, the files between `start_file` and `finish_file`.
*Operations*: reading, writing, editing by lines, by text and by regular
expression, snippets, the chunked protocol start/append/finish, touch.
*Hard*: other programs write the same files; the disk fills up; a second SIGINT
calls `std::exit` in the middle; several error paths return a result whose
`success` member has never been set; lines are split and joined again with and
without a final newline, by several pieces of code that must agree on the numbers;
`search_replace` tries five matching strategies, some of which find nothing to
replace and some of which find their own replacement again.
*Correct when*: a file is replaced as a whole, acknowledged chunks are in the file,
a line edit works on the content the model has seen, every tool means the same
line by the same number, and only the text that was asked for is replaced.

### Task manager (`tools/lmcode/task_manager.cpp`) and the task prompt (`cli.cpp`)

*State*: a vector of tasks with ids, parents, order numbers and children, the next
id, and a copy of the whole tree inside the system prompt.
*Hard*: a pointer into the vector is used after a `push_back` that may move the
vector; the user changes tasks and prompt by commands the model does not see.
*Correct when*: the tasks are a forest whose printing terminates, siblings keep
their order, and the model sees its own changes.

### Task queue, result queue, readers and slots (`tools/server/server-queue.cpp`, `server-context.cpp`)

*State*: the queue, the deferred tasks, the flag `running`, the slots, the list of
ids somebody waits for, the queued results, and per request a reader.
*Operations*: post, defer, pop, launch, cancel, release, send, receive, stop,
terminate; one thread runs the loop and every request has one of its own.
*Hard*: a cancelled task may be in any of four places and move between them; a
release wakes exactly one deferred task; a parent and its child occupy two slots
and are cancelled by two separate tasks; stopping a reader takes three holds of
two mutexes.
*Correct when*: a task is in one place, is answered once, no result is left
behind, every request is served, and every slot comes free.

### Idle sleep (`server_queue::start_loop`, `wait_until_no_sleep`)

*State*: `sleeping`, `req_stop_sleeping`, the time of the last task, and the
threads waiting on one condition variable.
*Hard*: clients and the loop wait on the same condition variable with different
predicates, and `notify_one` is used to reach one of them.
*Correct when*: a request to wake up reaches the loop and belongs to the sleep it
was made in, and every waiting client goes on.

### Slot prompts and decoding (`tools/server/server-context.cpp`, `src/llama-context.cpp`)

*State*: per slot the list of the tokens it believes to be in the cache for its
sequence, its task and the place of its last token in the batch; the batch, the
view that is being decoded and its size.
*Operations*: launching a request or a parent with its child, context shift,
reuse of a common beginning and of chunks further on, filling the batch, decoding
it in views and ubatches, halving a view or clearing an idle slot where there is
no room, copying a prompt to the children, sampling, releasing, giving up.
*Interaction*: calls the key/value cache; launched and released by the scheduler.
*Hard*: the list and the cache are two books of the same thing, and each of these
operations changes both, in an order of its own; a failed view leaves part of its
tokens behind.
*Correct when*: a token attends to exactly the prompt of its slot, and every
round of the loop ends.

### Key/value cache (`src/llama-kv-cells.h`, `src/llama-kv-cache.cpp`)

*State*: per stream the cells with their positions, sequences and pending shifts,
the set of used cells, counts per sequence and position, a head from which the
search starts, and the buffer itself.
*Operations*: removing, copying and moving (parts of) a sequence, the search for
cells, placing and taking back a ubatch, applying the pending shifts and copies.
*Hard*: a batch is first placed as a rehearsal and taken back, and only then
placed again; cells are shared by sequences; a sliding window lets cells be
overwritten that a removal would need.
*Correct when*: the books agree with the cells in every state.

### CPU thread pool (`ggml/src/ggml-cpu/ggml-cpu.c`)

*State*: the atomics of the pool (graph number, barrier counters, chunk counter,
stop, pause, abort), a mutex with a condition variable, and the place of each
thread.
*Hard*: threads poll without the mutex, sleep under it, and are counted through a
barrier that resets itself; the next graph is set up while the last worker may
still be leaving the previous one.
*Correct when*: nodes are computed in order, every part of a node exactly once,
and neither a graph nor the freeing of the pool hangs.

### Terminal (`common/console.cpp`, `tools/lmcode/cli_tui.cpp`, `output_buffer.cpp`)

*State*: the mode of the terminal and its cursor, the modes saved by the console
and by the interface, the lines of output with the line being streamed, the
scroll position, the input line with cursor and history.
*Hard*: console and interface save and restore the same terminal, each knowing
only its own changes; a confirmation suspends the interface in the middle of an
answer; SIGINT ends the program from anywhere.
*Correct when*: the terminal is given back as it was found, keys are read in raw
mode, cursor and history stay in bounds, and no piece of an answer is lost.

### Parts without a module

The tool call parser appears only through what it can return. Search, listing,
shell and Swift tools keep no state between calls. The tool registry is a table.
Statistics are printed. The HTTP front end, the router and the conversions of the
server are upstream code that lmcode does not run. The rest of the inference
library is numerical; converters, web interface, examples and vendored code take no
part in a session. `PROJECT.json` lists each of them with its reason, and the end
of section 4 says what is left out of the parts that have a module.

## 2. Modules

| Module | Models | Form |
|---|---|---|
| `AgentLoop` | one session of the agent | one action per stretch of code between two places where the user, the server or a signal can intervene |
| `Conversation` | what the message list promises | abstract specification, refined by `AgentLoop` |
| `FileTools` | the file tools and their books | one step per access to the file system |
| `TaskBoard` | tasks, task tools, `/task`, the prompt section | one step per subtask of a decompose call |
| `ServerQueue` | queues, readers, slots | one step per hold of a mutex |
| `MCServerQueue` | symmetry for TLC | readers and unpinned slots are interchangeable |
| `ServerSleep` | the sleeping state | one step per hold of the mutex, waiters as a set |
| `KvCache` | cells and cache of the inference library | operators on the value of one variable |
| `SlotCache` | slots, batch and decoding on top of `KvCache` | one step per pass of one of the loops of `update_slots` and `decode` |
| `TextEdits` | what the line tools and `search_replace` make of a text | one step per tool; per strategy and per replacement for `search_replace` |
| `Terminal` | terminal modes, output buffer, input line | one step per key, piece of output or change of mode |
| `Threadpool` | the threads that compute graphs | one step per access to shared memory |
| `MCSlotCache`, `MCTextEdits`, `MCTerminal`, `MCThreadpool` | values of constants for TLC | |
| `AgentLoopProofs`, `FileToolsProofs`, `TaskBoardProofs`, `ServerQueueProofs`, `ServerSleepProofs`, `SlotCacheProofs`, `TerminalProofs`, `ThreadpoolProofs` | | theorems and proofs |

Operators keep the names of the functions they model where there is one
(`signal_handler`, `create_subtask`, `pop_deferred_task`, `append_file`, ...); the
others are named after the step, and the `map` of `PROJECT.json` gives file and
lines for each. Operators whose comment begins with "Mutant" are deliberate
mistakes (a dropped guard, a missing reset): each shows that one property fails
when the code has that mistake. They are not part of the specifications.

### What is abstracted

* *AgentLoop.* A message is its role, told apart by who wrote it. A response is
  empty, text, an open call or a closed call; what the parser finds in it is any
  list of up to `MaxBatch` calls, each of one of eight kinds, the kinds being the
  branches the code distinguishes. `approved`, `taken`, `results`, `executed`,
  `last_exec` and `splice` are history variables: no guard reads them.
* *FileTools.* The content of a file is the sequence of the changes made to it,
  each with its own stamp; `<<>>` is a file that lost, or never had, all it was
  meant to hold. `cut` is a history variable: the files that a write to a full disk
  cut short. A hash is the content, so collisions of the hash are left out. A
  failed chunk leaves a `Torn` stamp or nothing. An uninitialised `success` is a
  nondeterministic choice.
* *TaskBoard.* Descriptions are numbers. The vector doubles when it is full, as
  libstdc++ and libc++ do; a write through the dangling pointer is lost or ends
  the process. Where the tree prints each line is left out of the summary.
* *ServerQueue.* A slot is idle, waiting for its parent, in its prompt or
  generating; tokens, batches and caches are left out, so when a slot sends what
  is a free choice. Families have one child.
* *ServerSleep.* Time is one Boolean: the idle time has passed or not. Spurious
  wakeups are left out; every wait re-checks its predicate, and a spurious wakeup
  has only that effect.
* *KvCache* and *SlotCache.* The contents of a cell are the token and the position
  its keys are rotated for. What is sampled, and when an answer ends, are free
  choices. A token belongs to one sequence of its batch; a parent has one child.
  Copies between streams take effect at the next update, as in the code.
* *TextEdits.* A text is a sequence of character codes and ESC stands for a written
  `\n`. How similar two blocks have to be for the last strategy is left open: any
  candidate that the code's conditions allow may be taken. A search with more
  lines than the file, where the code subtracts unsigned numbers, reads past the
  end: it ends with an error or ends the process.
* *Terminal.* A character is a sequence of bytes from `Chars`. What `render` draws
  is a function of the state and is left out, and so are mouse reports.
* *Threadpool.* Memory is sequentially consistent, and the build is the one without
  OpenMP. A node of a graph is one of "plain" (every thread computes its share),
  "mul" (chunks are taken from a counter), "fused" (two nodes in one) and "skip".

### Composition

`AgentLoop` sees the server as an environment that sends partial results and ends
or fails a response; this is what `ServerQueue` guarantees to a reader
(`RequestServed`, `CompleteMeansAnswered`). `TaskBoard` is the inside of the
`AnswerLocally` step of `AgentLoop`, `FileTools` that of `ExecuteTool`.
`ServerSleep` looks closely at the `EndWait` step of `ServerQueue`, which lmcode
itself runs with sleeping turned off. `SlotCache` EXTENDS `KvCache` and is the
inside of the slots of `ServerQueue`: `launch_slot_with_task`, `Cancel` and the
releases of `post_decode` are the steps that both know. `Threadpool` is what
happens while `SlotCache` computes a ubatch, `TextEdits` the computation between
the read and the write of an edit in `FileTools`, and `Terminal` holds the suspend
and resume around the confirmation of `AgentLoop`. Otherwise the modules are checked separately: no
variable is shared between them except through these calls.

## 3. Runs

Each configuration checks one question. Times are for two workers.

**AgentTurn** (1.7 million states). One message, limits of two calls, two model
turns and two failures, batches of up to two calls of all eight kinds. Limits of
two make every budget run out in the middle of a batch, at its end and not at all.
`BudgetsRespected`: nothing is sent to the model once a budget is used up. (That
the executor runs at most the permitted number of calls, `CallBudget`, is proved.)
`ResultPairing`: every call taken up has exactly one result, the refused, unknown,
interrupted and failing ones included. `ConfirmationGate`: what ran and needed a
yes had one, to this call and not to an earlier one. `ConversationKept`: the
refinement of `Conversation`, in particular that tool output follows only a
response or other tool output.

**AgentSession** (409 thousand states). Two inputs, so that something can be left
over from the first. `NoStaleFragment` looks for a fragment of an earlier turn;
`TurnTerminates` says that a session is not inside turns for ever, unless the user
leaves a question unanswered.

**QueueSafety** (5.1 million states up to symmetry, about two minutes). Two readers
that may stop at any time, two slots that may be asked for by id, requests of one
task, of two tasks and of a parent with a child, refusals and decode errors. Two of
each are enough for the races found: they need one request that holds a slot and
one that is deferred or cancelled. `TaskInOnePlace`, `AnsweredIsOver` (what the
"duplicate result" assertion of `wait_for_all` relies on), `NoStrayResult`
(`stop()` purges nothing for a reader that counts itself finished, so the count
must be exact) and `CompleteMeansAnswered`.

**QueueLive** (436 thousand states, about a minute and a half). Two families and readers
that do not give up, with errors and with `terminate()`. `RequestServed`: every
request is answered in full or with an error and leaves no slot behind, also if it
was deferred or another part of it failed. Three cases are left out: prompts that turn
out empty (`EmptyPrompts = FALSE`), readers that give up (`Impatient = {}`) and a
`terminate()`; for the first two the property does not hold (section 5). `LoopEnds`: a `terminate()` that finds
the loop started ends it, while processing, decoding or waiting.

**SleepAwake** (1108 states). Three clients, so that a notification has a choice
among waiters besides the loop. `RequestIsCurrent`, `WaitersAreHeard` and
`WaitEndsOrShutdown`, for threads that are not held up for longer than the idle
time (`Slow = FALSE`; section 5 says what happens otherwise).

**FileSessions** (2.4 million states). One file, up to six changes, failing opens and
renames, a disk that may be full, other writers, a kill between any two steps.
`WholeOrOld`: no file is found empty that nobody emptied on purpose, unless a full
disk cut it. `ChunksKept`: what was acknowledged is in the file, in order and once.
`DriftIsCaught`: an edit with a session works on exactly what the model has seen,
unless another writer slips in between the check and the edit. Files do not
interact in the code except through the two session tables, which are keyed by
path, so one path is enough.

**TaskTree** (351 thousand states). Six tasks and calls of up to three steps, so
that the vector is moved at one, two and four tasks and children get lost under
different parents. `TreeSound`, `SiblingsInOrder`, `ModelSeesOwnChanges`.

**SlotReads** (141 thousand states, about a minute). Two slots, six cells, views of
four and ubatches of two tokens, two requests, in four configurations: cells shared
by several answers, with decode errors; context shift and chunk reuse with too
few cells for both slots; a stream per slot with all of it; a sliding window.
Prompts of two and three tokens share a beginning, repeat a token, or neither, which
is what reuse and chunks tell apart; contexts of four to eight tokens fill up,
shift, or end an answer. `CellsExact`: used cells and counts agree with the cells.
`ModelReadsPrompt`: what was just computed attended to every position of its
window once, with the right token and rotation. `RoundEnds`: retries terminate.

**EditText** (39 thousand states). Every text of up to four letters, spaces and
newlines, and five longer ones with the shapes the strategies look for.
`LinesSpliced`: the line tools do to the list of lines what a splice does, with
and without a final newline and at both ends. `NumbersAgree`: the lines that
`read_file_range` numbers are those the edits address. `OnlyMatchReplaced`: a
search that finds its text as it stands replaces that and nothing else; with
`replace_all` every step replaces one match. `SearchEnds`: a search for more than
white space ends, also if the replacement contains the search text.

**TermModes** (4.1 million states). Inputs of two characters, histories of two lines,
two kept lines of output, two pieces per answer: each at its bound. `TerminalGivenBack`:
whatever way the program is left, the terminal has its old mode and a cursor.
`ReadsRaw`: the interface reads keys in raw mode only. `StreamKept`: the pieces of an
answer that are still kept are there once and in order.

**PoolGraphs** (372 thousand states, about a minute). Three threads, so that there
are two that may be late at a barrier, two graphs of four nodes, one of each kind,
each by one to three of the threads, and pausing, resuming, aborting and freeing at any time the API
allows. With three chunks a graph of three threads has one chunk for each and leaves
the loop at `ggml-cpu.c:1446`, and in one of two threads they compete for the third.
`NodesInOrder`: no thread computes a node before all parts of the ones in
front of it are done. `GraphWhole`: when a graph returns, every part was computed
once, or from the node of the abort on not at all. `WorkersOut`: nobody is inside a
graph, or on the way into its last barrier, when the next one is set up. `GraphReturns`, `PoolFreed`: neither hangs.

**TermAsk** (violation). The constants of TermModes. A confirmation in a real terminal
is read without echo, against the comment on `suspend`; section 5.

`CHECK_DEADLOCK FALSE` stands where the system may stop: a session that has been
left, requests that have all been served, a task board whose bound on new tasks is
reached, a process that was ended, a pool that was freed.

### Fairness

*AgentLoop*: the main thread runs (weak fairness of its own steps), and a response
that was asked for ends, which is `RecvEnd`; nothing is assumed of the user, of
signals, or of partial results and errors. The 120 s limit between tokens that
`generate_completion` declares is not enforced by the code and is not assumed.
*ServerQueue*: the loop thread and the threads of the readers run; per slot,
strong fairness of the next of the two, the end of the prompt or the final result,
because every round of the loop decodes every busy slot and `n_predict`, the
context size and the end of the text bound a generation. A reader is one thread: weak fairness of
all its steps together, letting go included once it has everything. Giving
up, errors and `terminate()` are never forced. *ServerSleep*: the loop and
every client that is free to go on; neither requests nor the passing of idle time
are forced. *SlotCache*: the loop goes on with `update_slots` while a slot is at
work; nothing obliges clients to send or to cancel. The condition is weak fairness
of `update_slots` with ENABLED written out. *TextEdits*: the search takes its next
step; the main thread runs nothing else. *Threadpool*: every thread and the caller
run, each on its own. *FileTools*, *TaskBoard* and *Terminal* have no liveness
properties: their calls are finite, and what they wait for is the user.

## 4. Proofs

The constants range over everything their named assumptions allow, so these hold
for the real limits (20 calls, 50 turns, 6 failures), for any set of tools, any
number of files, clients, readers, tasks, slots, cells and threads. The bounds that keep TLC finite (`MaxInputs`,
`MaxStamp`, `MaxBorn`, ...) are arbitrary naturals in them.

* **AgentLoopProofs.** `AgentSafety` proves the inductive invariant `AgentInv`:
  types, `BudgetInv`, `GateInv`, `LogInv`, and the checked properties. The
  properties alone are not inductive. `BudgetInv` adds how many calls can have run
  in each phase (`executed <= calls_in_turn`, and strictly below the limit while
  a call is in hand); `GateInv` that a call in the phase "execute" has passed the
  gates of its kind and mode; `LogInv` that the list is not empty and ends in a
  response or in tool output while calls are worked off, which is what the
  refinement needs. `TypeCorrect`, `LimitsHold`, `CallsAnswered`,
  `ConfirmedBeforeRun` and `FragmentsFresh` follow. `ImplementsConversation` maps
  `log` to `messages` and `busy` to being in a turn, and shows that each step is a
  step of `Conversation` or a stutter.
* **FileToolsProofs.** `FilesWhole`: `WholeOrOld` holds. The invariant `FileInv` adds
  that what is about to be renamed is the whole new content, unless the disk was
  full when it was written, and that no new content is empty. `ChunksAlwaysKept`
  and `DriftAlwaysCaught` (an action property) rest on a second one, `BooksInv`: a
  stamp is given out once, and a content whose last stamp was given out now is
  different from every content seen before, so a file that still has the content a
  session knows has not been written since (`StampsInv`, `SessionsInv`); the chunks
  a session counts as acknowledged are the last ones in the file, in order. TLC
  checks `BooksInv` on the run FileSessions too.
* **TaskBoardProofs.** `BoardSafety`, with `TreeAlwaysSound` and
  `SiblingsOrdered`. `IdsInv` says that the next id is new and that the parent of a
  decompose call at work exists; `OrdersInv` that no child has an order number
  beyond the number of children its parent knows of. The latter carries the
  argument through the lost children: a lost child does not raise the next
  number, it only makes it repeat. The lemmas `SameTree` and `LargerTree` reduce
  every action to one of two changes of the vector. `OwnChangesSeen`, for
  `ModelSeesOwnChanges`, adds `Shown`: between two calls the prompt shows the tree
  as it is, unless the user meddled. A decompose call changes the tree several times
  and the prompt once, after the last subtask.
* **ServerQueueProofs.** `OnePlaceAlways`, `OverAlways`, `NoStrayAlways` and
  `CompleteAlways`, for any number of readers and slots. The invariant has two
  halves. `Work` says where a task can be: in one of the queues, in the hands of the
  loop, in a slot, about to be released, or over, and that a parent and its child
  move together as long as they share a place. `Mail` says who a result is for: one that is queued
  belongs to a reader that still takes or purges it, a last result comes once
  and after the partial ones, and the tasks a reader has counted and those it has
  no last result of yet are together no more than its ids, which is why a reader that
  counts itself finished has nothing to purge. Each half is kept by each step given the
  other half before it.
* **ServerSleepProofs.** `SleepSafety`, `WaitersHeard`, `RequestsCurrent`, all
  for `~Slow`. The invariant relates the flag to the place of the loop, says that
  a loop which was asked to wake up is no longer among the waiters, and that
  nobody is still on the way out of an earlier sleep when the next one is due.

* **SlotCacheProofs.** `BooksExact`: `CellsExact` holds for any number of slots,
  streams and cells and for all prompts, whatever requests are shifted, copied,
  rehearsed, evicted, cancelled or aborted. One lemma per operation of `KvCache`
  shows that it keeps the books (`EditExact` does it for any change of one cell).
  The operations have preconditions, though: a shift must not move a cell below
  zero or past the last position, a place in the rehearsal must be one of the batch,
  and what is restored must have been saved. The rest of `IInv` says why the server
  keeps them: `SlotsFit` and `RoomToAdd` bound the prompts by the context at each
  point of a round, `ScanFits` the cursors of chunk reuse, `RehearsalSound` the
  saved states. `TypeCorrect` adds the cache other than its books (`TInv`): every
  operation keeps heads within their streams (`Typed`), `prepare()` has as many saved
  heads as saved cells (`HeadsKept`), and a view is halved only while it has more than
  one token (`NumbersFit`). The pending copies are a recursive function; the lemma
  `CopiedType` shows by a smallest counterexample that it exists for every list of
  copies and yields buffers.

  `PromptRead`: `ModelReadsPrompt` holds for any numbers and sizes, with cells for
  all slots or a stream for each, through context shifts, chunk reuse, purged slots,
  halved views, decode errors and aborted requests, if requests have one answer
  each and the model has no sliding window (`Plain`, a condition on the configuration
  alone; lmcode never asks for more than one answer). Both restrictions mean the
  same for a cell: it has one owner, and it is filled only when it is empty. What is
  read when a ubatch is computed was decided long before, so the invariant `ReadInv`
  has to follow a prompt through all of a round:
  * `PromptsCached`, the core: each position that a slot counts as its prompt is in
    exactly one cell with its own keys, or it is in the batch and in no cell.
    "Its own keys" allows for a shift that is recorded and not yet applied (`Keys`);
    "counts as its prompt" leaves out what chunk reuse has yet to move (`Known`); and
    a cell that is filled only for the rehearsal does not count (`Holds`);
  * `NothingBeyond`: a slot with its whole prompt in the batch has nothing cached
    behind it, which an attention over all earlier positions would pick up;
  * `Owners`, `NoFamilies` and `Settled`: no cell has two owners, and every shift
    of a cell in use is announced to the next update;
  * `BatchWanted` and `BatchRises`: what is in the batch and not decoded yet is what
    its slot still wants, in the order of the positions, and not behind the place
    where the slot samples; `Phases` ties all of it to the place in the round;
  * `Rehearsed`: the cells found by `prepare()` are empty but for the rehearsal, no
    cell is promised twice, no place is forgotten, and a place of a sequence never
    comes in a later ubatch than one behind it.

  The lemmas go from the pass over the cells (`DropEffect`, `SeqRmEffect`,
  `ApplyEffect`, ...) over what happens to one sequence (`GapStep` for a gap that is
  closed, `CachedFrame` for a sequence that is left alone, `ComputingHolds` for a
  computed ubatch) to one lemma per action (`ReadShift`, `ReadFilled`, `ReadPrepare`,
  `ReadCompute`, ...), which `ReadStep` puts together. The last step, `InvReads`, is
  a count: the cells that are visible to a token are in bijection with the positions
  up to its own.
* **TerminalProofs.** `GivenBack` and `RawReads`. `ModeInv` splits by phase:
  `EarlyInv` before the interface exists, `LiveInv` while it runs (what is saved
  by whom in each place, and that a suspended interface is one that was enabled),
  `EndInv` on each of the ways out. `TypeCorrect` and `StreamAlwaysKept` follow from
  `BufferInv`, for any keyboard and any limits. The lemma `LastOfLast` carries the
  second: lines selected from the end of others, mixed with lines without
  pieces, hold the last pieces if those did (`HoldLast`). Printing, committing,
  dropping the oldest line and clearing the screen are instances of it.
* **ThreadpoolProofs.** `TypeCorrect`, `InOrderAlways`, `WholeAlways` and
  `OutAlways`, for any number of threads, any graph and any number of chunks. The
  invariant gives every thread that takes part the barrier it heads for (`Dest`)
  and says that all head for the same one (`Together`): a thread that has passed a
  barrier stands in front of the next, and no other thread can be further on. It
  holds although workers poll and join late, because a worker that has yet to join is
  seen at the start of the graph (`Loc`). `Barriers` ties `n_barrier` to the set of
  threads that have arrived, `Chunks` the chunks given out to the counter,
  and `Results` says for each node which parts are computed: all behind `Front`, none
  beyond, and at the front those of the threads that are past it. `Aborts` covers the
  first thread setting the abort mark between a node and its barrier.

The assumptions are those of the modules. Two deserve a word. In `Threadpool` a
"fused" node is followed by a "plain" one: `ggml_cpu_try_fuse_ops` fuses an RMS_NORM
with the MUL behind it (`ggml-cpu.c:3004`), and both are computed by every
thread. In `Terminal` the characters are sequences over the bytes that occur in them,
which gives the prover a set for them and excludes no keyboard.

Only model-checked:

* the liveness properties: liveness under fairness is out of the prover's reach;
* `ModelReadsPrompt` of `SlotCache` for requests with several answers and for a
  sliding window. With shared cells it is no theorem of the specification: with the
  constants of `SlotShared` (children and context shift together) and with those of
  `SlotChildren` (a view halved inside a parent's prompt) TLC refutes
  `ModelReadsPrompt` itself. With a sliding window a cell is filled again once it is
  masked for its owner, so that positions behind the window are no longer cached and
  the invariant of `PromptRead` does not hold. `SlotReads` covers both cases;
* `LinesSpliced`, `NumbersAgree` and `OnlyMatchReplaced` of `TextEdits`: they compare
  what cutting a text at its newlines gives with what concatenating a list of lines
  gives, and nothing is proved yet about either operator (`Nth`, which counts
  newlines, and the fold that concatenates). TLC covers every text of up to four
  characters.

## 5. What comments and documents say, and the code does not do

The end of a module states what a comment or a document of the repository promises
where the code, as modelled, does something else. TLC refutes each of these
properties. Only the first belongs to the runs; the others have a configuration
of their own, for `tlc -config <configuration>.cfg <module>`, which ends with the
counterexample told here.

*Terminal.*

* `AskedWithEcho` (run **TermAsk**, `MCTerminal`). `cli_tui::suspend` says "Restore
  terminal to normal cooked mode with echo" (`cli_tui.cpp:435`), and the confirmation
  that calls it wants "normal terminal input (with echo)" (`cli.cpp:854`). What
  `suspend` restores was saved by `cli_tui::init` (`cli_tui.cpp:365`), and by then
  `console::init` had already cleared ICANON and ECHO (`common/console.cpp:131`). The
  counterexample is short: a real terminal, one message, one confirmation. The
  interface was never turned on: `suspend` does not ask whether it is. The property
  speaks of suspended interfaces only, so that an output that is no terminal, where
  nothing is restored, does not count.
* Four more fail if they take the place of `AskedWithEcho` in `TermAsk.cfg`.
  `ConsoleUntouched` ("Disabled by default", `cli_tui.cpp:60`): `resume` leaves the
  cursor hidden after a confirmation although the interface is off.
  `NothingLeftOver` ("flush_stream commits whatever partial line is still in the
  buffer", `cli_tui.cpp:560`): after a stream that ends in an error the partial line
  is still there when the next input is read. `PageUpShowsEarlier` ("positive = down,
  negative = up", `cli_tui.h:81`; an action property): Page Down shows earlier rows
  and Page Up later ones, because the number counts lines from the bottom. `WholeCharacters` ("Accept UTF-8 multi-byte",
  `cli_tui.cpp:702`; with `Chars <- TwoBytes`): Backspace removes half a character.

*AgentLoop.*

* `FailuresBounded` (`AgentFailures`): "Max consecutive failures before stopping"
  (`cli.cpp:144`). The failures of one batch are all counted before anything stops.
* `ClearedWhenClosed` (`AgentFragments`): the fragment is "cleared as soon as the
  closing delimiter is received and the full JSON is successfully parsed"
  (`cli.cpp:164`). A response without any closing delimiter clears it too.
* `WritesAuthorized` (`AgentWrites`): "All writing operations require explicit user
  authorization" (`README.md:22`). Tools that edit and are not in the list of those
  to be confirmed run without a question outside plan mode.
* `AnswerAfterLimit` (`AgentLimit`): after the limit the model answers normally
  (`tools/lmcode/README-tool-support.md:99`). The turn ends with tool output.
* `RegenDropsResponse` (in `AgentLimit.cfg`, as a PROPERTY): "Regenerate last response"
  (`README.md:61`). After an error there is no response, and `/regen` drops the
  user's own message.

*FileTools.*

* `WholeOnFullDisk` (`FileFull`): `write_string_to_file_atomically`
  (`cli-tool-exec.cpp:84`) renames the temporary file without looking whether all of
  it was written.
* `DriftCheckedBeforeEdit` (`FileDrift`): "Check for file drift before editing"
  (`cli-tool-exec.cpp:2352`). Only `read_file_range` opens a session; after `read_file`
  nothing is compared.
* `SessionSurvivesFailure` (`FileUninit`): "Invalidate session after successful edit"
  (`cli-tool-exec.cpp:2393`). A failed edit leaves `success` uninitialised, and the
  session may be gone.
* `AppendOnlyAfterStart` (`FileAppend`): what the session table "prevents"
  (`cli-tool-exec.h:88`). `execute_start_file` registers the path before it knows
  whether the file could be created; a chunk may then go to a file that was there before.

*TextEdits* (`MCTextEdits`).

* `SearchAnswered` (`EditSearch`): a search string that is not found is reported
  (`cli-tool-exec.cpp:1065`). With more lines in it than in the file, a difference
  of unsigned numbers underflows and the loop reads past the end.
* `SearchStops` (`EditBlank`): a search for white space with `replace_all` and an empty
  replacement matches the empty text where it stands, for ever. Where matches are
  collected the same loop uses up the memory instead (`Spins`, `Overrun`).
* `UniqueBlock` (in `EditText.cfg`, in place of its properties): "find a unique block
  of text and replace it" (`cli-tool-exec.cpp:1070`). Of two blocks that match but for
  white space, each of them once in the file, the first in character order goes.

*ServerQueue.*

* `EmptyPromptAnswered` (`QueueEmpty`): "empty prompt passed -> release the slot and
  send empty response" (`server-context.cpp:3060`). A parent with an empty prompt ends
  without starting its child, whose slot waits for it for ever, and so does the
  reader. This is why `RequestServed` is checked with `EmptyPrompts = FALSE`.
* `DeferredUntilSlotFree` (`QueueStuck`): "defer until one slot is available"
  (`server-queue.h:40`). A release brings back one deferred task; if that one is
  cancelled before it is taken, the next stays deferred while every slot is idle.
* `CancelledIsGone` (`QueueOrphan`): "make sure to clean up pending tasks"
  (`server-queue.cpp:25`). The clean-up happens when the CANCEL is posted; a task that
  the loop holds at that moment is deferred afterwards.
* `CancelReleasesSlot` (`QueueLeak`): "release slot linked with the task id"
  (`server-context.cpp:2396`). A deferred family comes back between the CANCEL of its
  child, which finds nothing, and that of its parent: it is launched, the parent is
  cancelled, and the child waits for it for ever.
* `TerminateEndsLoop` (`QueueTerminate`): "end the start_loop routine"
  (`server-queue.h:59`). `start_loop` sets `running` after a `terminate()` that came
  first. `LoopEnds` speaks of a loop that was started.

*ServerSleep.*

* `TaskReloadsModel` (`SleepTask`): "Any new incoming task will automatically trigger
  the model to reload" (`tools/server/README.md:1993`). A task that is posted after its
  client saw the model awake lies in the queue of a loop that sleeps.
* `WaitEnds` (`SleepTerminate`): "wait until it is done" (`server-queue.h:50`). A
  loop that was terminated in its sleep does not wake the clients that came after.
* With `Slow = TRUE` a thread may be held up, between a notification and its look at
  the predicate, for longer than the model stays loaded. `WaitersAreHeard` then fails
  in `SleepAwake.cfg`, and so does `OnlyMainWaits` ("only main thread is waiting on
  this", `server-queue.cpp:110`) in `SleepTask.cfg`: a client that finds the next
  sleep waits on beside the loop, and the one notification of a later request may go
  to it.

*SlotCache* (`MCSlotCache`).

* `SharedNotShifted` (`SlotShared`): "context shift cannot be used for shared prompt"
  (`server-context.cpp:2821`). The code looks at the task of the slot; a single task
  that goes on with the cells of an earlier family shifts them for the other slot too.
* `ChildrenAfterPrompt` (`SlotChildren`): children start "when the main prompt is
  processed" (`server-context.cpp:3631`). When the view was halved inside the parent's
  prompt they get their copy with half of it.

*TaskBoard.*

* `ChildrenComplete` (`TaskChildren`): `children` holds the "IDs of child tasks"
  (`task_manager.h:22`). An id written through the dangling pointer is lost.
* `PromptCurrent` (`TaskPrompt`): the update "is called after every task mutation"
  (`cli.cpp:283`). It is not called after the user's own `/task` commands.
* `SectionReplaced` (`TaskSection`): "Remove any previous task progress section"
  (`cli.cpp:294`). Each update leaves one newline behind.

## 6. Plan

Done: the modules above, in the order agent, queue, sleep, files, tasks, cache and
slots, text edits, terminal, thread pool, and proofs of nearly all the safety properties
that the runs check. Next:

1. *SlotCache*: `PromptRead` for a sliding window, with `PromptsCached` for the
   positions that some later token still sees; the prompt cache in memory and the
   checkpoints as further operations.
2. *ToolParser*: the scanner that decides whether a call is complete, and the
   splice of fragments, against a reference definition of balanced JSON.
3. A composition of `AgentLoop` with one reader of `ServerQueue`, to discharge the
   assumption about the server, and of `AgentLoop` with `TaskBoard`.
4. *AgentLoop*: `/tool add`, `remove` and `clear` as changes of the tools on offer,
   including a session whose last tool is removed and which then has no system
   message; the files of `/image` and `/audio` against their markers in the text.

Abstract specifications worth stating next: a request as a single step from asked
to answered, for `ServerQueue`; a file as one atomic cell, for `FileTools`; a
sequence as a list of tokens, for `KvCache`.
