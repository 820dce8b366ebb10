------------------------------ MODULE SlotCache ------------------------------
(***************************************************************************)
(* The slots of the server on top of the key/value cache.  A slot keeps    *)
(* the list of the tokens it believes to be in the cache for its sequence  *)
(* (slot.prompt.tokens) and reuses them for the next request with the same *)
(* beginning.  One thread runs the loop: it takes tasks, shifts contexts   *)
(* that are full, fills a batch and decodes it in views, each of which is  *)
(* split into ubatches (update_slots, src/tools/server/server-context.cpp; *)
(* llama_context::decode, src/src/llama-context.cpp; prepare,              *)
(* src/src/llama-kv-cache.cpp).  A step of this module is one pass of one  *)
(* of these loops; nothing runs in between, but the steps show where the   *)
(* cache is changed for good and where only for a rehearsal.               *)
(***************************************************************************)
EXTENDS KvCache

CONSTANTS NBatch,    \* llama_n_batch
          NUbatch,   \* llama_n_ubatch
          Prompts,   \* the token lists clients send
          Sampled,   \* the tokens the model may answer with
          MaxTasks,  \* bound: requests a run takes
          Configs    \* what the process may be started with

ASSUME BatchAssumption ==
  /\ NBatch \in Nat \ {0}
  /\ NUbatch \in Nat \ {0}
  /\ Prompts \subseteq Seq(Tokens) \ {<< >>}
  /\ Sampled \subseteq Tokens
  /\ MaxTasks \in Nat
  /\ \A g \in Configs :
       /\ g.unified \in BOOLEAN /\ g.ctx_shift \in BOOLEAN /\ g.families \in BOOLEAN
       /\ g.may_fail \in BOOLEAN
       /\ g.n_swa \in Nat /\ g.n_reuse \in Nat /\ g.n_ctx \in 4 .. NPos
       /\ g.n_keep \in Nat /\ g.n_discard \in Nat

VARIABLES
  slots,    \* the slots
  taken,    \* requests taken, capped by MaxTasks
  step,     \* where the loop is
  cur,      \* the slot a loop over the slots has come to
  scan,     \* head_c, head_p and n_past of the search for chunks to reuse
  batch,    \* the tokens to decode, each with its sequence and position
  off,      \* the view begins after this many tokens of the batch ...
  n_batch,  \* ... and has at most this many
  left,     \* places of the batch that prepare() has yet to find cells for
  sinfos,   \* the cells found, ubatch by ubatch
  olds,     \* the recovery stack of prepare(): cells ...
  heads,    \* ... and heads
  at        \* the ubatch to compute

view      == <<off, n_batch>>
rehearsal == <<left, sinfos, olds, heads, at>>
vars      == <<kv, params, slots, taken, step, cur, scan, batch, view, rehearsal>>

IdleSlot == [state |-> "idle", kind |-> "single", task |-> << >>, prompt |-> << >>,
             sampled |-> NoToken, i_batch |-> 0, family |-> 0]

Init ==
  /\ params \in Configs
  /\ kv = EmptyCache
  /\ slots = [s \in Slots |-> IdleSlot]
  /\ taken = 0
  /\ step = "tasks"
  /\ cur = 0
  /\ scan = <<0, 0, 0>>
  /\ batch = << >>
  /\ off = 0 /\ n_batch = NBatch
  /\ left = {} /\ sinfos = << >> /\ olds = << >> /\ heads = << >> /\ at = 1

Processing == {s \in Slots : slots[s].state # "idle"}
Children   == {s \in Processing : slots[s].kind = "child"}

\* Removes whole sequences.
Clear(k, S) ==
  LET d(st) == Drop(k.cells[st], [i \in Cells |-> k.cells[st].seq[i] \cap S])
  IN  WithBooks(k, [st \in Slots |-> d(st)],
                [st \in Slots |-> Lower(k.head[st], Freed(k.cells[st], d(st)))])

\* release(): a child does not keep its prompt.
Released(x) == [IdleSlot EXCEPT !.prompt = IF x.kind = "child" THEN << >> ELSE x.prompt]

release(S) ==
  /\ kv' = Clear(kv, S \cap Children)
  /\ slots' = [s \in Slots |-> IF s \in S THEN Released(slots[s]) ELSE slots[s]]

NoRehearsal == sinfos' = << >> /\ olds' = << >> /\ heads' = << >> /\ at' = 1

RoundOver == batch' = << >> /\ off' = 0 /\ n_batch' = NBatch /\ left' = {} /\ NoRehearsal

\* What a failed decode does to every slot at work.
AbortAll(k) ==
  /\ kv' = Clear(k, Processing)
  /\ slots' = [s \in Slots |-> IF s \in Processing
                               THEN IdleSlot
                               ELSE slots[s]]
  /\ step' = "tasks"
  /\ RoundOver
  /\ UNCHANGED <<params, taken, cur, scan>>

(***************************************************************************)
(* Tasks                                                                   *)
(***************************************************************************)
launch_slot_with_task(s, toks) ==
  /\ step = "tasks" /\ taken < MaxTasks
  /\ slots[s].state = "idle"
  /\ Len(toks) < params.n_ctx
  /\ slots' = [slots EXCEPT ![s].state = "started", ![s].task = toks]
  /\ taken' = taken + 1
  /\ UNCHANGED <<kv, params, step, cur, batch, scan, view, rehearsal>>

launch_slots_with_parent_task(p, c, toks) ==
  /\ step = "tasks" /\ taken < MaxTasks
  /\ params.families
  /\ p # c /\ slots[p].state = "idle" /\ slots[c].state = "idle"
  /\ Len(toks) < params.n_ctx
  /\ slots' = [slots EXCEPT
       ![p] = [@ EXCEPT !.state = "started", !.kind = "parent", !.task = toks,
                        !.family = taken + 1],
       ![c] = [@ EXCEPT !.state = "wait_other", !.kind = "child", !.task = toks,
                        !.family = taken + 1]]
  /\ taken' = taken + 1
  /\ UNCHANGED <<kv, params, step, cur, batch, scan, view, rehearsal>>

Cancel(s) ==
  /\ step = "tasks"
  /\ s \in Processing
  /\ release({s})
  /\ UNCHANGED <<params, taken, step, cur, batch, scan, view, rehearsal>>

BeginRound ==
  /\ step = "tasks"
  /\ Processing # {}
  /\ step' = "shift"
  /\ cur' = 0
  /\ UNCHANGED <<kv, params, taken, slots, batch, scan, view, rehearsal>>

\* A loop over the slots goes on, or the next one begins.
Advance(next) ==
  IF cur + 1 < NSlots THEN cur' = cur + 1 /\ step' = step
                      ELSE cur' = 0 /\ step' = next

(***************************************************************************)
(* pre_decode: context shift                                               *)
(***************************************************************************)
Full(x) == x.state = "generating" /\ Len(x.prompt) + 1 >= params.n_ctx

n_keep == Min({params.n_ctx - 4, params.n_keep})

n_discard(n_left) ==
  Min({IF params.n_discard # 0 THEN params.n_discard ELSE n_left \div 2,
       Max({0, n_left - 1})})

ShiftContext(s) ==
  LET n    == Len(slots[s].prompt)
      gone == n_discard(n - n_keep)
  IN  /\ kv' = seq_add(seq_rm(kv, s, n_keep, n_keep + gone),
                       s, n_keep + gone, n, -gone)
      /\ slots' = [slots EXCEPT ![s].prompt =
                     SubSeq(@, 1, n_keep) \o SubSeq(@, n_keep + gone + 1, n)]

ContextShift ==
  /\ step = "shift"
  /\ LET x == slots[cur]
     IN  \/ ~Full(x) /\ UNCHANGED <<kv, slots>>
         \/ Full(x) /\ (~params.ctx_shift \/ x.kind # "single") /\ release({cur})
         \/ Full(x) /\ params.ctx_shift /\ x.kind = "single" /\ ShiftContext(cur)
  /\ Advance("sampled")
  /\ UNCHANGED <<params, taken, batch, scan, view, rehearsal>>

(***************************************************************************)
(* pre_decode: filling the batch                                           *)
(***************************************************************************)
Entry(s, p, t) == [seq |-> s, pos |-> p, tok |-> t]

AddSampled ==
  /\ step = "sampled"
  /\ LET x == slots[cur]
     IN  \/ x.state # "generating" /\ UNCHANGED <<slots, batch>>
         \/ /\ x.state = "generating"
            /\ batch' = Append(batch, Entry(cur, Len(x.prompt), x.sampled))
            /\ slots' = [slots EXCEPT ![cur].prompt = Append(@, x.sampled),
                                      ![cur].i_batch = Len(batch) + 1]
  /\ Advance("prompt")
  /\ UNCHANGED <<kv, params, taken, scan, view, rehearsal>>

common_prefix(a, b) ==
  Max({n \in 0 .. Len(a) : n <= Len(b) /\ \A i \in 1 .. n : a[i] = b[i]})

\* A prompt is taken up: what is common with the cached one can stay.
StartPrompt ==
  /\ step = "prompt"
  /\ slots[cur].state = "started" /\ Len(batch) < NBatch
  /\ LET n == common_prefix(slots[cur].prompt, slots[cur].task)
     IN  scan' = <<n, n, n>>
  /\ step' = IF params.n_reuse > 0 THEN "reuse" ELSE "keep"
  /\ UNCHANGED <<kv, params, taken, slots, cur, batch, view, rehearsal>>

\* One pass of the search for chunks of the old prompt that occur later in
\* the new one: a long enough match is moved to its new place.
ReuseChunk ==
  /\ step = "reuse"
  /\ LET head_c == scan[1]
         head_p == scan[2]
         old    == slots[cur].prompt
         new    == slots[cur].task
         at_end == head_c >= Len(old) \/ head_p >= Len(new)
         n_match == common_prefix(SubSeq(old, head_c + 1, Len(old)),
                                  SubSeq(new, head_p + 1, Len(new)))
     IN  \/ at_end /\ step' = "keep" /\ UNCHANGED <<kv, slots, scan>>
         \/ /\ ~at_end /\ n_match < params.n_reuse
            /\ scan' = <<head_c + 1, head_p, scan[3]>>
            /\ UNCHANGED <<kv, slots, step>>
         \/ /\ ~at_end /\ n_match >= params.n_reuse
            /\ kv' = seq_add(seq_rm(kv, cur, head_p, head_c),
                             cur, head_c, head_c + n_match, head_p - head_c)
            /\ slots' = [slots EXCEPT ![cur].prompt =
                 [i \in 1 .. Len(old) |-> IF i \in head_p + 1 .. head_p + n_match
                                          THEN old[i + head_c - head_p] ELSE old[i]]]
            /\ scan' = <<head_c + n_match, head_p + n_match, scan[3] + n_match>>
            /\ UNCHANGED step
  /\ UNCHANGED <<params, taken, cur, batch, view, rehearsal>>

\* Mutant of Kept: whether the window is still there is not looked at.
KeptUnchecked(s, n_past) ==
  IF n_past = Len(slots[s].task) /\ n_past > 0 THEN n_past - 1 ELSE n_past

\* What can stay is dropped again if the window before it is gone; at least
\* one token is left to evaluate.
Kept(s, n_past) ==
  LET pos_min  == seq_pos_min(kv.cells[seq_to_stream(s)], s)
      has_new  == n_past < Len(slots[s].task)
      thold    == Max({0, n_past - params.n_swa - (IF has_new THEN 0 ELSE 1)})
      n        == IF n_past > 0 /\ pos_min >= thold THEN 0 ELSE n_past
  IN  IF n = Len(slots[s].task) /\ n > 0 THEN n - 1 ELSE n

KeepPrefix ==
  /\ step = "keep"
  /\ slots' = [slots EXCEPT ![cur].prompt = SubSeq(@, 1, Kept(cur, scan[3])),
                            ![cur].state = "prompt"]
  /\ step' = "prompt"
  /\ scan' = <<0, 0, 0>>
  /\ UNCHANGED <<kv, params, taken, cur, batch, view, rehearsal>>

\* Removes what the cache holds beyond the prompt and adds tokens.
FillPrompt ==
  /\ step = "prompt"
  /\ slots[cur].state = "prompt" /\ Len(batch) < NBatch
  /\ LET x == slots[cur]
         n == Len(x.prompt)
         m == Min({Len(x.task), n + NBatch - Len(batch)})
     IN  /\ kv' = seq_rm(kv, cur, n, End)
         /\ batch' = batch \o [i \in 1 .. m - n |-> Entry(cur, n + i - 1, x.task[n + i])]
         /\ slots' = [slots EXCEPT
              ![cur].prompt = SubSeq(x.task, 1, m),
              ![cur].state  = IF m = Len(x.task) THEN "done_prompt" ELSE @,
              ![cur].i_batch = IF m = Len(x.task) THEN Len(batch) + m - n ELSE 0]
  /\ Advance("decode")
  /\ UNCHANGED <<params, taken, scan, view, rehearsal>>

SkipPrompt ==
  /\ step = "prompt"
  /\ slots[cur].state \notin {"started", "prompt"} \/ Len(batch) >= NBatch
  /\ Advance("decode")
  /\ UNCHANGED <<kv, params, taken, slots, batch, scan, view, rehearsal>>

(***************************************************************************)
(* The loop over the views, and llama_context::decode                      *)
(***************************************************************************)
EndRound ==
  /\ step = "decode"
  /\ off >= Len(batch)
  /\ step' = "tasks"
  /\ RoundOver
  /\ UNCHANGED <<kv, params, taken, slots, cur, scan>>

ViewSize == Min({n_batch, Len(batch) - off})

\* split_simple and split_equal.  The next ubatch takes the first tokens of
\* the stream of the first token left, and as many of every stream whose
\* first token follows in the order of the streams.
StreamOf(j) == seq_to_stream(batch[j].seq)

OfStream(st) == {j \in left : StreamOf(j) = st}

Together ==
  LET f == StreamOf(Min(left))
      first(st) == Min(OfStream(st))
  IN  {st \in Slots :
         /\ st \in f .. f + NUbatch
         /\ \A x \in f .. st : OfStream(x) # {}
         /\ \A x \in f + 1 .. st : first(x - 1) < first(x)}

NextUbatch ==
  LET T == Together
      n == Min({Cardinality(OfStream(st)) : st \in T}
               \cup {Max({1, NUbatch \div Cardinality(T)})})
  IN  [st \in Slots |-> {j \in left : /\ st \in T /\ StreamOf(j) = st
                                      /\ TokenRank(OfStream(st), j) < n}]

\* decode() applies what is pending and splits the view.
BeginDecode ==
  /\ step = "decode"
  /\ off < Len(batch)
  /\ kv' = update(kv)
  /\ left' = off + 1 .. off + ViewSize
  /\ NoRehearsal
  /\ step' = "prepare"
  /\ UNCHANGED <<params, taken, slots, cur, scan, batch, view>>

\* prepare(): the ubatches are placed one after the other, ...
Prepare ==
  /\ step = "prepare"
  /\ left # {}
  /\ LET ub    == NextUbatch
         sinfo == slot_info(kv, ub)
     IN  \/ /\ Fits(sinfo, ub)
            /\ kv' = apply_ubatch(kv, sinfo, batch)
            /\ left' = left \ UNION {ub[st] : st \in Slots}
            /\ sinfos' = Append(sinfos, sinfo)
            /\ olds' = Append(olds, kv.cells)
            /\ heads' = Append(heads, kv.head)
            /\ UNCHANGED step
         \/ /\ ~Fits(sinfo, ub)
            /\ step' = "give_up"
            /\ UNCHANGED <<kv, left, sinfos, olds, heads>>
  /\ UNCHANGED <<params, taken, slots, cur, scan, batch, view, at>>

Prepared ==
  /\ step = "prepare"
  /\ left = {}
  /\ step' = "restore"
  /\ UNCHANGED <<kv, params, taken, slots, cur, scan, batch, view, rehearsal>>

\* ... and taken back in the opposite order.
RestoreOne ==
  /\ step \in {"restore", "give_up"}
  /\ olds # << >>
  /\ LET n == Len(olds)
     IN  /\ kv' = Restore(kv, olds[n], heads[n], sinfos[n])
         /\ olds' = SubSeq(olds, 1, n - 1)
         /\ heads' = SubSeq(heads, 1, n - 1)
  /\ UNCHANGED <<params, taken, slots, step, cur, scan, batch, view, left, sinfos, at>>

Restored ==
  /\ step \in {"restore", "give_up"}
  /\ olds = << >>
  /\ step' = IF step = "restore" THEN "compute" ELSE "no_slot"
  /\ UNCHANGED <<kv, params, taken, slots, cur, scan, batch, view, rehearsal>>

\* process_ubatch: into the cells that were found in the rehearsal.
ComputeUbatch ==
  /\ step = "compute"
  /\ at <= Len(sinfos)
  /\ kv' = Compute(kv, sinfos[at], batch)
  /\ at' = at + 1
  /\ UNCHANGED <<params, taken, slots, step, cur, scan, batch, view, left, sinfos, olds, heads>>

ComputeFails ==
  /\ step = "compute"
  /\ at <= Len(sinfos)
  /\ params.may_fail
  /\ AbortAll(apply_ubatch(kv, sinfos[at], batch))

\* Mutants of NoSlot: a view of one token is halved as well; a view is
\* tried again as it is.
NoSlotHalvesOne ==
  /\ step = "no_slot"
  /\ n_batch' = n_batch \div 2
  /\ step' = "decode"
  /\ UNCHANGED <<kv, params, taken, slots, cur, scan, batch, off, rehearsal>>

NoSlotRetries ==
  /\ step = "no_slot"
  /\ step' = "decode"
  /\ UNCHANGED <<kv, params, taken, slots, cur, batch, scan, view, rehearsal>>

\* No room: an idle slot is cleared, or the view halved, or all give up.
NoSlot ==
  /\ step = "no_slot"
  /\ LET purgeable == {s \in Slots \ Processing : slots[s].prompt # << >>}
     IN  \/ n_batch = 1 /\ AbortAll(kv)
         \/ /\ n_batch # 1 /\ params.unified /\ purgeable # {}
            /\ kv' = Clear(kv, {Min(purgeable)})
            /\ slots' = [slots EXCEPT ![Min(purgeable)].prompt = << >>]
            /\ step' = "decode"
            /\ UNCHANGED <<params, taken, cur, batch, scan, view, rehearsal>>
         \/ /\ n_batch # 1 /\ ~(params.unified /\ purgeable # {})
            /\ n_batch' = n_batch \div 2
            /\ step' = "decode"
            /\ UNCHANGED <<kv, params, taken, slots, cur, scan, batch, off, rehearsal>>

(***************************************************************************)
(* After a view                                                            *)
(***************************************************************************)
\* Children of a parent whose prompt is done get a copy of its state.
DoneParents(c) == {p \in Slots : /\ slots[p].state = "done_prompt"
                                 /\ slots[p].kind = "parent"
                                 /\ slots[p].family = slots[c].family}

Waiting == {c \in Slots : slots[c].state = "wait_other" /\ DoneParents(c) # {}}

copy_state_to ==
  /\ step = "compute" /\ at > Len(sinfos)
  /\ Waiting # {}
  /\ LET c == Min(Waiting)
         p == CHOOSE x \in DoneParents(c) : TRUE
     IN  /\ kv' = seq_cp(seq_rm(kv, c, 0, End), p, c)
         /\ slots' = [slots EXCEPT ![c].prompt = slots[p].prompt,
                                   ![c].i_batch = slots[p].i_batch,
                                   ![c].state = "done_prompt"]
  /\ UNCHANGED <<params, taken, step, cur, batch, scan, view, rehearsal>>

\* post_decode: a slot whose last token was in the view samples the next
\* one, or its answer is over.
post_decode(over, id) ==
  LET inside == {s \in Slots : /\ slots[s].state \in {"done_prompt", "generating"}
                               /\ slots[s].i_batch \in off + 1 .. off + ViewSize}
  IN  /\ step = "compute" /\ at > Len(sinfos)
      /\ Waiting = {}
      /\ over \subseteq inside
      /\ \A s \in inside : Len(slots[s].prompt) + 1 >= params.n_ctx /\ ~params.ctx_shift
                             => s \in over
      /\ kv' = Clear(kv, over \cap Children)
      /\ slots' = [s \in Slots |->
                    IF s \in over THEN Released(slots[s])
                    ELSE IF s \in inside
                         THEN [slots[s] EXCEPT !.state = "generating", !.sampled = id[s]]
                         ELSE slots[s]]
      /\ off' = off + ViewSize
      /\ n_batch' = NBatch
      /\ left' = {} /\ NoRehearsal
      /\ step' = "decode"
      /\ UNCHANGED <<params, taken, cur, scan, batch>>

TakeTask ==
  \/ \E s \in Slots, toks \in Prompts : launch_slot_with_task(s, toks)
  \/ \E p, c \in Slots, toks \in Prompts : launch_slots_with_parent_task(p, c, toks)
  \/ \E s \in Slots : Cancel(s)

update_slots ==
  \/ BeginRound
  \/ ContextShift
  \/ AddSampled
  \/ StartPrompt
  \/ ReuseChunk
  \/ KeepPrefix
  \/ FillPrompt
  \/ SkipPrompt
  \/ EndRound
  \/ BeginDecode
  \/ Prepare
  \/ Prepared
  \/ RestoreOne
  \/ Restored
  \/ ComputeUbatch
  \/ ComputeFails
  \/ NoSlot
  \/ copy_state_to
  \/ \E over \in SUBSET Slots, id \in [Slots -> Sampled] : post_decode(over, id)

\* The queue waits for a task.
WaitForTask == step = "tasks" /\ Processing = {} /\ UNCHANGED vars

Next == TakeTask \/ update_slots \/ WaitForTask

\* The loop's thread goes on with update_slots for as long as a slot is at
\* work; nothing obliges clients to send or cancel requests.  This is
\* WF_vars(update_slots) with the condition that enables it written out.
Fairness == \/ []<>(step = "tasks" /\ Processing = {})
            \/ []<><<update_slots>>_vars

Spec == Init /\ [][Next]_vars /\ Fairness

-----------------------------------------------------------------------------
(***************************************************************************)
(* Properties                                                              *)
(***************************************************************************)
CellsType ==
  [pos : [Cells -> Positions \cup {-1}], shift : [Cells -> Int],
   seq : [Cells -> SUBSET Slots], used : SUBSET Cells,
   seq_pos : [Slots -> [Positions -> Nat]], has_shift : BOOLEAN]

EntryType == [seq : Slots, pos : Positions, tok : Tokens]

SlotType ==
  [state : {"idle", "started", "wait_other", "prompt", "done_prompt", "generating"},
   kind : {"single", "parent", "child"}, task : Seq(Tokens), prompt : Seq(Tokens),
   sampled : Tokens \cup {NoToken}, i_batch : Nat, family : Nat]

SinfoType == [Slots -> [Cells -> Nat]]

TypeOK ==
  /\ kv \in [cells  : [Slots -> CellsType],
             head   : [Slots -> 0 .. Size],
             copies : Seq(Slots \X Slots),
             data   : [Slots -> [Cells -> [tok : Tokens \cup {NoToken}, at : Int]]]]
  /\ params \in Configs
  /\ slots \in [Slots -> SlotType]
  /\ taken \in 0 .. MaxTasks
  /\ step \in {"tasks", "shift", "sampled", "prompt", "reuse", "keep", "decode",
               "prepare", "restore", "give_up", "compute", "no_slot"}
  /\ cur \in Slots
  /\ batch \in Seq(EntryType)
  /\ scan \in Nat \X Nat \X Nat
  /\ off \in Nat /\ n_batch \in 1 .. NBatch /\ left \in SUBSET Nat /\ at \in Nat
  /\ sinfos \in Seq(SinfoType) /\ olds \in Seq([Slots -> CellsType])
  /\ heads \in Seq([Slots -> 0 .. Size])

\* The bookkeeping of a stream agrees with its cells: the set of used cells,
\* the counts per sequence and position that stand behind seq_pos_min and
\* seq_pos_max, and no cell is kept for no sequence.  Eviction from a sliding
\* window and the reuse of prompts decide by these numbers, and the asserts
\* that guard them are compiled out of a release.
CellsExact ==
  \A st \in Slots :
    LET c == kv.cells[st]
    IN  /\ c.used = {i \in Cells : c.pos[i] # -1}
        /\ \A i \in Cells : c.pos[i] = -1 <=> c.seq[i] = {}
        /\ \A s \in Slots, p \in Positions :
             c.seq_pos[s][p] = Cardinality({i \in Cells : s \in c.seq[i] /\ c.pos[i] = p})

\* The cells a token attends to (set_input_kq_mask).
Visible(e) ==
  LET c == kv.cells[seq_to_stream(e.seq)]
  IN  {i \in Cells : /\ e.seq \in c.seq[i]
                     /\ c.pos[i] <= e.pos
                     /\ ~is_masked_swa(c.pos[i], e.pos)}

\* A token just computed attended to exactly the tokens its slot counts as
\* its prompt: every position of its window once, with the right token and
\* keys rotated for that position, whatever was shared, shifted, copied,
\* evicted, rehearsed or cleared before.
ModelReadsPrompt ==
  step = "compute" /\ at > 1 =>
    \A st \in Slots : \A x \in {i \in Cells : sinfos[at - 1][st][i] # 0} :
      LET e == batch[sinfos[at - 1][st][x]]
          window == {p \in 0 .. e.pos : ~is_masked_swa(p, e.pos)}
      IN  /\ Cardinality(Visible(e)) = Cardinality(window)
          /\ \A p \in window : \E i \in Visible(e) :
               kv.data[st][i] = [tok |-> slots[e.seq].prompt[p + 1], at |-> p]

\* update_slots comes to an end whatever decode answers: views that do not
\* fit are retried with less in the cache or in the view, and every slot
\* whose prompt is done gets its turn.
RoundEnds == step # "tasks" ~> step = "tasks"

\* "context shift cannot be used for shared prompt": a cell that several
\* sequences use is never moved to another position.
SharedNotShifted ==
  [][\A st \in Slots, i \in Cells :
       Cardinality(kv.cells[st].seq[i]) > 1 /\ kv'.cells[st].seq[i] # {} =>
         kv'.cells[st].pos[i] = kv.cells[st].pos[i]]_vars

\* "when the main prompt is processed, activate all child tasks too": a child
\* leaves its wait only once the last token of its parent's prompt has been
\* decoded.
ChildrenAfterPrompt ==
  [][\A c \in Slots :
       slots[c].state = "wait_other" /\ slots'[c].state = "done_prompt" =>
         \E p \in DoneParents(c) : slots[p].i_batch <= off + ViewSize]_vars
=============================================================================
