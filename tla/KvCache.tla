------------------------------- MODULE KvCache -------------------------------
(***************************************************************************)
(* The key/value cache of the inference library: llama_kv_cells, the       *)
(* bookkeeping of one stream of cells, and llama_kv_cache, the operations  *)
(* on it (src/src/llama-kv-cells.h, llama-kv-cache.cpp).  Everything here  *)
(* is an operator on the value of kv; SlotCache calls the operators in the *)
(* order in which the server does.                                         *)
(*                                                                         *)
(* A cell holds the keys and values of one token.  kv.data is what is in   *)
(* the buffer: the token, and the position its keys are rotated for.       *)
(* kv.cells[st] is what the bookkeeping of stream st says of the buffer:   *)
(* pos (-1 for an empty cell), the sequences that use the cell, the shifts *)
(* not yet applied to the buffer, the set of used cells, and for every     *)
(* sequence and position the number of cells that hold it.                 *)
(***************************************************************************)
EXTENDS Integers, Sequences, FiniteSets, FiniteSetsExt

CONSTANTS NSlots,     \* sequences, one per slot of the server
          Size,       \* cells per stream
          NPos,       \* positions are below this number
          Tokens,     \* the vocabulary
          NoToken     \* what a buffer holds before anything is written

ASSUME SizesAssumption ==
  /\ NSlots \in Nat \ {0}
  /\ Size \in Nat \ {0}
  /\ NPos \in Nat \ {0}
  /\ NoToken \notin Tokens

VARIABLES
  kv,       \* cells, heads, pending stream copies and buffers
  params    \* how the process was started; never changes

Slots     == 0 .. NSlots - 1
Cells     == 0 .. Size - 1
Positions == 0 .. NPos - 1
End       == NPos    \* a range up to the end: p1 < 0 in the code

(***************************************************************************)
(* llama_kv_cells                                                          *)
(***************************************************************************)
NoCells ==
  [pos       |-> [i \in Cells |-> -1],
   shift     |-> [i \in Cells |-> 0],
   seq       |-> [i \in Cells |-> {}],
   used      |-> {},
   seq_pos   |-> [s \in Slots |-> [p \in Positions |-> 0]],
   has_shift |-> FALSE]

\* One pass over the cells: new positions, sequences and shifts; the counts
\* go down for the sequences in out at the old position of a cell and up for
\* those in in at its new one, which is what seq_pos_dec, seq_pos_inc,
\* seq_pos_rm and seq_pos_add do cell by cell.
Edit(c, pos, seq, shift, out, in) ==
  [pos   |-> pos,
   shift |-> shift,
   seq   |-> seq,
   used  |-> (c.used \ {i \in Cells : c.pos[i] # -1 /\ pos[i] = -1})
             \cup {i \in Cells : c.pos[i] = -1 /\ pos[i] # -1},
   seq_pos |-> [s \in Slots |-> [p \in Positions |->
        c.seq_pos[s][p]
          - Cardinality({i \in Cells : s \in out[i] /\ c.pos[i] = p})
          + Cardinality({i \in Cells : s \in in[i] /\ pos[i] = p})]],
   has_shift |-> c.has_shift]

\* The cells of sequence s with a position in p0 .. p1 - 1.
Hit(c, s, p0, p1) == {i \in Cells : s \in c.seq[i] /\ c.pos[i] \in p0 .. p1 - 1}

\* Takes sequences away from cells; a cell that loses its last one is empty.
Drop(c, out) ==
  LET gone(i) == out[i] # {} /\ c.seq[i] \subseteq out[i]
  IN  Edit(c, [i \in Cells |-> IF gone(i) THEN -1 ELSE c.pos[i]],
              [i \in Cells |-> c.seq[i] \ out[i]],
              [i \in Cells |-> IF gone(i) THEN 0 ELSE c.shift[i]],
              out, [i \in Cells |-> {}])

Occurring(c, s) == {p \in Positions : c.seq_pos[s][p] # 0}

seq_pos_min(c, s) == IF Occurring(c, s) = {} THEN -1 ELSE Min(Occurring(c, s))

seq_pos_max(c, s) == IF Occurring(c, s) = {} THEN -1 ELSE Max(Occurring(c, s))

(***************************************************************************)
(* llama_kv_cache: changes of the bookkeeping                              *)
(***************************************************************************)
seq_to_stream(s) == IF params.unified THEN 0 ELSE s

\* The cache with other books and heads; the buffers stay.
WithBooks(k, cells, head) ==
  [cells |-> cells, head |-> head, copies |-> k.copies, data |-> k.data]

Freed(c, d) == {i \in Cells : c.pos[i] # -1 /\ d.pos[i] = -1}

\* The head moves down to the first cell that was freed.
Lower(head, freed) ==
  IF freed # {} /\ Min(freed) < head THEN Min(freed) ELSE head

seq_rm(k, s, p0, p1) ==
  LET st == seq_to_stream(s)
      c  == k.cells[st]
      d  == Drop(c, [i \in Cells |-> IF i \in Hit(c, s, p0, p1) THEN {s} ELSE {}])
  IN  WithBooks(k, [k.cells EXCEPT ![st] = d],
                   [k.head EXCEPT ![st] = Lower(@, Freed(c, d))])

\* In one stream the cells are shared.  Between streams they are copied, and
\* the copy of the buffer is left to the next update.
seq_cp(k, src, dst) ==
  LET s0 == seq_to_stream(src)
      s1 == seq_to_stream(dst)
      c  == k.cells[s0]
      has(i) == src \in c.seq[i]
      mark == [i \in Cells |-> IF has(i) THEN {dst} ELSE {}]
      copy == Edit(NoCells, [i \in Cells |-> IF has(i) THEN c.pos[i] ELSE -1],
                   mark, [i \in Cells |-> IF has(i) THEN c.shift[i] ELSE 0],
                   [i \in Cells |-> {}], mark)
  IN  IF s0 = s1
      THEN WithBooks(k, [k.cells EXCEPT ![s0] =
                           Edit(c, c.pos, [i \in Cells |-> c.seq[i] \cup mark[i]],
                                c.shift, [i \in Cells |-> {}], mark)],
                     k.head)
      ELSE [cells  |-> [k.cells EXCEPT ![s1] =
                          [copy EXCEPT !.has_shift = \E i \in Cells :
                                                       has(i) /\ c.shift[i] # 0]],
            head   |-> [k.head EXCEPT ![s1] = k.head[s0]],
            copies |-> Append(k.copies, <<s0, s1>>),
            data   |-> k.data]

\* Mutant of pos_add: the counts follow only where the cell is emptied.
pos_add_keeps_counts(c, hit, d) ==
  LET stays(i) == c.pos[i] + d >= 0
  IN  [Edit(c, [i \in Cells |-> IF i \notin hit THEN c.pos[i]
                                ELSE IF stays(i) THEN c.pos[i] + d ELSE -1],
               [i \in Cells |-> IF i \in hit /\ ~stays(i) THEN {} ELSE c.seq[i]],
               [i \in Cells |-> IF i \notin hit THEN c.shift[i]
                                ELSE IF stays(i) THEN c.shift[i] + d ELSE 0],
               [i \in Cells |-> IF i \in hit /\ ~stays(i) THEN c.seq[i] ELSE {}],
               [i \in Cells |-> {}])
        EXCEPT !.has_shift = @ \/ hit # {}]

\* Moves cells to other positions, for every sequence that uses them; a cell
\* whose position would be negative is emptied.
pos_add(c, hit, d) ==
  LET stays(i) == c.pos[i] + d >= 0
      to(i)    == IF stays(i) THEN c.pos[i] + d ELSE -1
  IN  [Edit(c, [i \in Cells |-> IF i \in hit THEN to(i) ELSE c.pos[i]],
               [i \in Cells |-> IF i \in hit /\ ~stays(i) THEN {} ELSE c.seq[i]],
               [i \in Cells |-> IF i \notin hit THEN c.shift[i]
                                ELSE IF stays(i) THEN c.shift[i] + d ELSE 0],
               [i \in Cells |-> IF i \in hit THEN c.seq[i] ELSE {}],
               [i \in Cells |-> IF i \in hit /\ stays(i) THEN c.seq[i] ELSE {}])
        EXCEPT !.has_shift = @ \/ hit # {}]

seq_add(k, s, p0, p1, d) ==
  LET st == seq_to_stream(s)
      c  == k.cells[st]
      e  == pos_add(c, Hit(c, s, p0, p1), d)
  IN  IF d = 0 \/ p0 = p1 THEN k
      ELSE WithBooks(k, [k.cells EXCEPT ![st] = e],
                     [k.head EXCEPT ![st] = IF Freed(c, e) = {} THEN 0
                                            ELSE Min(Freed(c, e))])

(***************************************************************************)
(* llama_kv_cache: update applies what is pending to the buffers           *)
(***************************************************************************)
\* The copies are made in their order: a later one sees the earlier ones.
CopyBuffers(data, copies) ==
  LET after[n \in 0 .. Len(copies)] ==
        IF n = 0 THEN data
        ELSE [after[n - 1] EXCEPT ![copies[n][2]] = after[n - 1][copies[n][1]]]
  IN  after[Len(copies)]

ShiftBuffer(c, buf) ==
  [i \in Cells |-> IF c.pos[i] = -1 THEN buf[i]
                   ELSE [buf[i] EXCEPT !.at = @ + c.shift[i]]]

reset_shift(c) == [c EXCEPT !.has_shift = FALSE, !.shift = [i \in Cells |-> 0]]

update(k) ==
  LET copied   == CopyBuffers(k.data, k.copies)
      do_shift == \E st \in Slots : k.cells[st].has_shift
  IN  [cells  |-> IF do_shift THEN [st \in Slots |-> reset_shift(k.cells[st])]
                              ELSE k.cells,
       head   |-> k.head,
       copies |-> << >>,
       data   |-> IF do_shift
                  THEN [st \in Slots |-> ShiftBuffer(k.cells[st], copied[st])]
                  ELSE copied]

(***************************************************************************)
(* llama_kv_cache: finding and filling cells for the tokens of a ubatch.   *)
(* A ubatch gives every stream a set of places in the batch; slot_info     *)
(* says for every cell which place it is found for, 0 if for none.         *)
(***************************************************************************)
is_masked_swa(p0, p1) == params.n_swa > 0 /\ p1 - p0 >= params.n_swa

\* Empty, or used by one sequence whose window has moved past it.
can_use(c, i) ==
  \/ c.pos[i] = -1
  \/ \E s \in Slots : /\ c.seq[i] = {s}
                      /\ is_masked_swa(c.pos[i], seq_pos_max(c, s) + 1)

\* Where the search begins: at the head, or at 0 if much before it is free.
SearchFrom(c, head, n) == IF head > Cardinality(c.used) + 2 * n THEN 0 ELSE head

\* How many usable cells the search meets before cell i, and how many tokens
\* of the ubatch come before the one at place j.
CellRank(c, from, i) ==
  Cardinality({x \in Cells : can_use(c, x) /\ (x - from) % Size < (i - from) % Size})

TokenRank(J, j) == Cardinality({x \in J : x < j})

\* The n-th usable cell is for the n-th token.
find_slot(c, head, J) ==
  LET from   == SearchFrom(c, head, Cardinality(J))
      for(i) == {j \in J : TokenRank(J, j) = CellRank(c, from, i)}
  IN  [i \in Cells |-> IF can_use(c, i) /\ for(i) # {} THEN CHOOSE j \in for(i) : TRUE
                       ELSE 0]

slot_info(k, ub) == [st \in Slots |-> find_slot(k.cells[st], k.head[st], ub[st])]

Fits(sinfo, ub) == \A st \in Slots : ub[st] \subseteq {sinfo[st][i] : i \in Cells}

\* Writes the tokens toks of the batch into the cells found for them, ...
Emplace(c, idx, toks) ==
  LET mine == [i \in Cells |-> IF idx[i] # 0 THEN {toks[idx[i]].seq} ELSE {}]
  IN  Edit(c, [i \in Cells |-> IF idx[i] # 0 THEN toks[idx[i]].pos ELSE c.pos[i]],
              [i \in Cells |-> IF idx[i] # 0 THEN mine[i] ELSE c.seq[i]],
              [i \in Cells |-> IF idx[i] # 0 THEN 0 ELSE c.shift[i]],
              [i \in Cells |-> IF idx[i] # 0 THEN c.seq[i] ELSE {}],
              mine)

\* ... and takes from the sequences of cells that were overwritten every
\* position at or below the overwritten one.
Purge(c, d, idx) ==
  Drop(d, [i \in Cells |->
             {s \in d.seq[i] : \E x \in Cells : /\ idx[x] # 0 /\ c.seq[x] = {s}
                                                /\ d.pos[i] <= c.pos[x]}])

apply_ubatch(k, sinfo, toks) ==
  LET used(st)   == {i \in Cells : sinfo[st][i] # 0}
      placed(st) == Purge(k.cells[st], Emplace(k.cells[st], sinfo[st], toks), sinfo[st])
      last(st)   == CHOOSE i \in used(st) : \A x \in used(st) : sinfo[st][x] <= sinfo[st][i]
  IN  WithBooks(k,
        [st \in Slots |-> IF used(st) = {} THEN k.cells[st] ELSE placed(st)],
        [st \in Slots |-> IF used(st) = {} THEN k.head[st] ELSE last(st) + 1])

\* Computing the ubatch writes its tokens into the buffer.
Compute(k, sinfo, toks) ==
  [apply_ubatch(k, sinfo, toks) EXCEPT
    !.data = [st \in Slots |-> [i \in Cells |->
                IF sinfo[st][i] # 0
                THEN [tok |-> toks[sinfo[st][i]].tok, at |-> toks[sinfo[st][i]].pos]
                ELSE @[st][i]]]]

\* prepare() puts back the cells it filled, from the copy it kept of them.
\* The heads kept are those of all streams, but they are looked up by the
\* place of a stream within the ubatch.
Restore(k, old, heads, sinfo) ==
  LET in_ub    == {st \in Slots : \E i \in Cells : sinfo[st][i] # 0}
      place(st) == Cardinality({x \in in_ub : x < st})
      back(c, o, idx) ==
        Edit(c, [i \in Cells |-> IF idx[i] # 0 THEN o.pos[i] ELSE c.pos[i]],
                [i \in Cells |-> IF idx[i] # 0 THEN o.seq[i] ELSE c.seq[i]],
                c.shift,
                [i \in Cells |-> IF idx[i] # 0 THEN c.seq[i] ELSE {}],
                [i \in Cells |-> IF idx[i] # 0 THEN o.seq[i] ELSE {}])
  IN  WithBooks(k,
        [st \in Slots |-> back(k.cells[st], old[st], sinfo[st])],
        [st \in Slots |-> IF st \in in_ub THEN heads[place(st)] ELSE k.head[st]])

EmptyCache ==
  [cells  |-> [st \in Slots |-> NoCells],
   head   |-> [st \in Slots |-> 0],
   copies |-> << >>,
   data   |-> [st \in Slots |-> [i \in Cells |-> [tok |-> NoToken, at |-> 0]]]]
=============================================================================
