--------------------------- MODULE SlotCacheProofs ---------------------------
(***************************************************************************)
(* The bookkeeping of the key/value cache is exact for any number of       *)
(* slots, cells, positions and tokens, and however the server interleaves  *)
(* requests, shifts, copies, rehearsals and failures: a proof of           *)
(* CellsExact, and of TypeOK on top of it.  Without shared cells and       *)
(* without sliding window, every token also reads its own prompt: a proof  *)
(* of ModelReadsPrompt.                                                    *)
(***************************************************************************)
EXTENDS SlotCache, FiniteSetTheorems, FunctionTheorems, TLAPS

\* The books of one stream.
Exact(c) ==
  /\ c.used = {i \in Cells : c.pos[i] # -1}
  /\ \A i \in Cells : c.pos[i] = -1 <=> c.seq[i] = {}
  /\ \A s \in Slots, p \in Positions :
       c.seq_pos[s][p] = Cardinality({i \in Cells : s \in c.seq[i] /\ c.pos[i] = p})

\* New positions and sequences for the cells of a stream that agree with what
\* is counted down and up for them.
Consistent(c, pos, seq, out, in) ==
  /\ pos \in [Cells -> Positions \cup {-1}]
  /\ seq \in [Cells -> SUBSET Slots]
  /\ \A i \in Cells : pos[i] = -1 <=> seq[i] = {}
  /\ \A i \in Cells : out[i] \subseteq c.seq[i] /\ in[i] \subseteq seq[i]
  /\ \A i \in Cells :
       \/ pos[i] = c.pos[i] /\ seq[i] = (c.seq[i] \ out[i]) \cup in[i]
            /\ in[i] \cap (c.seq[i] \ out[i]) = {}
       \/ pos[i] = -1 /\ out[i] = c.seq[i] /\ in[i] = {}
       \/ out[i] = c.seq[i] /\ in[i] = seq[i]

\* There are finitely many cells, so they can be counted.
LEMMA CellsFinite == IsFiniteSet(Cells) /\ \A S \in SUBSET Cells : IsFiniteSet(S)
<1>1. 0 \in Int /\ Size - 1 \in Int
  BY SizesAssumption
<1>2. IsFiniteSet(Cells)
  BY <1>1, FS_Interval DEF Cells
<1> QED BY <1>2, FS_Subset

\* A pass over the cells keeps the books exact.
LEMMA EditExact ==
  ASSUME NEW c \in CellsType, Exact(c), NEW pos, NEW seq, NEW shift \in [Cells -> Int],
         NEW out, NEW in, Consistent(c, pos, seq, out, in)
  PROVE  /\ Edit(c, pos, seq, shift, out, in) \in CellsType
         /\ Exact(Edit(c, pos, seq, shift, out, in))
<1> DEFINE d == Edit(c, pos, seq, shift, out, in)
           Old(s, p) == {i \in Cells : s \in c.seq[i] /\ c.pos[i] = p}
           Out(s, p) == {i \in Cells : s \in out[i] /\ c.pos[i] = p}
           In(s, p)  == {i \in Cells : s \in in[i] /\ pos[i] = p}
           New(s, p) == {i \in Cells : s \in seq[i] /\ pos[i] = p}
<1>1. ASSUME NEW s \in Slots, NEW p \in Positions
      PROVE  Cardinality(New(s, p))
               = c.seq_pos[s][p] - Cardinality(Out(s, p)) + Cardinality(In(s, p))
  <2>1. Out(s, p) \subseteq Old(s, p)
    BY DEF Consistent
  <2>2. p # -1
    BY SizesAssumption DEF Positions
  <2>3. New(s, p) = (Old(s, p) \ Out(s, p)) \cup In(s, p)
    BY <2>2 DEF Consistent
  <2>4. (Old(s, p) \ Out(s, p)) \cap In(s, p) = {}
    BY <2>2 DEF Consistent
  <2>5. /\ IsFiniteSet(Old(s, p)) /\ IsFiniteSet(Out(s, p)) /\ IsFiniteSet(In(s, p))
        /\ IsFiniteSet(Old(s, p) \ Out(s, p))
    BY CellsFinite
  <2>6. Cardinality(Old(s, p) \ Out(s, p)) = Cardinality(Old(s, p)) - Cardinality(Out(s, p))
    <3>1. Old(s, p) \cap Out(s, p) = Out(s, p)
      BY <2>1
    <3> QED BY <3>1, <2>5, FS_Difference
  <2>7. Cardinality(New(s, p)) = Cardinality(Old(s, p) \ Out(s, p)) + Cardinality(In(s, p))
    <3>1. /\ Cardinality(Old(s, p) \ Out(s, p)) \in Nat
          /\ Cardinality(In(s, p)) \in Nat
      BY <2>5, FS_CardinalityType
    <3>2. Cardinality((Old(s, p) \ Out(s, p)) \cap In(s, p)) = 0
      BY <2>4, FS_EmptySet
    <3> DEFINE A == Old(s, p) \ Out(s, p)
               B == In(s, p)
    <3>3. Cardinality(A \cup B) = Cardinality(A) + Cardinality(B) - Cardinality(A \cap B)
      <4> HIDE DEF A, B
      <4> QED BY <2>5, FS_Union DEF A, B
    <3>4. Cardinality(A \cup B) = Cardinality(A) + Cardinality(B)
      <4> HIDE DEF Old, Out, In, New
      <4> QED BY <3>1, <3>2, <3>3
    <3> QED BY <3>4, <2>3
  <2>8. c.seq_pos[s][p] = Cardinality(Old(s, p))
    BY DEF Exact
  <2>9. /\ Cardinality(Old(s, p)) \in Nat /\ Cardinality(Out(s, p)) \in Nat
        /\ Cardinality(In(s, p)) \in Nat
    BY <2>5, FS_CardinalityType
  <2> HIDE DEF Old, Out, In, New
  <2> QED BY <2>6, <2>7, <2>8, <2>9
<1>2. ASSUME NEW s \in Slots, NEW p \in Positions
      PROVE  d.seq_pos[s][p] = Cardinality(New(s, p)) /\ Cardinality(New(s, p)) \in Nat
  <2>1. d.seq_pos[s][p]
          = c.seq_pos[s][p] - Cardinality(Out(s, p)) + Cardinality(In(s, p))
    BY DEF Edit, CellsType
  <2>2. Cardinality(New(s, p)) \in Nat
    BY CellsFinite, FS_CardinalityType
  <2> QED BY <2>1, <2>2, <1>1
<1>3. /\ d.pos = pos /\ d.seq = seq /\ d.shift = shift /\ d.has_shift = c.has_shift
      /\ d.used = {i \in Cells : pos[i] # -1}
  BY DEF Edit, CellsType, Exact
<1>4. d.seq_pos \in [Slots -> [Positions -> Nat]]
  <2>1. d.seq_pos = [s \in Slots |-> [p \in Positions |->
           c.seq_pos[s][p] - Cardinality(Out(s, p)) + Cardinality(In(s, p))]]
    BY DEF Edit, CellsType
  <2> HIDE DEF d, Out, In, New
  <2> QED BY <2>1, <1>1, <1>2
<1>5. d \in CellsType
  <2>1. d = [pos |-> d.pos, shift |-> d.shift, seq |-> d.seq, used |-> d.used,
             seq_pos |-> d.seq_pos, has_shift |-> d.has_shift]
    BY DEF Edit, CellsType
  <2> HIDE DEF d
  <2> QED BY <2>1, <1>3, <1>4 DEF CellsType, Consistent
<1>6. Exact(d)
  <2>1. \A s \in Slots, p \in Positions :
          d.seq_pos[s][p] = Cardinality({i \in Cells : s \in d.seq[i] /\ d.pos[i] = p})
    BY <1>2, <1>3
  <2> HIDE DEF d
  <2> QED BY <2>1, <1>3 DEF Exact, Consistent
<1> QED BY <1>5, <1>6

-----------------------------------------------------------------------------
(***************************************************************************)
(* The operators of the cache                                              *)
(***************************************************************************)
\* The books of an empty stream are exact (reset).
LEMMA NoCellsExact == NoCells \in CellsType /\ Exact(NoCells)
<1>1. NoCells \in CellsType
  BY DEF NoCells, CellsType
<1>2. \A s \in Slots, p \in Positions :
        {i \in Cells : s \in NoCells.seq[i] /\ NoCells.pos[i] = p} = {}
  BY DEF NoCells
<1>3. \A s \in Slots, p \in Positions : NoCells.seq_pos[s][p] = 0
  BY DEF NoCells
<1>4. /\ NoCells.used = {i \in Cells : NoCells.pos[i] # -1}
      /\ \A i \in Cells : NoCells.pos[i] = -1 <=> NoCells.seq[i] = {}
  BY DEF NoCells
<1>5. Cardinality({}) = 0
  BY FS_EmptySet
<1>6. \A s \in Slots, p \in Positions : NoCells.seq_pos[s][p] =
        Cardinality({i \in Cells : s \in NoCells.seq[i] /\ NoCells.pos[i] = p})
  <2> HIDE DEF NoCells
  <2> QED BY <1>2, <1>3, <1>5
<1> QED BY <1>1, <1>4, <1>6 DEF Exact

\* Taking sequences away from cells (seq_rm, rm) keeps the books exact.
LEMMA DropExact ==
  ASSUME NEW c \in CellsType, Exact(c), NEW out \in [Cells -> SUBSET Slots],
         \A i \in Cells : out[i] \subseteq c.seq[i]
  PROVE  Drop(c, out) \in CellsType /\ Exact(Drop(c, out))
<1> DEFINE gone(i) == out[i] # {} /\ c.seq[i] \subseteq out[i]
           pos   == [i \in Cells |-> IF gone(i) THEN -1 ELSE c.pos[i]]
           seq   == [i \in Cells |-> c.seq[i] \ out[i]]
           shift == [i \in Cells |-> IF gone(i) THEN 0 ELSE c.shift[i]]
           none  == [i \in Cells |-> {}]
<1>1. Drop(c, out) = Edit(c, pos, seq, shift, out, none)
  BY DEF Drop
<1>2. shift \in [Cells -> Int]
  BY DEF CellsType
<1>3. Consistent(c, pos, seq, out, none)
  BY DEF Consistent, CellsType, Exact
<1> HIDE DEF pos, seq, shift, none
<1> QED BY <1>1, <1>2, <1>3, EditExact

\* A cell that is written is written for a sequence and a position.
Writes(idx, toks) ==
  /\ idx \in [Cells -> Nat]
  /\ \A i \in Cells : idx[i] # 0 => /\ toks[idx[i]].seq \in Slots
                                    /\ toks[idx[i]].pos \in Positions

\* Writing tokens into the cells found for them (pos_set, seq_add of
\* llama_kv_cells) keeps the books exact, whoever the cells belonged to.
LEMMA EmplaceExact ==
  ASSUME NEW c \in CellsType, Exact(c), NEW idx, NEW toks, Writes(idx, toks)
  PROVE  Emplace(c, idx, toks) \in CellsType /\ Exact(Emplace(c, idx, toks))
<1> DEFINE mine  == [i \in Cells |-> IF idx[i] # 0 THEN {toks[idx[i]].seq} ELSE {}]
           pos   == [i \in Cells |-> IF idx[i] # 0 THEN toks[idx[i]].pos ELSE c.pos[i]]
           seq   == [i \in Cells |-> IF idx[i] # 0 THEN mine[i] ELSE c.seq[i]]
           shift == [i \in Cells |-> IF idx[i] # 0 THEN 0 ELSE c.shift[i]]
           out   == [i \in Cells |-> IF idx[i] # 0 THEN c.seq[i] ELSE {}]
<1>1. Emplace(c, idx, toks) = Edit(c, pos, seq, shift, out, mine)
  BY DEF Emplace
<1>2. shift \in [Cells -> Int]
  BY DEF CellsType
<1>3. Consistent(c, pos, seq, out, mine)
  <2>1. \A p \in Positions : p # -1
    BY SizesAssumption DEF Positions
  <2>2. pos \in [Cells -> Positions \cup {-1}] /\ seq \in [Cells -> SUBSET Slots]
    BY DEF CellsType, Writes
  <2>3. ASSUME NEW i \in Cells
        PROVE  /\ pos[i] = -1 <=> seq[i] = {}
               /\ out[i] \subseteq c.seq[i] /\ mine[i] \subseteq seq[i]
               /\ \/ pos[i] = c.pos[i] /\ seq[i] = (c.seq[i] \ out[i]) \cup mine[i]
                       /\ mine[i] \cap (c.seq[i] \ out[i]) = {}
                  \/ pos[i] = -1 /\ out[i] = c.seq[i] /\ mine[i] = {}
                  \/ out[i] = c.seq[i] /\ mine[i] = seq[i]
    <3>1. CASE idx[i] # 0
      BY <2>1, <3>1 DEF Writes
    <3>2. CASE idx[i] = 0
      BY <3>2 DEF Exact
    <3> QED BY <3>1, <3>2
  <2> HIDE DEF mine, pos, seq, out
  <2> QED BY <2>2, <2>3 DEF Consistent
<1> HIDE DEF mine, pos, seq, shift, out
<1> QED BY <1>1, <1>2, <1>3, EditExact

\* Purging what lies below an overwritten position (the end of apply_ubatch)
\* keeps the books exact.
LEMMA PurgeExact ==
  ASSUME NEW c, NEW d \in CellsType, Exact(d), NEW idx
  PROVE  Purge(c, d, idx) \in CellsType /\ Exact(Purge(c, d, idx))
<1> DEFINE out == [i \in Cells |->
             {s \in d.seq[i] : \E x \in Cells : /\ idx[x] # 0 /\ c.seq[x] = {s}
                                                /\ d.pos[i] <= c.pos[x]}]
<1>1. Purge(c, d, idx) = Drop(d, out)
  BY DEF Purge
<1>2. out \in [Cells -> SUBSET Slots] /\ \A i \in Cells : out[i] \subseteq d.seq[i]
  BY DEF CellsType
<1> HIDE DEF out
<1> QED BY <1>1, <1>2, DropExact

\* Moving cells down (pos_add) keeps the books exact, for cells that become
\* empty and for those used by several sequences too.
LEMMA PosAddExact ==
  ASSUME NEW c \in CellsType, Exact(c), NEW d \in Int, d <= 0,
         NEW hit \in SUBSET Cells, \A i \in hit : c.pos[i] \in Positions
  PROVE  pos_add(c, hit, d) \in CellsType /\ Exact(pos_add(c, hit, d))
<1> DEFINE stays(i) == c.pos[i] + d >= 0
           to(i)    == IF stays(i) THEN c.pos[i] + d ELSE -1
           pos == [i \in Cells |-> IF i \in hit THEN to(i) ELSE c.pos[i]]
           seq == [i \in Cells |-> IF i \in hit /\ ~stays(i) THEN {} ELSE c.seq[i]]
           shift == [i \in Cells |-> IF i \notin hit THEN c.shift[i]
                                     ELSE IF stays(i) THEN c.shift[i] + d ELSE 0]
           out == [i \in Cells |-> IF i \in hit THEN c.seq[i] ELSE {}]
           in  == [i \in Cells |-> IF i \in hit /\ stays(i) THEN c.seq[i] ELSE {}]
           e   == Edit(c, pos, seq, shift, out, in)
<1>1. pos_add(c, hit, d) = [e EXCEPT !.has_shift = @ \/ hit # {}]
  BY DEF pos_add
<1>2. shift \in [Cells -> Int]
  BY DEF CellsType
<1>3. Consistent(c, pos, seq, out, in)
  <2>1. \A p \in Positions : p \in Int /\ p >= 0 /\ (p + d >= 0 => p + d \in Positions)
    BY SizesAssumption DEF Positions
  <2>2. pos \in [Cells -> Positions \cup {-1}] /\ seq \in [Cells -> SUBSET Slots]
    BY <2>1 DEF CellsType
  <2>3. ASSUME NEW i \in Cells
        PROVE  /\ pos[i] = -1 <=> seq[i] = {}
               /\ out[i] \subseteq c.seq[i] /\ in[i] \subseteq seq[i]
               /\ \/ pos[i] = c.pos[i] /\ seq[i] = (c.seq[i] \ out[i]) \cup in[i]
                       /\ in[i] \cap (c.seq[i] \ out[i]) = {}
                  \/ pos[i] = -1 /\ out[i] = c.seq[i] /\ in[i] = {}
                  \/ out[i] = c.seq[i] /\ in[i] = seq[i]
    <3>1. CASE i \in hit /\ stays(i)
      BY <2>1, <3>1 DEF Exact
    <3>2. CASE i \in hit /\ ~stays(i)
      BY <3>2
    <3>3. CASE i \notin hit
      BY <3>3 DEF Exact
    <3> QED BY <3>1, <3>2, <3>3
  <2> HIDE DEF pos, seq, out, in
  <2> QED BY <2>2, <2>3 DEF Consistent
<1>4. e \in CellsType /\ Exact(e)
  <2> HIDE DEF pos, seq, shift, out, in
  <2> QED BY <1>2, <1>3, EditExact
<1> DEFINE f == [e EXCEPT !.has_shift = @ \/ hit # {}]
<1>5. /\ f.pos = e.pos /\ f.seq = e.seq /\ f.used = e.used /\ f.seq_pos = e.seq_pos
      /\ f \in CellsType
  <2> HIDE DEF e
  <2> QED BY <1>4 DEF CellsType
<1> HIDE DEF e, f
<1> QED BY <1>1, <1>4, <1>5 DEF Exact, f

-----------------------------------------------------------------------------
(***************************************************************************)
(* The operations of the cache, on the books of all streams                *)
(***************************************************************************)
Books(cs) == cs \in [Slots -> CellsType] /\ \A st \in Slots : Exact(cs[st])

\* Every sequence has a stream.
LEMMA StreamType == \A s \in Slots : seq_to_stream(s) \in Slots
BY SizesAssumption DEF seq_to_stream, Slots

\* seq_rm keeps the books of all streams exact.
LEMMA SeqRmBooks ==
  ASSUME NEW k, Books(k.cells), NEW s \in Slots, NEW p0, NEW p1
  PROVE  Books(seq_rm(k, s, p0, p1).cells)
<1> DEFINE st  == seq_to_stream(s)
           c   == k.cells[st]
           out == [i \in Cells |-> IF i \in Hit(c, s, p0, p1) THEN {s} ELSE {}]
<1>1. st \in Slots /\ c \in CellsType /\ Exact(c)
  BY StreamType DEF Books
<1>2. out \in [Cells -> SUBSET Slots] /\ \A i \in Cells : out[i] \subseteq c.seq[i]
  BY DEF Hit
<1>3. Drop(c, out) \in CellsType /\ Exact(Drop(c, out))
  <2> HIDE DEF c, out
  <2> QED BY <1>1, <1>2, DropExact
<1>4. seq_rm(k, s, p0, p1).cells = [k.cells EXCEPT ![st] = Drop(c, out)]
  BY DEF seq_rm, WithBooks
<1> HIDE DEF c, out, st
<1> QED BY <1>1, <1>3, <1>4 DEF Books

\* A sequence that was removed as a whole is in no cell of its stream.
LEMMA SeqRmAll ==
  ASSUME NEW k, Books(k.cells), NEW s \in Slots
  PROVE  \A i \in Cells : s \notin seq_rm(k, s, 0, End).cells[seq_to_stream(s)].seq[i]
<1> DEFINE st  == seq_to_stream(s)
           c   == k.cells[st]
           out == [i \in Cells |-> IF i \in Hit(c, s, 0, End) THEN {s} ELSE {}]
<1>1. st \in Slots /\ c \in CellsType /\ Exact(c)
  BY StreamType DEF Books
<1>2. seq_rm(k, s, 0, End).cells = [k.cells EXCEPT ![st] = Drop(c, out)]
  BY DEF seq_rm, WithBooks
<1>3. \A i \in Cells : Drop(c, out).seq[i] = c.seq[i] \ out[i]
  BY DEF Drop, Edit
<1>4. \A i \in Cells : s \in c.seq[i] => out[i] = {s}
  <2> SUFFICES ASSUME NEW i \in Cells, s \in c.seq[i] PROVE i \in Hit(c, s, 0, End)
    OBVIOUS
  <2>1. c.pos[i] # -1 /\ c.pos[i] \in Positions \cup {-1}
    BY <1>1 DEF Exact, CellsType
  <2> HIDE DEF c
  <2> QED BY <2>1, SizesAssumption DEF Hit, Positions, End
<1>5. k.cells \in [Slots -> CellsType]
  BY DEF Books
<1> HIDE DEF c, out, st
<1> QED BY <1>1, <1>2, <1>3, <1>4, <1>5 DEF st

\* seq_add with a shift that is not positive keeps the books exact.
LEMMA SeqAddBooks ==
  ASSUME NEW k, Books(k.cells), NEW s \in Slots, NEW p0, NEW p1, NEW d \in Int, d <= 0
  PROVE  Books(seq_add(k, s, p0, p1, d).cells)
<1> DEFINE st == seq_to_stream(s)
           c  == k.cells[st]
           e  == pos_add(c, Hit(c, s, p0, p1), d)
<1>1. st \in Slots /\ c \in CellsType /\ Exact(c)
  BY StreamType DEF Books
<1>2. /\ Hit(c, s, p0, p1) \in SUBSET Cells
      /\ \A i \in Hit(c, s, p0, p1) : c.pos[i] \in Positions
  BY <1>1 DEF Hit, Exact, CellsType
<1>3. e \in CellsType /\ Exact(e)
  <2> HIDE DEF c
  <2> QED BY <1>1, <1>2, PosAddExact
<1>4. seq_add(k, s, p0, p1, d).cells = IF d = 0 \/ p0 = p1 THEN k.cells
                                       ELSE [k.cells EXCEPT ![st] = e]
  BY DEF seq_add, WithBooks
<1> HIDE DEF c, e, st
<1> QED BY <1>1, <1>3, <1>4 DEF Books

\* seq_cp to a sequence that is in no cell keeps the books exact, within a
\* stream and between streams.
LEMMA SeqCpBooks ==
  ASSUME NEW k, Books(k.cells), NEW src \in Slots, NEW dst \in Slots,
         \A i \in Cells : dst \notin k.cells[seq_to_stream(dst)].seq[i]
  PROVE  Books(seq_cp(k, src, dst).cells)
<1> DEFINE s0 == seq_to_stream(src)
           s1 == seq_to_stream(dst)
           c  == k.cells[s0]
           mark == [i \in Cells |-> IF src \in c.seq[i] THEN {dst} ELSE {}]
           none == [i \in Cells |-> {}]
<1>1. /\ s0 \in Slots /\ s1 \in Slots /\ c \in CellsType /\ Exact(c)
      /\ c.pos \in [Cells -> Positions \cup {-1}] /\ c.seq \in [Cells -> SUBSET Slots]
      /\ c.shift \in [Cells -> Int]
  BY StreamType DEF Books, CellsType
<1>2. CASE s0 = s1
  <2> DEFINE seq == [i \in Cells |-> c.seq[i] \cup mark[i]]
             e == Edit(c, c.pos, seq, c.shift, none, mark)
  <2>1. Consistent(c, c.pos, seq, none, mark)
    BY <1>1, <1>2 DEF Consistent, Exact
  <2>2. e \in CellsType /\ Exact(e)
    <3> HIDE DEF c, mark, none, seq
    <3> QED BY <1>1, <2>1, EditExact
  <2>3. seq_cp(k, src, dst).cells = [k.cells EXCEPT ![s0] = e]
    BY <1>2 DEF seq_cp, WithBooks
  <2> HIDE DEF e, s0
  <2> QED BY <1>1, <2>2, <2>3 DEF Books
<1>3. CASE s0 # s1
  <2> DEFINE pos == [i \in Cells |-> IF src \in c.seq[i] THEN c.pos[i] ELSE -1]
             shift == [i \in Cells |-> IF src \in c.seq[i] THEN c.shift[i] ELSE 0]
             e == Edit(NoCells, pos, mark, shift, none, mark)
             f == [e EXCEPT !.has_shift = \E i \in Cells : src \in c.seq[i] /\ c.shift[i] # 0]
  <2>1. Consistent(NoCells, pos, mark, none, mark)
    <3>1. \A i \in Cells : NoCells.pos[i] = -1 /\ NoCells.seq[i] = {}
      BY DEF NoCells
    <3> HIDE DEF NoCells, c
    <3> QED BY <1>1, <3>1 DEF Consistent, Exact
  <2>2. shift \in [Cells -> Int]
    BY <1>1
  <2>3. e \in CellsType /\ Exact(e)
    <3> HIDE DEF c, mark, none, pos, shift
    <3> QED BY <2>1, <2>2, EditExact, NoCellsExact
  <2>4. /\ f.pos = e.pos /\ f.seq = e.seq /\ f.used = e.used /\ f.seq_pos = e.seq_pos
        /\ f \in CellsType
    <3> HIDE DEF e, c
    <3> QED BY <2>3 DEF CellsType
  <2>5. Exact(f)
    <3> HIDE DEF e, f
    <3> QED BY <2>3, <2>4 DEF Exact
  <2>6. seq_cp(k, src, dst).cells = [k.cells EXCEPT ![s1] = f]
    BY <1>3 DEF seq_cp
  <2> HIDE DEF f, s1
  <2> QED BY <1>1, <2>4, <2>5, <2>6 DEF Books
<1> QED BY <1>2, <1>3

\* update, which applies shifts and copies to the buffers, keeps the books
\* exact.
LEMMA UpdateBooks == ASSUME NEW k, Books(k.cells) PROVE Books(update(k).cells)
<1>1. ASSUME NEW c \in CellsType, Exact(c)
      PROVE  reset_shift(c) \in CellsType /\ Exact(reset_shift(c))
  <2> DEFINE d == reset_shift(c)
             e == [c EXCEPT !.has_shift = FALSE]
  <2>2. /\ e.pos = c.pos /\ e.seq = c.seq /\ e.used = c.used /\ e.seq_pos = c.seq_pos
        /\ e \in CellsType
    BY DEF CellsType
  <2>3. d = [e EXCEPT !.shift = [i \in Cells |-> 0]]
    BY DEF reset_shift
  <2>1. /\ d.pos = c.pos /\ d.seq = c.seq /\ d.used = c.used /\ d.seq_pos = c.seq_pos
        /\ d \in CellsType
    <3> HIDE DEF d, e
    <3> QED BY <2>2, <2>3 DEF CellsType
  <2> HIDE DEF d
  <2> QED BY <1>1, <2>1 DEF Exact, d
<1>2. \/ update(k).cells = k.cells
      \/ update(k).cells = [st \in Slots |-> reset_shift(k.cells[st])]
  BY DEF update
<1> QED BY <1>1, <1>2 DEF Books

\* apply_ubatch keeps the books exact.
LEMMA ApplyBooks ==
  ASSUME NEW k, Books(k.cells), NEW sinfo, NEW toks,
         \A st \in Slots : Writes(sinfo[st], toks)
  PROVE  Books(apply_ubatch(k, sinfo, toks).cells)
<1> DEFINE used(st)   == {i \in Cells : sinfo[st][i] # 0}
           placed(st) == Purge(k.cells[st], Emplace(k.cells[st], sinfo[st], toks), sinfo[st])
<1>1. \A st \in Slots : placed(st) \in CellsType /\ Exact(placed(st))
  BY EmplaceExact, PurgeExact DEF Books
<1>2. apply_ubatch(k, sinfo, toks).cells
        = [st \in Slots |-> IF used(st) = {} THEN k.cells[st] ELSE placed(st)]
  BY DEF apply_ubatch, WithBooks
<1> HIDE DEF placed, used
<1> QED BY <1>1, <1>2 DEF Books

\* What the copies kept by prepare() owe the restore.
Copied(o) == o \in CellsType /\ \A i \in Cells : o.pos[i] = -1 <=> o.seq[i] = {}

\* Putting back cells from the recovery stack of prepare() keeps the books
\* exact, even if the cells around them have been purged since.
LEMMA RestoreBooks ==
  ASSUME NEW k, Books(k.cells), NEW old, NEW hs, NEW sinfo \in [Slots -> [Cells -> Nat]],
         \A st \in Slots : Copied(old[st])
  PROVE  Books(Restore(k, old, hs, sinfo).cells)
<1> DEFINE pos(c, o, idx) == [i \in Cells |-> IF idx[i] # 0 THEN o.pos[i] ELSE c.pos[i]]
           seq(c, o, idx) == [i \in Cells |-> IF idx[i] # 0 THEN o.seq[i] ELSE c.seq[i]]
           out(c, idx)    == [i \in Cells |-> IF idx[i] # 0 THEN c.seq[i] ELSE {}]
           in(o, idx)     == [i \in Cells |-> IF idx[i] # 0 THEN o.seq[i] ELSE {}]
           back(c, o, idx) == Edit(c, pos(c, o, idx), seq(c, o, idx), c.shift,
                                   out(c, idx), in(o, idx))
<1>1. ASSUME NEW c \in CellsType, Exact(c), NEW o, Copied(o), NEW idx \in [Cells -> Nat]
      PROVE  back(c, o, idx) \in CellsType /\ Exact(back(c, o, idx))
  <2>1. /\ pos(c, o, idx) \in [Cells -> Positions \cup {-1}]
        /\ seq(c, o, idx) \in [Cells -> SUBSET Slots]
        /\ c.shift \in [Cells -> Int]
    BY <1>1 DEF Copied, CellsType
  <2>2. Consistent(c, pos(c, o, idx), seq(c, o, idx), out(c, idx), in(o, idx))
    BY <1>1, <2>1 DEF Consistent, Copied, Exact
  <2> HIDE DEF pos, seq, out, in
  <2> QED BY <1>1, <2>1, <2>2, EditExact
<1>2. Restore(k, old, hs, sinfo).cells
        = [st \in Slots |-> back(k.cells[st], old[st], sinfo[st])]
  BY DEF Restore, WithBooks
<1> HIDE DEF back
<1> QED BY <1>1, <1>2 DEF Books

\* Removing whole sequences keeps the books exact.
LEMMA ClearBooks ==
  ASSUME NEW k, Books(k.cells), NEW S PROVE Books(Clear(k, S).cells)
<1> DEFINE out(st) == [i \in Cells |-> k.cells[st].seq[i] \cap S]
<1>1. ASSUME NEW st \in Slots
      PROVE  Drop(k.cells[st], out(st)) \in CellsType /\ Exact(Drop(k.cells[st], out(st)))
  <2>1. k.cells[st] \in CellsType /\ Exact(k.cells[st])
    BY DEF Books
  <2>2. /\ out(st) \in [Cells -> SUBSET Slots]
        /\ \A i \in Cells : out(st)[i] \subseteq k.cells[st].seq[i]
    BY <2>1 DEF CellsType
  <2> HIDE DEF out
  <2> QED BY <2>1, <2>2, DropExact
<1>2. Clear(k, S).cells = [st \in Slots |-> Drop(k.cells[st], out(st))]
  BY DEF Clear, WithBooks
<1> HIDE DEF out
<1> QED BY <1>1, <1>2 DEF Books

-----------------------------------------------------------------------------
(***************************************************************************)
(* Numbers                                                                 *)
(***************************************************************************)
\* The smaller of two numbers (std::min).
LEMMA MinOfTwo ==
  ASSUME NEW x \in Int, NEW y \in Int
  PROVE  Min({x, y}) = IF x <= y THEN x ELSE y
BY DEF Min

\* The larger of two numbers (std::max).
LEMMA MaxOfTwo ==
  ASSUME NEW x \in Int, NEW y \in Int
  PROVE  Max({x, y}) = IF x >= y THEN x ELSE y
BY DEF Max

\* A set of numbers has a smallest member.
LEMMA MinIsMember ==
  ASSUME NEW S \in SUBSET Nat, S # {}
  PROVE  Min(S) \in S /\ \A y \in S : Min(S) <= y
<1>1. PICK m \in S : \A y \in S : ~(<<y, m>> \in OpToRel(<, Nat))
  BY NatLessThanWellFounded, WFMin
<1>2. ASSUME NEW y \in S PROVE m <= y
  <2>1. y \in Nat /\ m \in Nat /\ ~(y < m)
    BY <1>1 DEF OpToRel
  <2> QED BY <2>1
<1>3. Min(S) \in S /\ \A y \in S : Min(S) <= y
  BY <1>2 DEF Min
<1> QED BY <1>3

\* A bounded set of numbers has a largest member.
LEMMA MaxIsMember ==
  ASSUME NEW n \in Nat, NEW S \in SUBSET (0 .. n), S # {}
  PROVE  Max(S) \in S /\ \A y \in S : y <= Max(S)
<1> DEFINE T == {x \in Nat : n - x \in S}
<1>1. T \in SUBSET Nat /\ T # {}
  <2>1. PICK x \in S : TRUE
    OBVIOUS
  <2>2. n - x \in Nat /\ n - (n - x) = x
    OBVIOUS
  <2> QED BY <2>1, <2>2
<1>2. Min(T) \in T /\ \A y \in T : Min(T) <= y
  <2> HIDE DEF T
  <2> QED BY <1>1, MinIsMember
<1> DEFINE m == Min(T)
<1> HIDE DEF m
<1>3. m \in Nat /\ n - m \in S /\ \A y \in T : m <= y
  BY <1>2 DEF m
<1>4. \A y \in S : n - m >= y
  <2> TAKE y \in S
  <2>1. n - y \in T
    OBVIOUS
  <2>2. m <= n - y
    BY <1>3, <2>1
  <2> QED BY <1>3, <2>2
<1> QED BY <1>3, <1>4 DEF Max

\* A common prefix is no longer than either list (get_common_prefix).
LEMMA CommonPrefix ==
  ASSUME NEW x \in Seq(Tokens), NEW y \in Seq(Tokens)
  PROVE  common_prefix(x, y) \in 0 .. Len(x) /\ common_prefix(x, y) <= Len(y)
<1> DEFINE S == {n \in 0 .. Len(x) : n <= Len(y) /\ \A i \in 1 .. n : x[i] = y[i]}
<1>1. Len(x) \in Nat /\ S \in SUBSET (0 .. Len(x)) /\ S # {}
  <2>1. Len(x) \in Nat /\ Len(y) \in Nat
    OBVIOUS
  <2>2. 0 \in S
    BY <2>1
  <2> QED BY <2>1, <2>2
<1>2. Max(S) \in S
  <2> HIDE DEF S
  <2> QED BY <1>1, MaxIsMember
<1>3. common_prefix(x, y) = Max(S)
  BY DEF common_prefix
<1> QED BY <1>2, <1>3

-----------------------------------------------------------------------------
(***************************************************************************)
(* The inductive invariant.  CellsExact alone is not inductive: a position *)
(* must be one the counts have room for, so prompts must fit the context   *)
(* and a generating slot must have been given room before its token is     *)
(* added; what is found in the rehearsal must be places of the batch, and  *)
(* the recovery stack must hold cells.                                     *)
(***************************************************************************)
SlotsFit ==
  \A s \in Slots :
    /\ Len(slots[s].prompt) < params.n_ctx /\ Len(slots[s].task) < params.n_ctx
    /\ slots[s].state = "prompt" => Len(slots[s].prompt) <= Len(slots[s].task)
    /\ slots[s].state = "generating" => slots[s].sampled \in Tokens

RoomToAdd ==
  \A s \in Slots :
    /\ slots[s].state = "generating"
    /\ (step = "shift" /\ s < cur) \/ (step = "sampled" /\ s >= cur)
    => Len(slots[s].prompt) + 1 < params.n_ctx

ScanFits ==
  /\ scan \in Nat \X Nat \X Nat
  /\ step \in {"reuse", "keep"} =>
       /\ scan[2] = scan[3] /\ scan[2] <= scan[1]
       /\ scan[1] <= Len(slots[cur].prompt) /\ scan[2] <= Len(slots[cur].task)

RehearsalSound ==
  /\ off \in Nat /\ n_batch \in Nat /\ at \in Nat \ {0}
  /\ left \subseteq 1 .. Len(batch)
  /\ sinfos \in Seq(SinfoType)
  /\ \A n \in 1 .. Len(sinfos), st \in Slots, i \in Cells : sinfos[n][st][i] <= Len(batch)
  /\ olds \in Seq([Slots -> CellsType]) /\ Len(olds) <= Len(sinfos)
  /\ \A n \in 1 .. Len(olds), st \in Slots : Copied(olds[n][st])

IInv ==
  /\ Books(kv.cells)
  /\ params \in Configs /\ cur \in Slots
  /\ slots \in [Slots -> SlotType]
  /\ batch \in Seq(EntryType)
  /\ SlotsFit /\ RoomToAdd /\ ScanFits /\ RehearsalSound

CountedInv == IInv /\ taken \in Nat

\* The invariant holds when the server starts.
LEMMA IInvInit == Init => IInv
<1> SUFFICES ASSUME Init PROVE IInv
  OBVIOUS
<1> USE DEF Init
<1>1. Books(kv.cells)
  <2>1. kv.cells = [st \in Slots |-> NoCells]
    BY DEF EmptyCache
  <2> HIDE DEF Init
  <2> QED BY <2>1, NoCellsExact DEF Books
<1>2. params \in Configs /\ cur \in Slots
  BY SizesAssumption DEF Slots
<1>3. slots \in [Slots -> SlotType]
  BY SizesAssumption DEF IdleSlot, SlotType, Slots
<1>4. params.n_ctx \in Nat /\ params.n_ctx > 0
  BY BatchAssumption, SizesAssumption
<1>5. SlotsFit
  BY <1>4 DEF SlotsFit, IdleSlot
<1>6. RoomToAdd /\ ScanFits /\ batch \in Seq(EntryType)
  BY DEF RoomToAdd, ScanFits
<1>7. RehearsalSound
  BY BatchAssumption DEF RehearsalSound
<1> QED BY <1>1, <1>2, <1>3, <1>5, <1>6, <1>7 DEF IInv

\* The sizes a process is started with are numbers, and contexts fit the
\* positions.
LEMMA Contexts ==
  ASSUME params \in Configs
  PROVE  /\ params.n_ctx \in Nat /\ params.n_ctx >= 4 /\ params.n_ctx <= NPos
         /\ params.n_keep \in Nat /\ params.n_discard \in Nat
BY BatchAssumption, SizesAssumption

\* Every cell found in a rehearsal is to be written for a sequence and a
\* position.
LEMMA WritesFound ==
  ASSUME IInv, NEW n \in 1 .. Len(sinfos), NEW st \in Slots
  PROVE  Writes(sinfos[n][st], batch)
<1>1. sinfos[n] \in SinfoType
  BY DEF IInv, RehearsalSound
<1>2. sinfos[n][st] \in [Cells -> Nat]
  BY <1>1 DEF SinfoType
<1>3. ASSUME NEW i \in Cells, sinfos[n][st][i] # 0
      PROVE  /\ batch[sinfos[n][st][i]].seq \in Slots
             /\ batch[sinfos[n][st][i]].pos \in Positions
  <2>1. sinfos[n][st][i] \in 1 .. Len(batch)
    BY <1>2, <1>3 DEF IInv, RehearsalSound
  <2>2. batch[sinfos[n][st][i]] \in EntryType
    BY <2>1 DEF IInv
  <2> QED BY <2>2 DEF EntryType
<1> QED BY <1>2, <1>3 DEF Writes

-----------------------------------------------------------------------------
(***************************************************************************)
(* Every step keeps the invariant                                          *)
(***************************************************************************)
\* A slot that is released or aborted is idle and keeps at most its prompt.
LEMMA ReleasedType ==
  ASSUME NEW x \in SlotType
  PROVE  /\ Released(x) \in SlotType /\ IdleSlot \in SlotType
         /\ Len(Released(x).prompt) <= Len(x.prompt) /\ Released(x).task = << >>
         /\ Released(x).state = "idle" /\ IdleSlot.state = "idle"
         /\ IdleSlot.prompt = << >> /\ IdleSlot.task = << >>
<1>1. 0 \in Slots
  BY SizesAssumption DEF Slots
<1>2. IdleSlot \in SlotType
  BY <1>1 DEF IdleSlot, SlotType
<1>3. /\ IdleSlot.state = "idle" /\ IdleSlot.prompt = << >> /\ IdleSlot.task = << >>
      /\ Len(<< >>) = 0
  BY DEF IdleSlot
<1> DEFINE P == IF x.kind = "child" THEN << >> ELSE x.prompt
<1>4. P \in Seq(Tokens) /\ Len(P) <= Len(x.prompt)
  BY <1>3 DEF SlotType
<1>5. Released(x) = [IdleSlot EXCEPT !.prompt = P]
  BY DEF Released
<1> HIDE DEF P, IdleSlot
<1>6. /\ Released(x) \in SlotType /\ Released(x).prompt = P
      /\ Released(x).task = IdleSlot.task /\ Released(x).state = IdleSlot.state
  BY <1>2, <1>4, <1>5 DEF SlotType
<1> QED BY <1>2, <1>3, <1>4, <1>6

\* Slots that are released, and slots that stay.
LEMMA ReleaseFits ==
  ASSUME IInv, params' = params,
         slots' \in [Slots -> SlotType],
         \A s \in Slots : slots'[s] \in {slots[s], Released(slots[s]), IdleSlot}
  PROVE  SlotsFit'
<1>1. params.n_ctx \in Nat /\ params.n_ctx >= 4
  BY Contexts DEF IInv
<1> SUFFICES ASSUME NEW s \in Slots
    PROVE  /\ Len(slots'[s].prompt) < params.n_ctx /\ Len(slots'[s].task) < params.n_ctx
           /\ slots'[s].state = "prompt" => Len(slots'[s].prompt) <= Len(slots'[s].task)
           /\ slots'[s].state = "generating" => slots'[s].sampled \in Tokens
  BY DEF SlotsFit
<1>2. slots[s] \in SlotType /\ Len(slots[s].prompt) \in Nat
  <2>1. slots[s] \in SlotType
    BY DEF IInv
  <2>2. slots[s].prompt \in Seq(Tokens)
    BY <2>1 DEF SlotType
  <2> QED BY <2>1, <2>2
<1>3. CASE slots'[s] = slots[s]
  BY <1>3 DEF IInv, SlotsFit
<1>4. CASE slots'[s] = Released(slots[s])
  <2>1. /\ Len(Released(slots[s]).prompt) <= Len(slots[s].prompt)
        /\ Released(slots[s]).task = << >> /\ Released(slots[s]).state = "idle"
        /\ Released(slots[s]) \in SlotType
    BY <1>2, ReleasedType
  <2>2. Len(slots[s].prompt) < params.n_ctx
    BY DEF IInv, SlotsFit
  <2>3. Len(Released(slots[s]).prompt) \in Nat /\ Len(<< >>) = 0
    BY <2>1 DEF SlotType
  <2>4. Len(Released(slots[s]).prompt) < params.n_ctx /\ 0 < params.n_ctx
    BY <1>1, <1>2, <2>1, <2>2, <2>3
  <2> QED BY <1>4, <2>1, <2>3, <2>4
<1>5. CASE slots'[s] = IdleSlot
  <2>1. /\ IdleSlot.state = "idle" /\ IdleSlot.prompt = << >> /\ IdleSlot.task = << >>
        /\ Len(<< >>) = 0
    BY DEF IdleSlot
  <2> HIDE DEF IdleSlot
  <2> QED BY <1>1, <1>5, <2>1
<1> QED BY <1>3, <1>4, <1>5

\* A step that leaves the view and the rehearsal alone and only appends to
\* the batch keeps the rehearsal sound.
LEMMA RehearsalKept ==
  ASSUME IInv, UNCHANGED <<view, rehearsal>>, batch' \in Seq(EntryType),
         Len(batch) <= Len(batch')
  PROVE  RehearsalSound'
<1>1. /\ off' = off /\ n_batch' = n_batch /\ left' = left /\ sinfos' = sinfos
      /\ olds' = olds /\ at' = at
  BY DEF view, rehearsal
<1>2. Len(batch) \in Nat /\ Len(batch') \in Nat
  BY DEF IInv
<1>3. left' \subseteq 1 .. Len(batch')
  BY <1>1, <1>2 DEF IInv, RehearsalSound
<1>4. ASSUME NEW n \in 1 .. Len(sinfos), NEW st \in Slots, NEW i \in Cells
      PROVE  sinfos[n][st][i] <= Len(batch')
  <2>1. sinfos[n] \in SinfoType
    BY DEF IInv, RehearsalSound
  <2>2. sinfos[n][st][i] \in Nat
    BY <2>1 DEF SinfoType
  <2>3. sinfos[n][st][i] <= Len(batch)
    BY DEF IInv, RehearsalSound
  <2> QED BY <1>2, <2>2, <2>3
<1> QED BY <1>1, <1>3, <1>4 DEF IInv, RehearsalSound

\* No rehearsal is a sound one.
LEMMA RehearsalCleared ==
  ASSUME NoRehearsal, off' \in Nat, n_batch' \in Nat, left' \subseteq 1 .. Len(batch')
  PROVE  RehearsalSound'
BY DEF NoRehearsal, RehearsalSound

\* Taking and cancelling requests keeps the invariant.
LEMMA TaskSteps ==
  ASSUME IInv, taken \in Nat, TakeTask
  PROVE  IInv'
<1>1. ASSUME NEW s \in Slots, NEW toks \in Prompts, launch_slot_with_task(s, toks)
      PROVE  IInv'
  <2> USE DEF launch_slot_with_task
  <2>1. toks \in Seq(Tokens)
    BY BatchAssumption
  <2> DEFINE x == [slots[s] EXCEPT !.state = "started", !.task = toks]
  <2>10. slots[s] \in SlotType /\ slots' = [slots EXCEPT ![s] = x]
    BY <1>1 DEF IInv
  <2>11. /\ x \in SlotType /\ x.state = "started" /\ x.task = toks
        /\ x.prompt = slots[s].prompt
    <3> DEFINE y == slots[s]
    <3>1. y \in SlotType
      BY <2>10
    <3> HIDE DEF y
    <3> QED BY <2>1, <3>1 DEF SlotType, y
  <2> HIDE DEF x
  <2>12. /\ slots' \in [Slots -> SlotType] /\ slots'[s] = x
        /\ \A t \in Slots \ {s} : slots'[t] = slots[t]
    BY <2>10, <2>11 DEF IInv
  <2>2. slots' \in [Slots -> SlotType]
    BY <2>12
  <2>3. \A t \in Slots : /\ slots'[t].prompt = slots[t].prompt
                         /\ t # s => slots'[t] = slots[t]
    BY <2>11, <2>12
  <2>4. slots'[s].task = toks /\ slots'[s].state = "started"
    BY <2>11, <2>12
  <2>5. params' = params /\ step' = step /\ kv' = kv /\ cur' = cur /\ batch' = batch
        /\ scan' = scan /\ step = "tasks" /\ UNCHANGED <<view, rehearsal>>
        /\ Len(toks) < params.n_ctx
    BY <1>1
  <2> HIDE DEF launch_slot_with_task
  <2>6. SlotsFit'
    BY <2>3, <2>4, <2>5 DEF IInv, SlotsFit
  <2>7. RoomToAdd' /\ ScanFits'
    BY <2>5 DEF IInv, RoomToAdd, ScanFits
  <2>8. RehearsalSound'
    BY <2>5, RehearsalKept DEF IInv
  <2> QED BY <2>2, <2>5, <2>6, <2>7, <2>8 DEF IInv
<1>2. ASSUME NEW p \in Slots, NEW c \in Slots, NEW toks \in Prompts,
             launch_slots_with_parent_task(p, c, toks)
      PROVE  IInv'
  <2> USE DEF launch_slots_with_parent_task
  <2>1. toks \in Seq(Tokens)
    BY BatchAssumption
  <2> DEFINE xp == [slots[p] EXCEPT !.state = "started", !.kind = "parent", !.task = toks,
                                    !.family = taken + 1]
             xc == [slots[c] EXCEPT !.state = "wait_other", !.kind = "child",
                                    !.task = toks, !.family = taken + 1]
  <2>2. /\ slots[p] \in SlotType /\ slots[c] \in SlotType /\ p # c
        /\ slots' = [slots EXCEPT ![p] = xp, ![c] = xc]
    BY <1>2 DEF IInv
  <2>3. /\ xp \in SlotType /\ xp.state = "started" /\ xp.task = toks
        /\ xp.prompt = slots[p].prompt
    <3> DEFINE f == taken + 1
               x == slots[p]
    <3>1. f \in Nat /\ x \in SlotType
      BY <2>2
    <3> HIDE DEF f, x
    <3> QED BY <2>1, <3>1 DEF SlotType, x, f
  <2>4. /\ xc \in SlotType /\ xc.state = "wait_other" /\ xc.task = toks
        /\ xc.prompt = slots[c].prompt
    <3> DEFINE f == taken + 1
               x == slots[c]
    <3>1. f \in Nat /\ x \in SlotType
      BY <2>2
    <3> HIDE DEF f, x
    <3> QED BY <2>1, <3>1 DEF SlotType, x, f
  <2>5. params' = params /\ step' = step /\ kv' = kv /\ cur' = cur /\ batch' = batch
        /\ scan' = scan /\ step = "tasks" /\ UNCHANGED <<view, rehearsal>>
        /\ Len(toks) < params.n_ctx
    BY <1>2
  <2> HIDE DEF launch_slots_with_parent_task, xp, xc
  <2>6. slots' \in [Slots -> SlotType]
    BY <2>2, <2>3, <2>4 DEF IInv
  <2>7. slots'[p] = xp /\ slots'[c] = xc
        /\ \A t \in Slots \ {p, c} : slots'[t] = slots[t]
    BY <2>2 DEF IInv
  <2>8. SlotsFit'
    BY <2>3, <2>4, <2>5, <2>7 DEF IInv, SlotsFit
  <2>9. RoomToAdd' /\ ScanFits'
    BY <2>5 DEF IInv, RoomToAdd, ScanFits
  <2>10. RehearsalSound'
    BY <2>5, RehearsalKept DEF IInv
  <2> QED BY <2>5, <2>6, <2>8, <2>9, <2>10 DEF IInv
<1>3. ASSUME NEW s \in Slots, Cancel(s)
      PROVE  IInv'
  <2>1. Books(kv'.cells)
    BY <1>3, ClearBooks DEF Cancel, release, IInv
  <2>2. \A t \in Slots : slots'[t] \in {slots[t], Released(slots[t]), IdleSlot}
    BY <1>3 DEF Cancel, release
  <2>3. slots' \in [Slots -> SlotType]
    BY <1>3, ReleasedType DEF Cancel, release, IInv
  <2>4. params' = params /\ step' = step /\ cur' = cur /\ batch' = batch /\ scan' = scan
        /\ step = "tasks" /\ UNCHANGED <<view, rehearsal>>
    BY <1>3 DEF Cancel
  <2>5. SlotsFit'
    BY <2>2, <2>3, <2>4, ReleaseFits
  <2>6. RoomToAdd' /\ ScanFits'
    BY <2>4 DEF IInv, RoomToAdd, ScanFits
  <2>7. RehearsalSound'
    BY <2>4, RehearsalKept DEF IInv
  <2> QED BY <2>1, <2>3, <2>4, <2>5, <2>6, <2>7 DEF IInv
<1> QED BY <1>1, <1>2, <1>3 DEF TakeTask

\* A loop over the slots stays within them and ends after the last.
LEMMA AdvanceType ==
  ASSUME cur \in Slots, NEW next, Advance(next)
  PROVE  /\ cur' \in Slots
         /\ \/ cur' = cur + 1 /\ step' = step
            \/ cur' = 0 /\ step' = next /\ cur = NSlots - 1
BY SizesAssumption DEF Advance, Slots

\* The token that is dropped from a full context: one at least, and never
\* so many that none after the kept ones is left.
LEMMA DiscardBounds ==
  ASSUME IInv, NEW n \in Nat, n = params.n_ctx - 1
  PROVE  /\ n_keep \in Nat /\ n_keep <= n - 3
         /\ n_discard(n - n_keep) \in Nat /\ n_discard(n - n_keep) >= 1
         /\ n_keep + n_discard(n - n_keep) < n
<1>1. /\ params.n_ctx \in Nat /\ params.n_ctx >= 4
      /\ params.n_keep \in Nat /\ params.n_discard \in Nat
  BY Contexts DEF IInv
<1>2. n_keep \in Nat /\ n_keep <= n - 3
  BY <1>1, MinOfTwo DEF n_keep
<1> DEFINE n_left == n - n_keep
           want   == IF params.n_discard # 0 THEN params.n_discard ELSE n_left \div 2
<1>3. n_left \in Nat /\ n_left >= 3
  BY <1>2
<1>4. want \in Nat /\ want >= 1
  <2> HIDE DEF n_left
  <2> QED BY <1>1, <1>3
<1>5. Max({0, n_left - 1}) = n_left - 1
  BY <1>3, MaxOfTwo
<1>6. n_discard(n_left) = Min({want, n_left - 1})
  BY <1>5 DEF n_discard
<1>7. n_discard(n_left) = IF want <= n_left - 1 THEN want ELSE n_left - 1
  <2> HIDE DEF want, n_left
  <2> QED BY <1>3, <1>4, <1>6, MinOfTwo
<1>8. n_discard(n_left) \in Nat /\ n_discard(n_left) >= 1 /\ n_discard(n_left) <= n_left - 1
  <2> HIDE DEF want, n_left, n_discard
  <2> QED BY <1>3, <1>4, <1>7
<1> QED BY <1>2, <1>8

\* One slot's turn in the first loop: whatever is done to it, a slot that
\* goes on generating has room for its next token.
LEMMA ShiftSteps ==
  ASSUME IInv, BeginRound \/ ContextShift
  PROVE  IInv'
<1>1. CASE BeginRound
  <2>1. /\ step' = "shift" /\ cur' = 0 /\ UNCHANGED <<kv, params, slots, batch, scan>>
        /\ UNCHANGED <<view, rehearsal>>
    BY <1>1 DEF BeginRound
  <2>2. cur' \in Slots /\ \A s \in Slots : ~(s < 0)
    BY <2>1, SizesAssumption DEF Slots
  <2>3. SlotsFit' /\ RoomToAdd' /\ ScanFits'
    BY <2>1, <2>2 DEF IInv, SlotsFit, RoomToAdd, ScanFits
  <2>4. RehearsalSound'
    BY <2>1, RehearsalKept DEF IInv
  <2> QED BY <2>1, <2>2, <2>3, <2>4 DEF IInv
<1>2. CASE ContextShift
  <2> DEFINE x == slots[cur]
             n == Len(x.prompt)
  <2>1. /\ step = "shift" /\ Advance("sampled")
        /\ UNCHANGED <<params, batch, scan>> /\ UNCHANGED <<view, rehearsal>>
    BY <1>2 DEF ContextShift
  <2>2. cur \in Slots /\ x \in SlotType /\ n \in Nat /\ n < params.n_ctx
        /\ params.n_ctx \in Nat /\ params.n_ctx >= 4
    BY Contexts DEF IInv, SlotType, SlotsFit
  <2>3. /\ Books(kv'.cells)
        /\ slots' \in [Slots -> SlotType]
        /\ \A s \in Slots \ {cur} : slots'[s] = slots[s]
        /\ SlotsFit'
        /\ slots'[cur].state = "generating" => Len(slots'[cur].prompt) + 1 < params.n_ctx
    <3>1. CASE ~Full(x) /\ UNCHANGED <<kv, slots>>
      BY <2>1, <2>2, <3>1 DEF IInv, Full, SlotsFit
    <3>2. CASE Full(x) /\ release({cur})
      <4>1. Books(kv'.cells)
        BY <3>2, ClearBooks DEF release, IInv
      <4>2. /\ \A s \in Slots \ {cur} : slots'[s] = slots[s]
            /\ slots'[cur] = Released(slots[cur])
            /\ slots' \in [Slots -> SlotType]
        BY <2>2, <3>2, ReleasedType DEF release, IInv
      <4>3. SlotsFit'
        BY <4>2, <2>1, ReleaseFits
      <4>4. slots'[cur].state = "idle"
        BY <2>2, <4>2, ReleasedType
      <4> QED BY <4>1, <4>2, <4>3, <4>4
    <3>3. CASE Full(x) /\ ShiftContext(cur)
      <4> DEFINE gone == n_discard(n - n_keep)
                 q    == SubSeq(x.prompt, 1, n_keep) \o SubSeq(x.prompt, n_keep + gone + 1, n)
      <4>1. n = params.n_ctx - 1 /\ x.state = "generating"
        BY <2>2, <3>3 DEF Full
      <4>2. /\ n_keep \in Nat /\ n_keep <= n - 3 /\ gone \in Nat /\ gone >= 1
            /\ n_keep + gone < n
        BY <2>2, <4>1, DiscardBounds
      <4>3. x.prompt \in Seq(Tokens)
        BY <2>2 DEF SlotType
      <4>4. kv' = seq_add(seq_rm(kv, cur, n_keep, n_keep + gone),
                          cur, n_keep + gone, n, -gone)
            /\ slots' = [slots EXCEPT ![cur].prompt = q]
        BY <3>3 DEF ShiftContext
      <4> HIDE DEF gone
      <4>5. q \in Seq(Tokens) /\ Len(q) = n - gone
        <5>1. /\ SubSeq(x.prompt, 1, n_keep) \in Seq(Tokens)
              /\ Len(SubSeq(x.prompt, 1, n_keep)) = n_keep
          BY <2>2, <4>2, <4>3
        <5>2. /\ SubSeq(x.prompt, n_keep + gone + 1, n) \in Seq(Tokens)
              /\ Len(SubSeq(x.prompt, n_keep + gone + 1, n)) = n - (n_keep + gone)
          BY <2>2, <4>2, <4>3
        <5> DEFINE u == SubSeq(x.prompt, 1, n_keep)
                   v == SubSeq(x.prompt, n_keep + gone + 1, n)
        <5>3. u \o v \in Seq(Tokens) /\ Len(u \o v) = Len(u) + Len(v)
          <6> HIDE DEF u, v
          <6> QED BY <5>1, <5>2 DEF u, v
        <5>4. Len(u \o v) = n - gone
          <6> HIDE DEF u, v, n
          <6> QED BY <2>2, <4>2, <5>1, <5>2, <5>3 DEF u, v
        <5> QED BY <5>3, <5>4
      <4>6. Books(kv'.cells)
        <5>1. Books(seq_rm(kv, cur, n_keep, n_keep + gone).cells)
          BY <2>2, SeqRmBooks DEF IInv
        <5>2. -gone \in Int /\ -gone <= 0
          BY <4>2
        <5> QED BY <2>2, <4>4, <5>1, <5>2, SeqAddBooks
      <4> HIDE DEF q
      <4>7. /\ slots' \in [Slots -> SlotType]
            /\ \A s \in Slots \ {cur} : slots'[s] = slots[s]
            /\ slots'[cur].prompt = q /\ slots'[cur].task = x.task
            /\ slots'[cur].state = "generating" /\ slots'[cur].sampled = x.sampled
        BY <2>2, <4>1, <4>4, <4>5 DEF IInv, SlotType
      <4>8. SlotsFit'
        <5> SUFFICES ASSUME NEW s \in Slots
            PROVE  /\ Len(slots'[s].prompt) < params.n_ctx
                   /\ Len(slots'[s].task) < params.n_ctx
                   /\ slots'[s].state = "prompt" => Len(slots'[s].prompt) <= Len(slots'[s].task)
                   /\ slots'[s].state = "generating" => slots'[s].sampled \in Tokens
          BY <2>1 DEF SlotsFit
        <5>1. CASE s = cur
          <6>1. Len(slots'[cur].prompt) < params.n_ctx
            BY <2>2, <4>2, <4>5, <4>7
          <6> QED BY <5>1, <6>1, <4>1, <4>7 DEF IInv, SlotsFit
        <5>2. CASE s # cur
          BY <5>2, <4>7 DEF IInv, SlotsFit
        <5> QED BY <5>1, <5>2
      <4>9. Len(slots'[cur].prompt) + 1 < params.n_ctx
        BY <2>2, <4>1, <4>2, <4>5, <4>7
      <4> QED BY <4>6, <4>7, <4>8, <4>9
    <3> QED BY <1>2, <3>1, <3>2, <3>3 DEF ContextShift
  <2>4. /\ cur' \in Slots
        /\ \/ cur' = cur + 1 /\ step' = "shift"
           \/ cur' = 0 /\ step' = "sampled" /\ cur = NSlots - 1
    BY <2>1, <2>2, AdvanceType
  <2>5. RoomToAdd'
    <3> SUFFICES ASSUME NEW s \in Slots, slots'[s].state = "generating",
                        (step' = "shift" /\ s < cur') \/ (step' = "sampled" /\ s >= cur')
        PROVE  Len(slots'[s].prompt) + 1 < params.n_ctx
      BY <2>1 DEF RoomToAdd
    <3>1. s = cur \/ s < cur
      BY <2>2, <2>4, SizesAssumption DEF Slots
    <3> QED BY <3>1, <2>1, <2>3 DEF IInv, RoomToAdd
  <2>6. ScanFits'
    BY <2>1, <2>4 DEF IInv, ScanFits
  <2>7. RehearsalSound'
    BY <2>1, RehearsalKept DEF IInv
  <2> QED BY <2>1, <2>3, <2>4, <2>5, <2>6, <2>7 DEF IInv
<1> QED BY <1>1, <1>2

\* A sampled token goes to a position the context has room for.
LEMMA SampledStep ==
  ASSUME IInv, AddSampled
  PROVE  IInv'
<1> DEFINE x == slots[cur]
           n == Len(x.prompt)
<1>1. /\ step = "sampled" /\ Advance("prompt")
      /\ UNCHANGED <<kv, params, scan>> /\ UNCHANGED <<view, rehearsal>>
  BY DEF AddSampled
<1>2. /\ cur \in Slots /\ x \in SlotType /\ n \in Nat /\ x.prompt \in Seq(Tokens)
      /\ params.n_ctx \in Nat /\ params.n_ctx <= NPos /\ batch \in Seq(EntryType)
  BY Contexts DEF IInv, SlotType
<1>3. /\ slots' \in [Slots -> SlotType]
      /\ batch' \in Seq(EntryType) /\ Len(batch) <= Len(batch')
      /\ \A s \in Slots \ {cur} : slots'[s] = slots[s]
      /\ SlotsFit'
  <2>1. CASE x.state # "generating" /\ UNCHANGED <<slots, batch>>
    BY <1>1, <1>2, <2>1 DEF IInv, SlotsFit
  <2>2. CASE /\ x.state = "generating"
             /\ batch' = Append(batch, Entry(cur, n, x.sampled))
             /\ slots' = [slots EXCEPT ![cur].prompt = Append(@, x.sampled),
                                       ![cur].i_batch = Len(batch) + 1]
    <3>1. n + 1 < params.n_ctx /\ x.sampled \in Tokens
      BY <1>1, <1>2, <2>2, SizesAssumption DEF IInv, RoomToAdd, SlotsFit, Slots
    <3>2. n \in Positions
      BY <1>2, <3>1, SizesAssumption DEF Positions
    <3>3. Entry(cur, n, x.sampled) \in EntryType
      BY <1>2, <3>1, <3>2 DEF Entry, EntryType
    <3>4. batch' \in Seq(EntryType) /\ Len(batch') = Len(batch) + 1 /\ Len(batch) \in Nat
      BY <1>2, <2>2, <3>3
    <3> DEFINE q == Append(x.prompt, x.sampled)
    <3>5. q \in Seq(Tokens) /\ Len(q) = n + 1
      BY <1>2, <3>1
    <3> DEFINE y == [x EXCEPT !.prompt = q, !.i_batch = Len(batch) + 1]
    <3>6. slots' = [slots EXCEPT ![cur] = y]
      BY <1>2, <2>2 DEF IInv, SlotType
    <3> HIDE DEF q
    <3>9. /\ y \in SlotType /\ y.prompt = q /\ y.task = x.task
          /\ y.state = "generating" /\ y.sampled = x.sampled
      <4>1. x \in SlotType /\ q \in Seq(Tokens) /\ Len(batch) + 1 \in Nat
            /\ x.state = "generating"
        BY <1>2, <2>2, <3>4, <3>5
      <4> HIDE DEF x, n
      <4> QED BY <4>1 DEF SlotType
    <3> HIDE DEF y
    <3>7. /\ slots' \in [Slots -> SlotType]
          /\ \A s \in Slots \ {cur} : slots'[s] = slots[s]
          /\ slots'[cur].prompt = q /\ slots'[cur].task = x.task
          /\ slots'[cur].state = "generating" /\ slots'[cur].sampled = x.sampled
      BY <1>2, <3>6, <3>9 DEF IInv
    <3>8. SlotsFit'
      BY <1>1, <1>2, <3>1, <3>5, <3>7 DEF IInv, SlotsFit
    <3> QED BY <3>4, <3>7, <3>8
  <2> QED BY <2>1, <2>2 DEF AddSampled
<1>4. /\ cur' \in Slots
      /\ \/ cur' = cur + 1 /\ step' = "sampled"
         \/ cur' = 0 /\ step' = "prompt" /\ cur = NSlots - 1
  BY <1>1, <1>2, AdvanceType
<1>5. RoomToAdd'
  <2> SUFFICES ASSUME NEW s \in Slots, slots'[s].state = "generating",
                      (step' = "shift" /\ s < cur') \/ (step' = "sampled" /\ s >= cur')
      PROVE  Len(slots'[s].prompt) + 1 < params.n_ctx
    BY <1>1 DEF RoomToAdd
  <2>1. s # cur /\ s >= cur
    BY <1>2, <1>4, SizesAssumption DEF Slots
  <2> QED BY <2>1, <1>1, <1>3 DEF IInv, RoomToAdd
<1>6. ScanFits'
  BY <1>1, <1>4 DEF IInv, ScanFits
<1>7. RehearsalSound'
  BY <1>1, <1>3, RehearsalKept
<1> QED BY <1>1, <1>3, <1>4, <1>5, <1>6, <1>7 DEF IInv

\* Only the first two loops owe a generating slot room.
LEMMA NoRoomOwed ==
  ASSUME step' \notin {"shift", "sampled"}
  PROVE  RoomToAdd'
BY DEF RoomToAdd

\* The search for chunks never moves a chunk up, and never past the end of
\* the old or the new prompt.
LEMMA ReuseSteps ==
  ASSUME IInv, StartPrompt \/ ReuseChunk
  PROVE  IInv'
<1> DEFINE x == slots[cur]
           old == x.prompt
           new == x.task
<1>1. /\ cur \in Slots /\ x \in SlotType /\ old \in Seq(Tokens) /\ new \in Seq(Tokens)
      /\ Len(old) \in Nat /\ Len(new) \in Nat
  BY DEF IInv, SlotType
<1>2. CASE StartPrompt
  <2> DEFINE n == common_prefix(old, new)
  <2>1. /\ scan' = <<n, n, n>> /\ step' \in {"reuse", "keep"}
        /\ UNCHANGED <<kv, params, slots, cur, batch>> /\ UNCHANGED <<view, rehearsal>>
    BY <1>2 DEF StartPrompt
  <2>2. n \in Nat /\ n <= Len(old) /\ n <= Len(new)
    BY <1>1, CommonPrefix
  <2> HIDE DEF n
  <2>3. ScanFits'
    BY <2>1, <2>2 DEF ScanFits
  <2>4. SlotsFit' /\ RoomToAdd'
    BY <2>1, NoRoomOwed DEF IInv, SlotsFit
  <2>5. RehearsalSound'
    BY <2>1, RehearsalKept DEF IInv
  <2> QED BY <2>1, <2>3, <2>4, <2>5 DEF IInv
<1>3. CASE ReuseChunk
  <2> DEFINE head_c == scan[1]
             head_p == scan[2]
             n_match == common_prefix(SubSeq(old, head_c + 1, Len(old)),
                                      SubSeq(new, head_p + 1, Len(new)))
             at_end == head_c >= Len(old) \/ head_p >= Len(new)
  <2>1. /\ step = "reuse"
        /\ UNCHANGED <<params, cur, batch>> /\ UNCHANGED <<view, rehearsal>>
    BY <1>3 DEF ReuseChunk
  <2>2. /\ scan = <<head_c, head_p, head_p>> /\ head_c \in Nat /\ head_p \in Nat
        /\ head_p <= head_c /\ head_c <= Len(old) /\ head_p <= Len(new)
    BY <2>1 DEF IInv, ScanFits
  <2>3. RehearsalSound'
    BY <2>1, RehearsalKept DEF IInv
  <2>4. CASE at_end /\ step' = "keep" /\ UNCHANGED <<kv, slots, scan>>
    BY <2>1, <2>3, <2>4, NoRoomOwed DEF IInv, SlotsFit, ScanFits
  <2>5. CASE /\ ~at_end /\ scan' = <<head_c + 1, head_p, scan[3]>>
             /\ UNCHANGED <<kv, slots, step>>
    <3>1. ScanFits'
      BY <1>1, <2>1, <2>2, <2>5 DEF ScanFits
    <3> QED BY <3>1, <2>1, <2>3, <2>5, NoRoomOwed DEF IInv, SlotsFit
  <2>6. CASE /\ ~at_end
             /\ kv' = seq_add(seq_rm(kv, cur, head_p, head_c),
                              cur, head_c, head_c + n_match, head_p - head_c)
             /\ slots' = [slots EXCEPT ![cur].prompt =
                  [i \in 1 .. Len(old) |-> IF i \in head_p + 1 .. head_p + n_match
                                           THEN old[i + head_c - head_p] ELSE old[i]]]
             /\ scan' = <<head_c + n_match, head_p + n_match, scan[3] + n_match>>
             /\ UNCHANGED step
    <3>1. n_match \in Nat /\ head_c + n_match <= Len(old) /\ head_p + n_match <= Len(new)
      <4> DEFINE u == SubSeq(old, head_c + 1, Len(old))
                 v == SubSeq(new, head_p + 1, Len(new))
      <4>1. u \in Seq(Tokens) /\ Len(u) = Len(old) - head_c
        BY <1>1, <2>2
      <4>2. v \in Seq(Tokens) /\ Len(v) = Len(new) - head_p
        BY <1>1, <2>2
      <4>3. common_prefix(u, v) \in 0 .. Len(u) /\ common_prefix(u, v) <= Len(v)
        <5> HIDE DEF u, v
        <5> QED BY <4>1, <4>2, CommonPrefix
      <4>4. n_match = common_prefix(u, v)
        OBVIOUS
      <4> HIDE DEF u, v, n_match, old, new
      <4> QED BY <1>1, <2>2, <4>1, <4>2, <4>3, <4>4
    <3>2. Books(kv'.cells)
      <4>1. Books(seq_rm(kv, cur, head_p, head_c).cells)
        BY <1>1, SeqRmBooks DEF IInv
      <4>2. head_p - head_c \in Int /\ head_p - head_c <= 0
        BY <2>2
      <4> QED BY <1>1, <2>6, <4>1, <4>2, SeqAddBooks
    <3> DEFINE q == [i \in 1 .. Len(old) |-> IF i \in head_p + 1 .. head_p + n_match
                                             THEN old[i + head_c - head_p] ELSE old[i]]
    <3>3. q \in Seq(Tokens) /\ Len(q) = Len(old)
      <4>1. ASSUME NEW i \in 1 .. Len(old) PROVE q[i] \in Tokens
        <5>1. CASE i \in head_p + 1 .. head_p + n_match
          <6>1. i + head_c - head_p \in 1 .. Len(old)
            <7> HIDE DEF n_match, old, new
            <7> QED BY <1>1, <2>2, <3>1, <4>1, <5>1
          <6>2. old[i + head_c - head_p] \in Tokens
            BY <1>1, <6>1
          <6> QED BY <4>1, <5>1, <6>2
        <5>2. CASE ~(i \in head_p + 1 .. head_p + n_match)
          BY <1>1, <4>1, <5>2
        <5> QED BY <5>1, <5>2
      <4>2. q \in [1 .. Len(old) -> Tokens]
        BY <4>1
      <4> HIDE DEF q
      <4> QED BY <1>1, <4>2
    <3>4. slots' = [slots EXCEPT ![cur].prompt = q]
      BY <2>6
    <3> HIDE DEF q, n_match
    <3>5. /\ slots' \in [Slots -> SlotType]
          /\ \A s \in Slots \ {cur} : slots'[s] = slots[s]
          /\ slots'[cur].prompt = q /\ slots'[cur].task = x.task
          /\ slots'[cur].state = x.state /\ slots'[cur].sampled = x.sampled
      BY <1>1, <3>3, <3>4 DEF IInv, SlotType
    <3>6. SlotsFit'
      BY <1>1, <2>1, <3>3, <3>5 DEF IInv, SlotsFit
    <3>7. ScanFits'
      BY <1>1, <2>1, <2>2, <2>6, <3>1, <3>3, <3>5 DEF ScanFits
    <3> QED BY <3>2, <3>5, <3>6, <3>7, <2>1, <2>3, <2>6, NoRoomOwed DEF IInv
  <2> QED BY <1>3, <2>4, <2>5, <2>6 DEF ReuseChunk
<1> QED BY <1>2, <1>3

\* What is kept of a cached prompt is never more than what was common.
LEMMA KeptBounds ==
  ASSUME IInv, NEW n_past \in Nat, n_past <= Len(slots[cur].task)
  PROVE  Kept(cur, n_past) \in 0 .. n_past
<1> DEFINE pos_min == seq_pos_min(kv.cells[seq_to_stream(cur)], cur)
           has_new == n_past < Len(slots[cur].task)
           thold   == Max({0, n_past - params.n_swa - (IF has_new THEN 0 ELSE 1)})
           gone    == n_past > 0 /\ pos_min >= thold
           n       == IF gone THEN 0 ELSE n_past
<1>1. Kept(cur, n_past) = IF n = Len(slots[cur].task) /\ n > 0 THEN n - 1 ELSE n
  BY DEF Kept
<1>2. n \in 0 .. n_past
  <2> HIDE DEF gone
  <2> QED OBVIOUS
<1> HIDE DEF n
<1> QED BY <1>1, <1>2

\* A prompt is cut to a beginning of the request and grown along it.
LEMMA PromptSteps ==
  ASSUME IInv, KeepPrefix \/ FillPrompt \/ SkipPrompt
  PROVE  IInv'
<1> DEFINE x == slots[cur]
<1>1. /\ cur \in Slots /\ x \in SlotType /\ x.prompt \in Seq(Tokens) /\ x.task \in Seq(Tokens)
      /\ Len(x.prompt) \in Nat /\ Len(x.task) \in Nat
      /\ params.n_ctx \in Nat /\ params.n_ctx <= NPos
      /\ Len(x.task) < params.n_ctx /\ batch \in Seq(EntryType) /\ Len(batch) \in Nat
  BY Contexts DEF IInv, SlotType, SlotsFit
<1>2. CASE KeepPrefix
  <2> DEFINE k == Kept(cur, scan[3])
             q == SubSeq(x.prompt, 1, k)
             y == [x EXCEPT !.prompt = q, !.state = "prompt"]
  <2>1. /\ step = "keep" /\ step' = "prompt" /\ scan' = <<0, 0, 0>>
        /\ UNCHANGED <<kv, params, cur, batch>> /\ UNCHANGED <<view, rehearsal>>
    BY <1>2 DEF KeepPrefix
  <2>2. slots' = [slots EXCEPT ![cur] = y]
    BY <1>1, <1>2 DEF KeepPrefix, IInv, SlotType
  <2>3. /\ scan[3] \in Nat /\ scan[3] <= Len(x.prompt) /\ scan[3] <= Len(x.task)
    BY <1>1, <2>1 DEF IInv, ScanFits
  <2>4. k \in 0 .. scan[3]
    BY <2>3, KeptBounds
  <2> HIDE DEF k
  <2>5. q \in Seq(Tokens) /\ Len(q) = k /\ k <= Len(x.task) /\ k \in Nat
    BY <1>1, <2>3, <2>4
  <2> HIDE DEF q
  <2>6. y \in SlotType /\ y.prompt = q /\ y.task = x.task /\ y.state = "prompt"
    <3> HIDE DEF x
    <3> QED BY <1>1, <2>5 DEF SlotType
  <2> HIDE DEF y
  <2>7. /\ slots' \in [Slots -> SlotType] /\ slots'[cur] = y
        /\ \A s \in Slots \ {cur} : slots'[s] = slots[s]
    BY <1>1, <2>2, <2>6 DEF IInv
  <2>8. SlotsFit'
    <3>1. /\ Len(y.prompt) < params.n_ctx /\ Len(y.prompt) <= Len(y.task)
          /\ Len(y.task) < params.n_ctx /\ y.state # "generating"
      BY <1>1, <2>5, <2>6
    <3> QED BY <2>1, <2>7, <3>1 DEF IInv, SlotsFit
  <2>9. RehearsalSound'
    BY <2>1, RehearsalKept DEF IInv
  <2>10. ScanFits' /\ RoomToAdd'
    BY <2>1, NoRoomOwed DEF ScanFits
  <2> QED BY <2>1, <2>7, <2>8, <2>9, <2>10 DEF IInv
<1>3. CASE FillPrompt
  <2> DEFINE n == Len(x.prompt)
             m == Min({Len(x.task), n + NBatch - Len(batch)})
             more == [i \in 1 .. m - n |-> Entry(cur, n + i - 1, x.task[n + i])]
             q == SubSeq(x.task, 1, m)
             st == IF m = Len(x.task) THEN "done_prompt" ELSE x.state
             ib == IF m = Len(x.task) THEN Len(batch) + m - n ELSE 0
             y == [x EXCEPT !.prompt = q, !.state = st, !.i_batch = ib]
  <2>1. /\ step = "prompt" /\ x.state = "prompt" /\ Len(batch) < NBatch
        /\ kv' = seq_rm(kv, cur, n, End) /\ batch' = batch \o more
        /\ Advance("decode")
        /\ UNCHANGED <<params, scan>> /\ UNCHANGED <<view, rehearsal>>
    BY <1>3 DEF FillPrompt
  <2>2. slots' = [slots EXCEPT ![cur] = y]
    BY <1>1, <1>3 DEF FillPrompt, IInv, SlotType
  <2>3. n <= Len(x.task)
    BY <1>1, <2>1 DEF IInv, SlotsFit
  <2>4. m \in Nat /\ n <= m /\ m <= Len(x.task)
    <3> DEFINE room == n + NBatch - Len(batch)
    <3>1. Len(x.task) \in Int /\ room \in Int /\ n <= room /\ n \in Nat
      <4> HIDE DEF x
      <4> QED BY <1>1, <2>1, BatchAssumption
    <3>2. m = IF Len(x.task) <= room THEN Len(x.task) ELSE room
      <4> HIDE DEF room, x
      <4>1. Min({Len(x.task), room}) = IF Len(x.task) <= room THEN Len(x.task) ELSE room
        BY <3>1, MinOfTwo
      <4> QED BY <4>1 DEF room
    <3> HIDE DEF m, room, n
    <3> QED BY <1>1, <2>3, <3>1, <3>2
  <2> HIDE DEF m
  <2>5. more \in Seq(EntryType)
    <3>1. ASSUME NEW i \in 1 .. m - n PROVE Entry(cur, n + i - 1, x.task[n + i]) \in EntryType
      <4>1. n + i \in 1 .. Len(x.task) /\ n + i - 1 \in 0 .. NPos - 1
        <5> HIDE DEF x
        <5> QED BY <1>1, <2>4, <3>1, SizesAssumption
      <4>2. x.task[n + i] \in Tokens
        BY <1>1, <4>1
      <4> HIDE DEF x, n
      <4> QED BY <1>1, <4>1, <4>2 DEF Entry, EntryType, Positions
    <3>2. more \in [1 .. m - n -> EntryType]
      <4> HIDE DEF n, x, EntryType
      <4> QED BY <3>1
    <3>3. m - n \in Nat
      BY <1>1, <2>4
    <3> HIDE DEF more, n
    <3> QED BY <3>2, <3>3
  <2>6. batch' \in Seq(EntryType) /\ Len(batch) <= Len(batch')
    <3> HIDE DEF more
    <3>1. Len(more) \in Nat /\ Len(batch \o more) = Len(batch) + Len(more)
      BY <1>1, <2>5
    <3> QED BY <1>1, <2>1, <2>5, <3>1
  <2>7. q \in Seq(Tokens) /\ Len(q) = m
    BY <1>1, <2>4
  <2>8. st \in {"done_prompt", "prompt"} /\ ib \in Nat
    BY <1>1, <2>1, <2>4
  <2> HIDE DEF q, st, ib
  <2>9. y \in SlotType /\ y.prompt = q /\ y.task = x.task /\ y.state = st
    <3> HIDE DEF x
    <3> QED BY <1>1, <2>7, <2>8 DEF SlotType
  <2> HIDE DEF y
  <2>10. /\ slots' \in [Slots -> SlotType] /\ slots'[cur] = y
         /\ \A s \in Slots \ {cur} : slots'[s] = slots[s]
    BY <1>1, <2>2, <2>9 DEF IInv
  <2>11. SlotsFit'
    <3>1. Len(y.prompt) < params.n_ctx /\ Len(y.prompt) <= Len(y.task)
      BY <1>1, <2>4, <2>7, <2>9
    <3>2. y.state # "generating"
      BY <2>8, <2>9
    <3> QED BY <1>1, <2>1, <2>9, <2>10, <3>1, <3>2 DEF IInv, SlotsFit
  <2>12. Books(kv'.cells)
    BY <1>1, <2>1, SeqRmBooks DEF IInv
  <2>13. cur' \in Slots /\ step' \in {"prompt", "decode"}
    BY <1>1, <2>1, AdvanceType
  <2>14. ScanFits' /\ RoomToAdd'
    BY <2>1, <2>13, NoRoomOwed DEF IInv, ScanFits
  <2>15. RehearsalSound'
    BY <2>1, <2>6, RehearsalKept
  <2> QED BY <2>1, <2>6, <2>10, <2>11, <2>12, <2>13, <2>14, <2>15 DEF IInv
<1>4. CASE SkipPrompt
  <2>1. /\ step = "prompt" /\ Advance("decode")
        /\ UNCHANGED <<kv, params, slots, batch, scan>> /\ UNCHANGED <<view, rehearsal>>
    BY <1>4 DEF SkipPrompt
  <2>2. cur' \in Slots /\ step' \in {"prompt", "decode"}
    BY <1>1, <2>1, AdvanceType
  <2>3. SlotsFit' /\ ScanFits' /\ RoomToAdd'
    BY <2>1, <2>2, NoRoomOwed DEF IInv, ScanFits, SlotsFit
  <2>4. RehearsalSound'
    BY <2>1, RehearsalKept DEF IInv
  <2> QED BY <2>1, <2>2, <2>3, <2>4 DEF IInv
<1> QED BY <1>2, <1>3, <1>4

-----------------------------------------------------------------------------
(***************************************************************************)
(* Steps of the decoding loop                                              *)
(***************************************************************************)
\* Outside the loops over the slots the invariant is about the books, the
\* slots and the rehearsal only.
LEMMA DecodingKeeps ==
  ASSUME IInv, UNCHANGED <<params, cur, scan>>,
         step' \notin {"shift", "sampled", "reuse", "keep"},
         Books(kv'.cells), slots' \in [Slots -> SlotType], SlotsFit',
         batch' \in Seq(EntryType), RehearsalSound'
  PROVE  IInv'
<1>1. ScanFits' /\ RoomToAdd'
  BY NoRoomOwed DEF IInv, ScanFits
<1> QED BY <1>1 DEF IInv

\* The view lies within the batch.
LEMMA ViewBounds ==
  ASSUME IInv
  PROVE  off + ViewSize \in Nat /\ off + 1 .. off + ViewSize \subseteq 1 .. Len(batch)
<1>1. off \in Nat /\ n_batch \in Nat /\ Len(batch) \in Nat
  BY DEF IInv, RehearsalSound
<1>2. ViewSize = IF n_batch <= Len(batch) - off THEN n_batch ELSE Len(batch) - off
  BY <1>1, MinOfTwo DEF ViewSize
<1> HIDE DEF ViewSize
<1>3. off + ViewSize \in Nat /\ off + ViewSize <= Len(batch)
  BY <1>1, <1>2
<1> QED BY <1>1, <1>3

\* Every cell found is found for a place of the batch.
LEMMA FoundPlaces ==
  ASSUME NEW k, NEW N \in Nat, NEW ub, \A st \in Slots : ub[st] \subseteq 1 .. N
  PROVE  /\ slot_info(k, ub) \in SinfoType
         /\ \A st \in Slots, i \in Cells : slot_info(k, ub)[st][i] <= N
<1>1. ASSUME NEW st \in Slots, NEW i \in Cells
      PROVE  find_slot(k.cells[st], k.head[st], ub[st])[i] \in 0 .. N
  <2> DEFINE c == k.cells[st]
             J == ub[st]
             from == SearchFrom(c, k.head[st], Cardinality(J))
             for == {j \in J : TokenRank(J, j) = CellRank(c, from, i)}
             one == CHOOSE j \in for : TRUE
             ok == can_use(c, i) /\ for # {}
             found == find_slot(k.cells[st], k.head[st], ub[st])[i]
  <2>1. (ok /\ found = one) \/ found = 0
    BY DEF find_slot
  <2>2. ok => one \in for
    OBVIOUS
  <2>3. for \subseteq 1 .. N
    OBVIOUS
  <2>4. CASE found = 0
    <3> HIDE DEF found
    <3> QED BY <2>4 DEF found
  <2>5. CASE ok /\ found = one
    <3>1. one \in 1 .. N
      <4> HIDE DEF ok, one, for
      <4> QED BY <2>2, <2>3, <2>5
    <3> HIDE DEF found, one
    <3> QED BY <2>5, <3>1 DEF found
  <2> QED BY <2>1, <2>4, <2>5
<1>2. slot_info(k, ub) = [st \in Slots |-> find_slot(k.cells[st], k.head[st], ub[st])]
  BY DEF slot_info
<1>3. \A st \in Slots :
        find_slot(k.cells[st], k.head[st], ub[st]) \in [Cells -> 0 .. N]
  <2> SUFFICES ASSUME NEW st \in Slots
      PROVE  find_slot(k.cells[st], k.head[st], ub[st]) \in [Cells -> 0 .. N]
    OBVIOUS
  <2> DEFINE f == find_slot(k.cells[st], k.head[st], ub[st])
  <2>1. f = [i \in Cells |-> f[i]]
    BY DEF find_slot
  <2> HIDE DEF f
  <2>2. \A i \in Cells : f[i] \in 0 .. N
    BY <1>1 DEF f
  <2> QED BY <2>1, <2>2 DEF f
<1> QED BY <1>2, <1>3 DEF SinfoType

\* The rehearsal: what it finds are places of the batch, and what it keeps
\* for the way back are cells.
LEMMA PrepareStep ==
  ASSUME IInv, Prepare
  PROVE  IInv'
<1> DEFINE ub    == NextUbatch
           sinfo == slot_info(kv, ub)
<1>1. /\ step = "prepare" /\ UNCHANGED <<params, slots, cur, scan, batch, view, at>>
  BY DEF Prepare
<1>2. /\ Books(kv.cells) /\ batch \in Seq(EntryType) /\ Len(batch) \in Nat
      /\ left \subseteq 1 .. Len(batch) /\ at \in Nat \ {0}
      /\ sinfos \in Seq(SinfoType) /\ olds \in Seq([Slots -> CellsType])
  BY DEF IInv, RehearsalSound
<1>3. \A st \in Slots : ub[st] \subseteq 1 .. Len(batch)
  <2>1. \A st \in Slots : ub[st] \subseteq left
    BY DEF NextUbatch
  <2> QED BY <1>2, <2>1
<1> HIDE DEF ub
<1>4. sinfo \in SinfoType /\ \A st \in Slots, i \in Cells : sinfo[st][i] <= Len(batch)
  BY <1>2, <1>3, FoundPlaces
<1> HIDE DEF sinfo
<1>5. SlotsFit' /\ slots' \in [Slots -> SlotType] /\ batch' \in Seq(EntryType)
  BY <1>1 DEF IInv, SlotsFit
<1>6. CASE /\ kv' = apply_ubatch(kv, sinfo, batch)
           /\ left' = left \ UNION {ub[st] : st \in Slots}
           /\ sinfos' = Append(sinfos, sinfo)
           /\ olds' = Append(olds, kv.cells)
           /\ UNCHANGED step
  <2>1. \A st \in Slots : Writes(sinfo[st], batch)
    <3> SUFFICES ASSUME NEW st \in Slots
        PROVE  /\ sinfo[st] \in [Cells -> Nat]
               /\ \A i \in Cells : sinfo[st][i] # 0 => /\ batch[sinfo[st][i]].seq \in Slots
                                                       /\ batch[sinfo[st][i]].pos \in Positions
      BY DEF Writes
    <3>1. sinfo[st] \in [Cells -> Nat]
      BY <1>4 DEF SinfoType
    <3>2. ASSUME NEW i \in Cells, sinfo[st][i] # 0 PROVE batch[sinfo[st][i]] \in EntryType
      <4>1. sinfo[st][i] \in 1 .. Len(batch)
        BY <1>2, <1>4, <3>1, <3>2
      <4> QED BY <1>2, <4>1
    <3> QED BY <3>1, <3>2 DEF EntryType
  <2>2. Books(kv'.cells)
    BY <1>2, <1>6, <2>1, ApplyBooks
  <2>3. \A st \in Slots : Copied(kv.cells[st])
    BY <1>2 DEF Books, Copied, Exact
  <2>4. kv.cells \in [Slots -> CellsType]
    BY <1>2 DEF Books
  <2>5. /\ sinfos' \in Seq(SinfoType) /\ Len(sinfos') = Len(sinfos) + 1
        /\ \A n \in 1 .. Len(sinfos) : sinfos'[n] = sinfos[n]
        /\ sinfos'[Len(sinfos) + 1] = sinfo /\ Len(sinfos) \in Nat
    BY <1>2, <1>4, <1>6
  <2>6. /\ olds' \in Seq([Slots -> CellsType]) /\ Len(olds') = Len(olds) + 1
        /\ \A n \in 1 .. Len(olds) : olds'[n] = olds[n]
        /\ olds'[Len(olds) + 1] = kv.cells /\ Len(olds) \in Nat
    BY <1>2, <1>6, <2>4
  <2>7. \A n \in 1 .. Len(sinfos'), st \in Slots, i \in Cells :
          sinfos'[n][st][i] <= Len(batch)
    <3> TAKE n \in 1 .. Len(sinfos'), st \in Slots, i \in Cells
    <3>1. n \in 1 .. Len(sinfos) \/ n = Len(sinfos) + 1
      BY <2>5
    <3> QED BY <3>1, <1>4, <2>5 DEF IInv, RehearsalSound
  <2>8. \A n \in 1 .. Len(olds'), st \in Slots : Copied(olds'[n][st])
    <3> TAKE n \in 1 .. Len(olds'), st \in Slots
    <3>1. n \in 1 .. Len(olds) \/ n = Len(olds) + 1
      BY <2>6
    <3> QED BY <3>1, <2>3, <2>6 DEF IInv, RehearsalSound
  <2>9. Len(olds') <= Len(sinfos')
    BY <2>5, <2>6 DEF IInv, RehearsalSound
  <2>10. left' \subseteq 1 .. Len(batch')
    BY <1>1, <1>2, <1>6
  <2>11. RehearsalSound'
    BY <1>1, <2>5, <2>6, <2>7, <2>8, <2>9, <2>10 DEF IInv, RehearsalSound, view
  <2> QED BY <1>1, <1>5, <1>6, <2>2, <2>11, DecodingKeeps
<1>7. CASE step' = "give_up" /\ UNCHANGED <<kv, left, sinfos, olds, heads>>
  <2>1. RehearsalSound'
    BY <1>1, <1>7, RehearsalKept, <1>2 DEF rehearsal
  <2> QED BY <1>1, <1>2, <1>5, <1>7, <2>1, DecodingKeeps
<1> QED BY <1>6, <1>7 DEF Prepare, ub, sinfo

\* The first m members of a sequence.
LEMMA FirstOf ==
  ASSUME NEW T, NEW q \in Seq(T), NEW m \in Nat, m <= Len(q)
  PROVE  /\ SubSeq(q, 1, m) \in Seq(T) /\ Len(SubSeq(q, 1, m)) = m
         /\ \A j \in 1 .. m : SubSeq(q, 1, m)[j] = q[j]
<1>1. Len(SubSeq(q, 1, m)) = m
  OBVIOUS
<1>2. \A j \in 1 .. m : SubSeq(q, 1, m)[j] = q[j]
  OBVIOUS
<1>3. \A j \in 1 .. m : q[j] \in T
  OBVIOUS
<1>4. SubSeq(q, 1, m) \in Seq(T)
  BY <1>3
<1> QED BY <1>1, <1>2, <1>4

\* The steps that begin and end a round and a rehearsal, and the way back.
LEMMA RehearseSteps ==
  ASSUME IInv, EndRound \/ BeginDecode \/ Prepared \/ RestoreOne \/ Restored
  PROVE  IInv'
<1>1. CASE EndRound
  <2>1. /\ step' = "tasks" /\ UNCHANGED <<kv, params, slots, cur, scan>>
        /\ batch' = << >> /\ off' = 0 /\ n_batch' = NBatch /\ left' = {} /\ NoRehearsal
    BY <1>1 DEF EndRound, RoundOver
  <2>2. SlotsFit'
    BY <2>1 DEF IInv, SlotsFit
  <2>3. RehearsalSound'
    BY <2>1, RehearsalCleared, BatchAssumption
  <2> QED BY <2>1, <2>2, <2>3, DecodingKeeps DEF IInv
<1>2. CASE BeginDecode
  <2>1. /\ step' = "prepare" /\ UNCHANGED <<params, slots, cur, scan, batch>>
        /\ off' = off /\ n_batch' = n_batch /\ NoRehearsal
        /\ left' = off + 1 .. off + ViewSize /\ kv' = update(kv)
    BY <1>2 DEF BeginDecode, view
  <2>2. SlotsFit' /\ off \in Nat /\ n_batch \in Nat
    BY <2>1 DEF IInv, SlotsFit, RehearsalSound
  <2>3. left' \subseteq 1 .. Len(batch')
    BY <2>1, ViewBounds
  <2>4. RehearsalSound'
    BY <2>1, <2>2, <2>3, RehearsalCleared
  <2>5. Books(kv'.cells)
    BY <2>1, UpdateBooks DEF IInv
  <2> QED BY <2>1, <2>2, <2>4, <2>5, DecodingKeeps DEF IInv
<1>3. CASE Prepared \/ Restored
  <2>1. /\ step' \in {"restore", "compute", "no_slot"}
        /\ UNCHANGED <<kv, params, slots, cur, scan, batch>> /\ UNCHANGED <<view, rehearsal>>
    BY <1>3 DEF Prepared, Restored
  <2>2. SlotsFit'
    BY <2>1 DEF IInv, SlotsFit
  <2>3. RehearsalSound'
    BY <2>1, RehearsalKept DEF IInv
  <2> QED BY <2>1, <2>2, <2>3, DecodingKeeps DEF IInv
<1>4. CASE RestoreOne
  <2> DEFINE n == Len(olds)
  <2>1. /\ step \in {"restore", "give_up"} /\ olds # << >>
        /\ kv' = Restore(kv, olds[n], heads[n], sinfos[n])
        /\ olds' = SubSeq(olds, 1, n - 1)
        /\ UNCHANGED <<params, slots, step, cur, scan, batch>>
        /\ off' = off /\ n_batch' = n_batch /\ left' = left /\ sinfos' = sinfos /\ at' = at
    BY <1>4 DEF RestoreOne, view
  <2>2. /\ olds \in Seq([Slots -> CellsType]) /\ sinfos \in Seq(SinfoType)
        /\ n <= Len(sinfos) /\ n \in Nat /\ n # 0 /\ Len(sinfos) \in Nat
    BY <2>1 DEF IInv, RehearsalSound
  <2>3. sinfos[n] \in [Slots -> [Cells -> Nat]]
    BY <2>2 DEF SinfoType
  <2>4. \A st \in Slots : Copied(olds[n][st])
    BY <2>2 DEF IInv, RehearsalSound
  <2>5. Books(kv'.cells)
    <3> HIDE DEF n
    <3> QED BY <2>1, <2>3, <2>4, RestoreBooks DEF IInv
  <2>6. /\ olds' \in Seq([Slots -> CellsType]) /\ Len(olds') = n - 1
        /\ \A j \in 1 .. n - 1 : olds'[j] = olds[j]
    <3> DEFINE T == [Slots -> CellsType]
    <3>1. olds \in Seq(T) /\ n - 1 \in Nat /\ n - 1 <= Len(olds)
      BY <2>2
    <3> HIDE DEF T
    <3>2. /\ SubSeq(olds, 1, n - 1) \in Seq(T) /\ Len(SubSeq(olds, 1, n - 1)) = n - 1
          /\ \A j \in 1 .. n - 1 : SubSeq(olds, 1, n - 1)[j] = olds[j]
      BY <3>1, FirstOf
    <3> QED BY <2>1, <3>2 DEF T
  <2>7. RehearsalSound'
    <3>1. \A j \in 1 .. Len(olds'), st \in Slots : Copied(olds'[j][st])
      <4> TAKE j \in 1 .. Len(olds'), st \in Slots
      <4>1. j \in 1 .. n - 1 /\ j \in 1 .. Len(olds)
        BY <2>2, <2>6
      <4> QED BY <4>1, <2>6 DEF IInv, RehearsalSound
    <3>2. Len(olds') <= Len(sinfos')
      BY <2>1, <2>2, <2>6
    <3> HIDE DEF n
    <3> QED BY <2>1, <2>6, <3>1, <3>2 DEF IInv, RehearsalSound
  <2>8. SlotsFit'
    BY <2>1 DEF IInv, SlotsFit
  <2> QED BY <2>1, <2>5, <2>7, <2>8, DecodingKeeps DEF IInv
<1> QED BY <1>1, <1>2, <1>3, <1>4

\* A failed decode clears the slots at work, whatever it had written.
LEMMA AbortKeeps ==
  ASSUME IInv, NEW k, Books(k.cells), AbortAll(k)
  PROVE  IInv'
<1>1. /\ step' = "tasks" /\ UNCHANGED <<params, cur, scan>>
      /\ batch' = << >> /\ off' = 0 /\ n_batch' = NBatch /\ left' = {} /\ NoRehearsal
      /\ kv' = Clear(k, Processing)
  BY DEF AbortAll, RoundOver
<1>2. /\ \A s \in Slots : slots'[s] \in {slots[s], Released(slots[s]), IdleSlot}
      /\ slots' \in [Slots -> SlotType]
  <2>1. slots' = [s \in Slots |-> IF s \in Processing THEN IdleSlot ELSE slots[s]]
    BY DEF AbortAll
  <2>2. \A s \in Slots : slots[s] \in SlotType /\ IdleSlot \in SlotType
    BY ReleasedType DEF IInv
  <2> HIDE DEF IdleSlot
  <2> QED BY <2>1, <2>2
<1>3. SlotsFit'
  BY <1>1, <1>2, ReleaseFits
<1>4. RehearsalSound'
  BY <1>1, RehearsalCleared, BatchAssumption
<1>5. Books(kv'.cells)
  BY <1>1, ClearBooks
<1> QED BY <1>1, <1>2, <1>3, <1>4, <1>5, DecodingKeeps

\* Computing a ubatch, or failing to, keeps the invariant.
LEMMA ComputeSteps ==
  ASSUME IInv, ComputeUbatch \/ ComputeFails
  PROVE  IInv'
<1>1. at \in Nat \ {0} /\ sinfos \in Seq(SinfoType) /\ Len(sinfos) \in Nat
  BY DEF IInv, RehearsalSound
<1>2. at \in 1 .. Len(sinfos)
  BY <1>1 DEF ComputeUbatch, ComputeFails
<1>3. \A st \in Slots : Writes(sinfos[at][st], batch)
  BY <1>2, WritesFound
<1>4. Books(apply_ubatch(kv, sinfos[at], batch).cells)
  BY <1>3, ApplyBooks DEF IInv
<1>5. CASE ComputeFails
  BY <1>4, <1>5, AbortKeeps DEF ComputeFails
<1>6. CASE ComputeUbatch
  <2>1. /\ step = "compute" /\ UNCHANGED <<params, slots, step, cur, scan, batch>>
        /\ off' = off /\ n_batch' = n_batch /\ left' = left /\ sinfos' = sinfos
        /\ olds' = olds /\ at' = at + 1 /\ kv' = Compute(kv, sinfos[at], batch)
    BY <1>6 DEF ComputeUbatch, view
  <2>2. kv'.cells = apply_ubatch(kv, sinfos[at], batch).cells
    BY <2>1 DEF Compute, apply_ubatch, WithBooks
  <2>3. SlotsFit' /\ RehearsalSound'
    BY <1>1, <2>1 DEF IInv, SlotsFit, RehearsalSound
  <2> QED BY <1>4, <2>1, <2>2, <2>3, DecodingKeeps DEF IInv
<1> QED BY <1>5, <1>6

\* Answering a view that does not fit keeps the invariant.
LEMMA NoSlotStep ==
  ASSUME IInv, NoSlot
  PROVE  IInv'
<1> DEFINE purgeable == {s \in Slots \ Processing : slots[s].prompt # << >>}
           m == Min(purgeable)
<1>1. CASE AbortAll(kv)
  BY <1>1, AbortKeeps DEF IInv
<1>2. CASE /\ purgeable # {} /\ kv' = Clear(kv, {m})
           /\ slots' = [slots EXCEPT ![m].prompt = << >>]
           /\ step' = "decode"
           /\ UNCHANGED <<params, cur, batch, scan, view, rehearsal>>
  <2>1. m \in Slots
    <3>1. purgeable \in SUBSET Nat
      BY SizesAssumption DEF Slots
    <3>2. m \in purgeable
      <4> HIDE DEF purgeable
      <4> QED BY <1>2, <3>1, MinIsMember
    <3> QED BY <3>2
  <2> HIDE DEF m
  <2>2. slots[m] \in SlotType /\ << >> \in Seq(Tokens) /\ Len(<< >>) = 0
    BY <2>1 DEF IInv
  <2>3. /\ slots' \in [Slots -> SlotType]
        /\ \A s \in Slots \ {m} : slots'[s] = slots[s]
        /\ slots'[m].prompt = << >> /\ slots'[m].task = slots[m].task
        /\ slots'[m].state = slots[m].state /\ slots'[m].sampled = slots[m].sampled
    BY <1>2, <2>1, <2>2 DEF IInv, SlotType
  <2>4. SlotsFit'
    <3>1. /\ params.n_ctx \in Nat /\ params.n_ctx >= 4 /\ Len(slots[m].task) \in Nat
      BY <2>1, Contexts DEF IInv, SlotType
    <3>2. 0 < params.n_ctx /\ 0 <= Len(slots[m].task)
      BY <3>1
    <3> QED BY <1>2, <2>1, <2>2, <2>3, <3>2 DEF IInv, SlotsFit
  <2>5. Books(kv'.cells)
    BY <1>2, ClearBooks DEF IInv
  <2>6. RehearsalSound'
    BY <1>2, RehearsalKept DEF IInv
  <2> QED BY <1>2, <2>3, <2>4, <2>5, <2>6, DecodingKeeps DEF IInv
<1>3. CASE /\ n_batch' = n_batch \div 2 /\ step' = "decode"
           /\ UNCHANGED <<kv, params, slots, cur, scan, batch, off, rehearsal>>
  <2>1. n_batch' \in Nat
    <3>1. n_batch \in Nat
      BY DEF IInv, RehearsalSound
    <3> QED BY <1>3, <3>1
  <2>2. RehearsalSound'
    BY <1>3, <2>1 DEF IInv, RehearsalSound, rehearsal
  <2>3. SlotsFit'
    BY <1>3 DEF IInv, SlotsFit
  <2> QED BY <1>3, <2>2, <2>3, DecodingKeeps DEF IInv
<1> QED BY <1>1, <1>2, <1>3 DEF NoSlot

\* A child gets its parent's cells after its own were removed, so no cell is
\* counted for it twice.
LEMMA CopyStep ==
  ASSUME IInv, copy_state_to
  PROVE  IInv'
<1> DEFINE c == Min(Waiting)
           p == CHOOSE x \in DoneParents(c) : TRUE
           y == [slots[c] EXCEPT !.prompt = slots[p].prompt, !.i_batch = slots[p].i_batch,
                                 !.state = "done_prompt"]
<1>1. c \in Slots /\ DoneParents(c) # {}
  <2>1. Waiting \in SUBSET Nat /\ Waiting # {}
    <3>1. Slots \subseteq Nat
      BY SizesAssumption DEF Slots
    <3>2. Waiting # {}
      BY DEF copy_state_to
    <3>3. Waiting \subseteq Slots
      BY DEF Waiting
    <3> QED BY <3>1, <3>2, <3>3
  <2>2. c \in Waiting
    BY <2>1, MinIsMember
  <2> HIDE DEF c
  <2> QED BY <2>2 DEF Waiting
<1>2. p \in Slots /\ slots[p] \in SlotType /\ slots[c] \in SlotType
  <2> HIDE DEF c
  <2>1. p \in DoneParents(c)
    BY <1>1
  <2>2. p \in Slots
    BY <2>1 DEF DoneParents
  <2> QED BY <1>1, <2>2 DEF IInv
<1>3. /\ step = "compute" /\ kv' = seq_cp(seq_rm(kv, c, 0, End), p, c)
      /\ UNCHANGED <<params, step, cur, batch, scan>> /\ UNCHANGED <<view, rehearsal>>
  BY DEF copy_state_to
<1>4. slots' = [slots EXCEPT ![c] = y]
  BY <1>1, <1>2 DEF copy_state_to, IInv, SlotType
<1> HIDE DEF c
<1>5. Books(kv'.cells)
  <2> DEFINE k == seq_rm(kv, c, 0, End)
  <2>1. Books(k.cells)
    BY <1>1, SeqRmBooks DEF IInv
  <2>2. \A i \in Cells : c \notin k.cells[seq_to_stream(c)].seq[i]
    BY <1>1, SeqRmAll DEF IInv
  <2> HIDE DEF k, p
  <2> QED BY <1>1, <1>2, <1>3, <2>1, <2>2, SeqCpBooks DEF k
<1>6. /\ y \in SlotType /\ y.prompt = slots[p].prompt /\ y.state = "done_prompt"
      /\ y.task = slots[c].task
  <2> DEFINE q == slots[p].prompt
             b == slots[p].i_batch
  <2>1. q \in Seq(Tokens) /\ b \in Nat
    BY <1>2 DEF SlotType
  <2> HIDE DEF q, b
  <2> QED BY <1>2, <2>1 DEF SlotType, q, b
<1> HIDE DEF y, p
<1>7. /\ slots' \in [Slots -> SlotType] /\ slots'[c] = y
      /\ \A s \in Slots \ {c} : slots'[s] = slots[s]
  BY <1>1, <1>4, <1>6 DEF IInv
<1>8. SlotsFit'
  <2>1. /\ Len(y.prompt) < params.n_ctx /\ Len(y.task) < params.n_ctx
    BY <1>1, <1>2, <1>6 DEF IInv, SlotsFit
  <2> QED BY <2>1, <1>3, <1>6, <1>7 DEF IInv, SlotsFit
<1>9. RehearsalSound'
  BY <1>3, RehearsalKept DEF IInv
<1> QED BY <1>3, <1>5, <1>7, <1>8, <1>9, DecodingKeeps DEF IInv

\* After a view slots are released, or sample a token, or stay.
LEMMA PostDecodeStep ==
  ASSUME IInv, NEW over \in SUBSET Slots, NEW id \in [Slots -> Sampled],
         post_decode(over, id)
  PROVE  IInv'
<1> DEFINE inside == {s \in Slots : /\ slots[s].state \in {"done_prompt", "generating"}
                                    /\ slots[s].i_batch \in off + 1 .. off + ViewSize}
           goes_on(s) == [slots[s] EXCEPT !.state = "generating", !.sampled = id[s]]
<1>1. /\ step' = "decode" /\ UNCHANGED <<params, cur, scan, batch>>
      /\ off' = off + ViewSize /\ n_batch' = NBatch /\ left' = {} /\ NoRehearsal
      /\ kv' = Clear(kv, over \cap Children)
  BY DEF post_decode
<1>2. slots' = [s \in Slots |-> IF s \in over THEN Released(slots[s])
                                ELSE IF s \in inside THEN goes_on(s) ELSE slots[s]]
  BY DEF post_decode
<1>3. ASSUME NEW s \in Slots
      PROVE  /\ goes_on(s) \in SlotType /\ goes_on(s).state = "generating"
             /\ goes_on(s).prompt = slots[s].prompt /\ goes_on(s).task = slots[s].task
             /\ goes_on(s).sampled \in Tokens
  <2> DEFINE x == slots[s]
             t == id[s]
  <2>1. x \in SlotType /\ t \in Tokens
    BY BatchAssumption DEF IInv
  <2> HIDE DEF x, t
  <2> QED BY <2>1 DEF SlotType, x, t
<1> HIDE DEF inside, goes_on
<1>4. \A s \in Slots : slots'[s] \in {slots[s], Released(slots[s]), goes_on(s)}
  BY <1>2
<1>5. slots' \in [Slots -> SlotType]
  <2>1. \A s \in Slots : slots[s] \in SlotType /\ Released(slots[s]) \in SlotType
    BY ReleasedType DEF IInv
  <2> QED BY <1>2, <1>3, <2>1
<1>6. SlotsFit'
  <2> SUFFICES ASSUME NEW s \in Slots
      PROVE  /\ Len(slots'[s].prompt) < params.n_ctx /\ Len(slots'[s].task) < params.n_ctx
             /\ slots'[s].state = "prompt" => Len(slots'[s].prompt) <= Len(slots'[s].task)
             /\ slots'[s].state = "generating" => slots'[s].sampled \in Tokens
    BY <1>1 DEF SlotsFit
  <2>1. CASE slots'[s] = slots[s]
    BY <2>1 DEF IInv, SlotsFit
  <2>2. CASE slots'[s] = goes_on(s)
    BY <1>3, <2>2 DEF IInv, SlotsFit
  <2>3. CASE slots'[s] = Released(slots[s])
    <3>1. /\ slots[s] \in SlotType /\ Len(slots[s].prompt) \in Nat
          /\ params.n_ctx \in Nat /\ params.n_ctx >= 4
          /\ Len(slots[s].prompt) < params.n_ctx
      BY Contexts DEF IInv, SlotType, SlotsFit
    <3>2. /\ Released(slots[s]) \in SlotType /\ Released(slots[s]).task = << >>
          /\ Len(Released(slots[s]).prompt) <= Len(slots[s].prompt)
          /\ Released(slots[s]).state = "idle"
      BY <3>1, ReleasedType
    <3>3. Len(Released(slots[s]).prompt) \in Nat /\ Len(<< >>) = 0
      BY <3>2 DEF SlotType
    <3>4. Len(Released(slots[s]).prompt) < params.n_ctx /\ 0 < params.n_ctx
      BY <3>1, <3>2, <3>3
    <3> QED BY <2>3, <3>2, <3>3, <3>4
  <2> QED BY <1>4, <2>1, <2>2, <2>3
<1>7. RehearsalSound'
  <2>1. off' \in Nat /\ n_batch' \in Nat
    BY <1>1, ViewBounds, BatchAssumption
  <2> QED BY <1>1, <2>1, RehearsalCleared
<1>8. Books(kv'.cells)
  BY <1>1, ClearBooks DEF IInv
<1> QED BY <1>1, <1>5, <1>6, <1>7, <1>8, DecodingKeeps DEF IInv

-----------------------------------------------------------------------------
\* Requests are only ever counted up.
LEMMA TakenCounts ==
  ASSUME taken \in Nat, [Next]_vars
  PROVE  taken' \in Nat
<1>1. CASE TakeTask
  <2>1. taken' = taken + 1 \/ taken' = taken
    <3>1. \A s \in Slots, toks \in Prompts :
            launch_slot_with_task(s, toks) => taken' = taken + 1
      BY Zenon DEF launch_slot_with_task
    <3>2. \A p, c \in Slots, toks \in Prompts :
            launch_slots_with_parent_task(p, c, toks) => taken' = taken + 1
      BY Zenon DEF launch_slots_with_parent_task
    <3>3. \A s \in Slots : Cancel(s) => taken' = taken
      BY Zenon DEF Cancel
    <3> QED BY <1>1, <3>1, <3>2, <3>3, Zenon DEF TakeTask
  <2> QED BY <2>1
<1>2. CASE update_slots
  <2>1. ASSUME BeginRound \/ ContextShift \/ AddSampled \/ StartPrompt \/ ReuseChunk
               \/ KeepPrefix \/ FillPrompt \/ SkipPrompt \/ EndRound \/ BeginDecode
        PROVE  taken' = taken
    <3>1. /\ BeginRound => taken' = taken
          /\ SkipPrompt => taken' = taken
          /\ EndRound => taken' = taken
          /\ BeginDecode => taken' = taken
      BY DEF BeginRound, SkipPrompt, EndRound, BeginDecode
    <3>2. ContextShift => taken' = taken
      BY DEF ContextShift
    <3>3. AddSampled => taken' = taken
      BY DEF AddSampled
    <3>4. StartPrompt => taken' = taken
      BY DEF StartPrompt
    <3>5. ReuseChunk => taken' = taken
      BY DEF ReuseChunk
    <3>6. KeepPrefix => taken' = taken
      BY DEF KeepPrefix
    <3>7. FillPrompt => taken' = taken
      BY DEF FillPrompt
    <3> QED BY <2>1, <3>1, <3>2, <3>3, <3>4, <3>5, <3>6, <3>7
  <2>2. ASSUME Prepare \/ Prepared \/ RestoreOne \/ Restored \/ ComputeUbatch
               \/ ComputeFails \/ NoSlot \/ copy_state_to
        PROVE  taken' = taken
    BY <2>2 DEF Prepare, Prepared, RestoreOne, Restored, ComputeUbatch, ComputeFails,
                NoSlot, AbortAll, copy_state_to
  <2>3. ASSUME NEW over \in SUBSET Slots, NEW id \in [Slots -> Sampled],
               post_decode(over, id)
        PROVE  taken' = taken
    BY <2>3 DEF post_decode
  <2> QED BY <1>2, <2>1, <2>2, <2>3 DEF update_slots
<1>3. CASE UNCHANGED vars
  BY <1>3 DEF vars
<1> QED BY <1>1, <1>2, <1>3 DEF Next, WaitForTask

\* The invariant is inductive.
LEMMA IInvStep == CountedInv /\ [Next]_vars => CountedInv'
<1> SUFFICES ASSUME IInv, taken \in Nat, [Next]_vars PROVE IInv'
  BY TakenCounts DEF CountedInv
<1>1. CASE TakeTask
  BY <1>1, TaskSteps
<1>2. CASE update_slots
  <2>1. CASE BeginRound \/ ContextShift
    BY <2>1, ShiftSteps
  <2>2. CASE AddSampled
    BY <2>2, SampledStep
  <2>3. CASE StartPrompt \/ ReuseChunk
    BY <2>3, ReuseSteps
  <2>4. CASE KeepPrefix \/ FillPrompt \/ SkipPrompt
    BY <2>4, PromptSteps
  <2>5. CASE EndRound \/ BeginDecode \/ Prepared \/ RestoreOne \/ Restored
    BY <2>5, RehearseSteps
  <2>6. CASE Prepare
    BY <2>6, PrepareStep
  <2>7. CASE ComputeUbatch \/ ComputeFails
    BY <2>7, ComputeSteps
  <2>8. CASE NoSlot
    BY <2>8, NoSlotStep
  <2>9. CASE copy_state_to
    BY <2>9, CopyStep
  <2>10. CASE \E over \in SUBSET Slots, id \in [Slots -> Sampled] : post_decode(over, id)
    BY <2>10, PostDecodeStep
  <2> QED BY <1>2, <2>1, <2>2, <2>3, <2>4, <2>5, <2>6, <2>7, <2>8, <2>9, <2>10
          DEF update_slots
<1>3. CASE UNCHANGED vars
  <2>1. /\ UNCHANGED <<kv, params, slots, step, cur, scan, batch, view, rehearsal>>
        /\ batch' \in Seq(EntryType) /\ Len(batch) <= Len(batch')
    BY <1>3 DEF vars, IInv
  <2>2. RehearsalSound'
    BY <2>1, RehearsalKept
  <2>3. SlotsFit' /\ RoomToAdd' /\ ScanFits'
    BY <2>1 DEF IInv, SlotsFit, RoomToAdd, ScanFits
  <2> QED BY <2>1, <2>2, <2>3 DEF IInv
<1> QED BY <1>1, <1>2, <1>3 DEF Next, WaitForTask

\* The bookkeeping of the cells is exact in every reachable state: for any
\* number of slots, cells and positions, and whatever requests are shifted,
\* copied, rehearsed, evicted, cancelled or aborted, used cells, empty cells
\* and the counts per sequence and position agree with the cells.
THEOREM BooksExact == Spec => []CellsExact
<1>1. Init => CountedInv
  BY IInvInit DEF Init, CountedInv
<1>2. CountedInv => CellsExact
  BY DEF CountedInv, IInv, Books, Exact, CellsExact
<1> QED BY <1>1, <1>2, IInvStep, PTL DEF Spec

-----------------------------------------------------------------------------
(***************************************************************************)
(* The cache other than its books                                          *)
(***************************************************************************)
\* What the buffers hold: a token, and the position its keys are turned for.
Buffer == [Cells -> [tok : Tokens \cup {NoToken}, at : Int]]

\* Copying the buffers of streams one after the other gives buffers.  The
\* function CopyBuffers chooses exists for every list of copies, and no first
\* copy gives anything else.
LEMMA CopiedType ==
  ASSUME NEW data \in [Slots -> Buffer], NEW copies \in Seq(Slots \X Slots)
  PROVE  CopyBuffers(data, copies) \in [Slots -> Buffer]
<1> DEFINE D == [Slots -> Buffer]
           N == Len(copies)
           Copy(d, n) == [d EXCEPT ![copies[n][2]] = d[copies[n][1]]]
           After(f, m) == [n \in 0 .. m |-> IF n = 0 THEN data ELSE Copy(f[n - 1], n)]
           Good(m) == \E f \in [0 .. m -> D] : f = After(f, m)
           Bad == {m \in 0 .. N : ~Good(m)}
<1>1. N \in Nat
  OBVIOUS
<1>2. \A n \in 1 .. N, d \in D : Copy(d, n) \in D
  <2> TAKE n \in 1 .. N, d \in D
  <2>1. copies[n][1] \in Slots /\ copies[n][2] \in Slots
    OBVIOUS
  <2>2. d[copies[n][1]] \in Buffer
    BY <2>1
  <2> HIDE DEF Copy
  <2> HIDE DEF N
  <2> DEFINE b == d[copies[n][1]]
             i == copies[n][2]
  <2>3. [d EXCEPT ![i] = b] \in D
    <3> HIDE DEF b, i
    <3> HIDE <2>1, <2>2
    <3>1. b \in Buffer
      BY <2>2 DEF b
    <3> QED BY <3>1
  <2> QED BY <2>3 DEF Copy
<1>3. Bad = {}
  <2> SUFFICES ASSUME Bad # {} PROVE FALSE
    OBVIOUS
  <2>1. PICK m \in Bad : \A y \in Bad : m <= y
    <3> HIDE DEF Good
    <3>1. Bad \in SUBSET Nat
      BY <1>1
    <3> HIDE DEF Bad
    <3>2. Min(Bad) \in Bad /\ \A y \in Bad : Min(Bad) <= y
      BY <3>1, MinIsMember
    <3> QED BY <3>2
  <2>2. CASE m = 0
    <3> DEFINE f == [n \in 0 .. 0 |-> data]
    <3>1. f \in [0 .. 0 -> D]
      OBVIOUS
    <3>2. f = After(f, 0)
      OBVIOUS
    <3> HIDE DEF After, D, f
    <3> QED BY <2>1, <2>2, <3>1, <3>2
  <2>3. CASE m # 0
    <3>1. m \in Nat /\ m - 1 \in 0 .. N /\ m \in 1 .. N /\ Good(m - 1)
      <4> HIDE DEF Good
      <4>1. m \in 0 .. N /\ m - 1 \in 0 .. N /\ m \in Nat /\ ~(m <= m - 1) /\ m \in 1 .. N
        BY <1>1, <2>1, <2>3
      <4> QED BY <2>1, <4>1
    <3>2. PICK f \in [0 .. m - 1 -> D] : f = After(f, m - 1)
      BY <3>1
    <3> DEFINE g == [n \in 0 .. m |-> IF n = m THEN Copy(f[m - 1], m) ELSE f[n]]
    <3>3. g \in [0 .. m -> D]
      <4> HIDE DEF D, Copy, N
      <4> QED BY <1>2, <3>1, <3>2
    <3>4. ASSUME NEW n \in 0 .. m PROVE g[n] = After(g, m)[n]
      <4> HIDE DEF D, Copy, N
      <4> QED BY <2>3, <3>1, <3>2, <3>4
    <3>5. g = After(g, m)
      <4> HIDE DEF D, Copy, N
      <4> QED BY <3>4
    <3> HIDE DEF g, After, D
    <3> QED BY <2>1, <3>3, <3>5
  <2> QED BY <2>2, <2>3
<1>4. Good(N)
  <2> HIDE DEF Good, N
  <2> QED BY <1>1, <1>3
<1> DEFINE F == CHOOSE f : f = After(f, N)
<1>5. F = After(F, N)
  <2> HIDE DEF After, D, N
  <2> QED BY <1>4
<1>6. CopyBuffers(data, copies) = F[N]
  BY DEF CopyBuffers
<1> HIDE DEF F
<1> DEFINE Off == {n \in 0 .. N : F[n] \notin D}
<1>7. Off = {}
  <2> HIDE DEF D, N, Copy
  <2> SUFFICES ASSUME Off # {} PROVE FALSE
    OBVIOUS
  <2>1. Min(Off) \in Off /\ \A y \in Off : Min(Off) <= y
    <3>1. Off \in SUBSET Nat
      BY <1>1
    <3> HIDE DEF Off
    <3> QED BY <3>1, MinIsMember
  <2> DEFINE m == Min(Off)
  <2>2. m \in 0 .. N /\ F[m] \notin D /\ m \in Nat
    BY <1>1, <2>1
  <2>3. m # 0
    <3>1. F[0] = data
      BY <1>1, <1>5
    <3> HIDE DEF m
    <3> QED BY <2>2, <3>1 DEF D
  <2>4. ~(m <= m - 1) /\ m - 1 \in 0 .. N /\ m \in 1 .. N
    <3> HIDE DEF m
    <3> QED BY <1>1, <2>2, <2>3
  <2>5. F[m - 1] \in D
    BY <2>1, <2>4
  <2>6. F[m] = Copy(F[m - 1], m)
    <3> HIDE DEF m
    <3> QED BY <1>5, <2>2, <2>3
  <2> HIDE DEF m
  <2> QED BY <1>2, <2>2, <2>4, <2>5, <2>6
<1>8. F[N] \in D
  <2> HIDE DEF D, N
  <2> QED BY <1>1, <1>7
<1> QED BY <1>6, <1>8

-----------------------------------------------------------------------------
\* A cache other than its books: heads within the stream, or just behind its
\* last cell, copies between streams, and buffers with a token in every cell.
Typed(k) ==
  /\ k = [cells |-> k.cells, head |-> k.head, copies |-> k.copies, data |-> k.data]
  /\ k.head \in [Slots -> 0 .. Size]
  /\ k.copies \in Seq(Slots \X Slots)
  /\ k.data \in [Slots -> Buffer]

\* Books and heads that are replaced leave the rest of the cache as it was.
LEMMA WithBooksTyped ==
  ASSUME NEW k, Typed(k), NEW cells, NEW head \in [Slots -> 0 .. Size]
  PROVE  Typed(WithBooks(k, cells, head))
BY DEF Typed, WithBooks

\* The head moves down to a cell.
LEMMA LowerType ==
  ASSUME NEW head \in 0 .. Size, NEW freed \in SUBSET Cells
  PROVE  Lower(head, freed) \in 0 .. Size /\ (freed # {} => Min(freed) \in 0 .. Size)
<1>1. freed \in SUBSET Nat
  BY SizesAssumption DEF Cells
<1>2. freed # {} => Min(freed) \in freed
  BY <1>1, MinIsMember
<1>3. Cells \subseteq 0 .. Size
  BY SizesAssumption DEF Cells
<1>4. freed # {} => Min(freed) \in 0 .. Size
  BY <1>2, <1>3
<1> QED BY <1>4 DEF Lower

\* Removing cells (seq_rm) moves a head at most down to a cell.
LEMMA SeqRmTyped ==
  ASSUME NEW k, Typed(k), NEW s \in Slots, NEW p0, NEW p1
  PROVE  Typed(seq_rm(k, s, p0, p1))
<1> DEFINE st == seq_to_stream(s)
           c  == k.cells[st]
           d  == Drop(c, [i \in Cells |-> IF i \in Hit(c, s, p0, p1) THEN {s} ELSE {}])
           h  == Lower(k.head[st], Freed(c, d))
           cs == [k.cells EXCEPT ![st] = d]
<1>1. st \in Slots /\ k.head[st] \in 0 .. Size
  BY StreamType DEF Typed
<1>2. Freed(c, d) \in SUBSET Cells
  BY DEF Freed
<1>3. seq_rm(k, s, p0, p1) = WithBooks(k, cs, [k.head EXCEPT ![st] = h])
  BY DEF seq_rm
<1>4. h \in 0 .. Size
  <2> HIDE DEF st, c, d
  <2> QED BY <1>1, <1>2, LowerType
<1> HIDE DEF st, c, d, h, cs
<1>5. [k.head EXCEPT ![st] = h] \in [Slots -> 0 .. Size]
  BY <1>1, <1>4 DEF Typed
<1> QED BY <1>3, <1>5, WithBooksTyped

\* A shift of positions (seq_add) moves the head of its stream to a freed cell
\* or to the first one.
LEMMA SeqAddTyped ==
  ASSUME NEW k, Typed(k), NEW s \in Slots, NEW p0, NEW p1, NEW d
  PROVE  Typed(seq_add(k, s, p0, p1, d))
<1> DEFINE st == seq_to_stream(s)
           c  == k.cells[st]
           e  == pos_add(c, Hit(c, s, p0, p1), d)
           h  == IF Freed(c, e) = {} THEN 0 ELSE Min(Freed(c, e))
           cs == [k.cells EXCEPT ![st] = e]
<1>1. st \in Slots /\ 0 \in 0 .. Size
  BY StreamType, SizesAssumption
<1>2. Freed(c, e) \in SUBSET Cells
  BY DEF Freed
<1>3. seq_add(k, s, p0, p1, d)
        = IF d = 0 \/ p0 = p1 THEN k ELSE WithBooks(k, cs, [k.head EXCEPT ![st] = h])
  BY DEF seq_add
<1>4. h \in 0 .. Size
  <2> HIDE DEF st, c, e
  <2> QED BY <1>1, <1>2, LowerType
<1> HIDE DEF st, c, e, h, cs
<1>5. [k.head EXCEPT ![st] = h] \in [Slots -> 0 .. Size]
  BY <1>1, <1>4 DEF Typed
<1>6. Typed(WithBooks(k, cs, [k.head EXCEPT ![st] = h]))
  BY <1>5, WithBooksTyped
<1> QED BY <1>3, <1>6

\* A copy between streams (seq_cp) takes the head along and is noted for the
\* buffers.
LEMMA SeqCpTyped ==
  ASSUME NEW k, Typed(k), NEW src \in Slots, NEW dst \in Slots
  PROVE  Typed(seq_cp(k, src, dst))
<1> DEFINE s0 == seq_to_stream(src)
           s1 == seq_to_stream(dst)
           j  == seq_cp(k, src, dst)
<1>1. s0 \in Slots /\ s1 \in Slots
  BY StreamType
<1>2. CASE s0 = s1
  <2>1. \E cells : j = WithBooks(k, cells, k.head)
    BY <1>2 DEF seq_cp
  <2>2. k.head \in [Slots -> 0 .. Size]
    BY DEF Typed
  <2>3. \A cells : Typed(WithBooks(k, cells, k.head))
    BY <2>2, WithBooksTyped
  <2> HIDE DEF j
  <2>4. Typed(j)
    BY <2>1, <2>3, Zenon
  <2> QED BY <2>4 DEF j
<1>3. CASE s0 # s1
  <2>1. \E cells : j = [cells  |-> cells,
                        head   |-> [k.head EXCEPT ![s1] = k.head[s0]],
                        copies |-> Append(k.copies, <<s0, s1>>),
                        data   |-> k.data]
    BY <1>3 DEF seq_cp
  <2> HIDE DEF j, s0, s1
  <2>2. [k.head EXCEPT ![s1] = k.head[s0]] \in [Slots -> 0 .. Size]
    <3> DEFINE h == k.head[s0]
    <3>1. h \in 0 .. Size
      BY <1>1 DEF Typed
    <3> HIDE DEF h
    <3> QED BY <1>1, <3>1 DEF Typed
  <2>3. Append(k.copies, <<s0, s1>>) \in Seq(Slots \X Slots)
    BY <1>1 DEF Typed
  <2> QED BY <2>1, <2>2, <2>3 DEF Typed, j
<1> QED BY <1>2, <1>3

\* Removing whole sequences lowers heads to freed cells.
LEMMA ClearTyped ==
  ASSUME NEW k, Typed(k), NEW S
  PROVE  Typed(Clear(k, S))
<1> DEFINE d(st) == Drop(k.cells[st], [i \in Cells |-> k.cells[st].seq[i] \cap S])
           cs == [st \in Slots |-> d(st)]
           h  == [st \in Slots |-> Lower(k.head[st], Freed(k.cells[st], d(st)))]
<1>1. Clear(k, S) = WithBooks(k, cs, h)
  BY DEF Clear
<1>2. ASSUME NEW st \in Slots
      PROVE  Lower(k.head[st], Freed(k.cells[st], d(st))) \in 0 .. Size
  <2>1. Freed(k.cells[st], d(st)) \in SUBSET Cells /\ k.head[st] \in 0 .. Size
    BY DEF Freed, Typed
  <2> HIDE DEF d
  <2> QED BY <2>1, LowerType
<1> HIDE DEF d, cs
<1>3. h \in [Slots -> 0 .. Size]
  BY <1>2
<1> HIDE DEF h
<1> QED BY <1>1, <1>3, WithBooksTyped

\* An update makes the copies that are pending and turns the keys of the
\* cells that were shifted.
LEMMA UpdateTyped ==
  ASSUME NEW k, Typed(k), Books(k.cells)
  PROVE  Typed(update(k))
<1> DEFINE copied   == CopyBuffers(k.data, k.copies)
           do_shift == \E st \in Slots : k.cells[st].has_shift
           cs == IF do_shift THEN [st \in Slots |-> reset_shift(k.cells[st])] ELSE k.cells
           ds == IF do_shift
                 THEN [st \in Slots |-> ShiftBuffer(k.cells[st], copied[st])]
                 ELSE copied
<1>1. update(k) = [cells |-> cs, head |-> k.head, copies |-> << >>, data |-> ds]
  BY DEF update
<1>2. copied \in [Slots -> Buffer]
  BY CopiedType DEF Typed
<1> HIDE DEF copied
<1>3. ASSUME NEW st \in Slots
      PROVE  ShiftBuffer(k.cells[st], copied[st]) \in Buffer
  <2> DEFINE c == k.cells[st]
             b == copied[st]
  <2>1. c.shift \in [Cells -> Int] /\ b \in Buffer
    BY <1>2 DEF Books, CellsType
  <2> HIDE DEF c, b
  <2>2. ASSUME NEW i \in Cells
        PROVE  (IF c.pos[i] = -1 THEN b[i] ELSE [b[i] EXCEPT !.at = @ + c.shift[i]])
                  \in [tok : Tokens \cup {NoToken}, at : Int]
    <3>1. b[i] \in [tok : Tokens \cup {NoToken}, at : Int] /\ c.shift[i] \in Int
      BY <2>1 DEF Buffer
    <3> DEFINE z == b[i]
               n == c.shift[i]
    <3>2. [z EXCEPT !.at = z.at + n] \in [tok : Tokens \cup {NoToken}, at : Int]
      <4>1. z \in [tok : Tokens \cup {NoToken}, at : Int] /\ n \in Int
        BY <3>1
      <4> HIDE DEF z, n
      <4> QED BY <4>1
    <3> QED BY <3>1, <3>2
  <2>3. ShiftBuffer(c, b) \in Buffer
    BY <2>2 DEF ShiftBuffer, Buffer
  <2> QED BY <2>3 DEF c, b
<1>4. ds \in [Slots -> Buffer]
  <2> HIDE DEF do_shift, Buffer
  <2> QED BY <1>2, <1>3
<1> HIDE DEF cs, ds
<1>5. << >> \in Seq(Slots \X Slots)
  OBVIOUS
<1> QED BY <1>1, <1>4, <1>5 DEF Typed

\* The head of a stream moves behind the last cell that was filled.
LEMMA ApplyTyped ==
  ASSUME NEW k, Typed(k), NEW sinfo, NEW toks, NEW N \in Nat,
         \A st \in Slots, i \in Cells : sinfo[st][i] \in 0 .. N
  PROVE  Typed(apply_ubatch(k, sinfo, toks))
<1> DEFINE used(st)   == {i \in Cells : sinfo[st][i] # 0}
           placed(st) == Purge(k.cells[st], Emplace(k.cells[st], sinfo[st], toks), sinfo[st])
           last(st)   == CHOOSE i \in used(st) :
                           \A x \in used(st) : sinfo[st][x] <= sinfo[st][i]
           cs == [st \in Slots |-> IF used(st) = {} THEN k.cells[st] ELSE placed(st)]
           h  == [st \in Slots |-> IF used(st) = {} THEN k.head[st] ELSE last(st) + 1]
<1>1. apply_ubatch(k, sinfo, toks) = WithBooks(k, cs, h)
  BY DEF apply_ubatch
<1>2. ASSUME NEW st \in Slots, used(st) # {}
      PROVE  last(st) + 1 \in 0 .. Size
  <2> DEFINE V == {sinfo[st][i] : i \in used(st)}
  <2>1. V \in SUBSET (0 .. N) /\ V # {}
    BY <1>2
  <2>2. Max(V) \in V /\ \A y \in V : y <= Max(V)
    <3> HIDE DEF V
    <3> QED BY <2>1, MaxIsMember
  <2>3. \E i \in used(st) : \A x \in used(st) : sinfo[st][x] <= sinfo[st][i]
    BY <2>2
  <2>4. last(st) \in used(st)
    <3> HIDE DEF used
    <3> QED BY <2>3
  <2>5. last(st) \in Cells
    <3> HIDE DEF last
    <3> QED BY <2>4
  <2> HIDE DEF last
  <2> QED BY <2>5, SizesAssumption DEF Cells
<1> HIDE DEF cs, last, used
<1>3. \A st \in Slots : k.head[st] \in 0 .. Size
  BY DEF Typed
<1>4. h \in [Slots -> 0 .. Size]
  BY <1>2, <1>3
<1> HIDE DEF h
<1> QED BY <1>1, <1>4, WithBooksTyped

\* What is computed is written into the buffers.
LEMMA ComputeTyped ==
  ASSUME NEW k, Typed(k), NEW sinfo, NEW toks \in Seq(EntryType),
         \A st \in Slots, i \in Cells : sinfo[st][i] \in 0 .. Len(toks)
  PROVE  Typed(Compute(k, sinfo, toks))
<1> DEFINE j == apply_ubatch(k, sinfo, toks)
           d == [st \in Slots |-> [i \in Cells |->
                   IF sinfo[st][i] # 0
                   THEN [tok |-> toks[sinfo[st][i]].tok, at |-> toks[sinfo[st][i]].pos]
                   ELSE j.data[st][i]]]
<1>1. Len(toks) \in Nat
  OBVIOUS
<1>2. Typed(j)
  BY <1>1, ApplyTyped
<1>3. Compute(k, sinfo, toks) = [j EXCEPT !.data = d]
  BY DEF Compute
<1> HIDE DEF j
<1>4. ASSUME NEW st \in Slots, NEW i \in Cells
      PROVE  (IF sinfo[st][i] # 0
              THEN [tok |-> toks[sinfo[st][i]].tok, at |-> toks[sinfo[st][i]].pos]
              ELSE j.data[st][i]) \in [tok : Tokens \cup {NoToken}, at : Int]
  <2>1. j.data[st][i] \in [tok : Tokens \cup {NoToken}, at : Int]
    BY <1>2 DEF Typed, Buffer
  <2>2. ASSUME sinfo[st][i] # 0
        PROVE  toks[sinfo[st][i]].tok \in Tokens /\ toks[sinfo[st][i]].pos \in Int
    <3>1. sinfo[st][i] \in 1 .. Len(toks)
      BY <2>2
    <3>2. toks[sinfo[st][i]] \in EntryType
      BY <3>1
    <3> QED BY <3>2, SizesAssumption DEF EntryType, Positions
  <2> QED BY <2>1, <2>2
<1>5. d \in [Slots -> Buffer]
  BY <1>4 DEF Buffer
<1> HIDE DEF d
<1> QED BY <1>2, <1>3, <1>5 DEF Typed

\* The heads that prepare() puts back are heads, though they are looked up by
\* the place of a stream within the ubatch: a place is a stream's number too.
LEMMA RestoreTyped ==
  ASSUME NEW k, Typed(k), NEW old, NEW hs \in [Slots -> 0 .. Size], NEW sinfo
  PROVE  Typed(Restore(k, old, hs, sinfo))
<1> DEFINE in_ub     == {st \in Slots : \E i \in Cells : sinfo[st][i] # 0}
           before(st) == {x \in in_ub : x < st}
           place(st) == Cardinality(before(st))
           h == [st \in Slots |-> IF st \in in_ub THEN hs[place(st)] ELSE k.head[st]]
<1>1. \E cells : Restore(k, old, hs, sinfo) = WithBooks(k, cells, h)
  BY DEF Restore
<1>2. ASSUME NEW st \in Slots
      PROVE  place(st) \in Slots
  <2>1. st \in Nat /\ st - 1 \in Int /\ st < NSlots
    BY SizesAssumption DEF Slots
  <2>2. IsFiniteSet(0 .. st - 1) /\ Cardinality(0 .. st - 1) = st
    <3> DEFINE e == st - 1
    <3>1. 0 \in Int /\ e \in Int /\ (0 > e => st = 0) /\ e - 0 + 1 = st
      BY <2>1
    <3> HIDE DEF e
    <3>2. /\ IsFiniteSet(0 .. e)
          /\ Cardinality(0 .. e) = IF 0 > e THEN 0 ELSE e - 0 + 1
      BY <3>1, FS_Interval
    <3> QED BY <3>1, <3>2 DEF e
  <2>3. before(st) \subseteq 0 .. st - 1
    BY <2>1, SizesAssumption DEF Slots
  <2> HIDE DEF before
  <2>4. Cardinality(before(st)) \in Nat /\ Cardinality(before(st)) <= st
    BY <2>2, <2>3, FS_Subset, FS_CardinalityType
  <2> HIDE DEF place
  <2> QED BY <2>1, <2>4, SizesAssumption DEF Slots, place
<1> HIDE DEF in_ub, place
<1>3. h \in [Slots -> 0 .. Size]
  BY <1>2 DEF Typed
<1> HIDE DEF h
<1> QED BY <1>1, <1>3, WithBooksTyped

-----------------------------------------------------------------------------
(***************************************************************************)
(* Types.  What CellsExact does not need: the cache other than its books,  *)
(* the heads that prepare() keeps, one for every copy of the cells, where  *)
(* the loop is, and the size of a view, which is halved but never to 0.    *)
(***************************************************************************)
HeadsKept == heads \in Seq([Slots -> 0 .. Size]) /\ Len(heads) = Len(olds)

NumbersFit ==
  /\ taken \in 0 .. MaxTasks
  /\ n_batch \in 1 .. NBatch
  /\ step \in {"tasks", "shift", "sampled", "prompt", "reuse", "keep", "decode",
               "prepare", "restore", "give_up", "compute", "no_slot"}

TInv == CountedInv /\ Typed(kv) /\ HeadsKept /\ NumbersFit

\* Every step leaves a cache with heads, copies and buffers.
LEMMA TypedStep ==
  ASSUME IInv, Typed(kv), HeadsKept, [Next]_vars
  PROVE  Typed(kv')
<1>0. cur \in Slots /\ Books(kv.cells)
  BY DEF IInv
<1>1. ASSUME UNCHANGED kv PROVE Typed(kv')
  BY <1>1
<1>2. ASSUME NEW S, kv' = Clear(kv, S) PROVE Typed(kv')
  BY <1>2, ClearTyped
<1>3. \A n \in 1 .. Len(sinfos) : \A st \in Slots, i \in Cells :
         sinfos[n][st][i] \in 0 .. Len(batch)
  <2> TAKE n \in 1 .. Len(sinfos)
  <2> TAKE st \in Slots, i \in Cells
  <2>1. sinfos[n] \in SinfoType /\ sinfos[n][st][i] <= Len(batch)
    BY DEF IInv, RehearsalSound
  <2>2. sinfos[n][st][i] \in Nat /\ Len(batch) \in Nat
    BY <2>1 DEF SinfoType, IInv
  <2> QED BY <2>1, <2>2
<1>4. CASE TakeTask
  <2>1. UNCHANGED kv \/ \E S : kv' = Clear(kv, S)
    BY <1>4 DEF TakeTask, launch_slot_with_task, launch_slots_with_parent_task,
                Cancel, release
  <2> QED BY <1>1, <1>2, <2>1
<1>5. CASE ContextShift
  <2>1. \/ UNCHANGED kv
        \/ \E S : kv' = Clear(kv, S)
        \/ \E p, q, r, d : kv' = seq_add(seq_rm(kv, cur, p, q), cur, q, r, d)
    BY <1>5 DEF ContextShift, release, ShiftContext
  <2>2. ASSUME NEW p, NEW q, NEW r, NEW d
        PROVE  Typed(seq_add(seq_rm(kv, cur, p, q), cur, q, r, d))
    BY <1>0, SeqRmTyped, SeqAddTyped
  <2> QED BY <1>1, <1>2, <2>1, <2>2
<1>6. CASE ReuseChunk
  <2>1. \/ UNCHANGED kv
        \/ \E p, q, r, d : kv' = seq_add(seq_rm(kv, cur, p, q), cur, q, r, d)
    BY <1>6 DEF ReuseChunk
  <2>2. ASSUME NEW p, NEW q, NEW r, NEW d
        PROVE  Typed(seq_add(seq_rm(kv, cur, p, q), cur, q, r, d))
    BY <1>0, SeqRmTyped, SeqAddTyped
  <2> QED BY <1>1, <2>1, <2>2
<1>7. CASE FillPrompt
  <2>1. \E p, q : kv' = seq_rm(kv, cur, p, q)
    BY <1>7 DEF FillPrompt
  <2> QED BY <1>0, <2>1, SeqRmTyped
<1>8. CASE BeginRound \/ AddSampled \/ StartPrompt \/ KeepPrefix \/ SkipPrompt
           \/ EndRound \/ Prepared \/ Restored
  <2>1. UNCHANGED kv
    BY <1>8 DEF BeginRound, AddSampled, StartPrompt, KeepPrefix, SkipPrompt, EndRound,
                Prepared, Restored
  <2> QED BY <1>1, <2>1
<1>9. CASE BeginDecode
  BY <1>0, <1>9, UpdateTyped DEF BeginDecode
<1>10. CASE Prepare
  <2> DEFINE ub    == NextUbatch
             sinfo == slot_info(kv, ub)
  <2>1. \A st \in Slots : ub[st] \subseteq 1 .. Len(batch)
    <3>1. \A st \in Slots : ub[st] \subseteq left
      BY DEF NextUbatch
    <3> QED BY <3>1 DEF IInv, RehearsalSound
  <2> HIDE DEF ub
  <2>2. Len(batch) \in Nat
    BY DEF IInv
  <2>3. sinfo \in SinfoType /\ \A st \in Slots, i \in Cells : sinfo[st][i] <= Len(batch)
    BY <2>1, <2>2, FoundPlaces
  <2>4. UNCHANGED kv \/ kv' = apply_ubatch(kv, sinfo, batch)
    BY <1>10 DEF Prepare, ub
  <2> HIDE DEF sinfo
  <2>5. \A st \in Slots, i \in Cells : sinfo[st][i] \in 0 .. Len(batch)
    BY <2>2, <2>3 DEF SinfoType
  <2>6. Typed(apply_ubatch(kv, sinfo, batch))
    BY <2>2, <2>5, ApplyTyped
  <2> QED BY <1>1, <2>4, <2>6
<1>11. CASE RestoreOne
  <2> DEFINE n == Len(olds)
  <2>1. olds # << >> /\ kv' = Restore(kv, olds[n], heads[n], sinfos[n])
    BY <1>11 DEF RestoreOne
  <2>2. n \in 1 .. Len(heads)
    BY <2>1 DEF IInv, RehearsalSound, HeadsKept
  <2>3. heads[n] \in [Slots -> 0 .. Size]
    BY <2>2 DEF HeadsKept
  <2> HIDE DEF n
  <2> QED BY <2>1, <2>3, RestoreTyped
<1>12. CASE ComputeUbatch \/ ComputeFails
  <2>1. at \in 1 .. Len(sinfos)
    BY <1>12 DEF ComputeUbatch, ComputeFails, IInv, RehearsalSound
  <2>2. \A st \in Slots, i \in Cells : sinfos[at][st][i] \in 0 .. Len(batch)
    BY <1>3, <2>1
  <2>3. batch \in Seq(EntryType) /\ Len(batch) \in Nat
    BY DEF IInv
  <2>4. Typed(Compute(kv, sinfos[at], batch))
    BY <2>2, <2>3, ComputeTyped
  <2>5. Typed(apply_ubatch(kv, sinfos[at], batch))
    BY <2>2, <2>3, ApplyTyped
  <2>6. \/ kv' = Compute(kv, sinfos[at], batch)
        \/ kv' = Clear(apply_ubatch(kv, sinfos[at], batch), Processing)
    BY <1>12 DEF ComputeUbatch, ComputeFails, AbortAll
  <2> QED BY <2>4, <2>5, <2>6, ClearTyped
<1>13. CASE NoSlot
  <2>1. UNCHANGED kv \/ \E S : kv' = Clear(kv, S)
    BY <1>13 DEF NoSlot, AbortAll
  <2> QED BY <1>1, <1>2, <2>1
<1>14. CASE copy_state_to
  <2> DEFINE c == Min(Waiting)
             p == CHOOSE x \in DoneParents(c) : TRUE
  <2>1. Waiting # {} /\ kv' = seq_cp(seq_rm(kv, c, 0, End), p, c)
    BY <1>14 DEF copy_state_to
  <2>2. c \in Slots /\ DoneParents(c) # {}
    <3>1. Waiting \subseteq Slots /\ Slots \subseteq Nat
      BY SizesAssumption DEF Waiting, Slots
    <3>2. c \in Waiting
      BY <2>1, <3>1, MinIsMember
    <3> HIDE DEF c
    <3> QED BY <3>2 DEF Waiting
  <2> HIDE DEF c
  <2>3. p \in Slots
    <3>1. p \in DoneParents(c)
      BY <2>2
    <3> QED BY <3>1 DEF DoneParents
  <2> HIDE DEF p
  <2>4. Typed(seq_rm(kv, c, 0, End))
    BY <2>2, SeqRmTyped
  <2> QED BY <2>1, <2>2, <2>3, <2>4, SeqCpTyped
<1>15. CASE \E over \in SUBSET Slots, id \in [Slots -> Sampled] : post_decode(over, id)
  <2>1. \E S : kv' = Clear(kv, S)
    BY <1>15 DEF post_decode
  <2> QED BY <1>2, <2>1
<1>16. CASE WaitForTask \/ UNCHANGED vars
  <2>1. UNCHANGED kv
    BY <1>16 DEF WaitForTask, vars
  <2> QED BY <1>1, <2>1
<1> QED BY <1>4, <1>5, <1>6, <1>7, <1>8, <1>9, <1>10, <1>11, <1>12, <1>13, <1>14, <1>15,
           <1>16 DEF Next, update_slots

\* There is one list of heads for every copy of the cells on the recovery
\* stack of prepare().
LEMMA HeadsStep ==
  ASSUME IInv, Typed(kv), HeadsKept, [Next]_vars
  PROVE  HeadsKept'
<1> DEFINE H == [Slots -> 0 .. Size]
<1>0. olds \in Seq([Slots -> CellsType]) /\ heads \in Seq(H) /\ Len(heads) = Len(olds)
  BY DEF IInv, RehearsalSound, HeadsKept
<1>1. ASSUME UNCHANGED <<olds, heads>> PROVE HeadsKept'
  BY <1>1 DEF HeadsKept
<1>2. ASSUME olds' = << >>, heads' = << >> PROVE HeadsKept'
  BY <1>2 DEF HeadsKept
<1>3. CASE Prepare
  <2>1. \/ UNCHANGED <<olds, heads>>
        \/ olds' = Append(olds, kv.cells) /\ heads' = Append(heads, kv.head)
    BY <1>3 DEF Prepare
  <2>2. ASSUME olds' = Append(olds, kv.cells), heads' = Append(heads, kv.head)
        PROVE  HeadsKept'
    <3>1. kv.head \in H
      BY DEF Typed
    <3> DEFINE h == kv.head
               O == [Slots -> CellsType]
    <3>2. Append(heads, h) \in Seq(H) /\ Len(Append(heads, h)) = Len(heads) + 1
      <4> HIDE DEF H, h
      <4> QED BY <1>0, <3>1 DEF h
    <3>3. Len(Append(olds, kv.cells)) = Len(olds) + 1
      <4> HIDE DEF O
      <4>1. olds \in Seq(O)
        BY <1>0 DEF O
      <4> QED BY <4>1
    <3> QED BY <1>0, <2>2, <3>2, <3>3 DEF HeadsKept
  <2> QED BY <1>1, <2>1, <2>2
<1>4. CASE RestoreOne
  <2> DEFINE n == Len(olds)
  <2>1. olds # << >> /\ olds' = SubSeq(olds, 1, n - 1) /\ heads' = SubSeq(heads, 1, n - 1)
    BY <1>4 DEF RestoreOne
  <2>2. n - 1 \in Nat /\ n - 1 <= Len(olds) /\ n - 1 <= Len(heads)
    <3>1. n \in Nat /\ n # 0
      BY <1>0, <2>1
    <3> QED BY <1>0, <3>1
  <2> DEFINE m == n - 1
             O == [Slots -> CellsType]
  <2>3. Len(SubSeq(olds, 1, m)) = m
    <3>1. olds \in Seq(O) /\ m \in Nat /\ m <= Len(olds)
      BY <1>0, <2>2
    <3> HIDE DEF m, O
    <3> QED BY <3>1, FirstOf
  <2>4. SubSeq(heads, 1, m) \in Seq(H) /\ Len(SubSeq(heads, 1, m)) = m
    <3>1. heads \in Seq(H) /\ m \in Nat /\ m <= Len(heads)
      BY <1>0, <2>2
    <3> HIDE DEF m, H
    <3> QED BY <3>1, FirstOf
  <2> HIDE DEF n
  <2> QED BY <2>1, <2>3, <2>4 DEF HeadsKept
<1>5. CASE TakeTask
  <2>1. UNCHANGED <<olds, heads>>
    BY <1>5 DEF TakeTask, launch_slot_with_task, launch_slots_with_parent_task,
                Cancel, rehearsal
  <2> QED BY <1>1, <2>1
<1>6. CASE BeginRound \/ ContextShift \/ AddSampled \/ StartPrompt \/ ReuseChunk
           \/ KeepPrefix \/ FillPrompt \/ SkipPrompt \/ Prepared \/ Restored
  <2>1. UNCHANGED rehearsal
    BY <1>6 DEF BeginRound, ContextShift, AddSampled, StartPrompt, ReuseChunk,
                KeepPrefix, FillPrompt, SkipPrompt, Prepared, Restored
  <2> QED BY <1>1, <2>1 DEF rehearsal
<1>7. CASE ComputeUbatch \/ copy_state_to
  <2>1. UNCHANGED <<olds, heads>>
    BY <1>7 DEF ComputeUbatch, copy_state_to, rehearsal
  <2> QED BY <1>1, <2>1
<1>8. CASE EndRound \/ BeginDecode \/ ComputeFails
  <2>1. olds' = << >> /\ heads' = << >>
    BY <1>8 DEF EndRound, BeginDecode, ComputeFails, AbortAll, RoundOver, NoRehearsal
  <2> QED BY <1>2, <2>1
<1>9. CASE NoSlot
  <2>1. UNCHANGED <<olds, heads>> \/ (olds' = << >> /\ heads' = << >>)
    BY <1>9 DEF NoSlot, AbortAll, RoundOver, NoRehearsal, rehearsal
  <2> QED BY <1>1, <1>2, <2>1
<1>10. CASE \E over \in SUBSET Slots, id \in [Slots -> Sampled] : post_decode(over, id)
  <2>1. olds' = << >> /\ heads' = << >>
    BY <1>10 DEF post_decode, NoRehearsal
  <2> QED BY <1>2, <2>1
<1>11. CASE WaitForTask \/ UNCHANGED vars
  <2>1. UNCHANGED <<olds, heads>>
    BY <1>11 DEF WaitForTask, vars, rehearsal
  <2> QED BY <1>1, <2>1
<1> QED BY <1>3, <1>4, <1>5, <1>6, <1>7, <1>8, <1>9, <1>10, <1>11 DEF Next, update_slots

\* A view is halved only while it has more than one token, and requests are
\* taken up to the bound.
LEMMA NumbersStep ==
  ASSUME NumbersFit, [Next]_vars
  PROVE  NumbersFit'
<1>0. MaxTasks \in Nat /\ NBatch \in Nat /\ NBatch >= 1 /\ NBatch \in 1 .. NBatch
  BY BatchAssumption
<1>1. CASE TakeTask
  <2>1. /\ UNCHANGED step /\ UNCHANGED view
        /\ taken' = taken \/ (taken < MaxTasks /\ taken' = taken + 1)
    BY <1>1 DEF TakeTask, launch_slot_with_task, launch_slots_with_parent_task, Cancel
  <2> QED BY <1>0, <2>1 DEF NumbersFit, view
<1>2. CASE BeginRound \/ ContextShift \/ AddSampled \/ StartPrompt \/ ReuseChunk
           \/ KeepPrefix \/ FillPrompt \/ SkipPrompt \/ Prepared \/ Restored
           \/ BeginDecode
  <2>1. UNCHANGED taken /\ UNCHANGED view
    BY <1>2 DEF BeginRound, ContextShift, AddSampled, StartPrompt, ReuseChunk,
                KeepPrefix, FillPrompt, SkipPrompt, Prepared, Restored, BeginDecode
  <2>2. \/ UNCHANGED step
        \/ step' \in {"shift", "sampled", "prompt", "reuse", "keep", "decode", "prepare",
                      "restore", "compute", "no_slot"}
    BY <1>2 DEF BeginRound, ContextShift, AddSampled, StartPrompt, ReuseChunk,
                KeepPrefix, FillPrompt, SkipPrompt, Prepared, Restored, BeginDecode,
                Advance
  <2> QED BY <2>1, <2>2 DEF NumbersFit, view
<1>3. CASE \/ EndRound \/ ComputeFails
           \/ \E over \in SUBSET Slots, id \in [Slots -> Sampled] : post_decode(over, id)
  <2>1. UNCHANGED taken /\ n_batch' = NBatch /\ step' \in {"tasks", "decode"}
    BY <1>3 DEF EndRound, ComputeFails, AbortAll, RoundOver, post_decode
  <2> QED BY <1>0, <2>1 DEF NumbersFit
<1>4. CASE Prepare \/ RestoreOne \/ ComputeUbatch \/ copy_state_to
  <2>1. UNCHANGED taken /\ UNCHANGED view /\ (UNCHANGED step \/ step' = "give_up")
    BY <1>4 DEF Prepare, RestoreOne, ComputeUbatch, copy_state_to
  <2> QED BY <2>1 DEF NumbersFit, view
<1>5. CASE NoSlot
  <2>1. /\ UNCHANGED taken /\ step' \in {"tasks", "decode"}
        /\ \/ n_batch' = NBatch
           \/ n_batch' = n_batch
           \/ n_batch # 1 /\ n_batch' = n_batch \div 2
    BY <1>5 DEF NoSlot, AbortAll, RoundOver, view
  <2>2. n_batch' \in 1 .. NBatch
    BY <1>0, <2>1 DEF NumbersFit
  <2> QED BY <2>1, <2>2 DEF NumbersFit
<1>6. CASE WaitForTask \/ UNCHANGED vars
  BY <1>6 DEF WaitForTask, vars, view, NumbersFit
<1> QED BY <1>1, <1>2, <1>3, <1>4, <1>5, <1>6 DEF Next, update_slots

\* The inductive invariant behind TypeOK holds at first ...
LEMMA TInvInit == Init => TInv
<1> SUFFICES ASSUME Init PROVE TInv
  OBVIOUS
<1>1. CountedInv
  BY IInvInit DEF Init, CountedInv
<1>2. Typed(kv)
  <2>1. /\ [st \in Slots |-> 0] \in [Slots -> 0 .. Size]
        /\ << >> \in Seq(Slots \X Slots)
        /\ [st \in Slots |-> [i \in Cells |-> [tok |-> NoToken, at |-> 0]]]
             \in [Slots -> Buffer]
    BY SizesAssumption DEF Buffer
  <2>2. kv = EmptyCache
    BY DEF Init
  <2> QED BY <2>1, <2>2 DEF Typed, EmptyCache
<1>3. HeadsKept
  BY DEF Init, HeadsKept
<1>4. NumbersFit
  BY BatchAssumption DEF Init, NumbersFit
<1> QED BY <1>1, <1>2, <1>3, <1>4 DEF TInv

\* ... and is kept.
LEMMA TInvStep == TInv /\ [Next]_vars => TInv'
BY IInvStep, TypedStep, HeadsStep, NumbersStep DEF TInv, CountedInv

\* What is written to the cache, the slots, the batch and the recovery stack is
\* of its type for any sizes and any requests: heads stay within their streams,
\* buffers hold a token in every cell after any list of copies, the recovery
\* stack keeps its heads beside its cells, and a view that does not fit is
\* never halved to nothing.
THEOREM TypeCorrect == Spec => []TypeOK
<1>1. TInv => TypeOK
  <2> SUFFICES ASSUME TInv PROVE TypeOK
    OBVIOUS
  <2>1. kv \in [cells  : [Slots -> CellsType],
                head   : [Slots -> 0 .. Size],
                copies : Seq(Slots \X Slots),
                data   : [Slots -> [Cells -> [tok : Tokens \cup {NoToken}, at : Int]]]]
    BY DEF TInv, Typed, Buffer, CountedInv, IInv, Books
  <2>2. left \in SUBSET Nat /\ at \in Nat /\ off \in Nat
    BY DEF TInv, CountedInv, IInv, RehearsalSound
  <2> QED BY <2>1, <2>2 DEF TInv, HeadsKept, NumbersFit, CountedInv, IInv, ScanFits,
                            RehearsalSound, TypeOK
<1> QED BY <1>1, TInvInit, TInvStep, PTL DEF Spec

(***************************************************************************)
(* What a computed token reads.  The theorem is about the way lmcode uses  *)
(* the server: one answer per request and a model without sliding window,  *)
(* so that a cell has one owner and only empty cells are filled.           *)
(***************************************************************************)
\* Cell i is in d what it was in c; cell i is empty in d.
CellAs(c, d, i) == d.pos[i] = c.pos[i] /\ d.seq[i] = c.seq[i] /\ d.shift[i] = c.shift[i]
CellGone(d, i)  == d.pos[i] = -1 /\ d.seq[i] = {}

\* A cell is used by one sequence at most.
OneOwner(c) == \A i \in Cells : \A s, t \in c.seq[i] : s = t

\* The buffers and the copies that are pending are those of k.
SameBuffers(k, l) == l.data = k.data /\ l.copies = k.copies

\* Taking a cell's only sequence away empties it; the other cells stay.
LEMMA DropEffect ==
  ASSUME NEW c \in CellsType, OneOwner(c), NEW out \in [Cells -> SUBSET Slots],
         \A i \in Cells : out[i] \subseteq c.seq[i]
  PROVE  /\ \A i \in Cells : IF out[i] = {} THEN CellAs(c, Drop(c, out), i)
                                            ELSE CellGone(Drop(c, out), i)
         /\ Drop(c, out).has_shift = c.has_shift
<1>1. Drop(c, out).has_shift = c.has_shift
  BY DEF Drop, Edit
<1>2. \A i \in Cells :
        LET gone == out[i] # {} /\ c.seq[i] \subseteq out[i]
        IN  /\ Drop(c, out).pos[i] = IF gone THEN -1 ELSE c.pos[i]
            /\ Drop(c, out).seq[i] = c.seq[i] \ out[i]
            /\ Drop(c, out).shift[i] = IF gone THEN 0 ELSE c.shift[i]
  BY DEF Drop, Edit
<1>3. ASSUME NEW i \in Cells, out[i] # {} PROVE c.seq[i] \subseteq out[i]
  BY <1>3 DEF OneOwner
<1>4. ASSUME NEW i \in Cells, out[i] = {} PROVE CellAs(c, Drop(c, out), i)
  BY <1>2, <1>4 DEF CellAs
<1>5. ASSUME NEW i \in Cells, out[i] # {} PROVE CellGone(Drop(c, out), i)
  BY <1>2, <1>3, <1>5 DEF CellGone
<1> QED BY <1>1, <1>4, <1>5

\* seq_rm empties the cells of the sequence in the range, and no others.
LEMMA SeqRmEffect ==
  ASSUME NEW k, Books(k.cells), \A st \in Slots : OneOwner(k.cells[st]),
         NEW s \in Slots, NEW p0, NEW p1
  PROVE  LET l == seq_rm(k, s, p0, p1)
         IN  /\ SameBuffers(k, l)
             /\ \A st \in Slots :
                  /\ l.cells[st].has_shift = k.cells[st].has_shift
                  /\ \A i \in Cells :
                       IF st = seq_to_stream(s) /\ i \in Hit(k.cells[st], s, p0, p1)
                       THEN CellGone(l.cells[st], i)
                       ELSE CellAs(k.cells[st], l.cells[st], i)
<1> DEFINE m   == seq_to_stream(s)
           c   == k.cells[m]
           out == [i \in Cells |-> IF i \in Hit(c, s, p0, p1) THEN {s} ELSE {}]
           l   == seq_rm(k, s, p0, p1)
<1>1. m \in Slots /\ c \in CellsType /\ OneOwner(c) /\ k.cells \in [Slots -> CellsType]
  BY StreamType DEF Books
<1>2. out \in [Cells -> SUBSET Slots] /\ \A i \in Cells : out[i] \subseteq c.seq[i]
  BY DEF Hit
<1>3. /\ \A i \in Cells : IF out[i] = {} THEN CellAs(c, Drop(c, out), i)
                                         ELSE CellGone(Drop(c, out), i)
      /\ Drop(c, out).has_shift = c.has_shift
  <2> HIDE DEF c, out
  <2> QED BY <1>1, <1>2, DropEffect
<1>4. l.cells = [k.cells EXCEPT ![m] = Drop(c, out)] /\ SameBuffers(k, l)
  BY DEF seq_rm, WithBooks, SameBuffers
<1>5. \A i \in Cells : out[i] = {} <=> i \notin Hit(c, s, p0, p1)
  OBVIOUS
<1> HIDE DEF l, out, m
<1>6. ASSUME NEW st \in Slots, st # m, NEW i \in Cells
      PROVE  CellAs(k.cells[st], l.cells[st], i) /\ l.cells[st].has_shift = k.cells[st].has_shift
  BY <1>1, <1>4, <1>6 DEF CellAs
<1>7. l.cells[m] = Drop(c, out)
  BY <1>1, <1>4
<1> QED BY <1>1, <1>3, <1>4, <1>5, <1>6, <1>7 DEF l, m

\* seq_add moves the cells of the sequence in the range and notes by how much;
\* all other cells stay.
LEMMA SeqAddEffect ==
  ASSUME NEW k, Books(k.cells), NEW s \in Slots, NEW p0 \in Int, NEW p1 \in Int,
         NEW d \in Int, p0 + d >= 0
  PROVE  LET l == seq_add(k, s, p0, p1, d)
         IN  /\ SameBuffers(k, l)
             /\ \A st \in Slots : \A i \in Cells :
                  IF st = seq_to_stream(s) /\ i \in Hit(k.cells[st], s, p0, p1)
                  THEN /\ l.cells[st].pos[i] = k.cells[st].pos[i] + d
                       /\ l.cells[st].shift[i] = k.cells[st].shift[i] + d
                       /\ l.cells[st].seq[i] = k.cells[st].seq[i]
                       /\ d = 0 \/ l.cells[st].has_shift
                  ELSE CellAs(k.cells[st], l.cells[st], i)
             /\ \A st \in Slots : k.cells[st].has_shift => l.cells[st].has_shift
<1> DEFINE m   == seq_to_stream(s)
           c   == k.cells[m]
           hit == Hit(c, s, p0, p1)
           e   == pos_add(c, hit, d)
           l   == seq_add(k, s, p0, p1, d)
<1>1. m \in Slots /\ c \in CellsType /\ k.cells \in [Slots -> CellsType]
  BY StreamType DEF Books
<1>2. /\ l.cells = IF d = 0 \/ p0 = p1 THEN k.cells ELSE [k.cells EXCEPT ![m] = e]
      /\ SameBuffers(k, l)
  BY DEF seq_add, WithBooks, SameBuffers
<1>3. ASSUME NEW i \in hit
      PROVE  i \in Cells /\ c.pos[i] \in Int /\ c.shift[i] \in Int /\ c.pos[i] + d >= 0 /\ p0 < p1
  <2>1. i \in Cells /\ c.pos[i] \in p0 .. p1 - 1
    BY <1>3 DEF Hit
  <2>2. c.pos[i] \in Int /\ c.shift[i] \in Int
    BY <1>1, <2>1 DEF CellsType
  <2> HIDE DEF c
  <2> QED BY <2>1, <2>2
<1>4. /\ \A i \in Cells : IF i \in hit
           THEN e.pos[i] = c.pos[i] + d /\ e.shift[i] = c.shift[i] + d /\ e.seq[i] = c.seq[i]
           ELSE CellAs(c, e, i)
      /\ e.has_shift = (c.has_shift \/ hit # {})
  <2> HIDE DEF c, hit
  <2>1. /\ e.pos = [i \in Cells |->
                      IF i \in hit THEN (IF c.pos[i] + d >= 0 THEN c.pos[i] + d ELSE -1)
                                   ELSE c.pos[i]]
        /\ e.seq = [i \in Cells |-> IF i \in hit /\ ~(c.pos[i] + d >= 0) THEN {} ELSE c.seq[i]]
        /\ e.shift = [i \in Cells |-> IF i \notin hit THEN c.shift[i]
                                      ELSE IF c.pos[i] + d >= 0 THEN c.shift[i] + d ELSE 0]
        /\ e.has_shift = (c.has_shift \/ hit # {})
    BY DEF pos_add, Edit
  <2> HIDE DEF e
  <2> QED BY <1>3, <2>1 DEF CellAs
<1> HIDE DEF l, e
<1>5. ASSUME NEW st \in Slots, st # m, NEW i \in Cells
      PROVE  CellAs(k.cells[st], l.cells[st], i) /\ l.cells[st].has_shift = k.cells[st].has_shift
  BY <1>1, <1>2, <1>5 DEF CellAs
<1>6. CASE d = 0 \/ p0 = p1
  <2>1. l.cells = k.cells
    BY <1>2, <1>6
  <2>2. ASSUME NEW st \in Slots, NEW i \in Cells PROVE CellAs(k.cells[st], l.cells[st], i)
    BY <2>1 DEF CellAs
  <2>3. ASSUME NEW i \in hit PROVE d = 0 /\ c.pos[i] + d = c.pos[i] /\ c.shift[i] + d = c.shift[i]
    BY <1>3, <1>6, <2>3
  <2> HIDE DEF hit
  <2> QED BY <2>1, <2>2, <2>3, <1>2 DEF l, hit, CellAs
<1>7. CASE d # 0 /\ p0 # p1
  <2>1. l.cells[m] = e
    BY <1>1, <1>2, <1>7
  <2>2. \A i \in hit : e.has_shift
    BY <1>4
  <2> HIDE DEF m
  <2>3. ASSUME NEW i \in Cells
        PROVE  IF i \in hit
                  THEN /\ l.cells[m].pos[i] = k.cells[m].pos[i] + d
                       /\ l.cells[m].shift[i] = k.cells[m].shift[i] + d
                       /\ l.cells[m].seq[i] = k.cells[m].seq[i]
                       /\ d = 0 \/ l.cells[m].has_shift
                  ELSE CellAs(k.cells[m], l.cells[m], i)
    BY <2>1, <2>2, <1>4
  <2>4. k.cells[m].has_shift => l.cells[m].has_shift
    BY <2>1, <1>4
  <2> QED BY <2>3, <2>4, <1>2, <1>5 DEF l, m
<1> QED BY <1>6, <1>7

\* Removing sequences empties their cells, and no others.
LEMMA ClearEffect ==
  ASSUME NEW k, Books(k.cells), \A st \in Slots : OneOwner(k.cells[st]), NEW S
  PROVE  /\ SameBuffers(k, Clear(k, S))
         /\ \A st \in Slots :
              /\ Clear(k, S).cells[st].has_shift = k.cells[st].has_shift
              /\ \A i \in Cells : IF k.cells[st].seq[i] \cap S = {}
                                  THEN CellAs(k.cells[st], Clear(k, S).cells[st], i)
                                  ELSE CellGone(Clear(k, S).cells[st], i)
<1> DEFINE out(st) == [i \in Cells |-> k.cells[st].seq[i] \cap S]
<1>1. ASSUME NEW st \in Slots
      PROVE  /\ \A i \in Cells : IF out(st)[i] = {}
                                THEN CellAs(k.cells[st], Drop(k.cells[st], out(st)), i)
                                ELSE CellGone(Drop(k.cells[st], out(st)), i)
             /\ Drop(k.cells[st], out(st)).has_shift = k.cells[st].has_shift
  <2>1. k.cells[st] \in CellsType /\ OneOwner(k.cells[st])
    BY DEF Books
  <2>2. /\ out(st) \in [Cells -> SUBSET Slots]
        /\ \A i \in Cells : out(st)[i] \subseteq k.cells[st].seq[i]
    BY <2>1 DEF CellsType
  <2> HIDE DEF out
  <2> QED BY <2>1, <2>2, DropEffect
<1>2. /\ Clear(k, S).cells = [st \in Slots |-> Drop(k.cells[st], out(st))]
      /\ SameBuffers(k, Clear(k, S))
  BY DEF Clear, WithBooks, SameBuffers
<1>3. \A st \in Slots, i \in Cells : out(st)[i] = k.cells[st].seq[i] \cap S
  OBVIOUS
<1> HIDE DEF out
<1> QED BY <1>1, <1>2, <1>3

\* update turns the keys of the cells that were moved, and nothing is left to
\* be applied to a cell in use.
LEMMA UpdateEffect ==
  ASSUME NEW k, Books(k.cells), Typed(k), k.copies = << >>,
         \A st \in Slots : \/ k.cells[st].has_shift
                           \/ \A i \in Cells : k.cells[st].pos[i] # -1 => k.cells[st].shift[i] = 0
  PROVE  LET l == update(k)
         IN  /\ l.copies = << >>
             /\ \A st \in Slots, i \in Cells :
                  /\ l.cells[st].pos[i] = k.cells[st].pos[i]
                  /\ l.cells[st].seq[i] = k.cells[st].seq[i]
                  /\ k.cells[st].pos[i] # -1 =>
                       /\ l.cells[st].shift[i] = 0
                       /\ l.data[st][i] = [tok |-> k.data[st][i].tok,
                                           at  |-> k.data[st][i].at + k.cells[st].shift[i]]
<1> DEFINE l     == update(k)
           moved == \E st \in Slots : k.cells[st].has_shift
<1>1. CopyBuffers(k.data, k.copies) = k.data
  <2> DEFINE f == [n \in 0 .. 0 |-> k.data]
             after == CHOOSE g : g = [n \in 0 .. Len(k.copies) |->
                        IF n = 0 THEN k.data
                        ELSE [g[n - 1] EXCEPT ![k.copies[n][2]] = g[n - 1][k.copies[n][1]]]]
  <2>1. Len(k.copies) = 0
    OBVIOUS
  <2>2. f = [n \in 0 .. Len(k.copies) |->
                        IF n = 0 THEN k.data
                        ELSE [f[n - 1] EXCEPT ![k.copies[n][2]] = f[n - 1][k.copies[n][1]]]]
    BY <2>1
  <2>3. after = [n \in 0 .. Len(k.copies) |->
                        IF n = 0 THEN k.data
                        ELSE [after[n - 1] EXCEPT ![k.copies[n][2]] = after[n - 1][k.copies[n][1]]]]
    <3> HIDE DEF f
    <3> QED BY <2>2
  <2>4. after[Len(k.copies)] = k.data
    <3> HIDE DEF after
    <3> QED BY <2>1, <2>3
  <2> QED BY <2>4 DEF CopyBuffers
<1>2. /\ l.copies = << >>
      /\ l.cells = IF moved THEN [st \in Slots |-> reset_shift(k.cells[st])] ELSE k.cells
      /\ l.data = IF moved THEN [st \in Slots |-> ShiftBuffer(k.cells[st], k.data[st])] ELSE k.data
  BY <1>1 DEF update
<1> HIDE DEF l
<1>3. /\ k.cells \in [Slots -> CellsType] /\ k.data \in [Slots -> Buffer]
  BY DEF Books, Typed
<1> SUFFICES ASSUME NEW st \in Slots, NEW i \in Cells
    PROVE  /\ l.cells[st].pos[i] = k.cells[st].pos[i]
           /\ l.cells[st].seq[i] = k.cells[st].seq[i]
           /\ k.cells[st].pos[i] # -1 =>
                /\ l.cells[st].shift[i] = 0
                /\ l.data[st][i] = [tok |-> k.data[st][i].tok,
                                    at  |-> k.data[st][i].at + k.cells[st].shift[i]]
  BY <1>2 DEF l
<1> DEFINE c == k.cells[st]
           b == k.data[st]
<1>4. c \in CellsType /\ b \in Buffer
  BY <1>3
<1>8. b[i] \in [tok : Tokens \cup {NoToken}, at : Int] /\ c.shift[i] \in Int
  BY <1>4 DEF Buffer, CellsType
<1>9. b[i] = [tok |-> b[i].tok, at |-> b[i].at] /\ b[i].at \in Int
  BY <1>8
<1>5. CASE moved
  <2>1. l.cells[st] = reset_shift(c) /\ l.data[st] = ShiftBuffer(c, b)
    BY <1>2, <1>5
  <2>2. reset_shift(c).pos = c.pos /\ reset_shift(c).seq = c.seq
    BY DEF reset_shift
  <2>3. reset_shift(c).shift[i] = 0
    <3> DEFINE e == [c EXCEPT !.has_shift = FALSE]
    <3>1. e \in CellsType
      BY <1>4 DEF CellsType
    <3>2. reset_shift(c) = [e EXCEPT !.shift = [x \in Cells |-> 0]]
      BY DEF reset_shift
    <3> HIDE DEF e
    <3> QED BY <3>1, <3>2 DEF CellsType
  <2>4. c.pos[i] # -1 => ShiftBuffer(c, b)[i] = [b[i] EXCEPT !.at = @ + c.shift[i]]
    BY DEF ShiftBuffer
  <2>5. [b[i] EXCEPT !.at = @ + c.shift[i]] = [tok |-> b[i].tok, at |-> b[i].at + c.shift[i]]
    <3> DEFINE r == b[i]
    <3>1. r \in [tok : Tokens \cup {NoToken}, at : Int]
      BY <1>8
    <3> HIDE DEF r
    <3>2. [r EXCEPT !.at = @ + c.shift[i]] = [tok |-> r.tok, at |-> r.at + c.shift[i]]
      BY <3>1
    <3> QED BY <3>2 DEF r
  <2> HIDE DEF c, b
  <2> QED BY <2>1, <2>2, <2>3, <2>4, <2>5 DEF c, b
<1>6. CASE ~moved
  <2>1. l.cells[st] = c /\ l.data[st] = b
    BY <1>2, <1>6
  <2>2. c.pos[i] # -1 => c.shift[i] = 0
    BY <1>6
  <2>3. b[i].at + 0 = b[i].at
    BY <1>9
  <2> HIDE DEF c, b
  <2> QED BY <2>1, <2>2, <2>3, <1>9 DEF c, b
<1> QED BY <1>5, <1>6

\* A ubatch that was found empty cells fills these cells, and purges nothing.
LEMMA ApplyEffect ==
  ASSUME NEW k, Books(k.cells), NEW sinfo, NEW toks,
         \A st \in Slots, i \in Cells : sinfo[st][i] # 0 => k.cells[st].pos[i] = -1
  PROVE  LET l == apply_ubatch(k, sinfo, toks)
         IN  /\ SameBuffers(k, l)
             /\ \A st \in Slots :
                  /\ l.cells[st].has_shift = k.cells[st].has_shift
                  /\ \A i \in Cells :
                       IF sinfo[st][i] # 0
                       THEN /\ l.cells[st].pos[i] = toks[sinfo[st][i]].pos
                            /\ l.cells[st].seq[i] = {toks[sinfo[st][i]].seq}
                            /\ l.cells[st].shift[i] = 0
                       ELSE CellAs(k.cells[st], l.cells[st], i)
<1> DEFINE used(st)   == {i \in Cells : sinfo[st][i] # 0}
           placed(st) == Purge(k.cells[st], Emplace(k.cells[st], sinfo[st], toks), sinfo[st])
           l == apply_ubatch(k, sinfo, toks)
<1>1. /\ l.cells = [st \in Slots |-> IF used(st) = {} THEN k.cells[st] ELSE placed(st)]
      /\ SameBuffers(k, l)
  BY DEF apply_ubatch, WithBooks, SameBuffers
<1>2. ASSUME NEW st \in Slots
      PROVE  /\ placed(st).has_shift = k.cells[st].has_shift
             /\ \A i \in Cells :
                       IF sinfo[st][i] # 0
                       THEN /\ placed(st).pos[i] = toks[sinfo[st][i]].pos
                            /\ placed(st).seq[i] = {toks[sinfo[st][i]].seq}
                            /\ placed(st).shift[i] = 0
                       ELSE CellAs(k.cells[st], placed(st), i)
  <2> DEFINE c   == k.cells[st]
             idx == sinfo[st]
             d   == Emplace(c, idx, toks)
             out == [i \in Cells |->
                      {s \in d.seq[i] : \E x \in Cells : /\ idx[x] # 0 /\ c.seq[x] = {s}
                                                         /\ d.pos[i] <= c.pos[x]}]
  <2>1. \A x \in Cells : idx[x] # 0 => c.seq[x] = {}
    BY DEF Books, Exact
  <2>2. \A i \in Cells : out[i] = {}
    <3> HIDE DEF c, idx, d
    <3> QED BY <2>1
  <2>3. placed(st) = Drop(d, out)
    BY DEF Purge
  <2>4. \A i \in Cells : /\ d.pos[i] = IF idx[i] # 0 THEN toks[idx[i]].pos ELSE c.pos[i]
                         /\ d.seq[i] = IF idx[i] # 0 THEN {toks[idx[i]].seq} ELSE c.seq[i]
                         /\ d.shift[i] = IF idx[i] # 0 THEN 0 ELSE c.shift[i]
    BY DEF Emplace, Edit
  <2>5. d.has_shift = c.has_shift
    BY DEF Emplace, Edit
  <2> HIDE DEF c, idx, d, out, placed
  <2>6. /\ Drop(d, out).has_shift = d.has_shift
        /\ \A i \in Cells : CellAs(d, Drop(d, out), i)
    BY <2>2 DEF Drop, Edit, CellAs
  <2> QED BY <2>3, <2>4, <2>5, <2>6 DEF CellAs, c, idx
<1> HIDE DEF placed, l
<1>3. ASSUME NEW st \in Slots
      PROVE  /\ l.cells[st].has_shift = k.cells[st].has_shift
             /\ \A i \in Cells :
                       IF sinfo[st][i] # 0
                       THEN /\ l.cells[st].pos[i] = toks[sinfo[st][i]].pos
                            /\ l.cells[st].seq[i] = {toks[sinfo[st][i]].seq}
                            /\ l.cells[st].shift[i] = 0
                       ELSE CellAs(k.cells[st], l.cells[st], i)
  <2>1. CASE used(st) = {}
    <3>1. \A i \in Cells : sinfo[st][i] = 0
      BY <2>1
    <3>2. l.cells[st] = k.cells[st]
      BY <1>1, <2>1
    <3> QED BY <3>1, <3>2 DEF CellAs
  <2>2. CASE used(st) # {}
    <3>1. l.cells[st] = placed(st)
      BY <1>1, <2>2
    <3> QED BY <3>1, <1>2
  <2> QED BY <2>1, <2>2
<1> QED BY <1>1, <1>3 DEF l

\* Computing the ubatch also writes its tokens into the buffers.
LEMMA ComputeEffect ==
  ASSUME NEW k, Typed(k), NEW sinfo, NEW toks
  PROVE  LET l == Compute(k, sinfo, toks)
         IN  /\ l.cells = apply_ubatch(k, sinfo, toks).cells
             /\ l.copies = k.copies
             /\ \A st \in Slots, i \in Cells :
                  l.data[st][i] = IF sinfo[st][i] # 0
                                  THEN [tok |-> toks[sinfo[st][i]].tok,
                                        at  |-> toks[sinfo[st][i]].pos]
                                  ELSE k.data[st][i]
<1> DEFINE a == apply_ubatch(k, sinfo, toks)
           data == [st \in Slots |-> [i \in Cells |->
                IF sinfo[st][i] # 0
                THEN [tok |-> toks[sinfo[st][i]].tok, at |-> toks[sinfo[st][i]].pos]
                ELSE a.data[st][i]]]
<1>1. a = [cells |-> a.cells, head |-> a.head, copies |-> k.copies, data |-> k.data]
  BY DEF apply_ubatch, WithBooks
<1>2. Compute(k, sinfo, toks) = [a EXCEPT !.data = data]
  <2>1. [a EXCEPT !.data = [st \in Slots |-> [i \in Cells |->
                IF sinfo[st][i] # 0
                THEN [tok |-> toks[sinfo[st][i]].tok, at |-> toks[sinfo[st][i]].pos]
                ELSE @[st][i]]]] = [a EXCEPT !.data = data]
    OBVIOUS
  <2> QED BY <2>1 DEF Compute
<1>3. [a EXCEPT !.data = data]
        = [cells |-> a.cells, head |-> a.head, copies |-> k.copies, data |-> data]
  <2> HIDE DEF a, data
  <2> QED BY <1>1
<1>4. \A st \in Slots, i \in Cells :
        data[st][i] = IF sinfo[st][i] # 0
                      THEN [tok |-> toks[sinfo[st][i]].tok, at |-> toks[sinfo[st][i]].pos]
                      ELSE k.data[st][i]
  <2>1. a.data = k.data
    <3> HIDE DEF a
    <3> QED BY <1>1
  <2> HIDE DEF a
  <2> QED BY <2>1
<1> HIDE DEF a, data
<1> QED BY <1>2, <1>3, <1>4 DEF a

\* Taking a ubatch back empties the cells that were empty before it.
LEMMA RestoreEffect ==
  ASSUME NEW k, NEW old, NEW hs, NEW sinfo,
         \A st \in Slots : Copied(old[st]),
         \A st \in Slots, i \in Cells : sinfo[st][i] # 0 => old[st].pos[i] = -1
  PROVE  LET l == Restore(k, old, hs, sinfo)
         IN  /\ SameBuffers(k, l)
             /\ \A st \in Slots :
                  /\ l.cells[st].has_shift = k.cells[st].has_shift
                  /\ \A i \in Cells : IF sinfo[st][i] # 0
                                      THEN CellGone(l.cells[st], i)
                                      ELSE CellAs(k.cells[st], l.cells[st], i)
<1> DEFINE l == Restore(k, old, hs, sinfo)
<1>1. SameBuffers(k, l)
  BY DEF Restore, WithBooks, SameBuffers
<1>2. ASSUME NEW st \in Slots
      PROVE  /\ l.cells[st].has_shift = k.cells[st].has_shift
             /\ l.cells[st].shift = k.cells[st].shift
             /\ \A i \in Cells :
                  /\ l.cells[st].pos[i] =
                           IF sinfo[st][i] # 0 THEN old[st].pos[i] ELSE k.cells[st].pos[i]
                  /\ l.cells[st].seq[i] =
                           IF sinfo[st][i] # 0 THEN old[st].seq[i] ELSE k.cells[st].seq[i]
  BY DEF Restore, WithBooks, Edit
<1>3. \A st \in Slots, i \in Cells : sinfo[st][i] # 0 => old[st].seq[i] = {}
  BY DEF Copied
<1> HIDE DEF l
<1>4. ASSUME NEW st \in Slots, NEW i \in Cells
      PROVE  IF sinfo[st][i] # 0 THEN CellGone(l.cells[st], i)
                                 ELSE CellAs(k.cells[st], l.cells[st], i)
  BY <1>2, <1>3 DEF CellGone, CellAs
<1> QED BY <1>1, <1>2, <1>4 DEF l

\* Around the ring of cells once.
LEMMA AroundOnce ==
  ASSUME NEW n \in Nat \ {0}, NEW a \in -n .. n - 1
  PROVE  a % n = IF a >= 0 THEN a ELSE a + n
<1>1. CASE a >= 0
  BY <1>1
<1>2. CASE a < 0
  BY <1>2
<1> QED BY <1>1, <1>2

\* A larger set of numbers below a bound has more members.
LEMMA FewerMembers ==
  ASSUME NEW T, IsFiniteSet(T), NEW S \in SUBSET T
  PROVE  /\ IsFiniteSet(S) /\ Cardinality(S) \in Nat /\ Cardinality(T) \in Nat
         /\ Cardinality(S) <= Cardinality(T)
         /\ S # T => Cardinality(S) < Cardinality(T)
BY FS_Subset, FS_CardinalityType

\* The search for cells meets every usable cell at a place of its own.
LEMMA RankOfCell ==
  ASSUME NEW c, NEW from \in 0 .. Size, NEW i \in Cells, NEW k \in Cells,
         can_use(c, i), can_use(c, k), CellRank(c, from, i) = CellRank(c, from, k)
  PROVE  i = k
<1> DEFINE key(x) == (x - from) % Size
           before(x) == {y \in Cells : can_use(c, y) /\ key(y) < key(x)}
<1>1. \A x \in Cells : key(x) = IF x >= from THEN x - from ELSE x - from + Size
  <2> TAKE x \in Cells
  <2>1. x - from \in -Size .. Size - 1 /\ Size \in Nat \ {0} /\ x \in Int /\ from \in Int
    BY SizesAssumption DEF Cells
  <2>2. (x - from) % Size = IF x - from >= 0 THEN x - from ELSE x - from + Size
    BY <2>1, AroundOnce
  <2> QED BY <2>1, <2>2
<1>2. \A x \in Cells : key(x) \in Int
  BY <1>1, SizesAssumption DEF Cells
<1>3. \A x, y \in Cells : key(x) = key(y) => x = y
  BY <1>1, SizesAssumption DEF Cells
<1> HIDE DEF key
<1>4. ASSUME NEW x \in Cells, NEW y \in Cells, can_use(c, x), key(x) < key(y)
      PROVE  Cardinality(before(x)) < Cardinality(before(y))
  <2>1. before(x) \subseteq before(y)
    BY <1>2, <1>4
  <2>2. x \in before(y) /\ x \notin before(x)
    BY <1>2, <1>4
  <2>3. IsFiniteSet(before(y))
    BY CellsFinite
  <2> HIDE DEF before
  <2> QED BY <2>1, <2>2, <2>3, FewerMembers
<1>5. \A x \in Cells : Cardinality(before(x)) \in Nat
  <2> TAKE x \in Cells
  <2>1. IsFiniteSet(before(x))
    BY CellsFinite
  <2> HIDE DEF before
  <2> QED BY <2>1, FS_CardinalityType
<1>6. Cardinality(before(i)) = Cardinality(before(k))
  BY DEF CellRank, key
<1> HIDE DEF before
<1>7. ~(key(i) < key(k)) /\ ~(key(k) < key(i))
  BY <1>4, <1>5, <1>6
<1>8. key(i) = key(k)
  BY <1>2, <1>7
<1> QED BY <1>3, <1>8

\* Where a search begins.
LEMMA SearchBegins ==
  ASSUME NEW c, NEW head \in 0 .. Size, NEW n
  PROVE  SearchFrom(c, head, n) \in 0 .. Size
BY SizesAssumption DEF SearchFrom

\* Without a sliding window the cells found for a ubatch are empty, one for
\* each of its places.
LEMMA InfoExactly ==
  ASSUME params.n_swa = 0, NEW u, NEW st \in Slots, kv.head[st] \in 0 .. Size,
         u[st] \in SUBSET (Nat \ {0})
  PROVE  \A i \in Cells : slot_info(kv, u)[st][i] # 0 =>
           /\ slot_info(kv, u)[st][i] \in u[st] /\ kv.cells[st].pos[i] = -1
           /\ \A k \in Cells : slot_info(kv, u)[st][k] = slot_info(kv, u)[st][i] => k = i
<1> DEFINE c      == kv.cells[st]
           J      == u[st]
           from   == SearchFrom(c, kv.head[st], Cardinality(J))
           for(i) == {j \in J : TokenRank(J, j) = CellRank(c, from, i)}
           f      == slot_info(kv, u)[st]
<1>1. \A i \in Cells : f[i] = IF can_use(c, i) /\ for(i) # {} THEN CHOOSE j \in for(i) : TRUE
                              ELSE 0
  BY DEF slot_info, find_slot
<1>2. from \in 0 .. Size /\ J \in SUBSET (Nat \ {0})
  BY SearchBegins
<1>3. \A i \in Cells : can_use(c, i) => c.pos[i] = -1
  BY DEF can_use, is_masked_swa
<1> HIDE DEF f, from, c, J
<1>4. ASSUME NEW i \in Cells, f[i] # 0
      PROVE  can_use(c, i) /\ f[i] \in for(i)
  <2>1. can_use(c, i) /\ for(i) # {} /\ f[i] = CHOOSE j \in for(i) : TRUE
    BY <1>1, <1>4
  <2> HIDE DEF for
  <2> QED BY <2>1
<1>5. ASSUME NEW i \in Cells, f[i] # 0, NEW k \in Cells, f[k] = f[i]
      PROVE  k = i
  <2>1. CellRank(c, from, i) = TokenRank(J, f[i]) /\ CellRank(c, from, k) = TokenRank(J, f[i])
    BY <1>4, <1>5
  <2>2. can_use(c, i) /\ can_use(c, k)
    BY <1>4, <1>5
  <2> QED BY <2>1, <2>2, <1>2, RankOfCell
<1>6. \A i \in Cells : f[i] # 0 =>
        /\ f[i] \in J /\ c.pos[i] = -1
        /\ \A k \in Cells : f[k] = f[i] => k = i
  BY <1>3, <1>4, <1>5
<1> QED BY <1>6 DEF f, c, J

\* A token that comes before one of the ubatch in the same stream is not left
\* behind by it.
LEMMA UbatchInOrder ==
  ASSUME NEW N \in Nat, left \subseteq 1 .. N, NEW st \in Slots,
         NEW j \in NextUbatch[st], NEW x \in left, x < j, StreamOf(x) = st
  PROVE  x \in NextUbatch[st]
<1> DEFINE T == Together
           S == OfStream(st)
           n == Min({Cardinality(OfStream(t)) : t \in T}
                    \cup {Max({1, NUbatch \div Cardinality(T)})})
<1>1. NextUbatch[st] = {y \in left : st \in T /\ StreamOf(y) = st /\ TokenRank(S, y) < n}
  BY DEF NextUbatch
<1>2. S \subseteq 1 .. N /\ j \in 1 .. N /\ x \in 1 .. N
  BY <1>1 DEF OfStream
<1>4. n \in Nat
  <2> DEFINE R == {Cardinality(OfStream(t)) : t \in T}
             q == Max({1, NUbatch \div Cardinality(T)})
  <2>1. st \in T /\ T \subseteq Slots
    BY <1>1 DEF Together
  <2>2. IsFiniteSet(T)
    <3>1. IsFiniteSet(0 .. NSlots - 1)
      BY SizesAssumption, FS_Interval
    <3> HIDE DEF T
    <3> QED BY <2>1, <3>1, FS_Subset DEF Slots
  <2>3. Cardinality(T) \in Nat /\ Cardinality(T) # 0
    BY <2>1, <2>2, FS_CardinalityType, FS_EmptySet
  <2>4. NUbatch \div Cardinality(T) \in Int
    <3> HIDE DEF T
    <3> QED BY <2>3, BatchAssumption
  <2>5. q \in Int /\ q >= 1
    <3> HIDE DEF T
    <3> QED BY <2>4, MaxOfTwo
  <2>6. R \subseteq Nat
    <3> SUFFICES ASSUME NEW t \in T PROVE Cardinality(OfStream(t)) \in Nat
      OBVIOUS
    <3>1. OfStream(t) \subseteq 1 .. N
      BY DEF OfStream
    <3>2. IsFiniteSet(1 .. N)
      BY FS_Interval
    <3>3. IsFiniteSet(OfStream(t))
      BY <3>1, <3>2, FS_Subset
    <3> QED BY <3>3, FS_CardinalityType
  <2>7. R \cup {q} \in SUBSET Nat /\ R \cup {q} # {}
    <3> HIDE DEF R, q
    <3> QED BY <2>5, <2>6
  <2>8. Min(R \cup {q}) \in Nat
    <3> HIDE DEF R, q
    <3> QED BY <2>7, MinIsMember
  <2> QED BY <2>8
<1> HIDE DEF n, T
<1>3. TokenRank(S, x) \in Nat /\ TokenRank(S, j) \in Nat /\ TokenRank(S, x) <= TokenRank(S, j)
  <2> DEFINE A == {y \in S : y < x}
             B == {y \in S : y < j}
  <2>1. A \subseteq B
    <3> HIDE DEF S
    <3> SUFFICES ASSUME NEW y \in S, y < x PROVE y < j
      OBVIOUS
    <3> QED BY <1>2
  <2>2. IsFiniteSet(B)
    <3>1. B \subseteq 1 .. N
      BY <1>2
    <3>2. IsFiniteSet(1 .. N)
      BY FS_Interval
    <3> HIDE DEF B
    <3> QED BY <3>1, <3>2, FS_Subset
  <2>3. /\ Cardinality(A) \in Nat /\ Cardinality(B) \in Nat
        /\ Cardinality(A) <= Cardinality(B)
    <3> HIDE DEF A, B
    <3> QED BY <2>1, <2>2, FewerMembers
  <2> QED BY <2>3 DEF TokenRank
<1> HIDE DEF S
<1> QED BY <1>1, <1>3, <1>4

\* The members of a common prefix are common.
LEMMA PrefixEqual ==
  ASSUME NEW x \in Seq(Tokens), NEW y \in Seq(Tokens), NEW i \in 1 .. common_prefix(x, y)
  PROVE  x[i] = y[i]
<1> DEFINE S == {n \in 0 .. Len(x) : n <= Len(y) /\ \A j \in 1 .. n : x[j] = y[j]}
<1>1. 0 \in S
  OBVIOUS
<1>2. Max(S) \in S
  <2>1. S \in SUBSET (0 .. Len(x)) /\ S # {} /\ Len(x) \in Nat
    BY <1>1
  <2> HIDE DEF S
  <2> QED BY <2>1, MaxIsMember
<1> QED BY <1>2 DEF common_prefix

(***************************************************************************)
(* The inductive invariant behind ModelReadsPrompt.                        *)
(***************************************************************************)
\* One answer per request, and a model without sliding window: no cell is
\* shared, and a cell is reused only once it is empty.
Plain == ~params.families /\ params.n_swa = 0

\* While decode finds cells, gives them back, fails or computes.
Deciding == {"prepare", "restore", "give_up", "compute"}

\* The places of the batch in the view.
InView == off + 1 .. off + ViewSize

\* Cell i is filled for the rehearsal only.
Placed(st, i) == \E n \in 1 .. Len(olds) : sinfos[n][st][i] # 0

\* Cell i holds position p of sequence s.
Holds(s, p, i) ==
  /\ s \in kv.cells[seq_to_stream(s)].seq[i]
  /\ kv.cells[seq_to_stream(s)].pos[i] = p
  /\ ~Placed(seq_to_stream(s), i)

\* The keys in cell i are those of position p of the slot's prompt, up to the
\* shift that is still to be applied.
Keys(s, p, i) ==
  kv.data[seq_to_stream(s)][i] =
    [tok |-> slots[s].prompt[p + 1], at |-> p - kv.cells[seq_to_stream(s)].shift[i]]

\* The entry at place j of the batch has been computed in this view.
Computed(j) ==
  step = "compute" /\ \E n \in 1 .. at - 1, i \in Cells : sinfos[n][StreamOf(j)][i] = j

\* Position p of sequence s is in the batch and yet to be computed.
Owed(s, p) ==
  \E j \in off + 1 .. Len(batch) : batch[j].seq = s /\ batch[j].pos = p /\ ~Computed(j)

\* While a prompt is searched for chunks to reuse, its slot counts on the part
\* already found and on the part yet to be searched.
Known(s, p) ==
  s = cur /\ step \in {"reuse", "keep"} => p < scan[3] \/ (step = "reuse" /\ p >= scan[1])

\* Position p of the prompt of s is to be computed and in no cell, or in exactly
\* one cell, with its own keys.
CachedAt(s, p) ==
  IF Owed(s, p)
  THEN \A i \in Cells : ~Holds(s, p, i)
  ELSE /\ \E i \in Cells : Holds(s, p, i) /\ Keys(s, p, i)
       /\ \A i, k \in Cells : Holds(s, p, i) /\ Holds(s, p, k) => i = k

\* What a slot counts as its prompt is cached, or in the batch to be computed.
PromptsCached ==
  \A s \in Slots : \A p \in 0 .. Len(slots[s].prompt) - 1 : Known(s, p) => CachedAt(s, p)

\* No request has children.
NoFamilies == \A s \in Slots : slots[s].kind = "single" /\ slots[s].state # "wait_other"

\* No cell is shared.
Owners == \A st \in Slots : OneOwner(kv.cells[st])

\* A shift of a cell in use is announced, and applied before cells are sought.
Settled ==
  \A st \in Slots :
    \/ kv.cells[st].has_shift /\ step \notin Deciding
    \/ \A i \in Cells : kv.cells[st].pos[i] # -1 => kv.cells[st].shift[i] = 0

\* A slot with its whole prompt has nothing cached behind it.
NothingBeyond ==
  \A s \in Slots : slots[s].state \in {"done_prompt", "generating"} =>
    \A p \in Positions, i \in Cells : Holds(s, p, i) => p < Len(slots[s].prompt)

\* What is empty where in a round, and that a prompt under way begins its task.
Phases ==
  /\ step \in {"tasks", "shift"} => batch = << >>
  /\ step \in {"tasks", "shift", "sampled", "prompt", "reuse", "keep"} => off = 0
  /\ step \notin {"prepare", "restore", "give_up"} => olds = << >>
  /\ step \in {"reuse", "keep"} => /\ slots[cur].state = "started"
                                   /\ \A i \in 1 .. scan[3] :
                                         slots[cur].prompt[i] = slots[cur].task[i]
  /\ \A s \in Slots : slots[s].state = "prompt" =>
       \A i \in 1 .. Len(slots[s].prompt) : slots[s].prompt[i] = slots[s].task[i]

\* The entries of a sequence are in the order of their positions.
BatchRises ==
  \A j, k \in off + 1 .. Len(batch) :
    j < k /\ batch[j].seq = batch[k].seq => batch[j].pos < batch[k].pos

\* Entry e at place j of the batch is wanted by its slot, and not behind the
\* place where the slot samples.
Wanted(j, e) ==
  /\ slots[e.seq].state \in {"prompt", "done_prompt", "generating"}
  /\ slots[e.seq].state # "prompt" => j <= slots[e.seq].i_batch
  /\ e.pos < Len(slots[e.seq].prompt) /\ e.tok = slots[e.seq].prompt[e.pos + 1]

\* Every entry of the views that are not decoded yet is wanted.
BatchWanted == \A j \in off + 1 .. Len(batch) : Wanted(j, batch[j])

\* The ubatches found so far share out the places that are not left.
FoundAll ==
  \A j \in InView \ left : \E n \in 1 .. Len(sinfos), i \in Cells : sinfos[n][StreamOf(j)][i] = j

\* Each place has one cell, of its stream, and each cell one place.
FoundOnce ==
  \A n \in 1 .. Len(sinfos), st \in Slots, i \in Cells : sinfos[n][st][i] # 0 =>
    /\ sinfos[n][st][i] \in InView \ left
    /\ StreamOf(sinfos[n][st][i]) = st
    /\ \A m \in 1 .. Len(sinfos), k \in Cells : sinfos[m][st][k] = sinfos[n][st][i]
            => m = n /\ k = i
    /\ \A m \in 1 .. Len(sinfos) : sinfos[m][st][i] # 0 => m = n

\* An earlier place of the same stream is in the same ubatch or in an earlier one.
FoundInOrder ==
  \A n \in 1 .. Len(sinfos), st \in Slots, i \in Cells : sinfos[n][st][i] # 0 =>
    \A j \in InView : j < sinfos[n][st][i] /\ StreamOf(j) = st =>
      \E m \in 1 .. n, k \in Cells : sinfos[m][st][k] = j

\* A cell found was empty: it is filled while the rehearsal has yet to restore it
\* and once its ubatch is computed.
FoundEmpty ==
  \A n \in 1 .. Len(sinfos), st \in Slots, i \in Cells : sinfos[n][st][i] # 0 =>
    IF n <= Len(olds) THEN olds[n][st].pos[i] = -1 /\ kv.cells[st].pos[i] # -1
                      ELSE (step = "compute" /\ n < at) \/ kv.cells[st].pos[i] = -1

\* The rehearsal stands for what will be computed, with no cell promised twice.
Rehearsed ==
  step \in Deciding =>
    /\ left \subseteq InView
    /\ step \in {"restore", "compute"} => left = {}
    /\ at <= Len(sinfos) + 1
    /\ step # "compute" => at = 1
    /\ step = "prepare" => Len(olds) = Len(sinfos)
    /\ FoundAll /\ FoundOnce /\ FoundInOrder /\ FoundEmpty

\* The invariant behind ModelReadsPrompt, next to TInv.
ReadInv ==
  /\ Plain /\ kv.copies = << >>
  /\ NoFamilies /\ Owners /\ Settled /\ PromptsCached /\ NothingBeyond
  /\ Phases /\ BatchRises /\ BatchWanted /\ Rehearsed

\* What the invariants say of a view and of its entries.
LEMMA ViewFacts ==
  ASSUME IInv
  PROVE  /\ off \in Nat /\ Len(batch) \in Nat /\ ViewSize \in Int
         /\ InView \subseteq off + 1 .. Len(batch) /\ InView \subseteq 1 .. Len(batch)
         /\ \A j \in 1 .. Len(batch) : /\ batch[j].seq \in Slots /\ batch[j].pos \in Positions
                                       /\ StreamOf(j) \in Slots
         /\ \A j \in InView, k \in off + 1 .. Len(batch) : k < j => k \in InView
<1>1. off \in Nat /\ n_batch \in Nat /\ Len(batch) \in Nat /\ batch \in Seq(EntryType)
  BY DEF IInv, RehearsalSound
<1>2. ViewSize = IF n_batch <= Len(batch) - off THEN n_batch ELSE Len(batch) - off
  BY <1>1, MinOfTwo DEF ViewSize
<1>3. \A j \in 1 .. Len(batch) : batch[j] \in EntryType
  BY <1>1
<1>4. \A j \in 1 .. Len(batch) : /\ batch[j].seq \in Slots /\ batch[j].pos \in Positions
                                 /\ StreamOf(j) \in Slots
  BY <1>3, StreamType DEF EntryType, StreamOf
<1>5. off + ViewSize <= Len(batch) /\ ViewSize \in Int
  BY <1>1, <1>2
<1>6. InView \subseteq off + 1 .. Len(batch) /\ InView \subseteq 1 .. Len(batch)
  BY <1>1, <1>5 DEF InView
<1>7. \A j \in InView, k \in off + 1 .. Len(batch) : k < j => k \in InView
  BY <1>1, <1>5 DEF InView
<1> QED BY <1>1, <1>4, <1>5, <1>6, <1>7

\* A token that was just computed reads its prompt.
LEMMA InvReads ==
  ASSUME TInv, ReadInv
  PROVE  ModelReadsPrompt
<1> SUFFICES ASSUME step = "compute" /\ at > 1, NEW st \in Slots,
                    NEW x \in {i \in Cells : sinfos[at - 1][st][i] # 0}
    PROVE  LET e == batch[sinfos[at - 1][st][x]]
               window == {p \in 0 .. e.pos : ~is_masked_swa(p, e.pos)}
           IN  /\ Cardinality(Visible(e)) = Cardinality(window)
               /\ \A p \in window : \E i \in Visible(e) :
                    kv.data[st][i] = [tok |-> slots[e.seq].prompt[p + 1], at |-> p]
  BY DEF ModelReadsPrompt
<1> DEFINE j == sinfos[at - 1][st][x]
           e == batch[j]
           s == e.seq
           c == kv.cells[st]
           window == {p \in 0 .. e.pos : ~is_masked_swa(p, e.pos)}
<1>1. IInv /\ Typed(kv)
  BY DEF TInv, CountedInv
<1>2. at \in Nat /\ sinfos \in Seq(SinfoType) /\ Len(sinfos) \in Nat /\ off \in Nat
  BY <1>1 DEF IInv, RehearsalSound
<1>3. /\ Plain /\ Owners /\ Settled /\ PromptsCached /\ BatchRises /\ BatchWanted
      /\ left = {} /\ at <= Len(sinfos) + 1 /\ FoundOnce /\ FoundInOrder /\ olds = << >>
  BY DEF ReadInv, Rehearsed, Deciding, Phases
<1>4. at - 1 \in 1 .. Len(sinfos) /\ at - 1 \in 1 .. at - 1
  BY <1>2, <1>3
<1>5. j \in InView /\ StreamOf(j) = st
  BY <1>3, <1>4 DEF FoundOnce
<1>6. /\ j \in off + 1 .. Len(batch) /\ j \in 1 .. Len(batch) /\ j \in Int
      /\ s \in Slots /\ e.pos \in Positions /\ e.pos \in Nat /\ seq_to_stream(s) = st
  <2>1. j \in off + 1 .. Len(batch) /\ j \in 1 .. Len(batch) /\ s \in Slots /\ e.pos \in Positions
    BY <1>1, <1>5, ViewFacts
  <2> QED BY <2>1, <1>5 DEF StreamOf, Positions
<1>7. Wanted(j, e)
  BY <1>3, <1>6 DEF BatchWanted
<1>8. Computed(j)
  BY <1>4, <1>5 DEF Computed
<1>9. ASSUME NEW p \in 0 .. e.pos PROVE ~Owed(s, p)
  <2> SUFFICES ASSUME NEW k \in off + 1 .. Len(batch), batch[k].seq = s, batch[k].pos = p
      PROVE  Computed(k)
    BY DEF Owed
  <2>1. k \in Int /\ k <= j
    <3>1. k \in Int
      BY <1>2
    <3>2. ~(j < k)
      <4> SUFFICES ASSUME j < k PROVE FALSE
        OBVIOUS
      <4>1. e.pos < batch[k].pos
        BY <1>3, <1>6 DEF BatchRises
      <4> HIDE DEF e, s
      <4> QED BY <4>1, <1>6
    <3> HIDE DEF j
    <3> QED BY <1>6, <3>1, <3>2
  <2>2. CASE k = j
    BY <1>8, <2>2
  <2>3. CASE k < j
    <3>1. k \in InView
      BY <1>1, <1>5, <2>3, ViewFacts
    <3>2. StreamOf(k) = st
      BY <1>6 DEF StreamOf
    <3>3. \E m \in 1 .. at - 1, i \in Cells : sinfos[m][st][i] = k
      BY <1>3, <1>4, <2>3, <3>1, <3>2 DEF FoundInOrder
    <3> QED BY <3>2, <3>3 DEF Computed
  <2> HIDE DEF j
  <2> QED BY <1>6, <2>1, <2>2, <2>3
<1> HIDE DEF j, e, s, c
<1>10. ASSUME NEW i \in Cells
       PROVE  c.pos[i] \in Int /\ c.pos[i] >= -1 /\ (c.pos[i] = -1 <=> c.seq[i] = {})
  <2>1. c \in CellsType /\ Exact(c)
    BY <1>1 DEF IInv, Books, c
  <2>2. c.pos[i] \in Positions \cup {-1}
    BY <2>1 DEF CellsType
  <2> QED BY <2>1, <2>2 DEF Exact, Positions
<1>11. \A p, i : Holds(s, p, i) <=> s \in c.seq[i] /\ c.pos[i] = p
  BY <1>3, <1>6 DEF Holds, Placed, c
<1>12. ASSUME NEW p \in 0 .. e.pos
       PROVE  /\ \E i \in Cells : /\ s \in c.seq[i] /\ c.pos[i] = p
                                  /\ kv.data[st][i] = [tok |-> slots[s].prompt[p + 1], at |-> p]
              /\ \A i, k \in Cells :
                   s \in c.seq[i] /\ c.pos[i] = p /\ s \in c.seq[k] /\ c.pos[k] = p => i = k
  <2>1. p \in 0 .. Len(slots[s].prompt) - 1 /\ p \in Int
    <3>1. Len(slots[s].prompt) \in Nat
      BY <1>1, <1>6 DEF IInv, SlotType
    <3> QED BY <1>6, <1>7, <3>1 DEF Wanted, s
  <2>2. Known(s, p)
    BY DEF Known
  <2>3. CachedAt(s, p)
    BY <1>3, <1>6, <2>1, <2>2 DEF PromptsCached
  <2>4. /\ \E i \in Cells : Holds(s, p, i) /\ Keys(s, p, i)
        /\ \A i, k \in Cells : Holds(s, p, i) /\ Holds(s, p, k) => i = k
    BY <1>9, <2>3 DEF CachedAt
  <2>5. ASSUME NEW i \in Cells, Holds(s, p, i), Keys(s, p, i)
        PROVE  kv.data[st][i] = [tok |-> slots[s].prompt[p + 1], at |-> p]
    <3>1. c.pos[i] # -1
      BY <1>10, <1>11, <2>5
    <3>2. c.shift[i] = 0
      BY <1>3, <3>1 DEF Settled, Deciding, c
    <3>3. p - 0 = p
      BY <2>1
    <3> QED BY <2>5, <3>2, <3>3, <1>6 DEF Keys, c
  <2> QED BY <1>11, <2>4, <2>5
<1>13. window = 0 .. e.pos /\ Visible(e) = {i \in Cells : s \in c.seq[i] /\ c.pos[i] <= e.pos}
  <2>1. \A p : ~is_masked_swa(p, e.pos)
    BY <1>3 DEF Plain, is_masked_swa
  <2> QED BY <2>1, <1>6 DEF Visible, s, c
<1> DEFINE V == {i \in Cells : s \in c.seq[i] /\ c.pos[i] <= e.pos}
           f == [p \in 0 .. e.pos |-> CHOOSE i \in Cells : s \in c.seq[i] /\ c.pos[i] = p]
<1>19. \A p \in 0 .. e.pos : \A i, k \in Cells :
         s \in c.seq[i] /\ c.pos[i] = p /\ s \in c.seq[k] /\ c.pos[k] = p => i = k
  BY <1>12
<1>14. ASSUME NEW p \in 0 .. e.pos
       PROVE  f[p] \in V /\ c.pos[f[p]] = p /\ s \in c.seq[f[p]]
  <2>1. f[p] \in Cells /\ s \in c.seq[f[p]] /\ c.pos[f[p]] = p
    BY <1>12
  <2> HIDE DEF f
  <2> QED BY <2>1, <1>6
<1>15. ASSUME NEW i \in V PROVE c.pos[i] \in 0 .. e.pos /\ f[c.pos[i]] = i
  <2>1. c.pos[i] \in 0 .. e.pos
    BY <1>6, <1>10
  <2>2. f[c.pos[i]] \in V /\ c.pos[f[c.pos[i]]] = c.pos[i] /\ s \in c.seq[f[c.pos[i]]]
    BY <2>1, <1>14
  <2>3. i \in Cells /\ s \in c.seq[i] /\ f[c.pos[i]] \in Cells
    BY <2>2
  <2> HIDE DEF f, V
  <2>4. ASSUME NEW p \in 0 .. e.pos, NEW k \in Cells, c.pos[i] = p,
               s \in c.seq[k], c.pos[k] = p
        PROVE  k = i
    BY <1>19, <2>3, <2>4
  <2>5. f[c.pos[i]] = i
    BY <2>1, <2>2, <2>3, <2>4
  <2> QED BY <2>1, <2>5
<1>16. Cardinality(V) = Cardinality(0 .. e.pos)
  <2>1. f \in [0 .. e.pos -> V]
    <3>1. f = [p \in 0 .. e.pos |-> f[p]]
      OBVIOUS
    <3> HIDE DEF f, V
    <3> QED BY <3>1, <1>14
  <2> HIDE DEF f, V
  <2>2. \A p, q \in 0 .. e.pos : f[p] = f[q] => p = q
    BY <1>14
  <2>3. \A i \in V : \E p \in 0 .. e.pos : f[p] = i
    BY <1>15
  <2>4. f \in Bijection(0 .. e.pos, V)
    BY <2>1, <2>2, <2>3, Fun_IsBij
  <2>5. IsFiniteSet(0 .. e.pos)
    <3> DEFINE m == e.pos
    <3>1. m \in Nat
      BY <1>6
    <3> HIDE DEF m
    <3>2. IsFiniteSet(0 .. m)
      BY <3>1, FS_Interval
    <3> QED BY <3>2 DEF m
  <2>6. ExistsBijection(0 .. e.pos, V)
    BY <2>4 DEF ExistsBijection
  <2> QED BY <2>5, <2>6, FS_Bijection
<1>17. ASSUME NEW p \in 0 .. e.pos
       PROVE  \E i \in V : kv.data[st][i] = [tok |-> slots[s].prompt[p + 1], at |-> p]
  BY <1>6, <1>12
<1> HIDE DEF V, window
<1>18. /\ Cardinality(Visible(e)) = Cardinality(window)
       /\ \A p \in window : \E i \in Visible(e) :
            kv.data[st][i] = [tok |-> slots[s].prompt[p + 1], at |-> p]
  BY <1>13, <1>16, <1>17 DEF V
<1> QED BY <1>18 DEF e, j, s, window

\* A sequence keeps its stream.
LEMMA SameStream ==
  ASSUME params' = params, NEW s
  PROVE  seq_to_stream(s)' = seq_to_stream(s)
BY DEF seq_to_stream

\* Outside a rehearsal cells that stay hold what they held.
LEMMA HoldsSame ==
  ASSUME params' = params, olds = << >>, olds' = << >>, NEW s \in Slots, NEW i \in Cells, NEW p,
         CellAs(kv.cells[seq_to_stream(s)], kv'.cells[seq_to_stream(s)], i)
  PROVE  Holds(s, p, i)' <=> Holds(s, p, i)
<1>1. seq_to_stream(s)' = seq_to_stream(s)
  BY SameStream
<1>2. ~Placed(seq_to_stream(s), i) /\ ~Placed(seq_to_stream(s), i)'
  BY DEF Placed
<1> QED BY <1>1, <1>2 DEF Holds, CellAs

\* A position stays cached if its cells stay, and the slot goes on asking for
\* the same token there.
LEMMA CachedFrame ==
  ASSUME params' = params, NEW s \in Slots, NEW p, CachedAt(s, p),
         Owed(s, p)' <=> Owed(s, p),
         slots'[s].prompt[p + 1] = slots[s].prompt[p + 1],
         \A i \in Cells : Holds(s, p, i)' <=> Holds(s, p, i),
         \A i \in Cells : Holds(s, p, i) =>
           /\ kv'.data[seq_to_stream(s)][i] = kv.data[seq_to_stream(s)][i]
           /\ kv'.cells[seq_to_stream(s)].shift[i] = kv.cells[seq_to_stream(s)].shift[i]
  PROVE  CachedAt(s, p)'
<1>1. seq_to_stream(s)' = seq_to_stream(s)
  BY SameStream
<1>2. ASSUME NEW i \in Cells, Holds(s, p, i), Keys(s, p, i)
      PROVE  Keys(s, p, i)'
  BY <1>1, <1>2 DEF Keys
<1> QED BY <1>2 DEF CachedAt

\* The batch and the view stay, and nothing is computed: the same is owed.
LEMMA OwedSame ==
  ASSUME UNCHANGED <<batch, off>>, step # "compute", step' # "compute" \/ at' = 1,
         NEW s, NEW p
  PROVE  Owed(s, p)' <=> Owed(s, p)
<1>1. \A j : ~Computed(j) /\ ~Computed(j)'
  <2> TAKE j
  <2>1. ~Computed(j)
    BY DEF Computed
  <2>2. ~Computed(j)'
    <3>1. CASE step' # "compute"
      BY <3>1 DEF Computed
    <3>2. CASE at' = 1
      <4>1. 1 .. at' - 1 = {}
        BY <3>2
      <4> QED BY <4>1 DEF Computed
    <3> QED BY <3>1, <3>2
  <2> QED BY <2>1, <2>2
<1> QED BY <1>1 DEF Owed

\* Nothing is owed without a batch.
LEMMA OwesNothing == ASSUME batch = << >>, off \in Nat, NEW s, NEW p PROVE ~Owed(s, p)
<1>1. off + 1 .. Len(batch) = {}
  OBVIOUS
<1> QED BY <1>1 DEF Owed

\* The cells of all streams and the buffers are what they were.
QuietCache ==
  /\ SameBuffers(kv, kv')
  /\ \A st \in Slots : /\ kv'.cells[st].has_shift = kv.cells[st].has_shift
                       /\ \A i \in Cells : CellAs(kv.cells[st], kv'.cells[st], i)

\* A cache nothing is done to is quiet.
LEMMA Unchanged == ASSUME UNCHANGED kv PROVE QuietCache
BY DEF QuietCache, SameBuffers, CellAs

\* Removing no sequence leaves the cache quiet.
LEMMA ClearNone ==
  ASSUME IInv, Owners, NEW S, S = {}, kv' = Clear(kv, S) PROVE QuietCache
<1>1. Books(kv.cells) /\ \A st \in Slots : OneOwner(kv.cells[st])
  BY DEF IInv, Owners
<1>2. /\ SameBuffers(kv, Clear(kv, S))
      /\ \A st \in Slots :
              /\ Clear(kv, S).cells[st].has_shift = kv.cells[st].has_shift
              /\ \A i \in Cells : IF kv.cells[st].seq[i] \cap S = {}
                                  THEN CellAs(kv.cells[st], Clear(kv, S).cells[st], i)
                                  ELSE CellGone(Clear(kv, S).cells[st], i)
  BY <1>1, ClearEffect
<1> QED BY <1>2 DEF QuietCache

\* What a step owes that leaves the cache alone, outside a rehearsal: slots go
\* on asking for what they asked for, and owe the same.
LEMMA QuietStep ==
  ASSUME ReadInv, QuietCache, params' = params, olds = << >>, olds' = << >>,
         step \in Deciding \/ step' \notin Deciding,
         \A s \in Slots : \A p \in 0 .. Len(slots'[s].prompt) - 1 : Known(s, p)' =>
           /\ p \in 0 .. Len(slots[s].prompt) - 1 /\ Known(s, p)
           /\ slots'[s].prompt[p + 1] = slots[s].prompt[p + 1]
           /\ Owed(s, p)' <=> Owed(s, p)
  PROVE  /\ kv'.copies = << >> /\ Owners' /\ Settled' /\ PromptsCached'
         /\ \A s \in Slots, i \in Cells : \A p : Holds(s, p, i)' <=> Holds(s, p, i)
<1>1. kv'.copies = << >>
  BY DEF ReadInv, QuietCache, SameBuffers
<1>2. Owners'
  BY DEF ReadInv, QuietCache, Owners, OneOwner, CellAs
<1>3. Settled'
  BY DEF ReadInv, QuietCache, Settled, CellAs
<1>4. \A s \in Slots, i \in Cells : \A p : Holds(s, p, i)' <=> Holds(s, p, i)
  <2> TAKE s \in Slots, i \in Cells
  <2>1. CellAs(kv.cells[seq_to_stream(s)], kv'.cells[seq_to_stream(s)], i)
    BY StreamType DEF QuietCache
  <2> QED BY <2>1, HoldsSame
<1>5. PromptsCached'
  <2> SUFFICES ASSUME NEW s \in Slots, NEW p \in 0 .. Len(slots'[s].prompt) - 1, Known(s, p)'
      PROVE  CachedAt(s, p)'
    BY DEF PromptsCached
  <2>1. CachedAt(s, p)
    BY DEF ReadInv, PromptsCached
  <2>2. \A i \in Cells :
           /\ kv'.data[seq_to_stream(s)][i] = kv.data[seq_to_stream(s)][i]
           /\ kv'.cells[seq_to_stream(s)].shift[i] = kv.cells[seq_to_stream(s)].shift[i]
    BY StreamType DEF QuietCache, SameBuffers, CellAs
  <2> QED BY <2>1, <2>2, <1>4, CachedFrame
<1> QED BY <1>1, <1>2, <1>3, <1>4, <1>5

\* Outside a rehearsal nothing is said of one.
LEMMA NotRehearsed == ASSUME step' \notin Deciding PROVE Rehearsed'
BY DEF Rehearsed

\* There are no places behind the view of an empty batch.
LEMMA EmptyRange == ASSUME NEW o \in Nat PROVE o + 1 .. 0 = {}
OBVIOUS

\* Without a batch nothing is said of its entries.
LEMMA NoBatch ==
  ASSUME batch' = << >>, off' \in Nat, step' \notin Deciding
  PROVE  BatchRises' /\ BatchWanted' /\ Rehearsed'
<1>2. Len(batch') = 0
  OBVIOUS
<1>1. off' + 1 .. Len(batch') = {}
  BY <1>2, EmptyRange
<1> QED BY <1>1, NotRehearsed DEF BatchRises, BatchWanted

\* Types that every step uses.
LEMMA ReadTypes ==
  ASSUME IInv
  PROVE  /\ cur \in Slots /\ off \in Nat /\ batch \in Seq(EntryType)
         /\ slots \in [Slots -> SlotType]
         /\ \A s \in Slots : /\ slots[s] \in SlotType /\ slots[s].prompt \in Seq(Tokens)
                             /\ slots[s].task \in Seq(Tokens)
                             /\ Len(slots[s].prompt) \in Nat /\ Len(slots[s].task) \in Nat
BY DEF IInv, RehearsalSound, SlotType

\* A slot that is released keeps its prompt, when requests have one answer.
LEMMA ReleasedSingle ==
  ASSUME NEW x \in SlotType, x.kind = "single"
  PROVE  /\ Released(x).prompt = x.prompt /\ Released(x).state = "idle"
         /\ Released(x).kind = "single"
         /\ IdleSlot.prompt = << >> /\ IdleSlot.state = "idle" /\ IdleSlot.kind = "single"
BY DEF Released, IdleSlot, SlotType

\* Taking and cancelling requests.
LEMMA ReadTasks ==
  ASSUME IInv, ReadInv, TakeTask
  PROVE  ReadInv'
<1>1. /\ step = "tasks" /\ UNCHANGED <<params, step, cur, batch, scan>>
      /\ UNCHANGED <<off, sinfos, olds, at>>
      /\ \/ UNCHANGED kv
         \/ \E s \in Slots : kv' = Clear(kv, {s} \cap Children)
      /\ \A s \in Slots : \/ slots'[s] = slots[s]
                          \/ \E toks : slots'[s] =
                                 [slots[s] EXCEPT !.state = "started", !.task = toks]
                          \/ slots'[s] = Released(slots[s])
  <2>1. CASE \E s \in Slots, toks \in Prompts : launch_slot_with_task(s, toks)
    <3> PICK s \in Slots, toks \in Prompts : launch_slot_with_task(s, toks)
      BY <2>1
    <3>1. slots' = [slots EXCEPT ![s].state = "started", ![s].task = toks]
      BY DEF launch_slot_with_task
    <3>2. slots' = [slots EXCEPT ![s] = [slots[s] EXCEPT !.state = "started", !.task = toks]]
      BY <3>1, ReadTypes
    <3>3. \A t \in Slots : \/ slots'[t] = slots[t]
                           \/ slots'[t] = [slots[t] EXCEPT !.state = "started", !.task = toks]
      BY <3>2, ReadTypes
    <3> QED BY <3>3 DEF launch_slot_with_task, view, rehearsal
  <2>2. CASE \E p, c \in Slots, toks \in Prompts : launch_slots_with_parent_task(p, c, toks)
    BY <2>2 DEF launch_slots_with_parent_task, ReadInv, Plain
  <2>3. CASE \E s \in Slots : Cancel(s)
    <3> PICK s \in Slots : Cancel(s)
      BY <2>3
    <3>1. \A t \in Slots : slots'[t] = slots[t] \/ slots'[t] = Released(slots[t])
      BY DEF Cancel, release
    <3> QED BY <3>1 DEF Cancel, release, view, rehearsal
  <2> QED BY <2>1, <2>2, <2>3 DEF TakeTask
<1>2. batch = << >> /\ olds = << >> /\ step \notin Deciding
  BY <1>1 DEF ReadInv, Phases, Deciding
<1>3. Children = {} /\ Owners /\ NoFamilies
  BY DEF ReadInv, NoFamilies, Children, Processing
<1>4. QuietCache
  BY <1>1, <1>3, Unchanged, ClearNone
<1>5. \A s \in Slots : /\ slots'[s].prompt = slots[s].prompt
                       /\ slots'[s].kind = "single" /\ slots'[s].state # "wait_other"
                       /\ slots'[s].state \in {"prompt", "done_prompt", "generating"}
                              => slots'[s] = slots[s]
  <2> TAKE s \in Slots
  <2>1. slots[s] \in SlotType /\ slots[s].kind = "single" /\ slots[s].state # "wait_other"
    BY <1>3, ReadTypes DEF NoFamilies
  <2>2. CASE \E toks : slots'[s] = [slots[s] EXCEPT !.state = "started", !.task = toks]
    <3> PICK toks : slots'[s] = [slots[s] EXCEPT !.state = "started", !.task = toks]
      BY <2>2
    <3>1. /\ slots'[s].prompt = slots[s].prompt /\ slots'[s].kind = slots[s].kind
          /\ slots'[s].state = "started"
      BY <2>1 DEF SlotType
    <3> QED BY <2>1, <3>1
  <2>3. CASE slots'[s] = Released(slots[s])
    BY <2>1, <2>3, ReleasedSingle
  <2> QED BY <1>1, <2>1, <2>2, <2>3
<1>6. \A s \in Slots : \A p : Known(s, p)' => Known(s, p)
  BY <1>1 DEF Known
<1>7. \A s, p : Owed(s, p)' <=> Owed(s, p)
  BY <1>1, OwedSame
<1>8. /\ kv'.copies = << >> /\ Owners' /\ Settled' /\ PromptsCached'
      /\ \A s \in Slots, i \in Cells : \A p : Holds(s, p, i)' <=> Holds(s, p, i)
  BY <1>1, <1>2, <1>4, <1>5, <1>6, <1>7, QuietStep
<1>9. NoFamilies' /\ Plain'
  BY <1>1, <1>5 DEF NoFamilies, Plain, ReadInv
<1>10. NothingBeyond'
  BY <1>5, <1>8 DEF NothingBeyond, ReadInv
<1>11. Phases'
  <2>1. Phases
    BY DEF ReadInv
  <2>2. \A s \in Slots : slots'[s].state = "prompt" =>
          \A i \in 1 .. Len(slots'[s].prompt) : slots'[s].prompt[i] = slots'[s].task[i]
    <3> TAKE s \in Slots
    <3>1. CASE slots'[s].state = "prompt"
      <4>1. slots'[s] = slots[s]
        BY <1>5, <3>1
      <4> QED BY <2>1, <4>1 DEF Phases
    <3> QED BY <3>1
  <2> QED BY <1>1, <1>2, <2>1, <2>2 DEF Phases
<1>12. BatchRises' /\ BatchWanted' /\ Rehearsed'
  BY <1>1, <1>2, ReadTypes, NoBatch
<1> QED BY <1>8, <1>9, <1>10, <1>11, <1>12 DEF ReadInv

\* A step that leaves the cache, the slots and the batch alone.
LEMMA ReadQuiet ==
  ASSUME IInv, ReadInv, QuietCache, UNCHANGED <<params, slots, batch, off>>,
         olds = << >>, olds' = << >>, step # "compute", step' \notin Deciding, Phases',
         \A s \in Slots : \A p \in Int : Known(s, p)' => Known(s, p)
  PROVE  ReadInv'
<1>1. \A s, p : Owed(s, p)' <=> Owed(s, p)
  BY OwedSame DEF Deciding
<1>2. /\ kv'.copies = << >> /\ Owners' /\ Settled' /\ PromptsCached'
      /\ \A s \in Slots, i \in Cells : \A p : Holds(s, p, i)' <=> Holds(s, p, i)
  BY <1>1, QuietStep
<1>3. NoFamilies' /\ Plain'
  BY DEF NoFamilies, Plain, ReadInv
<1>4. NothingBeyond'
  BY <1>2 DEF NothingBeyond, ReadInv
<1>5. BatchRises' /\ BatchWanted'
  BY DEF BatchRises, BatchWanted, Wanted, ReadInv
<1> QED BY <1>2, <1>3, <1>4, <1>5, NotRehearsed DEF ReadInv

\* A slot whose prompt is not searched knows its whole prompt.
LEMMA KnowsAll ==
  ASSUME step \notin {"reuse", "keep"}, NEW s, NEW p PROVE Known(s, p)
BY DEF Known

\* The loops begin, pass over a slot, and take a prompt up.
LEMMA ReadPasses ==
  ASSUME IInv, ReadInv, BeginRound \/ SkipPrompt \/ StartPrompt
  PROVE  ReadInv'
<1>1. /\ UNCHANGED kv /\ UNCHANGED <<params, slots, batch, off, olds>>
      /\ step \in {"tasks", "prompt"}
      /\ step' \notin Deciding
  BY DEF BeginRound, SkipPrompt, StartPrompt, Advance, view, rehearsal, Deciding
<1>2. Phases /\ olds = << >>
  BY <1>1 DEF ReadInv, Phases
<1>3. \A s, p : Known(s, p)
  BY <1>1, KnowsAll
<1>4. Phases'
  <2>1. CASE BeginRound \/ SkipPrompt
    <3>1. step' \in {"shift", "prompt", "decode"} /\ (step' = "shift" => step = "tasks")
      BY <2>1 DEF BeginRound, SkipPrompt, Advance
    <3> QED BY <1>1, <1>2, <3>1 DEF Phases
  <2>2. CASE StartPrompt
    <3> DEFINE n == common_prefix(slots[cur].prompt, slots[cur].task)
    <3>1. /\ scan' = <<n, n, n>> /\ cur' = cur /\ slots[cur].state = "started"
          /\ step' \in {"reuse", "keep"}
      BY <2>2 DEF StartPrompt
    <3>2. \A i \in 1 .. n : slots[cur].prompt[i] = slots[cur].task[i]
      BY ReadTypes, PrefixEqual
    <3> HIDE DEF n
    <3>3. scan'[3] = n
      BY <3>1
    <3> QED BY <1>1, <1>2, <3>1, <3>2, <3>3 DEF Phases
  <2> QED BY <2>1, <2>2
<1> QED BY <1>1, <1>2, <1>3, <1>4, Unchanged, ReadQuiet

\* A round ends when its batch is decoded.
LEMMA ReadEnd ==
  ASSUME IInv, ReadInv, EndRound
  PROVE  ReadInv'
<1>1. /\ UNCHANGED kv /\ UNCHANGED <<params, slots>> /\ step = "decode" /\ off >= Len(batch)
      /\ step' = "tasks" /\ batch' = << >> /\ off' = 0 /\ olds' = << >>
  BY DEF EndRound, RoundOver, NoRehearsal
<1>2. Phases /\ olds = << >> /\ step' \notin Deciding
  BY <1>1 DEF ReadInv, Phases, Deciding
<1>3. \A s, p : Owed(s, p)' <=> Owed(s, p)
  <2> TAKE s, p
  <2>1. off + 1 .. Len(batch) = {}
    BY <1>1, ReadTypes
  <2>2. ~Owed(s, p)
    BY <2>1 DEF Owed
  <2>3. off' + 1 .. Len(batch') = {}
    <3>1. Len(batch') = 0
      BY <1>1
    <3> QED BY <1>1, <3>1, EmptyRange
  <2>4. ~Owed(s, p)'
    BY <2>3 DEF Owed
  <2> QED BY <2>2, <2>4
<1>4. \A s, p : Known(s, p)
  BY <1>1, KnowsAll
<1>5. /\ kv'.copies = << >> /\ Owners' /\ Settled' /\ PromptsCached'
      /\ \A s \in Slots, i \in Cells : \A p : Holds(s, p, i)' <=> Holds(s, p, i)
  BY <1>1, <1>2, <1>3, <1>4, Unchanged, QuietStep
<1>6. NoFamilies' /\ Plain'
  BY <1>1 DEF NoFamilies, Plain, ReadInv
<1>7. NothingBeyond'
  BY <1>1, <1>5 DEF NothingBeyond, ReadInv
<1>8. Phases'
  BY <1>1, <1>2 DEF Phases
<1>9. off' \in Nat
  BY <1>1
<1> QED BY <1>1, <1>2, <1>5, <1>6, <1>7, <1>8, <1>9, NoBatch DEF ReadInv

\* A sampled token is added where nothing is cached, to be computed.
LEMMA ReadSampled ==
  ASSUME IInv, IInv', ReadInv, AddSampled
  PROVE  ReadInv'
<1> SUFFICES ASSUME NEW c \in Slots, c = cur, NEW N \in Nat, N = Len(slots[c].prompt)
    PROVE  ReadInv'
  BY ReadTypes
<1> DEFINE x == slots[c]
<1>1. /\ UNCHANGED kv /\ UNCHANGED <<params, off, olds>> /\ step = "sampled"
      /\ step' \in {"sampled", "prompt"}
  BY DEF AddSampled, Advance, view, rehearsal
<1>2. Phases /\ olds = << >> /\ step' \notin Deciding /\ step # "compute" /\ step \notin Deciding
  BY <1>1 DEF ReadInv, Phases, Deciding
<1>3. CASE x.state # "generating" /\ UNCHANGED <<slots, batch>>
  <2>1. \A s, p : Known(s, p)
    BY <1>1, KnowsAll
  <2>2. Phases'
    BY <1>1, <1>2, <1>3 DEF Phases
  <2> QED BY <1>1, <1>2, <1>3, <2>1, <2>2, Unchanged, ReadQuiet
<1>4. CASE /\ x.state = "generating"
           /\ batch' = Append(batch, Entry(c, N, x.sampled))
           /\ slots' = [slots EXCEPT ![c].prompt = Append(@, x.sampled),
                                     ![c].i_batch = Len(batch) + 1]
  <2>1. /\ x \in SlotType /\ x.prompt \in Seq(Tokens) /\ N \in Nat
        /\ batch \in Seq(EntryType) /\ off \in Nat /\ slots \in [Slots -> SlotType]
    BY ReadTypes
  <2>2. /\ \A s \in Slots : s # c => slots'[s] = slots[s]
        /\ slots'[c].prompt = Append(x.prompt, x.sampled) /\ slots'[c].i_batch = Len(batch) + 1
        /\ slots'[c].state = x.state /\ slots'[c].kind = x.kind /\ slots'[c].task = x.task
    <3> DEFINE y == [x EXCEPT !.prompt = Append(@, x.sampled), !.i_batch = Len(batch) + 1]
    <3>1. slots' = [slots EXCEPT ![c] = y]
      BY <1>4, <2>1
    <3>2. /\ y.prompt = Append(x.prompt, x.sampled) /\ y.i_batch = Len(batch) + 1
          /\ y.state = x.state /\ y.kind = x.kind /\ y.task = x.task
      BY <2>1 DEF SlotType
    <3> HIDE DEF y
    <3> QED BY <2>1, <3>1, <3>2
  <2>3. /\ Len(slots'[c].prompt) = N + 1 /\ slots'[c].prompt[N + 1] = x.sampled
        /\ \A p \in 0 .. N - 1 : slots'[c].prompt[p + 1] = x.prompt[p + 1]
        /\ x.sampled \in Tokens
    <3>1. x.sampled \in Tokens
      BY <1>4, <2>1 DEF IInv, SlotsFit
    <3>2. /\ Len(Append(x.prompt, x.sampled)) = N + 1
          /\ Append(x.prompt, x.sampled)[N + 1] = x.sampled
          /\ \A p \in 0 .. N - 1 : Append(x.prompt, x.sampled)[p + 1] = x.prompt[p + 1]
      BY <2>1, <3>1
    <3> HIDE DEF x
    <3> QED BY <2>2, <3>1, <3>2
  <2> DEFINE e == Entry(c, N, x.sampled)
             L == Len(batch)
  <2>4. /\ e.seq = c /\ e.pos = N /\ e.tok = x.sampled
    BY DEF Entry
  <2>4a. e \in EntryType
    <3>1. /\ batch' \in Seq(EntryType) /\ batch' = Append(batch, e) /\ L \in Nat
      BY <1>4, <2>1 DEF IInv
    <3>2. Len(batch') = L + 1 /\ batch'[L + 1] = e
      <4> HIDE DEF e
      <4> QED BY <2>1, <3>1
    <3> HIDE DEF e
    <3> QED BY <3>1, <3>2
  <2>5. /\ L \in Nat /\ Len(batch') = L + 1 /\ batch'[L + 1] = e
        /\ \A j \in 1 .. L : batch'[j] = batch[j]
    <3>1. batch' = Append(batch, e) /\ L \in Nat
      BY <1>4, <2>1
    <3> HIDE DEF e
    <3> QED BY <2>1, <2>4a, <3>1
  <2> HIDE DEF e, L
  <2>6. \A j \in off' + 1 .. Len(batch') : j \in off + 1 .. L \/ j = L + 1
    BY <1>1, <2>1, <2>5
  <2>7. \A j \in off + 1 .. L : j \in 1 .. L /\ j \in off' + 1 .. Len(batch') /\ j < L + 1
    BY <1>1, <2>1, <2>5
  <2>8. \A j : ~Computed(j) /\ ~Computed(j)'
    BY <1>1 DEF Computed
  <2>9. \A j \in off + 1 .. L : Wanted(j, batch[j])
    BY DEF ReadInv, BatchWanted, L
  <2>10. ASSUME NEW s \in Slots, NEW p, ~(s = c /\ p = N)
         PROVE  Owed(s, p)' <=> Owed(s, p)
    <3>1. \A j \in off + 1 .. L : batch'[j] = batch[j]
      BY <2>5, <2>7
    <3>2. ASSUME Owed(s, p) PROVE Owed(s, p)'
      BY <2>7, <2>8, <3>1, <3>2 DEF Owed, L
    <3>3. ASSUME Owed(s, p)' PROVE Owed(s, p)
      <4> PICK j \in off' + 1 .. Len(batch') : batch'[j].seq = s /\ batch'[j].pos = p
        BY <3>3 DEF Owed
      <4>1. j # L + 1
        BY <2>4, <2>5, <2>10
      <4>2. j \in off + 1 .. L
        BY <2>6, <4>1
      <4> QED BY <2>8, <3>1, <4>2 DEF Owed, L
    <3> QED BY <3>2, <3>3
  <2>11. \A s \in Slots, i \in Cells : \A p : Holds(s, p, i)' <=> Holds(s, p, i)
    <3> TAKE s \in Slots, i \in Cells
    <3>1. CellAs(kv.cells[seq_to_stream(s)], kv'.cells[seq_to_stream(s)], i)
      BY <1>1 DEF CellAs
    <3> QED BY <1>1, <1>2, <3>1, HoldsSame
  <2>12. N \in Positions
    <3>1. N + 1 < params.n_ctx /\ params.n_ctx <= NPos /\ params.n_ctx \in Nat
      <4>1. Len(slots'[c].prompt) < params'.n_ctx
        BY <2>1 DEF IInv, SlotsFit
      <4>2. params \in Configs
        BY DEF IInv
      <4> QED BY <1>1, <2>3, <4>1, <4>2, Contexts
    <3> QED BY <2>1, <3>1, SizesAssumption DEF Positions
  <2>13. CachedAt(c, N)'
    <3>1. Owed(c, N)'
      <4>1. L + 1 \in off' + 1 .. Len(batch')
        <5>1. off = 0
          BY <1>1, <1>2 DEF Phases
        <5> QED BY <1>1, <2>1, <2>5, <5>1
      <4> QED BY <2>4, <2>5, <2>8, <4>1 DEF Owed
    <3>2. \A i \in Cells : ~Holds(cur, N, i)
      <4>1. NothingBeyond
        BY DEF ReadInv
      <4> QED BY <1>4, <2>1, <2>12, <4>1 DEF NothingBeyond
    <3> QED BY <2>1, <2>11, <3>1, <3>2 DEF CachedAt
  <2>14. PromptsCached'
    <3> SUFFICES ASSUME NEW s \in Slots, NEW p \in 0 .. Len(slots'[s].prompt) - 1
        PROVE  CachedAt(s, p)'
      BY DEF PromptsCached
    <3>1. CASE s = c /\ p = N
      BY <2>13, <3>1
    <3>2. CASE ~(s = c /\ p = N)
      <4>1. /\ p \in 0 .. Len(slots[s].prompt) - 1
            /\ slots'[s].prompt[p + 1] = slots[s].prompt[p + 1]
        <5>1. CASE s = c
          <6>1. p \in 0 .. N - 1
            BY <2>3, <3>2, <5>1
          <6> HIDE DEF x
          <6> QED BY <2>3, <5>1, <6>1 DEF x
        <5>2. CASE s # c
          BY <2>2, <5>2
        <5> QED BY <5>1, <5>2
      <4>2. CachedAt(s, p)
        BY <1>1, <4>1, KnowsAll DEF ReadInv, PromptsCached
      <4> QED BY <1>1, <2>10, <2>11, <3>2, <4>1, <4>2, CachedFrame
    <3> QED BY <3>1, <3>2
  <2>15. kv'.copies = << >> /\ Owners' /\ Settled' /\ Plain' /\ NoFamilies'
    <3>1. NoFamilies /\ Owners /\ Settled /\ Plain
      BY DEF ReadInv
    <3>2. NoFamilies'
      BY <2>2, <3>1 DEF NoFamilies
    <3> QED BY <1>1, <1>2, <3>1, <3>2 DEF ReadInv, Owners, Settled, Plain
  <2>16. NothingBeyond'
    <3>1. NothingBeyond
      BY DEF ReadInv
    <3>2. \A s \in Slots : /\ slots'[s].state = slots[s].state
                           /\ Len(slots[s].prompt) <= Len(slots'[s].prompt)
                           /\ Len(slots[s].prompt) \in Nat /\ Len(slots'[s].prompt) \in Nat
      BY <2>2, <2>3, ReadTypes
    <3>3. \A p \in Positions : p \in Int
      BY DEF Positions
    <3> QED BY <2>11, <3>1, <3>2, <3>3 DEF NothingBeyond
  <2>17. Phases'
    <3>1. \A s \in Slots : slots'[s].state = "prompt" => slots'[s] = slots[s]
      BY <1>4, <2>2
    <3> QED BY <1>1, <1>2, <3>1 DEF Phases
  <2>18. BatchRises'
    <3> SUFFICES ASSUME NEW j \in off' + 1 .. Len(batch'), NEW k \in off' + 1 .. Len(batch'),
                        j < k, batch'[j].seq = batch'[k].seq
        PROVE  batch'[j].pos < batch'[k].pos
      BY DEF BatchRises
    <3>1. j \in off + 1 .. L /\ j \in 1 .. L /\ j # L + 1
      <4> HIDE DEF x
      <4> QED BY <1>1, <2>1, <2>5
    <3>2. CASE k = L + 1
      <4>1. batch[j].seq = c /\ batch'[j] = batch[j] /\ batch'[k] = e
        BY <2>4, <2>5, <3>1, <3>2
      <4>2. batch[j].pos < Len(slots[c].prompt)
        BY <2>9, <3>1, <4>1 DEF Wanted
      <4> QED BY <2>4, <4>1, <4>2
    <3>3. CASE k # L + 1
      <4>1. k \in off + 1 .. L /\ k \in 1 .. L
        BY <2>6, <2>7, <3>3
      <4> QED BY <2>5, <3>1, <4>1 DEF ReadInv, BatchRises, L
    <3> QED BY <3>2, <3>3
  <2>19. BatchWanted'
    <3> SUFFICES ASSUME NEW j \in off' + 1 .. Len(batch') PROVE Wanted(j, batch[j])'
      BY DEF BatchWanted
    <3>1. CASE j = L + 1
      <4>1. batch'[j] = e
        BY <2>5, <3>1
      <4>2. j <= slots'[c].i_batch
        BY <2>2, <2>5, <3>1 DEF L
      <4>3. slots'[c].state = "generating"
        BY <1>4, <2>2
      <4>4. N < Len(slots'[c].prompt)
        BY <2>3
      <4> HIDE DEF x
      <4>5. e.tok = slots'[c].prompt[N + 1]
        BY <2>3, <2>4
      <4> QED BY <2>4, <4>1, <4>2, <4>3, <4>4, <4>5 DEF Wanted
    <3>2. CASE j # L + 1
      <4>1. j \in off + 1 .. L /\ j \in 1 .. L /\ j <= L + 1
        BY <2>5, <2>6, <2>7, <3>2
      <4>2. batch'[j] = batch[j] /\ Wanted(j, batch[j])
        BY <2>5, <2>9, <4>1
      <4>3. CASE batch[j].seq = c
        <5>1. batch[j].pos \in 0 .. N - 1
          <6>1. batch[j] \in EntryType
            BY <2>1, <4>1 DEF L
          <6> QED BY <4>2, <4>3, <6>1 DEF Wanted, EntryType, Positions
        <5>2. batch[j].pos < N + 1
          BY <5>1
        <5> HIDE DEF x
        <5> QED BY <2>2, <2>3, <4>1, <4>2, <4>3, <5>1, <5>2 DEF Wanted, L, x
      <4>4. CASE batch[j].seq # c
        <5>0. batch[j] \in EntryType
          BY <2>1, <4>1 DEF L
        <5>1. batch[j].seq \in Slots
          BY <5>0 DEF EntryType
        <5>2. slots'[batch[j].seq] = slots[batch[j].seq]
          BY <2>2, <4>4, <5>1
        <5> QED BY <4>2, <5>2 DEF Wanted
      <4> QED BY <4>3, <4>4
    <3> QED BY <3>1, <3>2
  <2> QED BY <1>2, <2>14, <2>15, <2>16, <2>17, <2>18, <2>19, NotRehearsed DEF ReadInv
<1> QED BY <1>3, <1>4 DEF AddSampled

\* Cells of s at positions p0 .. p1 - 1 are removed, and those at p1 .. p2 - 1
\* moved down into the gap.
CloseGap(s, p0, p1, p2) == kv' = seq_add(seq_rm(kv, s, p0, p1), s, p1, p2, p0 - p1)

\* What closing a gap does to every cell.
LEMMA GapEffect ==
  ASSUME IInv, Owners, NEW s \in Slots, NEW p0 \in Nat, NEW p1 \in Nat, NEW p2 \in Nat,
         p0 <= p1, p1 <= p2, CloseGap(s, p0, p1, p2)
  PROVE  /\ SameBuffers(kv, kv')
         /\ \A st \in Slots : kv.cells[st].has_shift => kv'.cells[st].has_shift
         /\ \A st \in Slots, i \in Cells :
              LET c == kv.cells[st]
                  d == kv'.cells[st]
                  mine == st = seq_to_stream(s) /\ s \in c.seq[i]
              IN  /\ c.pos[i] \in Int /\ c.shift[i] \in Int
                  /\ mine /\ c.pos[i] \in p0 .. p1 - 1 => CellGone(d, i)
                  /\ mine /\ c.pos[i] \in p1 .. p2 - 1 =>
                       /\ d.pos[i] = c.pos[i] + p0 - p1
                       /\ d.shift[i] = c.shift[i] + p0 - p1
                       /\ d.seq[i] = c.seq[i]
                       /\ p0 = p1 \/ d.has_shift
                  /\ ~(mine /\ c.pos[i] \in p0 .. p2 - 1) => CellAs(c, d, i)
<1> DEFINE k == seq_rm(kv, s, p0, p1)
           m == seq_to_stream(s)
<1>1. Books(kv.cells) /\ \A st \in Slots : OneOwner(kv.cells[st])
  BY DEF IInv, Owners
<1>2. Books(k.cells)
  BY <1>1, SeqRmBooks
<1>3. /\ SameBuffers(kv, k)
      /\ \A st \in Slots :
           /\ k.cells[st].has_shift = kv.cells[st].has_shift
           /\ \A i \in Cells :
                IF st = m /\ i \in Hit(kv.cells[st], s, p0, p1)
                THEN CellGone(k.cells[st], i)
                ELSE CellAs(kv.cells[st], k.cells[st], i)
  BY <1>1, SeqRmEffect
<1>4. p1 + (p0 - p1) >= 0 /\ p0 - p1 \in Int
  OBVIOUS
<1>5. /\ SameBuffers(k, kv')
      /\ \A st \in Slots : \A i \in Cells :
           IF st = m /\ i \in Hit(k.cells[st], s, p1, p2)
           THEN /\ kv'.cells[st].pos[i] = k.cells[st].pos[i] + (p0 - p1)
                /\ kv'.cells[st].shift[i] = k.cells[st].shift[i] + (p0 - p1)
                /\ kv'.cells[st].seq[i] = k.cells[st].seq[i]
                /\ p0 - p1 = 0 \/ kv'.cells[st].has_shift
           ELSE CellAs(k.cells[st], kv'.cells[st], i)
      /\ \A st \in Slots : k.cells[st].has_shift => kv'.cells[st].has_shift
  <2> HIDE DEF k
  <2> QED BY <1>2, <1>4, SeqAddEffect DEF CloseGap, k
<1> HIDE DEF k, m
<1>6. ASSUME NEW st \in Slots, NEW i \in Cells
      PROVE  LET c == kv.cells[st]
                  d == kv'.cells[st]
                  mine == st = m /\ s \in c.seq[i]
              IN  /\ c.pos[i] \in Int /\ c.shift[i] \in Int
                  /\ mine /\ c.pos[i] \in p0 .. p1 - 1 => CellGone(d, i)
                  /\ mine /\ c.pos[i] \in p1 .. p2 - 1 =>
                       /\ d.pos[i] = c.pos[i] + p0 - p1
                       /\ d.shift[i] = c.shift[i] + p0 - p1
                       /\ d.seq[i] = c.seq[i]
                       /\ p0 = p1 \/ d.has_shift
                  /\ ~(mine /\ c.pos[i] \in p0 .. p2 - 1) => CellAs(c, d, i)
  <2> DEFINE c == kv.cells[st]
             b == k.cells[st]
             d == kv'.cells[st]
             mine == st = m /\ s \in c.seq[i]
  <2>1. c.pos[i] \in Int /\ c.shift[i] \in Int
    <3>1. c \in CellsType
      BY <1>1 DEF Books
    <3> HIDE DEF c
    <3> QED BY <3>1 DEF CellsType, Positions
  <2>2. i \in Hit(c, s, p0, p1) <=> s \in c.seq[i] /\ c.pos[i] \in p0 .. p1 - 1
    BY DEF Hit
  <2>3. i \in Hit(b, s, p1, p2) <=> s \in b.seq[i] /\ b.pos[i] \in p1 .. p2 - 1
    BY DEF Hit
  <2>4. IF st = m /\ i \in Hit(c, s, p0, p1) THEN CellGone(b, i) ELSE CellAs(c, b, i)
    BY <1>3
  <2>5. IF st = m /\ i \in Hit(b, s, p1, p2)
           THEN /\ d.pos[i] = b.pos[i] + (p0 - p1) /\ d.shift[i] = b.shift[i] + (p0 - p1)
                /\ d.seq[i] = b.seq[i] /\ (p0 - p1 = 0 \/ d.has_shift)
           ELSE CellAs(b, d, i)
    BY <1>5
  <2> HIDE DEF c, b, d
  <2>6. ASSUME mine, c.pos[i] \in p0 .. p1 - 1 PROVE CellGone(d, i)
    <3>1. CellGone(b, i)
      BY <2>2, <2>4, <2>6
    <3>2. CellAs(b, d, i)
      BY <2>3, <2>5, <3>1 DEF CellGone
    <3> QED BY <3>1, <3>2 DEF CellGone, CellAs
  <2>7. ASSUME mine, c.pos[i] \in p1 .. p2 - 1
        PROVE  /\ d.pos[i] = c.pos[i] + p0 - p1
               /\ d.shift[i] = c.shift[i] + p0 - p1
               /\ d.seq[i] = c.seq[i]
               /\ p0 = p1 \/ d.has_shift
    <3>1. c.pos[i] \notin p0 .. p1 - 1
      BY <2>7
    <3>2. CellAs(c, b, i)
      BY <2>2, <2>4, <3>1
    <3>3. i \in Hit(b, s, p1, p2) /\ b.pos[i] = c.pos[i]
          /\ b.shift[i] = c.shift[i] /\ b.seq[i] = c.seq[i]
      BY <2>3, <2>7, <3>2 DEF CellAs
    <3>4. /\ d.pos[i] = c.pos[i] + (p0 - p1) /\ d.shift[i] = c.shift[i] + (p0 - p1)
          /\ d.seq[i] = c.seq[i] /\ (p0 - p1 = 0 \/ d.has_shift)
      BY <2>5, <2>7, <3>3
    <3> QED BY <2>1, <3>4
  <2>8. ASSUME ~(mine /\ c.pos[i] \in p0 .. p2 - 1) PROVE CellAs(c, d, i)
    <3>1. /\ ~(mine /\ c.pos[i] \in p0 .. p1 - 1) /\ ~(mine /\ c.pos[i] \in p1 .. p2 - 1)
      BY <2>8
    <3>2. CellAs(c, b, i)
      BY <2>2, <2>4, <3>1
    <3>3. CellAs(b, d, i)
      BY <2>3, <2>5, <3>1, <3>2 DEF CellAs
    <3> QED BY <3>2, <3>3 DEF CellAs
  <2> QED BY <2>1, <2>6, <2>7, <2>8 DEF c, d
<1> QED BY <1>3, <1>5, <1>6 DEF SameBuffers, m

\* Closing a gap leaves every cell its owner, and announces what it moved.
LEMMA GapKeeps ==
  ASSUME IInv, ReadInv, NEW s \in Slots, NEW p0 \in Nat, NEW p1 \in Nat, NEW p2 \in Nat,
         p0 <= p1, p1 <= p2, CloseGap(s, p0, p1, p2), step' \notin Deciding
  PROVE  kv'.copies = << >> /\ Owners' /\ Settled'
<1>1. kv.copies = << >> /\ Owners /\ Settled
  BY DEF ReadInv
<1>2. /\ SameBuffers(kv, kv')
      /\ \A st \in Slots : kv.cells[st].has_shift => kv'.cells[st].has_shift
  BY <1>1, GapEffect
<1>3. ASSUME NEW st \in Slots, NEW i \in Cells
      PROVE  \/ CellGone(kv'.cells[st], i)
             \/ CellAs(kv.cells[st], kv'.cells[st], i)
             \/ /\ kv'.cells[st].seq[i] = kv.cells[st].seq[i]
                /\ kv.cells[st].pos[i] # -1
                /\ kv'.cells[st].shift[i] = kv.cells[st].shift[i] \/ kv'.cells[st].has_shift
  <2> DEFINE c == kv.cells[st]
             d == kv'.cells[st]
             mine == st = seq_to_stream(s) /\ s \in c.seq[i]
  <2>1. /\ c.pos[i] \in Int /\ c.shift[i] \in Int
        /\ mine /\ c.pos[i] \in p0 .. p1 - 1 => CellGone(d, i)
        /\ mine /\ c.pos[i] \in p1 .. p2 - 1 =>
             /\ d.shift[i] = c.shift[i] + p0 - p1 /\ d.seq[i] = c.seq[i]
             /\ p0 = p1 \/ d.has_shift
        /\ ~(mine /\ c.pos[i] \in p0 .. p2 - 1) => CellAs(c, d, i)
    BY <1>1, GapEffect
  <2> HIDE DEF c, d, mine
  <2>2. CASE mine /\ c.pos[i] \in p1 .. p2 - 1
    <3>1. c.pos[i] # -1
      BY <2>2
    <3>2. p0 = p1 => c.shift[i] + p0 - p1 = c.shift[i]
      BY <2>1
    <3> QED BY <2>1, <2>2, <3>1, <3>2 DEF c, d
  <2>3. CASE ~(mine /\ c.pos[i] \in p1 .. p2 - 1)
    <3>1. CellGone(d, i) \/ CellAs(c, d, i)
      BY <2>1, <2>3
    <3> QED BY <3>1 DEF c, d
  <2> QED BY <2>2, <2>3
<1>4. Owners'
  <2> SUFFICES ASSUME NEW st \in Slots, NEW i \in Cells,
                      NEW x \in kv'.cells[st].seq[i], NEW y \in kv'.cells[st].seq[i]
      PROVE  x = y
    BY DEF Owners, OneOwner
  <2>1. kv'.cells[st].seq[i] = kv.cells[st].seq[i]
    BY <1>3 DEF CellGone, CellAs
  <2> QED BY <1>1, <2>1 DEF Owners, OneOwner
<1>5. Settled'
  <2> SUFFICES ASSUME NEW st \in Slots, ~kv'.cells[st].has_shift, NEW i \in Cells,
                      kv'.cells[st].pos[i] # -1
      PROVE  kv'.cells[st].shift[i] = 0
    BY DEF Settled
  <2>1. kv.cells[st].pos[i] # -1 => kv.cells[st].shift[i] = 0
    BY <1>1, <1>2 DEF Settled
  <2> QED BY <1>3, <2>1 DEF CellGone, CellAs
<1> QED BY <1>1, <1>2, <1>4, <1>5 DEF SameBuffers

\* Other sequences do not see a gap close.
LEMMA GapOthers ==
  ASSUME IInv, ReadInv, params' = params, olds = << >>, olds' = << >>,
         NEW s \in Slots, NEW p0 \in Nat, NEW p1 \in Nat, NEW p2 \in Nat,
         p0 <= p1, p1 <= p2, CloseGap(s, p0, p1, p2), NEW t \in Slots, t # s
  PROVE  \A i \in Cells : \A p :
           /\ Holds(t, p, i)' <=> Holds(t, p, i)
           /\ Holds(t, p, i) =>
                /\ kv'.data[seq_to_stream(t)][i] = kv.data[seq_to_stream(t)][i]
                /\ kv'.cells[seq_to_stream(t)].shift[i] = kv.cells[seq_to_stream(t)].shift[i]
<1> DEFINE st == seq_to_stream(t)
<1>1. st \in Slots /\ Owners
  BY StreamType DEF ReadInv
<1>2. SameBuffers(kv, kv')
  BY <1>1, GapEffect
<1> SUFFICES ASSUME NEW i \in Cells, NEW p
    PROVE  /\ Holds(t, p, i)' <=> Holds(t, p, i)
           /\ Holds(t, p, i) =>
                /\ kv'.data[st][i] = kv.data[st][i]
                /\ kv'.cells[st].shift[i] = kv.cells[st].shift[i]
  OBVIOUS
<1> DEFINE c == kv.cells[st]
           d == kv'.cells[st]
<1>3. CASE s \in c.seq[i]
  <2>1. t \notin c.seq[i]
    BY <1>1, <1>3 DEF Owners, OneOwner
  <2>2. d.seq[i] \subseteq c.seq[i]
    <3> DEFINE mine == st = seq_to_stream(s) /\ s \in c.seq[i]
    <3>1. /\ c.pos[i] \in Int
          /\ mine /\ c.pos[i] \in p0 .. p1 - 1 => CellGone(d, i)
          /\ mine /\ c.pos[i] \in p1 .. p2 - 1 => d.seq[i] = c.seq[i]
          /\ ~(mine /\ c.pos[i] \in p0 .. p2 - 1) => CellAs(c, d, i)
      BY <1>1, GapEffect
    <3> HIDE DEF c, d, mine
    <3>2. c.pos[i] \in p0 .. p2 - 1 => c.pos[i] \in p0 .. p1 - 1 \/ c.pos[i] \in p1 .. p2 - 1
      BY <3>1
    <3> QED BY <3>1, <3>2 DEF CellGone, CellAs
  <2>3. ~Holds(t, p, i) /\ ~Holds(t, p, i)'
    BY <2>1, <2>2, SameStream DEF Holds
  <2> QED BY <2>3
<1>4. CASE s \notin c.seq[i]
  <2>1. CellAs(c, d, i)
    BY <1>1, <1>4, GapEffect
  <2> QED BY <1>2, <2>1, HoldsSame DEF SameBuffers, CellAs
<1> QED BY <1>3, <1>4

\* Where the sequence finds position p once the gap p0 .. p1 - 1 before the
\* cells up to p2 is closed.
GapAt(s, p0, p1, p2, p, i) ==
  /\ p < p0 \/ p >= p2 =>
       /\ Holds(s, p, i)' <=> Holds(s, p, i)
       /\ Holds(s, p, i) =>
            kv'.cells[seq_to_stream(s)].shift[i] = kv.cells[seq_to_stream(s)].shift[i]
  /\ p \in p0 .. p0 + p2 - p1 - 1 =>
       /\ Holds(s, p, i)' <=> Holds(s, p + p1 - p0, i)
       /\ Holds(s, p + p1 - p0, i) =>
            kv'.cells[seq_to_stream(s)].shift[i]
              = kv.cells[seq_to_stream(s)].shift[i] + p0 - p1
  /\ p \in p0 + p2 - p1 .. p2 - 1 => ~Holds(s, p, i)'
  /\ kv'.data[seq_to_stream(s)][i] = kv.data[seq_to_stream(s)][i]
  /\ kv.cells[seq_to_stream(s)].shift[i] \in Int

\* The sequence itself finds its cells below the gap and above the moved ones
\* where they were, and the moved ones where they were moved to.
LEMMA GapOwn ==
  ASSUME IInv, ReadInv, params' = params, olds = << >>, olds' = << >>,
         NEW s \in Slots, NEW p0 \in Nat, NEW p1 \in Nat, NEW p2 \in Nat,
         p0 <= p1, p1 <= p2, CloseGap(s, p0, p1, p2), NEW p \in Int, NEW i \in Cells
  PROVE  GapAt(s, p0, p1, p2, p, i)
<1> DEFINE st == seq_to_stream(s)
           c == kv.cells[st]
           d == kv'.cells[st]
<1>1. st \in Slots /\ Owners
  BY StreamType DEF ReadInv
<1>2. SameBuffers(kv, kv')
  BY <1>1, GapEffect
<1>3. /\ c.pos[i] \in Int /\ c.shift[i] \in Int
      /\ s \in c.seq[i] /\ c.pos[i] \in p0 .. p1 - 1 => CellGone(d, i)
      /\ s \in c.seq[i] /\ c.pos[i] \in p1 .. p2 - 1 =>
           /\ d.pos[i] = c.pos[i] + p0 - p1
           /\ d.shift[i] = c.shift[i] + p0 - p1
           /\ d.seq[i] = c.seq[i]
      /\ ~(s \in c.seq[i] /\ c.pos[i] \in p0 .. p2 - 1) => CellAs(c, d, i)
  BY <1>1, GapEffect
<1>4. \A x : /\ Holds(s, x, i) <=> s \in c.seq[i] /\ c.pos[i] = x
             /\ Holds(s, x, i)' <=> s \in d.seq[i] /\ d.pos[i] = x
  BY SameStream DEF Holds, Placed
<1> HIDE DEF c, d, st
<1>5. ASSUME p < p0 \/ p >= p2
      PROVE  /\ Holds(s, p, i)' <=> Holds(s, p, i)
             /\ Holds(s, p, i) => d.shift[i] = c.shift[i]
  <2>1. CASE s \in c.seq[i] /\ c.pos[i] \in p0 .. p1 - 1
    BY <1>3, <1>4, <1>5, <2>1 DEF CellGone
  <2>2. CASE s \in c.seq[i] /\ c.pos[i] \in p1 .. p2 - 1
    BY <1>3, <1>4, <1>5, <2>2
  <2>3. CASE ~(s \in c.seq[i] /\ c.pos[i] \in p0 .. p2 - 1)
    BY <1>3, <1>4, <1>5, <2>3 DEF CellAs
  <2> QED BY <1>3, <2>1, <2>2, <2>3
<1>6. ASSUME p \in p0 .. p0 + p2 - p1 - 1
      PROVE  /\ Holds(s, p, i)' <=> Holds(s, p + p1 - p0, i)
             /\ Holds(s, p + p1 - p0, i) => d.shift[i] = c.shift[i] + p0 - p1
  <2> DEFINE q == p + p1 - p0
  <2>1. /\ Holds(s, q, i) <=> s \in c.seq[i] /\ c.pos[i] = q
        /\ Holds(s, p, i)' <=> s \in d.seq[i] /\ d.pos[i] = p
    BY <1>4
  <2>2. q \in p1 .. p2 - 1 /\ p = q + p0 - p1 /\ p \in p0 .. p2 - 1
    BY <1>6
  <2> HIDE DEF q
  <2>3. CASE s \in c.seq[i] /\ c.pos[i] \in p0 .. p1 - 1
    BY <1>3, <2>1, <2>2, <2>3 DEF CellGone
  <2>4. CASE s \in c.seq[i] /\ c.pos[i] \in p1 .. p2 - 1
    <3>1. d.pos[i] = c.pos[i] + p0 - p1 /\ d.shift[i] = c.shift[i] + p0 - p1 /\ d.seq[i] = c.seq[i]
      BY <1>3, <2>4
    <3>2. d.pos[i] = p <=> c.pos[i] = q
      BY <1>3, <2>2, <3>1
    <3> QED BY <2>1, <2>4, <3>1, <3>2 DEF q
  <2>5. CASE ~(s \in c.seq[i] /\ c.pos[i] \in p0 .. p2 - 1)
    <3>1. CellAs(c, d, i)
      BY <1>3, <2>5
    <3>2. c.pos[i] = q => c.pos[i] \in p0 .. p2 - 1
      BY <2>2
    <3>3. c.pos[i] = p => c.pos[i] \in p0 .. p2 - 1
      BY <2>2
    <3>4. ~Holds(s, q, i) /\ ~Holds(s, p, i)'
      BY <2>1, <2>5, <3>1, <3>2, <3>3 DEF CellAs
    <3> QED BY <3>4 DEF q
  <2>6. c.pos[i] \in p0 .. p2 - 1 => c.pos[i] \in p0 .. p1 - 1 \/ c.pos[i] \in p1 .. p2 - 1
    BY <1>3
  <2> QED BY <2>3, <2>4, <2>5, <2>6 DEF q
<1>7. ASSUME p \in p0 + p2 - p1 .. p2 - 1
      PROVE  ~Holds(s, p, i)'
  <2>1. CASE s \in c.seq[i] /\ c.pos[i] \in p0 .. p1 - 1
    BY <1>3, <1>4, <1>7, <2>1 DEF CellGone
  <2>2. CASE s \in c.seq[i] /\ c.pos[i] \in p1 .. p2 - 1
    BY <1>3, <1>4, <1>7, <2>2
  <2>3. CASE ~(s \in c.seq[i] /\ c.pos[i] \in p0 .. p2 - 1)
    BY <1>3, <1>4, <1>7, <2>3 DEF CellAs
  <2> QED BY <1>3, <2>1, <2>2, <2>3
<1> QED BY <1>2, <1>3, <1>5, <1>6, <1>7 DEF GapAt, SameBuffers, c, d, st

\* A slot whose prompt is being compared has nothing in the batch.
LEMMA StartedOwes ==
  ASSUME IInv, ReadInv, NEW s \in Slots, slots[s].state \in {"started", "idle"}, NEW p
  PROVE  ~Owed(s, p)
<1> SUFFICES ASSUME NEW j \in off + 1 .. Len(batch), batch[j].seq = s PROVE FALSE
  BY DEF Owed
<1>1. Wanted(j, batch[j])
  BY DEF ReadInv, BatchWanted
<1> QED BY <1>1 DEF Wanted

\* A step that closes a gap in one slot's cells, if the slot drops the same
\* positions from its prompt and owes nothing.
LEMMA GapStep ==
  ASSUME IInv, ReadInv, UNCHANGED <<params, batch, off>>, olds = << >>, olds' = << >>,
         step \notin Deciding, step' \notin Deciding,
         NEW s \in Slots, NEW p0 \in Nat, NEW p1 \in Nat, NEW p2 \in Nat,
         p0 <= p1, p1 <= p2, CloseGap(s, p0, p1, p2),
         \A p : ~Owed(s, p),
         \A t \in Slots : t # s => /\ slots'[t].prompt = slots[t].prompt
                                   /\ \A p : Known(t, p)' => Known(t, p),
         \A p \in 0 .. Len(slots'[s].prompt) - 1 : Known(s, p)' =>
           \/ /\ p < p0 \/ p >= p2
              /\ p \in 0 .. Len(slots[s].prompt) - 1 /\ Known(s, p)
              /\ slots'[s].prompt[p + 1] = slots[s].prompt[p + 1]
           \/ LET q == p + p1 - p0
              IN  /\ p \in p0 .. p0 + p2 - p1 - 1
                  /\ q \in 0 .. Len(slots[s].prompt) - 1 /\ Known(s, q)
                  /\ slots'[s].prompt[p + 1] = slots[s].prompt[q + 1]
  PROVE  kv'.copies = << >> /\ Owners' /\ Settled' /\ PromptsCached'
<1>1. kv'.copies = << >> /\ Owners' /\ Settled'
  BY GapKeeps
<1>2. \A t, p : Owed(t, p)' <=> Owed(t, p)
  BY OwedSame DEF Deciding
<1>3. \A p \in Int : \A i \in Cells : GapAt(s, p0, p1, p2, p, i)
  BY GapOwn
<1>4. PromptsCached'
  <2> SUFFICES ASSUME NEW t \in Slots, NEW p \in 0 .. Len(slots'[t].prompt) - 1, Known(t, p)'
      PROVE  CachedAt(t, p)'
    BY DEF PromptsCached
  <2>1. CASE t # s
    <3>1. /\ \A i \in Cells : Holds(t, p, i)' <=> Holds(t, p, i)
          /\ \A i \in Cells : Holds(t, p, i) =>
                /\ kv'.data[seq_to_stream(t)][i] = kv.data[seq_to_stream(t)][i]
                /\ kv'.cells[seq_to_stream(t)].shift[i] = kv.cells[seq_to_stream(t)].shift[i]
      BY <2>1, GapOthers
    <3>2. slots'[t].prompt = slots[t].prompt /\ CachedAt(t, p)
      BY <2>1 DEF ReadInv, PromptsCached
    <3> QED BY <1>2, <3>1, <3>2, CachedFrame
  <2>2. CASE /\ t = s
             /\ p < p0 \/ p >= p2
             /\ p \in 0 .. Len(slots[s].prompt) - 1 /\ Known(s, p)
             /\ slots'[s].prompt[p + 1] = slots[s].prompt[p + 1]
    <3>1. CachedAt(s, p) /\ p \in Int
      BY <2>2 DEF ReadInv, PromptsCached
    <3>2. /\ \A i \in Cells : Holds(s, p, i)' <=> Holds(s, p, i)
          /\ \A i \in Cells : Holds(s, p, i) =>
                /\ kv'.data[seq_to_stream(s)][i] = kv.data[seq_to_stream(s)][i]
                /\ kv'.cells[seq_to_stream(s)].shift[i] = kv.cells[seq_to_stream(s)].shift[i]
      BY <1>3, <2>2, <3>1 DEF GapAt
    <3> QED BY <1>2, <2>2, <3>1, <3>2, CachedFrame
  <2>3. CASE /\ t = s
             /\ p \in p0 .. p0 + p2 - p1 - 1
             /\ p + p1 - p0 \in 0 .. Len(slots[s].prompt) - 1 /\ Known(s, p + p1 - p0)
             /\ slots'[s].prompt[p + 1] = slots[s].prompt[p + p1 - p0 + 1]
    <3> DEFINE q == p + p1 - p0
               st == seq_to_stream(s)
    <3>1. CachedAt(s, q) /\ p \in Int /\ q \in Int
      BY <2>3 DEF ReadInv, PromptsCached
    <3>2. /\ \E i \in Cells : Holds(s, q, i) /\ Keys(s, q, i)
          /\ \A i, k \in Cells : Holds(s, q, i) /\ Holds(s, q, k) => i = k
      BY <3>1 DEF CachedAt
    <3>3. \A i \in Cells : /\ Holds(s, p, i)' <=> Holds(s, q, i)
                           /\ Holds(s, q, i)
                                  => kv'.cells[st].shift[i] = kv.cells[st].shift[i] + p0 - p1
                           /\ kv'.data[st][i] = kv.data[st][i]
                           /\ kv.cells[st].shift[i] \in Int
      <4> SUFFICES ASSUME NEW i \in Cells
          PROVE  /\ Holds(s, p, i)' <=> Holds(s, q, i)
                 /\ Holds(s, q, i) => kv'.cells[st].shift[i] = kv.cells[st].shift[i] + p0 - p1
                 /\ kv'.data[st][i] = kv.data[st][i]
                 /\ kv.cells[st].shift[i] \in Int
        OBVIOUS
      <4>1. p \in p0 .. p0 + p2 - p1 - 1 /\ GapAt(s, p0, p1, p2, p, i)
        BY <1>3, <2>3, <3>1
      <4> QED BY <4>1 DEF GapAt
    <3>4. ASSUME NEW i \in Cells, Holds(s, q, i), Keys(s, q, i) PROVE Keys(s, p, i)'
      <4>1. kv.data[st][i] = [tok |-> slots[s].prompt[q + 1], at |-> q - kv.cells[st].shift[i]]
        BY <3>4 DEF Keys
      <4>2. q - kv.cells[st].shift[i] = p - kv'.cells[st].shift[i]
        <5> HIDE DEF st
        <5> QED BY <3>1, <3>3, <3>4
      <4>3. kv'.data[st][i] = [tok |-> slots'[s].prompt[p + 1], at |-> p - kv'.cells[st].shift[i]]
        BY <2>3, <3>3, <4>1, <4>2
      <4>4. seq_to_stream(s)' = st
        BY SameStream
      <4> HIDE DEF st
      <4> QED BY <4>3, <4>4 DEF Keys
    <3> HIDE DEF q
    <3>5. CachedAt(s, p)'
      BY <1>2, <3>2, <3>3, <3>4 DEF CachedAt
    <3> QED BY <2>3, <3>5
  <2> QED BY <2>1, <2>2, <2>3
<1> QED BY <1>1, <1>4

\* What the batch wants of slots that stay, a step that changes one slot which
\* is not in the batch leaves alone.
LEMMA BatchStays ==
  ASSUME IInv, ReadInv, UNCHANGED <<batch, off>>, NEW s \in Slots,
         slots[s].state \in {"started", "idle"} \/ batch = << >>,
         \A t \in Slots : t # s => slots'[t] = slots[t]
  PROVE  BatchRises' /\ BatchWanted'
<1>1. BatchRises'
  BY DEF ReadInv, BatchRises
<1>2. ASSUME NEW j \in off + 1 .. Len(batch) PROVE Wanted(j, batch[j])'
  <2>1. Wanted(j, batch[j])
    BY DEF ReadInv, BatchWanted
  <2>2. off \in Nat /\ batch \in Seq(EntryType)
    BY ReadTypes
  <2>3. j \in 1 .. Len(batch) /\ batch # << >>
    BY <2>2
  <2>4. batch[j] \in EntryType
    BY <2>2, <2>3
  <2>5. batch[j].seq \in Slots
    BY <2>4 DEF EntryType
  <2>6. batch[j].seq # s
    BY <2>1, <2>3 DEF Wanted
  <2> QED BY <2>1, <2>5, <2>6 DEF Wanted
<1> QED BY <1>1, <1>2 DEF BatchWanted

\* The search for chunks to reuse.
LEMMA ReadReuse ==
  ASSUME IInv, IInv', ReadInv, ReuseChunk
  PROVE  ReadInv'
<1> SUFFICES ASSUME NEW c \in Slots, c = cur PROVE ReadInv'
  BY ReadTypes
<1> DEFINE old == slots[c].prompt
           new == slots[c].task
           hc == scan[1]
           hp == scan[2]
           n == common_prefix(SubSeq(old, hc + 1, Len(old)), SubSeq(new, hp + 1, Len(new)))
           atend == hc >= Len(old) \/ hp >= Len(new)
<1>1. /\ step = "reuse" /\ UNCHANGED <<params, cur, batch, off, olds>>
  BY DEF ReuseChunk, view, rehearsal
<1>2. /\ Phases /\ olds = << >> /\ slots[c].state = "started" /\ step \notin Deciding
      /\ \A i \in 1 .. scan[3] : old[i] = new[i]
  BY <1>1 DEF ReadInv, Phases, Deciding
<1>3. /\ scan = <<hc, hp, hp>> /\ scan[3] = hp /\ hc \in Nat /\ hp \in Nat /\ hp <= hc
      /\ hc <= Len(old) /\ hp <= Len(new)
      /\ old \in Seq(Tokens) /\ new \in Seq(Tokens) /\ Len(old) \in Nat /\ Len(new) \in Nat
  BY <1>1, ReadTypes DEF IInv, ScanFits
<1>4. CASE atend /\ step' = "keep" /\ UNCHANGED <<kv, slots, scan>>
  <2>1. Phases'
    BY <1>1, <1>2, <1>4 DEF Phases
  <2>2. \A s, p : Known(s, p)' => Known(s, p)
    BY <1>1, <1>4 DEF Known
  <2> QED BY <1>1, <1>2, <1>4, <2>1, <2>2, Unchanged, ReadQuiet DEF Deciding
<1>5. CASE scan' = <<hc + 1, hp, scan[3]>> /\ UNCHANGED <<kv, slots, step>>
  <2>0. scan'[3] = scan[3] /\ scan'[1] = hc + 1
    BY <1>5
  <2>1. Phases'
    BY <1>1, <1>2, <1>5, <2>0 DEF Phases
  <2>2. \A s : \A p \in Int : Known(s, p)' => Known(s, p)
    BY <1>1, <1>3, <1>5, <2>0 DEF Known
  <2> QED BY <1>1, <1>2, <1>5, <2>1, <2>2, Unchanged, ReadQuiet DEF Deciding
<1>6. CASE /\ ~atend
           /\ kv' = seq_add(seq_rm(kv, c, hp, hc), c, hc, hc + n, hp - hc)
           /\ slots' = [slots EXCEPT ![c].prompt =
                [i \in 1 .. Len(old) |-> IF i \in hp + 1 .. hp + n
                                         THEN old[i + hc - hp] ELSE old[i]]]
           /\ scan' = <<hc + n, hp + n, scan[3] + n>>
           /\ UNCHANGED step
  <2> DEFINE u == SubSeq(old, hc + 1, Len(old))
             v == SubSeq(new, hp + 1, Len(new))
             q == [i \in 1 .. Len(old) |-> IF i \in hp + 1 .. hp + n
                                           THEN old[i + hc - hp] ELSE old[i]]
  <2>1. /\ u \in Seq(Tokens) /\ Len(u) = Len(old) - hc
        /\ v \in Seq(Tokens) /\ Len(v) = Len(new) - hp
        /\ \A i \in 1 .. Len(old) - hc : u[i] = old[i + hc]
        /\ \A i \in 1 .. Len(new) - hp : v[i] = new[i + hp]
    <3> HIDE DEF old, new, hc, hp
    <3>1. /\ u \in Seq(Tokens) /\ Len(u) = Len(old) - hc
          /\ \A i \in 1 .. Len(old) - hc : u[i] = old[i + hc]
      BY <1>3
    <3>2. /\ v \in Seq(Tokens) /\ Len(v) = Len(new) - hp
          /\ \A i \in 1 .. Len(new) - hp : v[i] = new[i + hp]
      BY <1>3
    <3> QED BY <3>1, <3>2
  <2>2. /\ n \in Nat /\ hc + n <= Len(old) /\ hp + n <= Len(new)
        /\ \A i \in 1 .. n : u[i] = v[i]
    <3>1. n = common_prefix(u, v)
      OBVIOUS
    <3>2. /\ common_prefix(u, v) \in 0 .. Len(u) /\ common_prefix(u, v) <= Len(v)
          /\ \A i \in 1 .. common_prefix(u, v) : u[i] = v[i]
      <4> HIDE DEF u, v
      <4> QED BY <2>1, CommonPrefix, PrefixEqual
    <3> HIDE DEF n, u, v, old, new, hc, hp
    <3> QED BY <1>3, <2>1, <3>1, <3>2
  <2>3. slots' = [slots EXCEPT ![c].prompt = q]
    BY <1>6
  <2>4. /\ \A t \in Slots : t # c => slots'[t] = slots[t]
        /\ slots'[c].prompt = q /\ slots'[c].task = new
        /\ slots'[c].state = "started" /\ slots'[c].kind = slots[c].kind
    <3> HIDE DEF q
    <3> QED BY <1>2, <2>3, ReadTypes DEF SlotType
  <2>5. /\ Len(slots'[c].prompt) = Len(old)
        /\ \A i \in 1 .. Len(old) : slots'[c].prompt[i] = IF i \in hp + 1 .. hp + n
                                                     THEN old[i + hc - hp] ELSE old[i]
    <3>1. DOMAIN q = 1 .. Len(old)
      OBVIOUS
    <3>2. q \in Seq(Tokens)
      <4>1. slots'[c].prompt \in Seq(Tokens)
        BY DEF IInv, SlotType
      <4> QED BY <2>4, <4>1
    <3>3. Len(q) = Len(old)
      <4> HIDE DEF q, old
      <4> QED BY <1>3, <3>1, <3>2
    <3> HIDE DEF n, hc, hp
    <3> QED BY <2>4, <3>3
  <2> HIDE DEF n, u, v, q, hc, hp, old, new
  <2>6. /\ scan'[1] = hc + n /\ scan'[3] = hp + n
    BY <1>3, <1>6
  <2>7. \A t, p : t # c => (Known(t, p)' => Known(t, p))
    BY <1>1 DEF Known
  <2>8. CloseGap(c, hp, hc, hc + n)
    BY <1>6 DEF CloseGap
  <2>9. ASSUME NEW p \in 0 .. Len(slots'[c].prompt) - 1, Known(c, p)'
        PROVE  \/ /\ p < hp \/ p >= hc + n
                  /\ p \in 0 .. Len(old) - 1 /\ Known(c, p)
                  /\ slots'[c].prompt[p + 1] = old[p + 1]
               \/ /\ p \in hp .. hp + (hc + n) - hc - 1
                  /\ p + hc - hp \in 0 .. Len(old) - 1 /\ Known(c, p + hc - hp)
                  /\ slots'[c].prompt[p + 1] = old[p + hc - hp + 1]
    <3>1. p < hp + n \/ p >= hc + n
      BY <1>1, <1>6, <2>6, <2>9 DEF Known
    <3>2. \A r : r < hp \/ r >= hc => Known(c, r)
      BY <1>1, <1>3 DEF Known, hc
    <3>3. p \in 0 .. Len(old) - 1 /\ p + 1 \in 1 .. Len(old)
      BY <1>3, <2>5
    <3>4. CASE p < hp \/ p >= hc + n
      <4>1. p < hp \/ p >= hc
        BY <1>3, <2>2, <3>3, <3>4
      <4>2. p + 1 \notin hp + 1 .. hp + n
        BY <1>3, <2>2, <3>3, <3>4
      <4>3. slots'[c].prompt[p + 1] = old[p + 1]
        BY <2>5, <3>3, <4>2
      <4> QED BY <3>2, <3>3, <3>4, <4>1, <4>3
    <3>5. CASE p \in hp .. hp + n - 1
      <4>1. p + hc - hp \in 0 .. Len(old) - 1 /\ p + hc - hp >= hc
        <5> DEFINE L == Len(old)
        <5>1. /\ hc \in Nat /\ hp \in Nat /\ n \in Nat /\ hp <= hc /\ hc + n <= L
              /\ p \in Int /\ L \in Nat
          BY <1>3, <2>2, <3>5
        <5> HIDE DEF L
        <5>2. p + hc - hp \in 0 .. L - 1 /\ p + hc - hp >= hc
          BY <3>5, <5>1
        <5> QED BY <5>2 DEF L
      <4>2. p + 1 \in hp + 1 .. hp + n /\ p + 1 + hc - hp = p + hc - hp + 1
        BY <1>3, <2>2, <3>3, <3>5
      <4>3. slots'[c].prompt[p + 1] = old[p + hc - hp + 1]
        BY <2>5, <3>3, <4>2
      <4>4. p \in hp .. hp + (hc + n) - hc - 1
        BY <1>3, <2>2, <3>5
      <4> QED BY <3>2, <4>1, <4>3, <4>4
    <3> QED BY <1>3, <2>2, <3>1, <3>3, <3>4, <3>5
  <2>10. \A p : ~Owed(c, p)
    BY <1>2, StartedOwes
  <2>11. kv'.copies = << >> /\ Owners' /\ Settled' /\ PromptsCached'
    <3>1. hc + n \in Nat /\ hc <= hc + n
      BY <1>3, <2>2
    <3>2. \A t \in Slots : t # c =>
             slots'[t].prompt = slots[t].prompt /\ \A p : Known(t, p)' => Known(t, p)
      BY <2>4, <2>7
    <3>3. step' \notin Deciding /\ olds' = << >>
      BY <1>1, <1>2, <1>6
    <3> QED BY <1>1, <1>2, <1>3, <2>8, <2>9, <2>10, <3>1, <3>2, <3>3, GapStep DEF old
  <2>12. NothingBeyond'
    <3> SUFFICES ASSUME NEW t \in Slots, slots'[t].state \in {"done_prompt", "generating"},
                        NEW p \in Positions, NEW i \in Cells, Holds(t, p, i)'
        PROVE  p < Len(slots'[t].prompt)
      BY DEF NothingBeyond
    <3>1. t # c
      BY <2>4
    <3>2. Holds(t, p, i)
      <4>1. hc + n \in Nat /\ hc <= hc + n
        BY <1>3, <2>2
      <4> QED BY <1>1, <1>2, <1>3, <2>8, <3>1, <4>1, GapOthers
    <3> QED BY <2>4, <3>1, <3>2 DEF ReadInv, NothingBeyond
  <2>13. Phases'
    <3>1. \A i \in 1 .. scan'[3] : slots'[c].prompt[i] = slots'[c].task[i]
      <4> SUFFICES ASSUME NEW i \in 1 .. hp + n PROVE slots'[c].prompt[i] = new[i]
        BY <2>4, <2>6
      <4>1. i \in 1 .. Len(old) /\ i \in 1 .. Len(new)
        BY <1>3, <2>2
      <4>2. CASE i <= hp
        <5>1. i \notin hp + 1 .. hp + n /\ i \in 1 .. scan[3]
          BY <1>3, <4>2
        <5> QED BY <1>2, <2>5, <4>1, <5>1
      <4>3. CASE i > hp
        <5> DEFINE k == i - hp
        <5>1. /\ k \in 1 .. n /\ k \in 1 .. Len(old) - hc /\ k \in 1 .. Len(new) - hp
              /\ k + hc = i + hc - hp /\ k + hp = i /\ i \in hp + 1 .. hp + n
          BY <1>3, <2>2, <4>1, <4>3
        <5> HIDE DEF k
        <5>2. u[k] = v[k] /\ u[k] = old[k + hc] /\ v[k] = new[k + hp]
          BY <2>1, <2>2, <5>1
        <5> QED BY <2>5, <4>1, <5>1, <5>2
      <4> QED BY <1>3, <4>1, <4>2, <4>3
    <3>2. ASSUME NEW s \in Slots, slots'[s].state = "prompt"
          PROVE  \A i \in 1 .. Len(slots'[s].prompt) : slots'[s].prompt[i] = slots'[s].task[i]
      <4>1. slots'[s] = slots[s]
        BY <2>4, <3>2
      <4> QED BY <1>2, <3>2, <4>1 DEF Phases
    <3>3. /\ step' = "reuse" /\ off' = 0 /\ olds' = << >> /\ cur' = c /\ slots'[c].state = "started"
      BY <1>1, <1>2, <1>6, <2>4 DEF Phases
    <3> QED BY <3>1, <3>2, <3>3 DEF Phases
  <2>14. NoFamilies' /\ Plain'
    BY <1>1, <1>2, <2>4 DEF ReadInv, NoFamilies, Plain
  <2>15. BatchRises' /\ BatchWanted'
    BY <1>1, <1>2, <2>4, BatchStays
  <2>16. step' \notin Deciding
    BY <1>2, <1>6
  <2> QED BY <2>11, <2>12, <2>13, <2>14, <2>15, <2>16, NotRehearsed DEF ReadInv
<1> QED BY <1>4, <1>5, <1>6 DEF ReuseChunk

\* Two sequences one after the other.
LEMMA Joined ==
  ASSUME NEW T, NEW u \in Seq(T), NEW v \in Seq(T)
  PROVE  /\ Len(u) \in Nat /\ Len(v) \in Nat
         /\ u \o v \in Seq(T) /\ Len(u \o v) = Len(u) + Len(v)
         /\ \A i \in 1 .. Len(u) : (u \o v)[i] = u[i]
         /\ \A i \in 1 .. Len(v) : (u \o v)[Len(u) + i] = v[i]
OBVIOUS

\* A sequence without the g members after the first a.
Without(q, a, g) == SubSeq(q, 1, a) \o SubSeq(q, a + g + 1, Len(q))

\* What is behind the members left out moves down.
LEMMA LeftOut ==
  ASSUME NEW q \in Seq(Tokens), NEW a \in Nat, NEW g \in Nat, a + g <= Len(q)
  PROVE  /\ Len(Without(q, a, g)) = Len(q) - g
         /\ \A i \in 1 .. a : Without(q, a, g)[i] = q[i]
         /\ \A i \in a + 1 .. Len(q) - g : Without(q, a, g)[i] = q[i + g]
<1> SUFFICES ASSUME NEW N \in Nat, N = Len(q)
    PROVE  /\ Len(Without(q, a, g)) = N - g
           /\ \A i \in 1 .. a : Without(q, a, g)[i] = q[i]
           /\ \A i \in a + 1 .. N - g : Without(q, a, g)[i] = q[i + g]
  OBVIOUS
<1> DEFINE u == SubSeq(q, 1, a)
           v == SubSeq(q, a + g + 1, N)
<1>1. u \in Seq(Tokens) /\ Len(u) = a /\ \A i \in 1 .. a : u[i] = q[i]
  OBVIOUS
<1>2. v \in Seq(Tokens) /\ Len(v) = N - (a + g) /\ \A i \in 1 .. N - (a + g) : v[i] = q[i + a + g]
  OBVIOUS
<1>3. Without(q, a, g) = u \o v
  BY DEF Without
<1> HIDE DEF u, v
<1>4. /\ Len(u \o v) = Len(u) + Len(v)
      /\ \A i \in 1 .. Len(u) : (u \o v)[i] = u[i]
      /\ \A i \in 1 .. Len(v) : (u \o v)[Len(u) + i] = v[i]
  BY <1>1, <1>2, Joined
<1>5. Len(u \o v) = N - g
  BY <1>1, <1>2, <1>4
<1>6. \A i \in 1 .. a : (u \o v)[i] = q[i]
  BY <1>1, <1>4
<1>7. ASSUME NEW i \in a + 1 .. N - g PROVE (u \o v)[i] = q[i + g]
  <2> DEFINE k == i - a
  <2>1. k \in 1 .. N - (a + g) /\ a + k = i /\ k + a + g = i + g
    OBVIOUS
  <2> HIDE DEF k
  <2>2. (u \o v)[i] = v[k]
    BY <1>1, <1>2, <1>4, <2>1
  <2>3. v[k] = q[i + g]
    BY <1>2, <2>1
  <2> QED BY <2>2, <2>3
<1> QED BY <1>3, <1>5, <1>6, <1>7

\* The slot of a context that is shifted counts on what it keeps.
LEMMA ReadShifted ==
  ASSUME IInv, ReadInv, UNCHANGED <<params, batch, off>>, olds' = << >>,
         step = "shift", step' \in {"shift", "sampled"},
         NEW c \in Slots, slots[c].state = "generating",
         NEW N \in Nat, NEW a \in Nat, NEW g \in Nat, NEW b \in Nat, b = a + g, b < N,
         NEW y \in Seq(Tokens), Len(y) = N, slots[c].prompt = y,
         CloseGap(c, a, b, N), NEW r, r = Without(y, a, g),
         \A t \in Slots : t # c => slots'[t] = slots[t],
         slots'[c].prompt = r, slots'[c].state = "generating", slots'[c].kind = slots[c].kind
  PROVE  ReadInv'
<1>1. /\ Phases /\ batch = << >> /\ olds = << >> /\ off = 0 /\ step \notin Deciding
      /\ step' \notin Deciding /\ NoFamilies
  BY DEF ReadInv, Phases, Deciding
<1>2. \A s, p : Known(s, p)
  BY KnowsAll
<1>3. /\ Len(r) = N - g
      /\ \A i \in 1 .. a : r[i] = y[i]
      /\ \A i \in a + 1 .. N - g : r[i] = y[i + g]
  BY LeftOut
<1>4. a <= b /\ b <= N /\ N - g = a + N - b
  OBVIOUS
<1>5. \A p : ~Owed(c, p)
  BY <1>1, OwesNothing
<1>6. ASSUME NEW p \in 0 .. Len(slots'[c].prompt) - 1
      PROVE  \/ /\ p < a \/ p >= N
                /\ p \in 0 .. Len(slots[c].prompt) - 1 /\ Known(c, p)
                /\ slots'[c].prompt[p + 1] = slots[c].prompt[p + 1]
             \/ LET q == p + b - a
                IN  /\ p \in a .. a + N - b - 1
                    /\ q \in 0 .. Len(slots[c].prompt) - 1 /\ Known(c, q)
                    /\ slots'[c].prompt[p + 1] = slots[c].prompt[q + 1]
  <2>1. p \in 0 .. N - g - 1
    BY <1>3
  <2>2. CASE p < a
    <3>1. p + 1 \in 1 .. a /\ p \in 0 .. N - 1
      BY <2>1, <2>2
    <3>2. r[p + 1] = y[p + 1]
      BY <1>3, <3>1
    <3> QED BY <1>2, <2>2, <3>1, <3>2
  <2>3. CASE p >= a
    <3>1. /\ p + 1 \in a + 1 .. N - g /\ p + b - a = p + g /\ p + g \in 0 .. N - 1
          /\ p \in a .. a + N - b - 1 /\ p + 1 + g = p + g + 1
      <4>1. p \in Nat /\ p <= N - g - 1
        BY <2>1
      <4>2. p + 1 \in a + 1 .. N - g /\ p + g \in 0 .. N - 1
        BY <2>3, <4>1
      <4>3. p \in a .. a + N - b - 1
        BY <1>4, <2>3, <4>1
      <4>4. p + b - a = p + g
        BY <4>1
      <4>5. p + 1 + g = p + g + 1
        BY <4>1
      <4> QED BY <4>2, <4>3, <4>4, <4>5
    <3>2. r[p + 1] = y[p + g + 1]
      BY <1>3, <3>1
    <3> QED BY <1>2, <3>1, <3>2
  <2> QED BY <2>1, <2>2, <2>3
<1>7. kv'.copies = << >> /\ Owners' /\ Settled' /\ PromptsCached'
  <2>1. \A t \in Slots : t # c =>
           slots'[t].prompt = slots[t].prompt /\ \A p : Known(t, p)' => Known(t, p)
    BY <1>2
  <2> QED BY <1>1, <1>4, <1>5, <1>6, <2>1, GapStep
<1>8. NothingBeyond'
  <2> SUFFICES ASSUME NEW t \in Slots, slots'[t].state \in {"done_prompt", "generating"},
                      NEW p \in Positions, NEW i \in Cells, Holds(t, p, i)'
      PROVE  p < Len(slots'[t].prompt)
    BY DEF NothingBeyond
  <2>1. NothingBeyond /\ p \in Int /\ p >= 0
    BY DEF ReadInv, Positions
  <2>2. CASE t # c
    <3>1. Holds(t, p, i)
      BY <1>1, <1>4, <2>2, GapOthers
    <3> QED BY <2>1, <2>2, <3>1 DEF NothingBeyond
  <2>3. CASE t = c
    <3>1. /\ p < a \/ p >= N => (Holds(c, p, i)' <=> Holds(c, p, i))
          /\ p \in a + N - b .. N - 1 => ~Holds(c, p, i)'
      <4>1. GapAt(c, a, b, N, p, i)
        BY <1>1, <1>4, <2>1, GapOwn
      <4> QED BY <4>1 DEF GapAt
    <3>2. Holds(c, p, i) => p < N
      BY <2>1 DEF NothingBeyond
    <3>3. p < N - g
      BY <1>4, <2>1, <2>3, <3>1, <3>2
    <3> QED BY <1>3, <2>3, <3>3
  <2> QED BY <2>2, <2>3
<1>9. Phases'
  <2>1. ASSUME NEW s \in Slots, slots'[s].state = "prompt"
        PROVE  \A i \in 1 .. Len(slots'[s].prompt) : slots'[s].prompt[i] = slots'[s].task[i]
    <3>1. slots'[s] = slots[s]
      BY <2>1
    <3> QED BY <1>1, <2>1, <3>1 DEF Phases
  <2> QED BY <1>1, <2>1 DEF Phases
<1>10. NoFamilies' /\ Plain'
  BY <1>1 DEF ReadInv, NoFamilies, Plain
<1>11. off' \in Nat /\ batch' = << >>
  BY <1>1
<1> QED BY <1>1, <1>7, <1>8, <1>9, <1>10, <1>11, NoBatch DEF ReadInv

\* A context that is full is shifted, or its slot is released.
LEMMA ReadShift ==
  ASSUME IInv, ReadInv, ContextShift
  PROVE  ReadInv'
<1> SUFFICES ASSUME NEW c \in Slots, c = cur PROVE ReadInv'
  BY ReadTypes
<1> DEFINE x == slots[c]
<1>1. /\ step = "shift" /\ UNCHANGED <<params, batch, off, olds>>
      /\ step' \in {"shift", "sampled"}
  BY DEF ContextShift, Advance, view, rehearsal
<1>2. /\ Phases /\ batch = << >> /\ olds = << >> /\ off = 0 /\ step \notin Deciding
      /\ step' \notin Deciding /\ NoFamilies /\ Owners
  BY <1>1 DEF ReadInv, Phases, Deciding
<1>3. \A s, p : Known(s, p)
  BY <1>1, KnowsAll
<1>4. CASE UNCHANGED <<kv, slots>>
  <2>1. Phases'
    BY <1>1, <1>2, <1>4 DEF Phases
  <2> QED BY <1>1, <1>2, <1>3, <1>4, <2>1, Unchanged, ReadQuiet
<1>5. CASE release({c})
  <2>1. Children = {}
    BY <1>2 DEF NoFamilies, Children, Processing
  <2>2. QuietCache
    BY <1>2, <1>5, <2>1, ClearNone DEF release
  <2>3. \A s \in Slots : slots'[s] = IF s = c THEN Released(slots[s]) ELSE slots[s]
    BY <1>5 DEF release
  <2>4. \A s \in Slots : /\ slots'[s].prompt = slots[s].prompt
                         /\ slots'[s].kind = "single" /\ slots'[s].state # "wait_other"
                         /\ slots'[s].state # "idle" => slots'[s] = slots[s]
    <3> TAKE s \in Slots
    <3>1. slots[s] \in SlotType /\ slots[s].kind = "single" /\ slots[s].state # "wait_other"
      BY <1>2, ReadTypes DEF NoFamilies
    <3>2. CASE s = c
      BY <2>3, <3>1, <3>2, ReleasedSingle
    <3>3. CASE s # c
      BY <2>3, <3>1, <3>3
    <3> QED BY <3>2, <3>3
  <2>5. \A s, p : Owed(s, p)' <=> Owed(s, p)
    BY <1>1, OwedSame
  <2>6. /\ kv'.copies = << >> /\ Owners' /\ Settled' /\ PromptsCached'
        /\ \A s \in Slots, i \in Cells : \A p : Holds(s, p, i)' <=> Holds(s, p, i)
    BY <1>1, <1>2, <1>3, <2>2, <2>4, <2>5, QuietStep
  <2>7. NoFamilies' /\ Plain'
    BY <1>1, <2>4 DEF NoFamilies, Plain, ReadInv
  <2>8. NothingBeyond'
    BY <2>4, <2>6 DEF NothingBeyond, ReadInv
  <2>9. Phases'
    <3>1. ASSUME NEW s \in Slots, slots'[s].state = "prompt"
          PROVE  \A i \in 1 .. Len(slots'[s].prompt) : slots'[s].prompt[i] = slots'[s].task[i]
      <4>1. slots'[s] = slots[s]
        BY <2>4, <3>1
      <4> QED BY <1>2, <3>1, <4>1 DEF Phases
    <3> QED BY <1>1, <1>2, <3>1 DEF Phases
  <2>10. off' \in Nat /\ batch' = << >>
    BY <1>1, <1>2
  <2> QED BY <1>2, <2>6, <2>7, <2>8, <2>9, <2>10, NoBatch DEF ReadInv
<1>6. CASE Full(x) /\ ShiftContext(c)
  <2> DEFINE n == Len(x.prompt)
             gone == n_discard(n - n_keep)
             r == Without(x.prompt, n_keep, gone)
  <2>1. /\ x \in SlotType /\ x.prompt \in Seq(Tokens) /\ slots \in [Slots -> SlotType]
        /\ n \in Nat
    BY ReadTypes
  <2>2. n = params.n_ctx - 1 /\ x.state = "generating"
    <3>1. /\ params.n_ctx \in Nat /\ n < params.n_ctx
      BY Contexts DEF IInv, SlotsFit
    <3> QED BY <1>6, <2>1, <3>1 DEF Full
  <2>3. n_keep \in Nat /\ gone \in Nat /\ n_keep + gone < n /\ n_keep + gone \in Nat
    BY <2>1, <2>2, DiscardBounds
  <2>4. /\ kv' = seq_add(seq_rm(kv, c, n_keep, n_keep + gone), c, n_keep + gone, n, -gone)
        /\ slots' = [slots EXCEPT ![c].prompt = r]
    BY <1>6 DEF ShiftContext, Without
  <2>5. /\ \A t \in Slots : t # c => slots'[t] = slots[t]
        /\ slots'[c].prompt = r /\ slots'[c].state = "generating" /\ slots'[c].kind = x.kind
    <3> HIDE DEF r
    <3> QED BY <2>1, <2>2, <2>4 DEF SlotType
  <2>6. CloseGap(c, n_keep, n_keep + gone, n)
    <3> HIDE DEF gone, n
    <3>1. n_keep - (n_keep + gone) = -gone
      BY <2>3
    <3> QED BY <2>4, <3>1 DEF CloseGap
  <2> HIDE DEF gone, n
  <2>7. Len(x.prompt) = n /\ olds' = << >>
    BY <1>1, <1>2 DEF n
  <2> QED BY <1>1, <2>1, <2>2, <2>3, <2>5, <2>6, <2>7, ReadShifted
<1> QED BY <1>4, <1>5, <1>6 DEF ContextShift

\* The prompt is cut to what it has in common with the new one.
LEMMA ReadKeep ==
  ASSUME IInv, ReadInv, KeepPrefix
  PROVE  ReadInv'
<1> SUFFICES ASSUME NEW c \in Slots, c = cur PROVE ReadInv'
  BY ReadTypes
<1>1. /\ step = "keep" /\ step' = "prompt"
      /\ UNCHANGED kv /\ UNCHANGED <<params, cur, batch, off, olds>>
  BY DEF KeepPrefix, view, rehearsal
<1>2. /\ Phases /\ olds = << >> /\ off = 0 /\ slots[c].state = "started" /\ NoFamilies
      /\ \A i \in 1 .. scan[3] : slots[c].prompt[i] = slots[c].task[i]
      /\ step' \notin Deciding /\ step \notin Deciding
  BY <1>1 DEF ReadInv, Phases, Deciding
<1>3. /\ scan[3] \in Nat /\ scan[3] <= Len(slots[c].prompt) /\ scan[3] <= Len(slots[c].task)
      /\ slots[c].prompt \in Seq(Tokens) /\ slots[c] \in SlotType /\ slots \in [Slots -> SlotType]
  BY <1>1, ReadTypes DEF IInv, ScanFits
<1> DEFINE k == Kept(c, scan[3])
           q == SubSeq(slots[c].prompt, 1, k)
<1>4. k \in 0 .. scan[3]
  BY <1>3, KeptBounds
<1>5. slots' = [slots EXCEPT ![c].prompt = q, ![c].state = "prompt"]
  BY DEF KeepPrefix
<1> HIDE DEF k
<1>6. k \in Nat /\ k <= Len(slots[c].prompt)
  BY <1>3, <1>4, ReadTypes
<1>7. Len(q) = k /\ \A i \in 1 .. k : q[i] = slots[c].prompt[i]
  BY <1>3, <1>6, FirstOf
<1> HIDE DEF q
<1>8. /\ \A t \in Slots : t # c => slots'[t] = slots[t]
      /\ slots'[c].prompt = q /\ slots'[c].state = "prompt" /\ slots'[c].kind = slots[c].kind
      /\ slots'[c].task = slots[c].task
  BY <1>3, <1>5 DEF SlotType
<1>9. \A s, p : Owed(s, p)' <=> Owed(s, p)
  BY <1>1, OwedSame
<1>10. ASSUME NEW s \in Slots, NEW p \in 0 .. Len(slots'[s].prompt) - 1
       PROVE  /\ p \in 0 .. Len(slots[s].prompt) - 1 /\ Known(s, p)
              /\ slots'[s].prompt[p + 1] = slots[s].prompt[p + 1]
  <2>1. CASE s = c
    <3>1. p \in 0 .. k - 1
      BY <1>7, <1>8, <2>1
    <3>2. p \in 0 .. Len(slots[c].prompt) - 1 /\ p + 1 \in 1 .. k /\ p < scan[3]
      BY <1>3, <1>4, <1>6, <3>1, ReadTypes
    <3>3. q[p + 1] = slots[c].prompt[p + 1]
      BY <1>7, <3>2
    <3>4. Known(c, p)
      BY <1>1, <3>2 DEF Known
    <3> QED BY <1>8, <2>1, <3>2, <3>3, <3>4
  <2>2. CASE s # c
    <3>1. Known(s, p)
      BY <2>2 DEF Known
    <3> QED BY <1>8, <2>2, <3>1
  <2> QED BY <2>1, <2>2
<1>11. /\ kv'.copies = << >> /\ Owners' /\ Settled' /\ PromptsCached'
       /\ \A s \in Slots, i \in Cells : \A p : Holds(s, p, i)' <=> Holds(s, p, i)
  <2>1. QuietCache /\ params' = params /\ olds' = << >>
    BY <1>1, <1>2, Unchanged
  <2> QED BY <1>2, <1>9, <1>10, <2>1, QuietStep
<1>12. NothingBeyond'
  <2> SUFFICES ASSUME NEW s \in Slots, slots'[s].state \in {"done_prompt", "generating"},
                      NEW p \in Positions, NEW i \in Cells, Holds(s, p, i)'
      PROVE  p < Len(slots'[s].prompt)
    BY DEF NothingBeyond
  <2>1. s # c
    BY <1>8
  <2>2. slots'[s] = slots[s] /\ Holds(s, p, i)
    BY <1>8, <1>11, <2>1
  <2> QED BY <2>2 DEF ReadInv, NothingBeyond
<1>13. Phases'
  <2>1. ASSUME NEW s \in Slots, slots'[s].state = "prompt"
        PROVE  \A i \in 1 .. Len(slots'[s].prompt) : slots'[s].prompt[i] = slots'[s].task[i]
    <3>1. CASE s = c
      <4> SUFFICES ASSUME NEW i \in 1 .. k PROVE q[i] = slots[c].task[i]
        BY <1>7, <1>8, <3>1
      <4>1. i \in 1 .. scan[3]
        BY <1>3, <1>4
      <4> QED BY <1>2, <1>7, <4>1
    <3>2. CASE s # c
      <4>1. slots'[s] = slots[s]
        BY <1>8, <3>2
      <4> QED BY <1>2, <2>1, <4>1 DEF Phases
    <3> QED BY <3>1, <3>2
  <2> QED BY <1>1, <1>2, <2>1 DEF Phases
<1>14. NoFamilies' /\ Plain'
  BY <1>1, <1>2, <1>8 DEF ReadInv, NoFamilies, Plain
<1>15. BatchRises' /\ BatchWanted'
  BY <1>1, <1>2, <1>8, BatchStays
<1> QED BY <1>2, <1>11, <1>12, <1>13, <1>14, <1>15, NotRehearsed DEF ReadInv

\* The tokens N + 1 .. m of the task w follow the prompt y of slot c, which
\* becomes r, in the batch, which had L entries.
Filled(c, N, m, L, y, w, r) ==
  /\ UNCHANGED params /\ UNCHANGED off /\ UNCHANGED olds
  /\ step = "prompt" /\ step' \in {"prompt", "decode"}
  /\ slots[c].state = "prompt" /\ slots[c].prompt = y /\ slots[c].task = w
  /\ L = Len(batch) /\ Len(y) = N
  /\ kv' = seq_rm(kv, c, N, End)
  /\ Len(batch') = L + (m - N)
  /\ \A j \in 1 .. L : batch'[j] = batch[j]
  /\ \A i \in 1 .. m - N : batch'[L + i] = Entry(c, N + i - 1, w[N + i])
  /\ \A t \in Slots : t # c => slots'[t] = slots[t]
  /\ Len(r) = m /\ \A i \in 1 .. m : r[i] = w[i]
  /\ slots'[c].prompt = r /\ slots'[c].task = w /\ slots'[c].kind = slots[c].kind
  /\ slots'[c].state \in {"prompt", "done_prompt"}
  /\ slots'[c].state # "prompt" => slots'[c].i_batch = L + m - N

\* Tokens of the prompt go into the batch, once nothing is cached where they
\* will be.
LEMMA ReadFilled ==
  ASSUME IInv, ReadInv, NEW c \in Slots,
         NEW N \in Nat, NEW m \in Nat, NEW L \in Nat, N <= m, m <= NPos,
         NEW y \in Seq(Tokens), NEW w \in Seq(Tokens), NEW r, Filled(c, N, m, L, y, w, r)
  PROVE  ReadInv'
<1>0. /\ UNCHANGED params /\ UNCHANGED off /\ UNCHANGED olds
      /\ step = "prompt" /\ step' \in {"prompt", "decode"}
      /\ slots[c].state = "prompt" /\ slots[c].prompt = y /\ slots[c].task = w
      /\ L = Len(batch) /\ Len(y) = N
      /\ kv' = seq_rm(kv, c, N, End)
      /\ Len(batch') = L + (m - N)
      /\ \A j \in 1 .. L : batch'[j] = batch[j]
      /\ \A i \in 1 .. m - N : batch'[L + i] = Entry(c, N + i - 1, w[N + i])
      /\ \A t \in Slots : t # c => slots'[t] = slots[t]
      /\ Len(r) = m /\ \A i \in 1 .. m : r[i] = w[i]
      /\ slots'[c].prompt = r /\ slots'[c].task = w /\ slots'[c].kind = slots[c].kind
      /\ slots'[c].state \in {"prompt", "done_prompt"}
      /\ slots'[c].state # "prompt" => slots'[c].i_batch = L + m - N
  BY DEF Filled
<1> USE <1>0
<1>1. /\ Phases /\ olds = << >> /\ olds' = << >> /\ off = 0 /\ off' = 0 /\ step \notin Deciding
      /\ step' \notin Deciding /\ NoFamilies /\ Owners /\ Settled /\ BatchWanted /\ BatchRises
      /\ NothingBeyond /\ kv.copies = << >>
  BY DEF ReadInv, Phases, Deciding
<1>2. \A s, p : Known(s, p)
  BY KnowsAll
<1>3. \A i \in 1 .. N : y[i] = w[i]
  <2>1. \A i \in 1 .. Len(slots[c].prompt) : slots[c].prompt[i] = slots[c].task[i]
    BY <1>1 DEF Phases
  <2>2. slots[c].prompt = y /\ slots[c].task = w /\ Len(y) = N
    OBVIOUS
  <2> HIDE <1>0
  <2> QED BY <2>1, <2>2
<1>4. /\ SameBuffers(kv, kv')
      /\ \A st \in Slots :
           /\ kv'.cells[st].has_shift = kv.cells[st].has_shift
           /\ \A i \in Cells :
                IF st = seq_to_stream(c) /\ i \in Hit(kv.cells[st], c, N, End)
                THEN CellGone(kv'.cells[st], i)
                ELSE CellAs(kv.cells[st], kv'.cells[st], i)
  <2>1. Books(kv.cells) /\ \A st \in Slots : OneOwner(kv.cells[st])
    BY <1>1 DEF IInv, Owners
  <2>2. kv' = seq_rm(kv, c, N, End)
    OBVIOUS
  <2> HIDE <1>0
  <2> QED BY <2>1, <2>2, SeqRmEffect
<1>5. \A s : seq_to_stream(s)' = seq_to_stream(s)
  BY SameStream
<1>6. ASSUME NEW s \in Slots, NEW i \in Cells, NEW p
      PROVE  /\ Holds(s, p, i)' <=> Holds(s, p, i) /\ ~(s = c /\ p \in N .. End - 1)
             /\ Holds(s, p, i)' =>
                  kv'.cells[seq_to_stream(s)].shift[i] = kv.cells[seq_to_stream(s)].shift[i]
  <2> DEFINE st == seq_to_stream(s)
  <2>1. st \in Slots
    BY StreamType
  <2>2. /\ Holds(s, p, i) <=> s \in kv.cells[st].seq[i] /\ kv.cells[st].pos[i] = p
        /\ Holds(s, p, i)' <=> s \in kv'.cells[st].seq[i] /\ kv'.cells[st].pos[i] = p
    BY <1>1, <1>5 DEF Holds, Placed
  <2>3. CASE st = seq_to_stream(c) /\ i \in Hit(kv.cells[st], c, N, End)
    <3>1. CellGone(kv'.cells[st], i)
      BY <1>4, <2>1, <2>3
    <3>2. c \in kv.cells[st].seq[i] /\ kv.cells[st].pos[i] \in N .. End - 1
      BY <2>3 DEF Hit
    <3>3. s \in kv.cells[st].seq[i] => s = c
      BY <1>1, <2>1, <3>2 DEF Owners, OneOwner
    <3> QED BY <2>2, <3>1, <3>2, <3>3 DEF CellGone
  <2>4. CASE ~(st = seq_to_stream(c) /\ i \in Hit(kv.cells[st], c, N, End))
    <3>1. CellAs(kv.cells[st], kv'.cells[st], i)
      BY <1>4, <2>1, <2>4
    <3>2. ~(s = c /\ Holds(s, p, i) /\ p \in N .. End - 1)
      BY <2>2, <2>4 DEF Hit
    <3> QED BY <2>2, <3>1, <3>2 DEF CellAs
  <2> QED BY <2>3, <2>4
<1>7. /\ \A j \in off' + 1 .. Len(batch') : j \in 1 .. L \/ \E i \in 1 .. m - N : j = L + i
      /\ \A j \in off + 1 .. Len(batch) : j \in 1 .. L
      /\ \A j \in 1 .. L : j \in off' + 1 .. Len(batch') /\ j \in off + 1 .. Len(batch)
      /\ \A i \in 1 .. m - N : L + i \in off' + 1 .. Len(batch')
  <2>1. ASSUME NEW j \in off' + 1 .. Len(batch'), j \notin 1 .. L
        PROVE  \E i \in 1 .. m - N : j = L + i
    <3>1. j - L \in 1 .. m - N /\ j = L + (j - L)
      BY <1>1, <2>1
    <3> QED BY <3>1
  <2>2. \A j \in off + 1 .. Len(batch) : j \in 1 .. L
    BY <1>1
  <2>3. ASSUME NEW j \in 1 .. L PROVE j \in off' + 1 .. Len(batch') /\ j \in off + 1 .. Len(batch)
    <3>1. j <= L + (m - N)
      OBVIOUS
    <3> QED BY <1>1, <3>1
  <2>4. ASSUME NEW i \in 1 .. m - N PROVE L + i \in off' + 1 .. Len(batch')
    BY <1>1
  <2> QED BY <2>1, <2>2, <2>3, <2>4
<1>8. ASSUME NEW i \in 1 .. m - N
      PROVE  /\ batch'[L + i].seq = c /\ batch'[L + i].pos = N + i - 1
             /\ batch'[L + i].tok = w[N + i]
  <2> DEFINE p == N + i - 1
             t == w[N + i]
             e == Entry(c, p, t)
  <2>1. batch'[L + i] = e
    OBVIOUS
  <2> HIDE DEF p, t
  <2>2. e.seq = c /\ e.pos = p /\ e.tok = t
    BY DEF Entry
  <2> HIDE DEF e
  <2> QED BY <2>1, <2>2 DEF p, t
<1>9. \A j : ~Computed(j) /\ ~Computed(j)'
  BY DEF Computed
<1>10. ASSUME NEW s \in Slots, NEW p \in Int, ~(s = c /\ p \in N .. m - 1)
       PROVE  Owed(s, p)' <=> Owed(s, p)
  <2>1. ASSUME Owed(s, p) PROVE Owed(s, p)'
    <3> PICK j \in off + 1 .. Len(batch) : batch[j].seq = s /\ batch[j].pos = p
      BY <2>1 DEF Owed
    <3> QED BY <1>7, <1>9 DEF Owed
  <2>2. ASSUME Owed(s, p)' PROVE Owed(s, p)
    <3> PICK j \in off' + 1 .. Len(batch') : batch'[j].seq = s /\ batch'[j].pos = p
      BY <2>2 DEF Owed
    <3>1. ASSUME NEW i \in 1 .. m - N, j = L + i PROVE FALSE
      <4>1. s = c /\ p = N + i - 1
        BY <1>8, <3>1
      <4> QED BY <1>10, <4>1
    <3> QED BY <1>7, <1>9, <3>1 DEF Owed
  <2> QED BY <2>1, <2>2
<1>11. PromptsCached'
  <2> SUFFICES ASSUME NEW s \in Slots, NEW p \in 0 .. Len(slots'[s].prompt) - 1
      PROVE  CachedAt(s, p)'
    BY DEF PromptsCached
  <2>1. CASE s = c /\ p \in N .. m - 1
    <3> DEFINE i == p - N + 1
    <3>0. p \in N .. m - 1
      BY <2>1
    <3>1. i \in 1 .. m - N /\ N + i - 1 = p /\ p \in N .. End - 1
      <4>1. i \in 1 .. m - N
        BY <3>0
      <4>2. N + i - 1 = p
        BY <3>0
      <4>3. p \in N .. End - 1
        BY <3>0, SizesAssumption DEF End
      <4> QED BY <4>1, <4>2, <4>3
    <3> HIDE DEF i
    <3>2. Owed(s, p)'
      BY <1>7, <1>8, <1>9, <2>1, <3>1 DEF Owed
    <3>3. \A k \in Cells : ~Holds(s, p, k)'
      BY <1>6, <2>1, <3>1
    <3> QED BY <3>2, <3>3 DEF CachedAt
  <2>2. CASE ~(s = c /\ p \in N .. m - 1)
    <3>1. /\ p \in 0 .. Len(slots[s].prompt) - 1 /\ p \in Int
          /\ slots'[s].prompt[p + 1] = slots[s].prompt[p + 1]
          /\ ~(s = c /\ p \in N .. End - 1)
      <4>1. CASE s = c
        <5>1. p \in 0 .. N - 1 /\ p + 1 \in 1 .. N /\ p + 1 \in 1 .. m
          BY <2>2, <4>1
        <5>2. r[p + 1] = y[p + 1]
          BY <1>3, <5>1
        <5>3. slots'[s].prompt = r /\ slots[s].prompt = y /\ Len(y) = N
          BY <4>1
        <5>4. p \notin N .. End - 1 /\ p \in Int
          BY <5>1
        <5> HIDE <1>0
        <5> QED BY <4>1, <5>1, <5>2, <5>3, <5>4
      <4>2. CASE s # c
        BY <4>2
      <4> QED BY <4>1, <4>2
    <3>2. CachedAt(s, p)
      BY <1>2, <3>1 DEF ReadInv, PromptsCached
    <3>3. \A i \in Cells : Holds(s, p, i)' <=> Holds(s, p, i)
      BY <1>6, <3>1
    <3>4. \A i \in Cells : Holds(s, p, i) =>
           /\ kv'.data[seq_to_stream(s)][i] = kv.data[seq_to_stream(s)][i]
           /\ kv'.cells[seq_to_stream(s)].shift[i] = kv.cells[seq_to_stream(s)].shift[i]
      BY <1>4, <1>6, <3>3, StreamType DEF SameBuffers
    <3>5. Owed(s, p)' <=> Owed(s, p)
      BY <1>10, <2>2, <3>1
    <3>6. params' = params
      OBVIOUS
    <3> HIDE <1>0
    <3> QED BY <3>1, <3>2, <3>3, <3>4, <3>5, <3>6, CachedFrame
  <2> QED BY <2>1, <2>2
<1>12. kv'.copies = << >> /\ Owners' /\ Settled'
  <2>1. kv'.copies = << >>
    BY <1>1, <1>4 DEF SameBuffers
  <2>2. Owners'
    <3> SUFFICES ASSUME NEW st \in Slots, NEW i \in Cells,
                        NEW u \in kv'.cells[st].seq[i], NEW v \in kv'.cells[st].seq[i]
        PROVE  u = v
      BY DEF Owners, OneOwner
    <3>1. kv'.cells[st].seq[i] = kv.cells[st].seq[i]
      BY <1>4 DEF CellGone, CellAs
    <3> QED BY <1>1, <3>1 DEF Owners, OneOwner
  <2>3. Settled'
    <3> SUFFICES ASSUME NEW st \in Slots, ~kv'.cells[st].has_shift, NEW i \in Cells,
                        kv'.cells[st].pos[i] # -1
        PROVE  kv'.cells[st].shift[i] = 0
      BY <1>1 DEF Settled
    <3>1. kv.cells[st].pos[i] # -1 => kv.cells[st].shift[i] = 0
      BY <1>1, <1>4 DEF Settled
    <3>2. CellAs(kv.cells[st], kv'.cells[st], i)
      BY <1>4 DEF CellGone
    <3> QED BY <3>1, <3>2 DEF CellAs
  <2> QED BY <2>1, <2>2, <2>3
<1>13. NothingBeyond'
  <2> SUFFICES ASSUME NEW s \in Slots, slots'[s].state \in {"done_prompt", "generating"},
                      NEW p \in Positions, NEW i \in Cells, Holds(s, p, i)'
      PROVE  p < Len(slots'[s].prompt)
    BY DEF NothingBeyond
  <2>1. Holds(s, p, i) /\ ~(s = c /\ p \in N .. End - 1)
    BY <1>6
  <2>2. CASE s = c
    <3>1. p \in 0 .. NPos - 1 /\ p \notin N .. NPos - 1
      BY <2>1, <2>2 DEF Positions, End
    <3>2. p < m
      BY <3>1
    <3> QED BY <2>2, <3>2
  <2>3. CASE s # c
    BY <1>1, <2>1, <2>3 DEF NothingBeyond
  <2> QED BY <2>2, <2>3
<1>14. Phases'
  <2>1. ASSUME NEW s \in Slots, slots'[s].state = "prompt"
        PROVE  \A i \in 1 .. Len(slots'[s].prompt) : slots'[s].prompt[i] = slots'[s].task[i]
    <3>1. CASE s = c
      BY <3>1
    <3>2. CASE s # c
      <4>1. slots'[s] = slots[s]
        BY <3>2
      <4> QED BY <1>1, <2>1, <4>1 DEF Phases
    <3> QED BY <3>1, <3>2
  <2> QED BY <1>1, <2>1 DEF Phases
<1>15. NoFamilies' /\ Plain'
  <2>1. \A s \in Slots : slots'[s].kind = "single" /\ slots'[s].state # "wait_other"
    BY <1>1 DEF NoFamilies
  <2> QED BY <2>1 DEF ReadInv, NoFamilies, Plain
<1>16. \A j \in 1 .. L : Wanted(j, batch[j]) /\ batch[j] \in EntryType
  BY <1>1, <1>7, ReadTypes DEF BatchWanted
<1>17. BatchRises'
  <2> SUFFICES ASSUME NEW j \in off' + 1 .. Len(batch'), NEW k \in off' + 1 .. Len(batch'),
                      j < k, batch'[j].seq = batch'[k].seq
      PROVE  batch'[j].pos < batch'[k].pos
    BY DEF BatchRises
  <2>1. CASE j \in 1 .. L /\ k \in 1 .. L
    <3>1. /\ batch'[j] = batch[j] /\ batch'[k] = batch[k]
          /\ j \in off + 1 .. Len(batch) /\ k \in off + 1 .. Len(batch)
      BY <1>7, <2>1
    <3> QED BY <1>1, <3>1 DEF BatchRises
  <2>2. ASSUME j \in 1 .. L, NEW i \in 1 .. m - N, k = L + i PROVE batch'[j].pos < batch'[k].pos
    <3>1. batch'[j] = batch[j] /\ batch[j].seq = c /\ batch'[k].pos = N + i - 1
      BY <1>8, <2>2
    <3>2. Len(slots[c].prompt) = N
      OBVIOUS
    <3> HIDE <1>0
    <3>3. Wanted(j, batch[j]) /\ batch[j] \in EntryType
      BY <1>16, <2>2
    <3>4. batch[j].pos < N /\ batch[j].pos \in Int
      BY <3>1, <3>2, <3>3 DEF Wanted, EntryType, Positions
    <3> QED BY <3>1, <3>4
  <2>3. ASSUME NEW u \in 1 .. m - N, j = L + u, NEW v \in 1 .. m - N, k = L + v
        PROVE  batch'[j].pos < batch'[k].pos
    <3>1. batch'[j].pos = N + u - 1 /\ batch'[k].pos = N + v - 1
      BY <1>8, <2>3
    <3>2. u < v
      BY <2>3
    <3> HIDE <1>0
    <3> QED BY <3>1, <3>2
  <2>4. ASSUME NEW u \in 1 .. m - N, j = L + u PROVE k \notin 1 .. L
    BY <2>4
  <2> HIDE <1>0
  <2>5. /\ j \in 1 .. L \/ \E i \in 1 .. m - N : j = L + i
        /\ k \in 1 .. L \/ \E i \in 1 .. m - N : k = L + i
    BY <1>7
  <2> QED BY <2>1, <2>2, <2>3, <2>4, <2>5
<1>18. BatchWanted'
  <2> SUFFICES ASSUME NEW j \in off' + 1 .. Len(batch') PROVE Wanted(j, batch[j])'
    BY DEF BatchWanted
  <2>1. ASSUME NEW i \in 1 .. m - N, j = L + i PROVE Wanted(j, batch[j])'
    <3>1. N + i \in 1 .. m /\ N + i - 1 < m /\ L + i <= L + m - N /\ N + i - 1 + 1 = N + i
      OBVIOUS
    <3>2. /\ batch'[j].seq = c /\ batch'[j].pos = N + i - 1 /\ batch'[j].tok = w[N + i]
      BY <1>8, <2>1
    <3>3. r[N + i] = w[N + i]
      BY <3>1
    <3> QED BY <2>1, <3>1, <3>2, <3>3 DEF Wanted
  <2>2. CASE j \in 1 .. L
    <3>1. batch'[j] = batch[j] /\ Wanted(j, batch[j]) /\ batch[j] \in EntryType
      BY <1>16, <2>2
    <3>2. CASE batch[j].seq = c
      <4>1. batch[j].pos < N /\ batch[j].pos \in Nat /\ batch[j].tok = y[batch[j].pos + 1]
        <5>1. batch[j].pos \in Nat
          BY <3>1 DEF EntryType, Positions
        <5> QED BY <3>1, <3>2, <5>1 DEF Wanted
      <4>2. batch[j].pos + 1 \in 1 .. N /\ batch[j].pos + 1 \in 1 .. m /\ batch[j].pos < m
        <5> DEFINE p == batch[j].pos
        <5>1. p < N /\ p \in Nat
          BY <4>1
        <5> HIDE <1>0
        <5> HIDE DEF p
        <5>2. p + 1 \in 1 .. N /\ p + 1 \in 1 .. m /\ p < m
          BY <5>1
        <5> QED BY <5>2 DEF p
      <4>3. batch[j].tok = r[batch[j].pos + 1]
        BY <1>3, <4>1, <4>2
      <4>4. j <= L + m - N
        BY <2>2
      <4>5. /\ slots'[c].prompt = r /\ Len(r) = m /\ slots'[c].state \in {"prompt", "done_prompt"}
            /\ slots'[c].state # "prompt" => slots'[c].i_batch = L + m - N
        OBVIOUS
      <4> HIDE <1>0
      <4> QED BY <3>1, <3>2, <4>2, <4>3, <4>4, <4>5 DEF Wanted
    <3>3. CASE batch[j].seq # c
      <4>1. batch[j].seq \in Slots
        BY <3>1 DEF EntryType
      <4>2. slots'[batch[j].seq] = slots[batch[j].seq]
        BY <3>3, <4>1
      <4> QED BY <3>1, <4>2 DEF Wanted
    <3> QED BY <3>2, <3>3
  <2> QED BY <1>7, <2>1, <2>2
<1> QED BY <1>1, <1>11, <1>12, <1>13, <1>14, <1>15, <1>17, <1>18, NotRehearsed DEF ReadInv

\* The batch is filled from a prompt.
LEMMA ReadFill ==
  ASSUME IInv, ReadInv, FillPrompt
  PROVE  ReadInv'
<1> SUFFICES ASSUME NEW c \in Slots, c = cur PROVE ReadInv'
  BY ReadTypes
<1> DEFINE x == slots[c]
           N == Len(x.prompt)
           M == Len(x.task)
           L == Len(batch)
           m == Min({M, N + NBatch - L})
           more == [i \in 1 .. m - N |-> Entry(c, N + i - 1, x.task[N + i])]
           r == SubSeq(x.task, 1, m)
           st == IF m = M THEN "done_prompt" ELSE x.state
           ib == IF m = M THEN L + m - N ELSE 0
<1>1. /\ step = "prompt" /\ x.state = "prompt" /\ L < NBatch
      /\ kv' = seq_rm(kv, c, N, End) /\ batch' = batch \o more
      /\ slots' = [slots EXCEPT ![c].prompt = r, ![c].state = st, ![c].i_batch = ib]
      /\ UNCHANGED params /\ UNCHANGED off /\ UNCHANGED olds
      /\ step' \in {"prompt", "decode"}
  BY DEF FillPrompt, Advance, view, rehearsal
<1>2. /\ x \in SlotType /\ x.prompt \in Seq(Tokens) /\ x.task \in Seq(Tokens)
      /\ slots \in [Slots -> SlotType] /\ N \in Nat /\ M \in Nat
      /\ batch \in Seq(EntryType) /\ L \in Nat
  BY ReadTypes
<1>3. N <= M /\ M <= NPos
  <2>1. /\ params.n_ctx \in Nat /\ params.n_ctx <= NPos /\ NPos \in Nat
    BY Contexts, SizesAssumption DEF IInv
  <2>2. M < params.n_ctx /\ N <= M
    BY <1>1 DEF IInv, SlotsFit
  <2> HIDE DEF N, M
  <2> QED BY <1>2, <2>1, <2>2
<1>4. m \in Nat /\ N <= m /\ m <= M
  <2> DEFINE room == N + NBatch - L
  <2> HIDE DEF N, M, L
  <2>1. room \in Int /\ N <= room
    BY <1>1, <1>2, BatchAssumption
  <2>2. m = IF M <= room THEN M ELSE room
    <3> HIDE DEF room
    <3>1. Min({M, room}) = IF M <= room THEN M ELSE room
      BY <1>2, <2>1, MinOfTwo
    <3> QED BY <3>1 DEF room
  <2> HIDE DEF m, room
  <2> QED BY <1>2, <1>3, <2>1, <2>2
<1> HIDE DEF m
<1>5. /\ Len(r) = m /\ \A i \in 1 .. m : r[i] = x.task[i]
  <2> HIDE DEF x
  <2> QED BY <1>2, <1>4, FirstOf
<1>6. more \in Seq(EntryType)
  <2>1. ASSUME NEW i \in 1 .. m - N PROVE Entry(c, N + i - 1, x.task[N + i]) \in EntryType
    <3>1. N + i \in 1 .. M /\ N + i - 1 \in 0 .. NPos - 1
      <4> HIDE DEF x, N, M
      <4> QED BY <1>2, <1>3, <1>4, <2>1, SizesAssumption
    <3>2. x.task[N + i] \in Tokens
      BY <1>2, <3>1
    <3> HIDE DEF x, N
    <3> QED BY <1>2, <3>1, <3>2 DEF Entry, EntryType, Positions
  <2>2. more \in [1 .. m - N -> EntryType]
    <3> HIDE DEF N, x, EntryType
    <3> QED BY <2>1
  <2>3. m - N \in Nat
    BY <1>2, <1>4
  <2> HIDE DEF more, N
  <2> QED BY <2>2, <2>3
<1>7. /\ Len(batch') = L + (m - N)
      /\ \A j \in 1 .. L : batch'[j] = batch[j]
      /\ \A i \in 1 .. m - N : batch'[L + i] = Entry(c, N + i - 1, x.task[N + i])
  <2>1. Len(more) = m - N
    <3>1. m - N \in Nat /\ DOMAIN more = 1 .. m - N
      <4> HIDE DEF N, x
      <4> QED BY <1>2, <1>4
    <3> HIDE DEF more, N
    <3> QED BY <1>6, <3>1
  <2>2. \A i \in 1 .. m - N : more[i] = Entry(c, N + i - 1, x.task[N + i])
    <3> HIDE DEF N, x
    <3> QED OBVIOUS
  <2> HIDE DEF more, N, x
  <2>3. /\ Len(batch \o more) = Len(batch) + Len(more)
        /\ \A i \in 1 .. Len(batch) : (batch \o more)[i] = batch[i]
        /\ \A i \in 1 .. Len(more) : (batch \o more)[Len(batch) + i] = more[i]
    BY <1>2, <1>6, Joined
  <2>4. batch' = batch \o more
    BY <1>1
  <2>5. Len(batch') = L + (m - N)
    BY <2>1, <2>3, <2>4
  <2>6. \A j \in 1 .. L : batch'[j] = batch[j]
    BY <2>3, <2>4
  <2>7. ASSUME NEW i \in 1 .. m - N PROVE batch'[L + i] = Entry(c, N + i - 1, x.task[N + i])
    <3>1. batch'[L + i] = more[i]
      BY <2>1, <2>3, <2>4
    <3>2. more[i] = Entry(c, N + i - 1, x.task[N + i])
      BY <2>2
    <3> QED BY <3>1, <3>2, Zenon
  <2> QED BY <2>5, <2>6, <2>7
<1>8. /\ \A t \in Slots : t # c => slots'[t] = slots[t]
      /\ slots'[c].prompt = r /\ slots'[c].task = x.task /\ slots'[c].kind = x.kind
      /\ slots'[c].state = st /\ slots'[c].i_batch = ib
  <2> HIDE DEF r, st, ib
  <2> QED BY <1>1, <1>2 DEF SlotType
<1>9. st \in {"prompt", "done_prompt"} /\ (st # "prompt" => ib = L + m - N)
  BY <1>1
<1>10. slots'[c].state \in {"prompt", "done_prompt"}
       /\ (slots'[c].state # "prompt" => slots'[c].i_batch = L + m - N)
  BY <1>8, <1>9
<1>11. m <= NPos
  <2> HIDE DEF M
  <2> QED BY <1>2, <1>3, <1>4, SizesAssumption
<1>12. Filled(c, N, m, L, x.prompt, x.task, r)
  <2> HIDE DEF r, st, ib, N, M, L, m
  <2>1. Len(x.prompt) = N /\ L = Len(batch)
    BY DEF N, L
  <2> HIDE DEF x, more
  <2>2. slots[c] = x
    BY DEF x
  <2> QED BY <1>1, <1>5, <1>7, <1>8, <1>10, <2>1, <2>2, Zenon DEF Filled
<1> HIDE DEF r, st, ib, x, N, M, L, more
<1> QED BY <1>2, <1>4, <1>11, <1>12, ReadFilled

\* The view stays, and the streams of its places.
LEMMA ViewSame ==
  ASSUME UNCHANGED <<params, batch, off, n_batch>>
  PROVE  InView' = InView /\ \A j : StreamOf(j)' = StreamOf(j)
BY SameStream DEF InView, ViewSize, StreamOf

\* A cell that holds a position is not empty.
LEMMA HeldInUse ==
  ASSUME IInv, NEW s \in Slots, NEW p, NEW i \in Cells, Holds(s, p, i)
  PROVE  /\ kv.cells[seq_to_stream(s)].pos[i] # -1
         /\ kv.cells[seq_to_stream(s)].shift[i] \in Int
<1> DEFINE st == seq_to_stream(s)
           c == kv.cells[st]
<1>1. st \in Slots
  BY StreamType
<1>2. Exact(c) /\ c \in CellsType /\ s \in c.seq[i]
  BY <1>1 DEF IInv, Books, Holds
<1> HIDE DEF c
<1>3. c.pos[i] # -1
  BY <1>2 DEF Exact
<1>4. c.shift[i] \in Int
  BY <1>2 DEF CellsType
<1> QED BY <1>3, <1>4 DEF c

\* What is pending is applied, and the rehearsal of the view begins.
LEMMA ReadBegin ==
  ASSUME TInv, ReadInv, BeginDecode
  PROVE  ReadInv'
<1>1. /\ step = "decode" /\ step' = "prepare" /\ kv' = update(kv) /\ left' = InView
      /\ sinfos' = << >> /\ olds' = << >> /\ at' = 1
      /\ UNCHANGED <<params, slots, batch, off, n_batch>>
  BY DEF BeginDecode, NoRehearsal, view, InView
<1>2. /\ IInv /\ Phases /\ olds = << >> /\ NoFamilies /\ Owners /\ Settled /\ kv.copies = << >>
      /\ step \notin Deciding
  BY <1>1 DEF ReadInv, Phases, Deciding, TInv, CountedInv
<1>3. /\ kv'.copies = << >>
      /\ \A st \in Slots, i \in Cells :
           /\ kv'.cells[st].pos[i] = kv.cells[st].pos[i]
           /\ kv'.cells[st].seq[i] = kv.cells[st].seq[i]
           /\ kv.cells[st].pos[i] # -1 =>
                /\ kv'.cells[st].shift[i] = 0
                /\ kv'.data[st][i] = [tok |-> kv.data[st][i].tok,
                                      at  |-> kv.data[st][i].at + kv.cells[st].shift[i]]
  <2>1. Books(kv.cells) /\ Typed(kv)
    BY DEF TInv, CountedInv, IInv
  <2>2. \A st \in Slots : \/ kv.cells[st].has_shift
                          \/ \A i \in Cells : kv.cells[st].pos[i] # -1 => kv.cells[st].shift[i] = 0
    BY <1>2 DEF Settled
  <2> QED BY <1>1, <1>2, <2>1, <2>2, UpdateEffect
<1>4. \A s, p : Known(s, p)
  BY <1>1, KnowsAll
<1>5. \A s, p : Owed(s, p)' <=> Owed(s, p)
  BY <1>1, OwedSame
<1>6. \A s : seq_to_stream(s)' = seq_to_stream(s)
  BY <1>1, SameStream
<1>7. ASSUME NEW s \in Slots, NEW p, NEW i \in Cells
      PROVE  Holds(s, p, i)' <=> Holds(s, p, i)
  <2>1. ~Placed(seq_to_stream(s), i) /\ ~Placed(seq_to_stream(s), i)'
    BY <1>1, <1>2 DEF Placed
  <2> QED BY <1>3, <1>6, <2>1, StreamType DEF Holds
<1>8. PromptsCached'
  <2> SUFFICES ASSUME NEW s \in Slots, NEW p \in 0 .. Len(slots[s].prompt) - 1
      PROVE  CachedAt(s, p)'
    BY <1>1 DEF PromptsCached
  <2>1. CachedAt(s, p) /\ p \in Int
    BY <1>4 DEF ReadInv, PromptsCached
  <2>2. ASSUME NEW i \in Cells, Holds(s, p, i), Keys(s, p, i)
        PROVE  Keys(s, p, i)'
    <3> DEFINE st == seq_to_stream(s)
               h == kv.cells[st].shift[i]
    <3>1. st \in Slots /\ st' = st /\ h \in Int /\ kv.cells[st].pos[i] # -1
      BY <1>2, <1>6, <2>2, StreamType, HeldInUse
    <3>2. kv.data[st][i] = [tok |-> slots[s].prompt[p + 1], at |-> p - h]
      BY <2>2 DEF Keys
    <3>3. kv.data[st][i].tok = slots[s].prompt[p + 1] /\ kv.data[st][i].at = p - h
      BY <3>2
    <3>4. /\ kv'.cells[st].shift[i] = 0
          /\ kv'.data[st][i] = [tok |-> kv.data[st][i].tok, at |-> kv.data[st][i].at + h]
      BY <1>3, <3>1
    <3>5. (p - h) + h = p - 0
      BY <2>1, <3>1
    <3>6. kv'.data[st][i] = [tok |-> slots[s].prompt[p + 1], at |-> p - kv'.cells[st].shift[i]]
      <4> HIDE DEF h
      <4> QED BY <3>3, <3>4, <3>5
    <3>7. seq_to_stream(s)' = st
      BY <1>6
    <3> HIDE DEF st
    <3> QED BY <1>1, <3>6, <3>7 DEF Keys
  <2> QED BY <1>5, <1>7, <2>1, <2>2 DEF CachedAt
<1>9. Owners' /\ Settled'
  <2>1. Owners'
    <3> SUFFICES ASSUME NEW st \in Slots, NEW i \in Cells,
                        NEW u \in kv'.cells[st].seq[i], NEW v \in kv'.cells[st].seq[i]
        PROVE  u = v
      BY DEF Owners, OneOwner
    <3>1. kv'.cells[st].seq[i] = kv.cells[st].seq[i]
      BY <1>3
    <3> QED BY <1>2, <3>1 DEF Owners, OneOwner
  <2>2. Settled'
    <3> SUFFICES ASSUME NEW st \in Slots, NEW i \in Cells, kv'.cells[st].pos[i] # -1
        PROVE  kv'.cells[st].shift[i] = 0
      BY DEF Settled
    <3> QED BY <1>3
  <2> QED BY <2>1, <2>2
<1>10. NothingBeyond' /\ NoFamilies' /\ Plain' /\ BatchRises' /\ BatchWanted'
  <2>1. NothingBeyond'
    BY <1>1, <1>7 DEF NothingBeyond, ReadInv
  <2>2. NoFamilies' /\ Plain'
    BY <1>1 DEF NoFamilies, Plain, ReadInv
  <2>3. BatchRises' /\ BatchWanted'
    BY <1>1 DEF BatchRises, BatchWanted, Wanted, ReadInv
  <2> QED BY <2>1, <2>2, <2>3
<1>11. Phases'
  BY <1>1, <1>2 DEF Phases
<1>12. Rehearsed'
  <2>1. InView' = InView
    BY <1>1, ViewSame
  <2>2. Len(sinfos') = 0 /\ Len(olds') = 0 /\ 1 .. Len(sinfos') = {}
    BY <1>1
  <2>3. FoundAll' /\ FoundOnce' /\ FoundInOrder' /\ FoundEmpty'
    <3>1. FoundAll'
      BY <1>1, <2>1 DEF FoundAll
    <3>2. FoundOnce'
      BY <2>2 DEF FoundOnce
    <3>3. FoundInOrder'
      BY <2>2 DEF FoundInOrder
    <3>4. FoundEmpty'
      BY <2>2 DEF FoundEmpty
    <3> QED BY <3>1, <3>2, <3>3, <3>4
  <2>4. /\ step' = "prepare" /\ left' \subseteq InView' /\ at' <= Len(sinfos') + 1
        /\ Len(olds') = Len(sinfos')
    BY <1>1, <2>1, <2>2
  <2> QED BY <1>1, <2>3, <2>4 DEF Rehearsed
<1> QED BY <1>3, <1>8, <1>9, <1>10, <1>11, <1>12 DEF ReadInv

\* What the invariant says of a rehearsal, conjunct by conjunct.
LEMMA RehearsedFacts ==
  ASSUME ReadInv, step \in Deciding
  PROVE  /\ left \subseteq InView
         /\ step \in {"restore", "compute"} => left = {}
         /\ at <= Len(sinfos) + 1
         /\ step # "compute" => at = 1
         /\ step = "prepare" => Len(olds) = Len(sinfos)
         /\ FoundAll /\ FoundOnce /\ FoundInOrder /\ FoundEmpty
BY DEF ReadInv, Rehearsed

\* In a rehearsal no shift is left to be applied.
LEMMA SettledNow ==
  ASSUME ReadInv, step \in Deciding, NEW st \in Slots, NEW i \in Cells, kv.cells[st].pos[i] # -1
  PROVE  kv.cells[st].shift[i] = 0
BY DEF ReadInv, Settled

\* A turn from one loop of the rehearsal to the next changes nothing else.
LEMMA ReadTurn ==
  ASSUME TInv, ReadInv, UNCHANGED <<kv, params, slots, batch, off, n_batch>>,
         UNCHANGED <<left, sinfos, olds, at>>,
         step \in {"prepare", "restore", "give_up"},
         step' \in {"restore", "give_up", "compute", "no_slot"},
         step' \in {"restore", "compute"} => left = {},
         step' \in {"compute", "no_slot"} => olds = << >>
  PROVE  ReadInv'
<1>1. /\ step \in Deciding /\ step # "compute" /\ at = 1 /\ Phases /\ NoFamilies /\ Owners
      /\ left \subseteq InView /\ at <= Len(sinfos) + 1
      /\ FoundAll /\ FoundOnce /\ FoundInOrder /\ FoundEmpty
  BY RehearsedFacts DEF ReadInv, Deciding
<1>2. \A s, p : Known(s, p)
  BY KnowsAll
<1>3. \A s, p : Owed(s, p)' <=> Owed(s, p)
  BY <1>1, OwedSame
<1>4. \A s \in Slots, i \in Cells : \A p : Holds(s, p, i)' <=> Holds(s, p, i)
  <2> TAKE s \in Slots, i \in Cells
  <2>1. seq_to_stream(s)' = seq_to_stream(s)
    BY SameStream
  <2>2. Placed(seq_to_stream(s), i)' <=> Placed(seq_to_stream(s), i)
    BY <2>1 DEF Placed
  <2> QED BY <2>1, <2>2 DEF Holds
<1>5. PromptsCached'
  <2> SUFFICES ASSUME NEW s \in Slots, NEW p \in 0 .. Len(slots[s].prompt) - 1
      PROVE  CachedAt(s, p)'
    BY DEF PromptsCached
  <2>1. CachedAt(s, p)
    BY <1>2 DEF ReadInv, PromptsCached
  <2>2. slots'[s].prompt[p + 1] = slots[s].prompt[p + 1]
    OBVIOUS
  <2> QED BY <1>3, <1>4, <2>1, <2>2, CachedFrame
<1>6. Settled'
  BY <1>1, SettledNow DEF Settled
<1>7. kv'.copies = << >> /\ Owners' /\ NoFamilies' /\ Plain' /\ BatchRises' /\ BatchWanted'
  BY DEF ReadInv, Owners, NoFamilies, Plain, BatchRises, BatchWanted, Wanted
<1>8. NothingBeyond'
  BY <1>4 DEF ReadInv, NothingBeyond
<1>9. Phases'
  BY <1>1 DEF Phases, Deciding
<1>10. Rehearsed'
  <2>1. InView' = InView /\ \A j : StreamOf(j)' = StreamOf(j)
    BY ViewSame
  <2>2. FoundAll' /\ FoundOnce' /\ FoundInOrder'
    BY <1>1, <2>1 DEF FoundAll, FoundOnce, FoundInOrder
  <2>3. FoundEmpty'
    BY <1>1 DEF FoundEmpty
  <2> QED BY <1>1, <2>1, <2>2, <2>3 DEF Rehearsed
<1> QED BY <1>5, <1>6, <1>7, <1>8, <1>9, <1>10 DEF ReadInv

\* prepare() finds f, the cells for the places u of the batch, after K ubatches.
Placing(u, f, K) ==
  /\ step = "prepare" /\ step' = "prepare"
  /\ UNCHANGED <<params, slots, batch, off, n_batch, at>>
  /\ Len(sinfos) = K /\ Len(olds) = K /\ Len(sinfos') = K + 1 /\ Len(olds') = K + 1
  /\ \A n \in 1 .. K : sinfos'[n] = sinfos[n] /\ olds'[n] = olds[n]
  /\ sinfos'[K + 1] = f /\ olds'[K + 1] = kv.cells
  /\ kv' = apply_ubatch(kv, f, batch)
  /\ left' = left \ UNION {u[st] : st \in Slots}
  /\ \A st \in Slots : \A j \in u[st] :
       /\ j \in left /\ StreamOf(j) = st
       /\ \E i \in Cells : f[st][i] = j
       /\ \A x \in left : x < j /\ StreamOf(x) = st => x \in u[st]
  /\ \A st \in Slots, i \in Cells : f[st][i] # 0 =>
       /\ f[st][i] \in u[st] /\ kv.cells[st].pos[i] = -1
       /\ \A k \in Cells : f[st][k] = f[st][i] => k = i

\* The cells found for a ubatch are those prepare() writes.
LEMMA PlacingCells ==
  ASSUME IInv, NEW u, NEW f, NEW K \in Nat, Placing(u, f, K)
  PROVE  /\ SameBuffers(kv, kv')
         /\ \A st \in Slots :
              /\ kv'.cells[st].has_shift = kv.cells[st].has_shift
              /\ \A i \in Cells :
                   IF f[st][i] # 0
                   THEN /\ kv'.cells[st].pos[i] = batch[f[st][i]].pos
                        /\ kv'.cells[st].seq[i] = {batch[f[st][i]].seq}
                        /\ kv'.cells[st].shift[i] = 0
                   ELSE CellAs(kv.cells[st], kv'.cells[st], i)
<1>1. Books(kv.cells)
  BY DEF IInv
<1>2. \A st \in Slots, i \in Cells : f[st][i] # 0 => kv.cells[st].pos[i] = -1
  BY DEF Placing
<1>3. kv' = apply_ubatch(kv, f, batch)
  BY DEF Placing
<1> QED BY <1>1, <1>2, <1>3, ApplyEffect

\* A rehearsed ubatch changes nothing that a slot counts on.
LEMMA PlacingKeeps ==
  ASSUME IInv, ReadInv, NEW u, NEW f, NEW K \in Nat, Placing(u, f, K)
  PROVE  kv'.copies = << >> /\ Owners' /\ Settled' /\ PromptsCached' /\ NothingBeyond'
<1>1. /\ step = "prepare" /\ step' = "prepare" /\ UNCHANGED <<params, slots, batch, off>>
      /\ Len(sinfos) = K /\ Len(olds) = K /\ Len(sinfos') = K + 1 /\ Len(olds') = K + 1
      /\ \A n \in 1 .. K : sinfos'[n] = sinfos[n]
      /\ sinfos'[K + 1] = f
      /\ \A st \in Slots, i \in Cells : f[st][i] # 0 => kv.cells[st].pos[i] = -1
  BY DEF Placing
<1>2. /\ SameBuffers(kv, kv')
      /\ \A st \in Slots, i \in Cells :
           IF f[st][i] # 0
           THEN /\ kv'.cells[st].seq[i] = {batch[f[st][i]].seq}
                /\ kv'.cells[st].shift[i] = 0
           ELSE CellAs(kv.cells[st], kv'.cells[st], i)
  BY PlacingCells
<1>3. step \in Deciding /\ Owners /\ kv.copies = << >>
  BY <1>1 DEF Deciding, ReadInv
<1>4. \A s, p : Known(s, p)
  BY <1>1, KnowsAll
<1>5. \A s, p : Owed(s, p)' <=> Owed(s, p)
  BY <1>1, OwedSame
<1>6. \A s : seq_to_stream(s)' = seq_to_stream(s)
  BY <1>1, SameStream
<1>7. ASSUME NEW st \in Slots, NEW i \in Cells
      PROVE  Placed(st, i)' <=> Placed(st, i) \/ f[st][i] # 0
  <2>1. Placed(st, i) <=> \E n \in 1 .. K : sinfos[n][st][i] # 0
    BY <1>1 DEF Placed
  <2>2. Placed(st, i)' <=> \E n \in 1 .. K + 1 : sinfos'[n][st][i] # 0
    BY <1>1 DEF Placed
  <2>3. \A n \in 1 .. K + 1 : n \in 1 .. K \/ n = K + 1
    OBVIOUS
  <2>4. \A n \in 1 .. K : n \in 1 .. K + 1
    OBVIOUS
  <2>5. K + 1 \in 1 .. K + 1
    OBVIOUS
  <2> QED BY <1>1, <2>1, <2>2, <2>3, <2>4, <2>5
<1>8. ASSUME NEW s \in Slots, NEW i \in Cells, NEW p
      PROVE  /\ Holds(s, p, i)' <=> Holds(s, p, i)
             /\ Holds(s, p, i) =>
                  /\ kv'.data[seq_to_stream(s)][i] = kv.data[seq_to_stream(s)][i]
                  /\ kv'.cells[seq_to_stream(s)].shift[i] = kv.cells[seq_to_stream(s)].shift[i]
  <2> DEFINE st == seq_to_stream(s)
  <2>1. st \in Slots
    BY StreamType
  <2>2. CASE f[st][i] # 0
    <3>1. kv.cells[st].pos[i] = -1
      BY <1>1, <2>1, <2>2
    <3>2. ~Holds(s, p, i)
      BY <3>1, HeldInUse
    <3>3. ~Holds(s, p, i)'
      BY <1>6, <1>7, <2>1, <2>2 DEF Holds
    <3> QED BY <3>2, <3>3
  <2>3. CASE f[st][i] = 0
    <3>1. CellAs(kv.cells[st], kv'.cells[st], i)
      BY <1>2, <2>1, <2>3
    <3>2. Placed(st, i)' <=> Placed(st, i)
      BY <1>6, <1>7, <2>1, <2>3
    <3>3. kv'.data[st][i] = kv.data[st][i]
      BY <1>2, <2>1 DEF SameBuffers
    <3> QED BY <1>6, <3>1, <3>2, <3>3 DEF Holds, CellAs
  <2> QED BY <2>2, <2>3
<1>9. PromptsCached'
  <2> SUFFICES ASSUME NEW s \in Slots, NEW p \in 0 .. Len(slots[s].prompt) - 1
      PROVE  CachedAt(s, p)'
    BY <1>1 DEF PromptsCached
  <2>1. CachedAt(s, p)
    BY <1>4 DEF ReadInv, PromptsCached
  <2>2. slots'[s].prompt[p + 1] = slots[s].prompt[p + 1]
    BY <1>1
  <2> QED BY <1>1, <1>5, <1>8, <2>1, <2>2, CachedFrame
<1>10. Owners'
  <2> SUFFICES ASSUME NEW st \in Slots, NEW i \in Cells,
                      NEW x \in kv'.cells[st].seq[i], NEW y \in kv'.cells[st].seq[i]
      PROVE  x = y
    BY DEF Owners, OneOwner
  <2>1. CASE f[st][i] # 0
    BY <1>2, <2>1
  <2>2. CASE f[st][i] = 0
    <3>1. kv'.cells[st].seq[i] = kv.cells[st].seq[i]
      BY <1>2, <2>2 DEF CellAs
    <3> QED BY <1>3, <3>1 DEF Owners, OneOwner
  <2> QED BY <2>1, <2>2
<1>11. Settled'
  <2> SUFFICES ASSUME NEW st \in Slots, NEW i \in Cells, kv'.cells[st].pos[i] # -1
      PROVE  kv'.cells[st].shift[i] = 0
    BY DEF Settled
  <2>1. CASE f[st][i] # 0
    BY <1>2, <2>1
  <2>2. CASE f[st][i] = 0
    <3>1. CellAs(kv.cells[st], kv'.cells[st], i)
      BY <1>2, <2>2
    <3>2. kv.cells[st].pos[i] # -1
      BY <3>1 DEF CellAs
    <3>3. kv.cells[st].shift[i] = 0
      BY <1>3, <3>2, SettledNow
    <3> QED BY <3>1, <3>3 DEF CellAs
  <2> QED BY <2>1, <2>2
<1>12. NothingBeyond'
  BY <1>1, <1>8 DEF ReadInv, NothingBeyond
<1>13. kv'.copies = << >>
  BY <1>2, <1>3 DEF SameBuffers
<1> QED BY <1>9, <1>10, <1>11, <1>12, <1>13

\* The cells of a rehearsed ubatch join those found before.
LEMMA PlacingFound ==
  ASSUME IInv, ReadInv, NEW u, NEW f, NEW K \in Nat, Placing(u, f, K)
  PROVE  Rehearsed'
<1>1. /\ step = "prepare" /\ step' = "prepare" /\ UNCHANGED <<params, slots, batch, off, n_batch>>
      /\ Len(sinfos) = K /\ Len(olds) = K /\ Len(sinfos') = K + 1 /\ Len(olds') = K + 1
      /\ \A n \in 1 .. K : sinfos'[n] = sinfos[n] /\ olds'[n] = olds[n]
      /\ sinfos'[K + 1] = f /\ olds'[K + 1] = kv.cells /\ at' = at
      /\ left' = left \ UNION {u[st] : st \in Slots}
  BY DEF Placing
<1>2. /\ left \subseteq InView /\ at = 1
      /\ FoundAll /\ FoundOnce /\ FoundInOrder /\ FoundEmpty
  BY <1>1, RehearsedFacts DEF Deciding
<1>3. \A st \in Slots : \A j \in u[st] :
        /\ j \in left /\ StreamOf(j) = st
        /\ \E i \in Cells : f[st][i] = j
        /\ \A x \in left : x < j /\ StreamOf(x) = st => x \in u[st]
  BY DEF Placing
<1>4. \A st \in Slots, i \in Cells : f[st][i] # 0 =>
        /\ f[st][i] \in u[st] /\ kv.cells[st].pos[i] = -1
        /\ \A k \in Cells : f[st][k] = f[st][i] => k = i
  BY DEF Placing
<1>5. InView' = InView /\ \A j : StreamOf(j)' = StreamOf(j)
  BY <1>1, ViewSame
<1>6. /\ \A n \in 1 .. K + 1 : n \in 1 .. K \/ n = K + 1
      /\ \A n \in 1 .. K : n \in 1 .. K + 1 /\ n # K + 1
      /\ K + 1 \in 1 .. K + 1
  OBVIOUS
<1>7. \A j : j \in left' <=> j \in left /\ \A st \in Slots : j \notin u[st]
  BY <1>1
<1>8. FoundAll'
  <2> SUFFICES ASSUME NEW j \in InView \ left'
      PROVE  \E n \in 1 .. K + 1, i \in Cells : sinfos'[n][StreamOf(j)][i] = j
    BY <1>1, <1>5 DEF FoundAll
  <2>1. CASE j \in left
    <3> PICK st \in Slots : j \in u[st]
      BY <1>7, <2>1
    <3>1. StreamOf(j) = st /\ \E i \in Cells : f[st][i] = j
      BY <1>3
    <3> QED BY <1>1, <1>6, <3>1
  <2>2. CASE j \notin left
    <3>1. \E n \in 1 .. K, i \in Cells : sinfos[n][StreamOf(j)][i] = j
      BY <1>1, <1>2, <2>2 DEF FoundAll
    <3> QED BY <1>1, <1>6, <3>1
  <2> QED BY <2>1, <2>2
\* What was found before, in the form the new state needs.
<1>9. ASSUME NEW n \in 1 .. K, NEW st \in Slots, NEW i \in Cells, sinfos[n][st][i] # 0
      PROVE  /\ sinfos[n][st][i] \in InView \ left
             /\ StreamOf(sinfos[n][st][i]) = st
             /\ \A m \in 1 .. K, k \in Cells : sinfos[m][st][k] = sinfos[n][st][i] => m = n /\ k = i
             /\ \A m \in 1 .. K : sinfos[m][st][i] # 0 => m = n
             /\ olds[n][st].pos[i] = -1 /\ kv.cells[st].pos[i] # -1
  <2>1. n \in 1 .. Len(sinfos) /\ n <= Len(olds)
    BY <1>1
  <2> QED BY <1>1, <1>2, <1>9, <2>1 DEF FoundOnce, FoundEmpty
<1>10. ASSUME NEW st \in Slots, NEW i \in Cells, f[st][i] # 0
       PROVE  /\ f[st][i] \in u[st] /\ f[st][i] \in left /\ f[st][i] \notin left'
              /\ f[st][i] \in InView /\ StreamOf(f[st][i]) = st
              /\ kv.cells[st].pos[i] = -1
              /\ \A k \in Cells : f[st][k] = f[st][i] => k = i
  BY <1>2, <1>3, <1>4, <1>7, <1>10
<1>11. FoundOnce'
  <2> SUFFICES ASSUME NEW n \in 1 .. K + 1, NEW st \in Slots, NEW i \in Cells,
                      sinfos'[n][st][i] # 0
      PROVE  /\ sinfos'[n][st][i] \in InView \ left'
             /\ StreamOf(sinfos'[n][st][i]) = st
             /\ \A m \in 1 .. K + 1, k \in Cells :
                  sinfos'[m][st][k] = sinfos'[n][st][i] => m = n /\ k = i
             /\ \A m \in 1 .. K + 1 : sinfos'[m][st][i] # 0 => m = n
    <3> DEFINE P(v, n, st, i) ==
                 /\ v[n][st][i] \in InView \ left'
                 /\ StreamOf(v[n][st][i]) = st
                 /\ \A m \in 1 .. K + 1, k \in Cells : v[m][st][k] = v[n][st][i] => m = n /\ k = i
                 /\ \A m \in 1 .. K + 1 : v[m][st][i] # 0 => m = n
    <3>1. \A n \in 1 .. K + 1, st \in Slots, i \in Cells :
            sinfos'[n][st][i] # 0 => P(sinfos', n, st, i)
      OBVIOUS
    <3>2. \A n, st, i : StreamOf(sinfos[n][st][i])' = StreamOf(sinfos'[n][st][i])
      BY <1>1, SameStream DEF StreamOf
    <3> QED BY <1>1, <1>5, <3>1, <3>2 DEF FoundOnce
  <2>1. CASE n \in 1 .. K
    <3>1. sinfos'[n] = sinfos[n]
      BY <1>1, <2>1
    <3>2. /\ sinfos[n][st][i] \in InView \ left /\ StreamOf(sinfos[n][st][i]) = st
          /\ \A m \in 1 .. K, k \in Cells : sinfos[m][st][k] = sinfos[n][st][i] => m = n /\ k = i
          /\ \A m \in 1 .. K : sinfos[m][st][i] # 0 => m = n
          /\ kv.cells[st].pos[i] # -1
      BY <1>9, <2>1, <3>1
    <3>3. sinfos[n][st][i] \notin left'
      BY <1>7, <3>2
    <3>4. ASSUME NEW m \in 1 .. K + 1, NEW k \in Cells, sinfos'[m][st][k] = sinfos'[n][st][i]
          PROVE  m = n /\ k = i
      <4>1. CASE m \in 1 .. K
        <5>1. sinfos'[m] = sinfos[m]
          BY <1>1, <4>1
        <5> QED BY <3>1, <3>2, <3>4, <4>1, <5>1
      <4>2. CASE m = K + 1
        <5>1. f[st][k] = sinfos[n][st][i]
          BY <1>1, <3>1, <3>4, <4>2
        <5>2. f[st][k] \in left
          BY <1>10, <3>1, <5>1
        <5> QED BY <3>2, <5>1, <5>2
      <4> QED BY <1>6, <4>1, <4>2
    <3>5. ASSUME NEW m \in 1 .. K + 1, sinfos'[m][st][i] # 0 PROVE m = n
      <4>1. CASE m \in 1 .. K
        <5>1. sinfos'[m] = sinfos[m]
          BY <1>1, <4>1
        <5> QED BY <3>2, <3>5, <4>1, <5>1
      <4>2. CASE m = K + 1
        <5>1. f[st][i] # 0
          BY <1>1, <3>5, <4>2
        <5> QED BY <1>10, <3>2, <5>1
      <4> QED BY <1>6, <4>1, <4>2
    <3> QED BY <3>1, <3>2, <3>3, <3>4, <3>5
  <2>2. CASE n = K + 1
    <3>1. sinfos'[n] = f /\ f[st][i] # 0
      BY <1>1, <2>2
    <3>2. /\ f[st][i] \in left /\ f[st][i] \notin left' /\ f[st][i] \in InView
          /\ StreamOf(f[st][i]) = st /\ kv.cells[st].pos[i] = -1
          /\ \A k \in Cells : f[st][k] = f[st][i] => k = i
      BY <1>10, <3>1
    <3>3. ASSUME NEW m \in 1 .. K + 1, NEW k \in Cells, sinfos'[m][st][k] = sinfos'[n][st][i]
          PROVE  m = n /\ k = i
      <4>1. CASE m \in 1 .. K
        <5>1. sinfos[m][st][k] = f[st][i] /\ sinfos[m][st][k] # 0
          BY <1>1, <3>1, <3>3, <4>1
        <5>2. sinfos[m][st][k] \notin left
          BY <1>9, <4>1, <5>1
        <5> QED BY <3>2, <5>1, <5>2
      <4>2. CASE m = K + 1
        BY <1>1, <2>2, <3>1, <3>2, <3>3, <4>2
      <4> QED BY <1>6, <4>1, <4>2
    <3>4. ASSUME NEW m \in 1 .. K + 1, sinfos'[m][st][i] # 0 PROVE m = n
      <4>1. CASE m \in 1 .. K
        <5>1. sinfos[m][st][i] # 0
          BY <1>1, <3>4, <4>1
        <5>2. kv.cells[st].pos[i] # -1
          BY <1>9, <4>1, <5>1
        <5> QED BY <3>2, <5>2
      <4>2. CASE m = K + 1
        BY <2>2, <4>2
      <4> QED BY <1>6, <4>1, <4>2
    <3> QED BY <3>1, <3>2, <3>3, <3>4
  <2> QED BY <1>6, <2>1, <2>2
<1>12. FoundInOrder'
  <2> SUFFICES ASSUME NEW n \in 1 .. K + 1, NEW st \in Slots, NEW i \in Cells,
                      sinfos'[n][st][i] # 0,
                      NEW j \in InView, j < sinfos'[n][st][i], StreamOf(j) = st
      PROVE  \E m \in 1 .. n, k \in Cells : sinfos'[m][st][k] = j
    BY <1>1, <1>5 DEF FoundInOrder
  <2>1. CASE n \in 1 .. K
    <3>1. sinfos'[n] = sinfos[n]
      BY <1>1, <2>1
    <3>2. \E m \in 1 .. n, k \in Cells : sinfos[m][st][k] = j
      BY <1>1, <1>2, <2>1, <3>1 DEF FoundInOrder
    <3>3. \A m \in 1 .. n : m \in 1 .. K
      BY <2>1
    <3> QED BY <1>1, <3>2, <3>3
  <2>2. CASE n = K + 1
    <3>1. sinfos'[n] = f /\ f[st][i] # 0 /\ j < f[st][i] /\ f[st][i] \in u[st]
      BY <1>1, <1>4, <2>2
    <3>2. CASE j \in left
      <4>1. j \in u[st]
        BY <1>3, <3>1, <3>2
      <4>2. \E k \in Cells : f[st][k] = j
        BY <1>3, <4>1
      <4>3. n \in 1 .. n
        BY <2>2
      <4> QED BY <3>1, <4>2, <4>3
    <3>3. CASE j \notin left
      <4>1. \E m \in 1 .. K, k \in Cells : sinfos[m][st][k] = j
        BY <1>1, <1>2, <3>3 DEF FoundAll
      <4>2. \A m \in 1 .. K : m \in 1 .. n
        BY <2>2
      <4> QED BY <1>1, <4>1, <4>2
    <3> QED BY <3>2, <3>3
  <2> QED BY <1>6, <2>1, <2>2
<1>13. FoundEmpty'
  <2> SUFFICES ASSUME NEW n \in 1 .. K + 1, NEW st \in Slots, NEW i \in Cells,
                      sinfos'[n][st][i] # 0
      PROVE  olds'[n][st].pos[i] = -1 /\ kv'.cells[st].pos[i] # -1
    <3>1. \A n \in 1 .. K + 1 : n <= Len(olds')
      BY <1>1
    <3> QED BY <1>1, <3>1 DEF FoundEmpty
  <2>0. IF f[st][i] # 0 THEN kv'.cells[st].pos[i] = batch[f[st][i]].pos
                        ELSE CellAs(kv.cells[st], kv'.cells[st], i)
    BY PlacingCells
  <2>1. CASE n \in 1 .. K
    <3>1. sinfos[n][st][i] # 0 /\ olds'[n] = olds[n]
      BY <1>1, <2>1
    <3>2. olds[n][st].pos[i] = -1 /\ kv.cells[st].pos[i] # -1
      BY <1>9, <2>1, <3>1
    <3>3. f[st][i] = 0
      BY <1>4, <3>2
    <3> QED BY <2>0, <3>1, <3>2, <3>3 DEF CellAs
  <2>2. CASE n = K + 1
    <3>1. f[st][i] # 0 /\ olds'[n] = kv.cells
      BY <1>1, <2>2
    <3>2. f[st][i] \in InView /\ kv.cells[st].pos[i] = -1
      BY <1>10, <3>1
    <3>3. batch[f[st][i]].pos \in Positions
      BY <3>2, ViewFacts
    <3>4. batch[f[st][i]].pos # -1
      BY <3>3 DEF Positions
    <3> QED BY <2>0, <3>1, <3>2, <3>4
  <2> QED BY <1>6, <2>1, <2>2
<1>14. left' \subseteq InView' /\ at' <= Len(sinfos') + 1 /\ at' = 1 /\ Len(olds') = Len(sinfos')
  <2>1. 1 <= (K + 1) + 1
    OBVIOUS
  <2>2. left' \subseteq InView'
    BY <1>2, <1>5, <1>7
  <2> QED BY <1>1, <1>2, <2>1, <2>2
<1> QED BY <1>1, <1>8, <1>11, <1>12, <1>13, <1>14 DEF Rehearsed

\* prepare() places a ubatch, or gives up.
LEMMA ReadPrepare ==
  ASSUME TInv, ReadInv, Prepare
  PROVE  ReadInv'
<1> DEFINE ub == NextUbatch
           f == slot_info(kv, ub)
           K == Len(sinfos)
<1>1. /\ step = "prepare" /\ UNCHANGED <<params, slots, batch, off, n_batch, at>>
  BY DEF Prepare, view
<1>2. /\ IInv /\ step \in Deciding /\ step # "compute" /\ Len(olds) = K /\ left \subseteq InView
      /\ NoFamilies /\ Phases /\ BatchRises /\ BatchWanted /\ Plain
  BY <1>1, RehearsedFacts DEF ReadInv, Deciding, TInv, CountedInv
<1>3. CASE ~Fits(f, ub) /\ step' = "give_up" /\ UNCHANGED <<kv, left, sinfos, olds, heads>>
  <2>1. UNCHANGED <<kv, params, slots, batch, off, n_batch>> /\ UNCHANGED <<left, sinfos, olds, at>>
    BY <1>1, <1>3
  <2> HIDE DEF f, ub
  <2>2. step \in {"prepare", "restore", "give_up"} /\ step' = "give_up"
    BY <1>1, <1>3
  <2> QED BY <2>1, <2>2, ReadTurn
<1>4. CASE /\ Fits(f, ub)
           /\ kv' = apply_ubatch(kv, f, batch)
           /\ left' = left \ UNION {ub[st] : st \in Slots}
           /\ sinfos' = Append(sinfos, f)
           /\ olds' = Append(olds, kv.cells)
           /\ UNCHANGED step
  <2>1. \A st \in Slots : \A j \in ub[st] : j \in left /\ StreamOf(j) = st
    BY DEF NextUbatch
  <2>2. /\ sinfos \in Seq(SinfoType) /\ olds \in Seq([Slots -> CellsType]) /\ K \in Nat
        /\ left \subseteq 1 .. Len(batch) /\ Len(batch) \in Nat
        /\ kv.head \in [Slots -> 0 .. Size] /\ kv.cells \in [Slots -> CellsType]
    BY <1>2, ReadTypes DEF IInv, RehearsalSound, TInv, Typed, Books
  <2>3. ASSUME NEW st \in Slots, NEW i \in Cells, f[st][i] # 0
        PROVE  /\ f[st][i] \in ub[st] /\ kv.cells[st].pos[i] = -1
               /\ \A k \in Cells : f[st][k] = f[st][i] => k = i
    <3>2. ub[st] \in SUBSET (Nat \ {0})
      <4>1. \A j \in ub[st] : j \in 1 .. Len(batch)
        <5> HIDE DEF ub
        <5> QED BY <2>1, <2>2
      <4>2. \A j \in ub[st] : j \in Nat \ {0}
        <5> HIDE DEF ub
        <5> QED BY <2>2, <4>1
      <4> HIDE DEF ub
      <4> QED BY <4>2
    <3>3. params.n_swa = 0 /\ kv.head[st] \in 0 .. Size
      BY <1>2, <2>2 DEF Plain
    <3>4. slot_info(kv, ub)[st][i] # 0
      BY <2>3
    <3> HIDE DEF f, ub
    <3>5. /\ slot_info(kv, ub)[st][i] \in ub[st] /\ kv.cells[st].pos[i] = -1
          /\ \A k \in Cells : slot_info(kv, ub)[st][k] = slot_info(kv, ub)[st][i] => k = i
      BY <3>2, <3>3, <3>4, InfoExactly
    <3> QED BY <3>5 DEF f
  <2>4. ASSUME NEW st \in Slots, NEW j \in ub[st]
        PROVE  /\ \E i \in Cells : f[st][i] = j
               /\ \A x \in left : x < j /\ StreamOf(x) = st => x \in ub[st]
    <3>1. \E i \in Cells : f[st][i] = j
      <4> HIDE DEF f, ub
      <4> QED BY <1>4 DEF Fits
    <3>2. \A x \in left : x < j /\ StreamOf(x) = st => x \in ub[st]
      BY <2>2, UbatchInOrder
    <3> QED BY <3>1, <3>2
  <2> HIDE DEF f, ub, K
  <2>5. f \in SinfoType
    <3>1. \A st \in Slots : ub[st] \subseteq 1 .. Len(batch)
      BY <2>1, <2>2
    <3> QED BY <2>2, <3>1, FoundPlaces DEF f
  <2>6. /\ Len(sinfos') = K + 1 /\ sinfos'[K + 1] = f
        /\ \A n \in 1 .. K : sinfos'[n] = sinfos[n]
    BY <1>4, <2>2, <2>5 DEF K
  <2>7. /\ Len(olds') = K + 1 /\ olds'[K + 1] = kv.cells
        /\ \A n \in 1 .. K : olds'[n] = olds[n]
    <3> DEFINE c == kv.cells
    <3>1. c \in [Slots -> CellsType] /\ olds' = Append(olds, c)
      BY <1>4, <2>2
    <3> HIDE DEF c
    <3>2. /\ Len(olds') = K + 1 /\ olds'[K + 1] = c
          /\ \A n \in 1 .. K : olds'[n] = olds[n]
      BY <1>2, <2>2, <3>1
    <3> QED BY <3>2 DEF c
  <2>8. Placing(ub, f, K)
    <3>1. Len(sinfos) = K /\ step' = "prepare"
      BY <1>1, <1>4 DEF K
    <3> QED BY <1>1, <1>2, <1>4, <2>1, <2>3, <2>4, <2>6, <2>7, <3>1 DEF Placing
  <2>9. kv'.copies = << >> /\ Owners' /\ Settled' /\ PromptsCached' /\ NothingBeyond' /\ Rehearsed'
    BY <1>2, <2>2, <2>8, PlacingKeeps, PlacingFound
  <2>10. NoFamilies' /\ Plain' /\ BatchRises' /\ BatchWanted'
    BY <1>1, <1>2 DEF NoFamilies, Plain, BatchRises, BatchWanted, Wanted
  <2>11. Phases'
    BY <1>1, <1>2, <1>4 DEF Phases
  <2> QED BY <2>9, <2>10, <2>11 DEF ReadInv
<1> QED BY <1>3, <1>4 DEF Prepare

\* The rehearsal turns back, and ends.
LEMMA ReadTurns ==
  ASSUME TInv, ReadInv, Prepared \/ Restored
  PROVE  ReadInv'
<1>1. CASE Prepared
  BY <1>1, ReadTurn DEF Prepared, view, rehearsal
<1>2. CASE Restored
  <2>1. /\ step \in {"restore", "give_up"} /\ olds = << >>
        /\ step' = IF step = "restore" THEN "compute" ELSE "no_slot"
        /\ UNCHANGED <<kv, params, slots, batch, off, n_batch>>
        /\ UNCHANGED <<left, sinfos, olds, at>>
    BY <1>2 DEF Restored, view, rehearsal
  <2>2. step = "restore" => left = {}
    BY <2>1, RehearsedFacts DEF Deciding
  <2> QED BY <2>1, <2>2, ReadTurn
<1> QED BY <1>1, <1>2

\* The rehearsal takes back the cells f of the N-th ubatch.
Undoing(f, N) ==
  /\ step \in {"restore", "give_up"} /\ N <= Len(sinfos) /\ Len(olds) = N /\ Len(olds') = N - 1
  /\ UNCHANGED <<params, slots, step, batch, off, n_batch, at>>
  /\ UNCHANGED <<left, sinfos>>
  /\ sinfos[N] = f
  /\ \A n \in 1 .. N - 1 : olds'[n] = olds[n]
  /\ SameBuffers(kv, kv')
  /\ \A st \in Slots :
       /\ kv'.cells[st].has_shift = kv.cells[st].has_shift
       /\ \A i \in Cells : IF f[st][i] # 0 THEN CellGone(kv'.cells[st], i)
                                           ELSE CellAs(kv.cells[st], kv'.cells[st], i)

\* What is taken back was filled by the rehearsal only.
LEMMA UndoingKeeps ==
  ASSUME IInv, ReadInv, NEW f, NEW N \in Nat \ {0}, Undoing(f, N)
  PROVE  kv'.copies = << >> /\ Owners' /\ Settled' /\ PromptsCached' /\ NothingBeyond'
<1>1. /\ step \in {"restore", "give_up"} /\ step' = step
      /\ UNCHANGED <<params, slots, batch, off, at>>
      /\ N <= Len(sinfos) /\ Len(olds) = N /\ Len(olds') = N - 1 /\ sinfos' = sinfos
      /\ sinfos[N] = f
  BY DEF Undoing
<1>2. /\ SameBuffers(kv, kv')
      /\ \A st \in Slots, i \in Cells :
           IF f[st][i] # 0 THEN CellGone(kv'.cells[st], i)
                           ELSE CellAs(kv.cells[st], kv'.cells[st], i)
  BY DEF Undoing
<1>3. step \in Deciding /\ step # "compute" /\ Owners /\ kv.copies = << >> /\ FoundOnce
  BY <1>1, RehearsedFacts DEF Deciding, ReadInv
<1>4. \A s, p : Known(s, p)
  BY <1>1, KnowsAll
<1>5. \A s, p : Owed(s, p)' <=> Owed(s, p)
  BY <1>1, <1>3, OwedSame
<1>6. \A s : seq_to_stream(s)' = seq_to_stream(s)
  BY <1>1, SameStream
<1>7. ASSUME NEW st \in Slots, NEW i \in Cells
      PROVE  Placed(st, i)' <=> Placed(st, i) /\ f[st][i] = 0
  <2>1. Placed(st, i) <=> \E n \in 1 .. N : sinfos[n][st][i] # 0
    BY <1>1 DEF Placed
  <2>2. Placed(st, i)' <=> \E n \in 1 .. N - 1 : sinfos[n][st][i] # 0
    BY <1>1 DEF Placed
  <2>3. \A n \in 1 .. N : n \in 1 .. N - 1 \/ n = N
    OBVIOUS
  <2>4. \A n \in 1 .. N - 1 : n \in 1 .. N /\ n # N
    OBVIOUS
  <2>5. N \in 1 .. N /\ \A n \in 1 .. N : n \in 1 .. Len(sinfos)
    BY <1>1
  <2>6. \A n \in 1 .. N : sinfos[n][st][i] # 0 /\ f[st][i] # 0 => n = N
    BY <1>1, <1>3, <2>5 DEF FoundOnce
  <2> QED BY <1>1, <2>1, <2>2, <2>3, <2>4, <2>5, <2>6
<1>8. ASSUME NEW s \in Slots, NEW i \in Cells, NEW p
      PROVE  /\ Holds(s, p, i)' <=> Holds(s, p, i)
             /\ Holds(s, p, i) =>
                  /\ kv'.data[seq_to_stream(s)][i] = kv.data[seq_to_stream(s)][i]
                  /\ kv'.cells[seq_to_stream(s)].shift[i] = kv.cells[seq_to_stream(s)].shift[i]
  <2> DEFINE st == seq_to_stream(s)
  <2>1. st \in Slots
    BY StreamType
  <2>2. CASE f[st][i] # 0
    <3>1. Placed(st, i)
      <4>1. N \in 1 .. Len(olds)
        BY <1>1
      <4> QED BY <1>1, <2>2, <4>1 DEF Placed
    <3>2. ~Holds(s, p, i)
      BY <3>1 DEF Holds
    <3>3. kv'.cells[st].seq[i] = {}
      BY <1>2, <2>1, <2>2 DEF CellGone
    <3>4. ~Holds(s, p, i)'
      BY <1>6, <3>3 DEF Holds
    <3> QED BY <3>2, <3>4
  <2>3. CASE f[st][i] = 0
    <3>1. CellAs(kv.cells[st], kv'.cells[st], i)
      BY <1>2, <2>1, <2>3
    <3>2. Placed(st, i)' <=> Placed(st, i)
      BY <1>6, <1>7, <2>1, <2>3
    <3>3. kv'.data[st][i] = kv.data[st][i]
      BY <1>2, <2>1 DEF SameBuffers
    <3> QED BY <1>6, <3>1, <3>2, <3>3 DEF Holds, CellAs
  <2> QED BY <2>2, <2>3
<1>9. PromptsCached'
  <2> SUFFICES ASSUME NEW s \in Slots, NEW p \in 0 .. Len(slots[s].prompt) - 1
      PROVE  CachedAt(s, p)'
    BY <1>1 DEF PromptsCached
  <2>1. CachedAt(s, p)
    BY <1>4 DEF ReadInv, PromptsCached
  <2>2. slots'[s].prompt[p + 1] = slots[s].prompt[p + 1]
    BY <1>1
  <2> QED BY <1>1, <1>5, <1>8, <2>1, <2>2, CachedFrame
<1>10. Owners'
  <2> SUFFICES ASSUME NEW st \in Slots, NEW i \in Cells,
                      NEW x \in kv'.cells[st].seq[i], NEW y \in kv'.cells[st].seq[i]
      PROVE  x = y
    BY DEF Owners, OneOwner
  <2>1. CASE f[st][i] # 0
    BY <1>2, <2>1 DEF CellGone
  <2>2. CASE f[st][i] = 0
    <3>1. kv'.cells[st].seq[i] = kv.cells[st].seq[i]
      BY <1>2, <2>2 DEF CellAs
    <3> QED BY <1>3, <3>1 DEF Owners, OneOwner
  <2> QED BY <2>1, <2>2
<1>11. Settled'
  <2> SUFFICES ASSUME NEW st \in Slots, NEW i \in Cells, kv'.cells[st].pos[i] # -1
      PROVE  kv'.cells[st].shift[i] = 0
    BY DEF Settled
  <2>1. CASE f[st][i] # 0
    BY <1>2, <2>1 DEF CellGone
  <2>2. CASE f[st][i] = 0
    <3>1. CellAs(kv.cells[st], kv'.cells[st], i)
      BY <1>2, <2>2
    <3>2. kv.cells[st].pos[i] # -1
      BY <3>1 DEF CellAs
    <3>3. kv.cells[st].shift[i] = 0
      BY <1>3, <3>2, SettledNow
    <3> QED BY <3>1, <3>3 DEF CellAs
  <2> QED BY <2>1, <2>2
<1>12. NothingBeyond'
  BY <1>1, <1>8 DEF ReadInv, NothingBeyond
<1>13. kv'.copies = << >>
  BY <1>2, <1>3 DEF SameBuffers
<1> QED BY <1>9, <1>10, <1>11, <1>12, <1>13

\* The cells of the ubatches before are still filled, those taken back are empty.
LEMMA UndoingFound ==
  ASSUME IInv, ReadInv, NEW f, NEW N \in Nat \ {0}, Undoing(f, N)
  PROVE  Rehearsed'
<1>1. /\ step \in {"restore", "give_up"} /\ step' = step
      /\ UNCHANGED <<params, batch, off, n_batch>>
      /\ N <= Len(sinfos) /\ Len(olds) = N /\ Len(olds') = N - 1 /\ UNCHANGED <<left, sinfos, at>>
      /\ sinfos[N] = f /\ \A n \in 1 .. N - 1 : olds'[n] = olds[n]
  BY DEF Undoing
<1>2. \A st \in Slots, i \in Cells :
           IF f[st][i] # 0 THEN CellGone(kv'.cells[st], i)
                           ELSE CellAs(kv.cells[st], kv'.cells[st], i)
  BY DEF Undoing
<1>3. /\ left \subseteq InView
      /\ step = "restore" => left = {}
      /\ at <= Len(sinfos) + 1 /\ at = 1
      /\ FoundAll /\ FoundOnce /\ FoundInOrder /\ FoundEmpty
  BY <1>1, RehearsedFacts DEF Deciding
<1>4. InView' = InView /\ \A j : StreamOf(j)' = StreamOf(j)
  BY <1>1, ViewSame
<1>5. FoundAll' /\ FoundOnce' /\ FoundInOrder'
  BY <1>1, <1>3, <1>4 DEF FoundAll, FoundOnce, FoundInOrder
<1>6. FoundEmpty'
  <2> SUFFICES ASSUME NEW n \in 1 .. Len(sinfos), NEW st \in Slots, NEW i \in Cells,
                      sinfos[n][st][i] # 0
      PROVE  IF n <= N - 1 THEN olds'[n][st].pos[i] = -1 /\ kv'.cells[st].pos[i] # -1
                           ELSE kv'.cells[st].pos[i] = -1
    BY <1>1 DEF FoundEmpty
  <2>0. /\ \A m \in 1 .. Len(sinfos) : sinfos[m][st][i] # 0 => m = n
        /\ IF n <= N THEN olds[n][st].pos[i] = -1 /\ kv.cells[st].pos[i] # -1
                     ELSE kv.cells[st].pos[i] = -1
    BY <1>1, <1>3 DEF FoundOnce, FoundEmpty
  <2>1. CASE n = N
    <3>1. kv'.cells[st].pos[i] = -1
      BY <1>1, <1>2, <2>1 DEF CellGone
    <3>2. ~(n <= N - 1)
      BY <2>1
    <3> QED BY <3>1, <3>2
  <2>2. CASE n # N
    <3>1. N \in 1 .. Len(sinfos)
      BY <1>1
    <3>2. f[st][i] = 0
      BY <1>1, <2>0, <2>2, <3>1
    <3>3. kv'.cells[st].pos[i] = kv.cells[st].pos[i]
      BY <1>2, <3>2 DEF CellAs
    <3>4. n <= N <=> n <= N - 1
      BY <2>2
    <3>5. n <= N - 1 => olds'[n] = olds[n]
      BY <1>1
    <3> QED BY <2>0, <3>3, <3>4, <3>5
  <2> QED BY <2>1, <2>2
<1>7. /\ left' \subseteq InView' /\ step' \in {"restore", "give_up"}
      /\ step' = "restore" => left' = {}
      /\ at' <= Len(sinfos') + 1 /\ at' = 1
  BY <1>1, <1>3, <1>4
<1> QED BY <1>5, <1>6, <1>7 DEF Rehearsed

\* The rehearsal of the last ubatch is taken back.
LEMMA ReadRestore ==
  ASSUME TInv, ReadInv, RestoreOne
  PROVE  ReadInv'
<1> DEFINE N == Len(olds)
           f == sinfos[N]
<1>1. /\ step \in {"restore", "give_up"} /\ olds # << >>
      /\ UNCHANGED <<params, slots, step, batch, off, n_batch, at>>
      /\ UNCHANGED <<left, sinfos>>
      /\ kv' = Restore(kv, olds[N], heads[N], f)
      /\ olds' = SubSeq(olds, 1, N - 1)
  BY DEF RestoreOne, view
<1>2. /\ IInv /\ NoFamilies /\ Plain /\ Phases /\ BatchRises /\ BatchWanted /\ FoundEmpty
  BY <1>1, RehearsedFacts DEF ReadInv, Deciding, TInv, CountedInv
<1>3. /\ olds \in Seq([Slots -> CellsType]) /\ N \in Nat \ {0} /\ N <= Len(sinfos)
      /\ \A n \in 1 .. Len(olds), st \in Slots : Copied(olds[n][st])
  <2>1. /\ olds \in Seq([Slots -> CellsType]) /\ Len(olds) <= Len(sinfos)
        /\ \A n \in 1 .. Len(olds), st \in Slots : Copied(olds[n][st])
    BY <1>2 DEF IInv, RehearsalSound
  <2>2. Len(olds) # 0 /\ Len(olds) \in Nat
    BY <1>1, <2>1
  <2> QED BY <2>1, <2>2
<1> HIDE DEF N
<1>4. Len(olds) = N /\ N \in 1 .. Len(olds) /\ N \in 1 .. Len(sinfos)
  <2>1. Len(olds) = N
    BY DEF N
  <2>2. Len(sinfos) \in Nat
    BY <1>2 DEF IInv, RehearsalSound
  <2> QED BY <1>3, <2>1, <2>2
<1>5. Len(olds') = N - 1 /\ \A n \in 1 .. N - 1 : olds'[n] = olds[n]
  <2>1. N - 1 \in Nat /\ N - 1 <= Len(olds)
    BY <1>3, <1>4
  <2> QED BY <1>1, <1>3, <2>1, FirstOf
<1>6. \A st \in Slots : Copied(olds[N][st])
  BY <1>3, <1>4
<1>7. \A st \in Slots, i \in Cells : f[st][i] # 0 => olds[N][st].pos[i] = -1
  BY <1>2, <1>4 DEF FoundEmpty
<1>8. /\ SameBuffers(kv, kv')
      /\ \A st \in Slots :
       /\ kv'.cells[st].has_shift = kv.cells[st].has_shift
       /\ \A i \in Cells : IF f[st][i] # 0 THEN CellGone(kv'.cells[st], i)
                                           ELSE CellAs(kv.cells[st], kv'.cells[st], i)
  <2> HIDE DEF f
  <2> QED BY <1>1, <1>6, <1>7, RestoreEffect
<1>9. Undoing(f, N)
  BY <1>1, <1>3, <1>4, <1>5, <1>8 DEF Undoing
<1>10. kv'.copies = << >> /\ Owners' /\ Settled' /\ PromptsCached' /\ NothingBeyond' /\ Rehearsed'
  <2> HIDE DEF f
  <2> QED BY <1>2, <1>3, <1>9, UndoingKeeps, UndoingFound
<1>11. NoFamilies' /\ Plain' /\ BatchRises' /\ BatchWanted'
  BY <1>1, <1>2 DEF NoFamilies, Plain, BatchRises, BatchWanted, Wanted
<1>12. Phases'
  BY <1>1, <1>2 DEF Phases
<1> QED BY <1>10, <1>11, <1>12 DEF ReadInv

\* The N-th ubatch is computed, in the cells f found for it.
Computing(f, N) ==
  /\ step = "compute" /\ step' = "compute" /\ N <= Len(sinfos) /\ at = N /\ at' = N + 1
  /\ UNCHANGED <<params, slots, batch, off, n_batch>>
  /\ UNCHANGED <<left, sinfos, olds>>
  /\ sinfos[N] = f
  /\ kv'.copies = kv.copies
  /\ \A st \in Slots, i \in Cells :
       IF f[st][i] # 0
       THEN /\ kv'.cells[st].pos[i] = batch[f[st][i]].pos
            /\ kv'.cells[st].seq[i] = {batch[f[st][i]].seq}
            /\ kv'.cells[st].shift[i] = 0
            /\ kv'.data[st][i] = [tok |-> batch[f[st][i]].tok, at |-> batch[f[st][i]].pos]
       ELSE CellAs(kv.cells[st], kv'.cells[st], i) /\ kv'.data[st][i] = kv.data[st][i]

\* What is known of the cells found for the ubatch.
LEMMA ComputingFound ==
  ASSUME IInv, ReadInv, NEW f, NEW N \in Nat \ {0}, Computing(f, N),
         NEW st \in Slots, NEW i \in Cells, f[st][i] # 0
  PROVE  /\ f[st][i] \in off + 1 .. Len(batch) /\ StreamOf(f[st][i]) = st
         /\ kv.cells[st].pos[i] = -1
         /\ batch[f[st][i]].seq \in Slots /\ batch[f[st][i]].pos \in Positions
         /\ Wanted(f[st][i], batch[f[st][i]])
         /\ ~Computed(f[st][i])
         /\ \A m \in 1 .. Len(sinfos), k \in Cells : sinfos[m][st][k] = f[st][i] => m = N /\ k = i
         /\ \A m \in 1 .. Len(sinfos) : sinfos[m][st][i] # 0 => m = N
<1>1. /\ step = "compute" /\ at = N /\ N <= Len(sinfos) /\ sinfos[N] = f
  BY DEF Computing
<1>2. FoundOnce /\ FoundEmpty /\ BatchWanted /\ olds = << >>
  BY <1>1, RehearsedFacts DEF Deciding, ReadInv, Phases
<1>3. N \in 1 .. Len(sinfos)
  BY <1>1
<1>4. /\ f[st][i] \in InView /\ StreamOf(f[st][i]) = st
      /\ \A m \in 1 .. Len(sinfos), k \in Cells : sinfos[m][st][k] = f[st][i] => m = N /\ k = i
      /\ \A m \in 1 .. Len(sinfos) : sinfos[m][st][i] # 0 => m = N
  BY <1>1, <1>2, <1>3 DEF FoundOnce
<1>5. kv.cells[st].pos[i] = -1
  <2>1. Len(olds) = 0
    BY <1>2
  <2>2. ~(N <= Len(olds)) /\ ~(N < at)
    BY <1>1, <2>1
  <2> QED BY <1>1, <1>2, <1>3, <2>2 DEF FoundEmpty
<1>6. /\ f[st][i] \in off + 1 .. Len(batch)
      /\ batch[f[st][i]].seq \in Slots /\ batch[f[st][i]].pos \in Positions
  BY <1>4, ViewFacts
<1>7. Wanted(f[st][i], batch[f[st][i]])
  BY <1>2, <1>6 DEF BatchWanted
<1>8. ~Computed(f[st][i])
  <2> SUFFICES ASSUME NEW n \in 1 .. N - 1, NEW k \in Cells, sinfos[n][st][k] = f[st][i]
      PROVE  FALSE
    BY <1>1, <1>4 DEF Computed
  <2>1. n \in 1 .. Len(sinfos) /\ n # N
    BY <1>3
  <2> QED BY <1>4, <2>1
<1> QED BY <1>4, <1>5, <1>6, <1>7, <1>8

\* Whether cell i of its stream holds position p of sequence s, before and
\* after.
ComputingAt(f, s, p, i) ==
  LET st == seq_to_stream(s)
  IN  IF f[st][i] # 0
      THEN /\ ~Holds(s, p, i)
           /\ Holds(s, p, i)' <=> batch[f[st][i]].seq = s /\ batch[f[st][i]].pos = p
      ELSE /\ Holds(s, p, i)' <=> Holds(s, p, i)
           /\ CellAs(kv.cells[st], kv'.cells[st], i)
           /\ kv'.data[st][i] = kv.data[st][i]

\* Which cells hold a position afterwards, and what is still owed.
LEMMA ComputingHolds ==
  ASSUME IInv, ReadInv, NEW f, NEW N \in Nat \ {0}, Computing(f, N),
         NEW s \in Slots, NEW p
  PROVE  /\ \A i \in Cells : ComputingAt(f, s, p, i)
         /\ Owed(s, p)' <=> \E j \in off + 1 .. Len(batch) :
                              /\ batch[j].seq = s /\ batch[j].pos = p /\ ~Computed(j)
                              /\ \A i \in Cells : f[seq_to_stream(s)][i] # j
<1>1. /\ step = "compute" /\ step' = "compute" /\ at = N /\ at' = N + 1 /\ N <= Len(sinfos)
      /\ UNCHANGED <<params, batch, off, sinfos, olds>> /\ sinfos[N] = f
      /\ \A st \in Slots, i \in Cells :
           IF f[st][i] # 0
           THEN /\ kv'.cells[st].pos[i] = batch[f[st][i]].pos
                /\ kv'.cells[st].seq[i] = {batch[f[st][i]].seq}
           ELSE CellAs(kv.cells[st], kv'.cells[st], i) /\ kv'.data[st][i] = kv.data[st][i]
  BY DEF Computing
<1>2. olds = << >> /\ olds' = << >>
  BY <1>1 DEF ReadInv, Phases
<1>3. \A t, i : ~Placed(t, i) /\ ~Placed(t, i)'
  BY <1>2, EmptyRange DEF Placed
<1>4. seq_to_stream(s) \in Slots /\ \A t : seq_to_stream(t)' = seq_to_stream(t)
  BY <1>1, StreamType, SameStream
<1> DEFINE st == seq_to_stream(s)
<1>5. ASSUME NEW i \in Cells
      PROVE  ComputingAt(f, s, p, i)
  <2>1. CASE f[st][i] # 0
    <3>1. ~Holds(s, p, i)
      BY <1>4, <2>1, ComputingFound, HeldInUse
    <3>2. Holds(s, p, i)' <=> s \in kv'.cells[st].seq[i] /\ kv'.cells[st].pos[i] = p
      BY <1>3, <1>4 DEF Holds
    <3>3. /\ kv'.cells[st].pos[i] = batch[f[st][i]].pos
          /\ kv'.cells[st].seq[i] = {batch[f[st][i]].seq}
      BY <1>1, <1>4, <2>1
    <3> QED BY <2>1, <3>1, <3>2, <3>3 DEF ComputingAt
  <2>2. CASE f[st][i] = 0
    <3>1. CellAs(kv.cells[st], kv'.cells[st], i) /\ kv'.data[st][i] = kv.data[st][i]
      BY <1>1, <1>4, <2>2
    <3>2. Holds(s, p, i)' <=> Holds(s, p, i)
      BY <1>3, <1>4, <3>1 DEF Holds, CellAs
    <3> QED BY <2>2, <3>1, <3>2 DEF ComputingAt
  <2> QED BY <2>1, <2>2
<1>6. ASSUME NEW j, StreamOf(j) = seq_to_stream(s)
      PROVE  Computed(j)' <=> Computed(j) \/ \E i \in Cells : f[seq_to_stream(s)][i] = j
  <2>1. StreamOf(j)' = seq_to_stream(s)
    BY <1>1, <1>4, <1>6 DEF StreamOf
  <2>2. Computed(j)' <=> \E n \in 1 .. N, i \in Cells : sinfos[n][seq_to_stream(s)][i] = j
    <3>1. (N + 1) - 1 = N
      OBVIOUS
    <3> QED BY <1>1, <2>1, <3>1 DEF Computed
  <2>3. Computed(j) <=> \E n \in 1 .. N - 1, i \in Cells : sinfos[n][seq_to_stream(s)][i] = j
    BY <1>1, <1>6 DEF Computed
  <2>4. /\ \A n \in 1 .. N : n \in 1 .. N - 1 \/ n = N
        /\ \A n \in 1 .. N - 1 : n \in 1 .. N
        /\ N \in 1 .. N
    OBVIOUS
  <2> QED BY <1>1, <2>2, <2>3, <2>4
<1>7. Owed(s, p)' <=> \E j \in off + 1 .. Len(batch) :
                        batch[j].seq = s /\ batch[j].pos = p /\ ~Computed(j)'
  BY <1>1 DEF Owed
<1>8. \A j : batch[j].seq = s => StreamOf(j) = seq_to_stream(s)
  BY DEF StreamOf
<1>9. Owed(s, p)' <=> \E j \in off + 1 .. Len(batch) :
                              /\ batch[j].seq = s /\ batch[j].pos = p /\ ~Computed(j)
                              /\ \A i \in Cells : f[seq_to_stream(s)][i] # j
  BY <1>6, <1>7, <1>8
<1> QED BY <1>5, <1>9

\* Two places of the batch with the same sequence and position are one.
LEMMA OnePlace ==
  ASSUME IInv, BatchRises, NEW j \in off + 1 .. Len(batch), NEW k \in off + 1 .. Len(batch),
         batch[j].seq = batch[k].seq, batch[j].pos = batch[k].pos
  PROVE  j = k
<1>1. off \in Nat /\ Len(batch) \in Nat /\ j \in Int /\ k \in Int
  BY ViewFacts
<1>2. batch[j].pos \in Int /\ batch[k].pos \in Int
  <2>1. j \in 1 .. Len(batch) /\ k \in 1 .. Len(batch)
    BY <1>1
  <2> QED BY <2>1, ViewFacts DEF Positions
<1>3. ~(j < k) /\ ~(k < j)
  BY <1>2 DEF BatchRises
<1> QED BY <1>1, <1>3

\* A computed token is where its slot expects it, and the others stay where
\* they are.
LEMMA ComputingCached ==
  ASSUME IInv, ReadInv, NEW f, NEW N \in Nat \ {0}, Computing(f, N),
         NEW s \in Slots, NEW p, p \in 0 .. Len(slots[s].prompt) - 1
  PROVE  CachedAt(s, p)'
<1> DEFINE st == seq_to_stream(s)
           mine(i) == f[st][i] # 0 /\ batch[f[st][i]].seq = s /\ batch[f[st][i]].pos = p
<1>1. /\ step = "compute" /\ UNCHANGED <<params, slots, batch, off>>
      /\ \A i \in Cells : f[st][i] # 0 =>
           /\ kv'.cells[st].shift[i] = 0
           /\ kv'.data[st][i] = [tok |-> batch[f[st][i]].tok, at |-> batch[f[st][i]].pos]
  BY StreamType DEF Computing
<1>2. BatchRises /\ CachedAt(s, p)
  <2>1. Known(s, p)
    BY <1>1, KnowsAll
  <2> QED BY <2>1 DEF ReadInv, PromptsCached
<1>3. st \in Slots /\ seq_to_stream(s)' = st
  BY <1>1, StreamType, SameStream
<1>4. \A i \in Cells :
        IF f[st][i] # 0
        THEN ~Holds(s, p, i) /\ (Holds(s, p, i)' <=> mine(i))
        ELSE /\ Holds(s, p, i)' <=> Holds(s, p, i)
             /\ CellAs(kv.cells[st], kv'.cells[st], i)
             /\ kv'.data[st][i] = kv.data[st][i]
  <2>1. \A i \in Cells : ComputingAt(f, s, p, i)
    BY ComputingHolds
  <2> QED BY <2>1 DEF ComputingAt
<1>5. Owed(s, p)' <=> \E j \in off + 1 .. Len(batch) :
                        /\ batch[j].seq = s /\ batch[j].pos = p /\ ~Computed(j)
                        /\ \A i \in Cells : f[st][i] # j
  BY ComputingHolds
<1>6. ASSUME NEW i \in Cells, mine(i)
      PROVE  /\ f[st][i] \in off + 1 .. Len(batch) /\ ~Computed(f[st][i])
             /\ Owed(s, p)
             /\ p < Len(slots[s].prompt) /\ batch[f[st][i]].tok = slots[s].prompt[p + 1]
             /\ \A k \in Cells : f[st][k] = f[st][i] => k = i
  <2>1. /\ f[st][i] \in off + 1 .. Len(batch) /\ ~Computed(f[st][i])
        /\ Wanted(f[st][i], batch[f[st][i]])
        /\ \A m \in 1 .. Len(sinfos), k \in Cells : sinfos[m][st][k] = f[st][i] => m = N /\ k = i
    BY <1>3, <1>6, ComputingFound
  <2>2. Owed(s, p)
    BY <1>6, <2>1 DEF Owed
  <2>3. N \in 1 .. Len(sinfos) /\ sinfos[N] = f
    BY DEF Computing
  <2>4. p < Len(slots[s].prompt) /\ batch[f[st][i]].tok = slots[s].prompt[p + 1]
    BY <1>6, <2>1 DEF Wanted
  <2> QED BY <2>1, <2>2, <2>3, <2>4
<1>7. CASE ~Owed(s, p)
  <2>1. \A i \in Cells : ~mine(i)
    BY <1>6, <1>7
  <2>2. ~Owed(s, p)'
    BY <1>5, <1>7 DEF Owed
  <2>3. \A i \in Cells : Holds(s, p, i)' <=> Holds(s, p, i)
    BY <1>4, <2>1
  <2>4. \A i \in Cells : Holds(s, p, i) =>
           /\ kv'.data[st][i] = kv.data[st][i]
           /\ kv'.cells[st].shift[i] = kv.cells[st].shift[i]
    BY <1>4 DEF CellAs
  <2> HIDE DEF mine
  <2>5. slots'[s].prompt[p + 1] = slots[s].prompt[p + 1]
    BY <1>1
  <2> QED BY <1>1, <1>2, <1>7, <2>2, <2>3, <2>4, <2>5, CachedFrame
<1>8. CASE Owed(s, p)
  <2>1. \A i \in Cells : ~Holds(s, p, i)
    BY <1>2, <1>8 DEF CachedAt
  <2>2. \A i \in Cells : Holds(s, p, i)' <=> mine(i)
    BY <1>4, <2>1
  <2>3. CASE Owed(s, p)'
    <3>1. PICK j \in off + 1 .. Len(batch) :
                 /\ batch[j].seq = s /\ batch[j].pos = p /\ ~Computed(j)
                 /\ \A i \in Cells : f[st][i] # j
      BY <1>5, <2>3
    <3>2. \A i \in Cells : ~mine(i)
      BY <1>2, <1>6, <3>1, OnePlace
    <3>3. \A i \in Cells : ~Holds(s, p, i)'
      BY <2>2, <3>2
    <3> QED BY <2>3, <3>3 DEF CachedAt
  <2>4. CASE ~Owed(s, p)'
    <3>1. PICK j \in off + 1 .. Len(batch) : batch[j].seq = s /\ batch[j].pos = p /\ ~Computed(j)
      BY <1>8 DEF Owed
    <3>2. PICK i \in Cells : f[st][i] = j
      BY <1>5, <2>4, <3>1
    <3>3. j # 0
      BY ViewFacts
    <3>4. mine(i)
      BY <3>1, <3>2, <3>3
    <3>5. \A k \in Cells : mine(k) => k = i
      <4> SUFFICES ASSUME NEW k \in Cells, mine(k) PROVE k = i
        OBVIOUS
      <4>1. f[st][k] = j
        BY <1>2, <1>6, <3>1, OnePlace
      <4> QED BY <1>6, <3>2, <4>1
    <3>6. Keys(s, p, i)'
      <4>1. /\ kv'.cells[st].shift[i] = 0
            /\ kv'.data[st][i] = [tok |-> slots[s].prompt[p + 1], at |-> p]
        BY <1>1, <1>6, <3>4
      <4>2. p - 0 = p
        OBVIOUS
      <4> QED BY <1>1, <1>3, <4>1, <4>2 DEF Keys
    <3>7. \A k \in Cells : Holds(s, p, k)' => k = i
      BY <2>2, <3>5
    <3>8. Holds(s, p, i)'
      BY <2>2, <3>4
    <3> HIDE DEF mine
    <3> QED BY <2>4, <3>6, <3>7, <3>8 DEF CachedAt
  <2> QED BY <2>3, <2>4
<1> QED BY <1>7, <1>8

\* A computed ubatch.
LEMMA ReadCompute ==
  ASSUME TInv, ReadInv, ComputeUbatch
  PROVE  ReadInv'
<1> DEFINE N == at
           f == sinfos[N]
<1>1. /\ step = "compute" /\ step' = "compute" /\ at <= Len(sinfos) /\ at' = at + 1
      /\ UNCHANGED <<params, slots, batch, off, n_batch>>
      /\ UNCHANGED <<left, sinfos, olds>>
      /\ kv' = Compute(kv, f, batch)
  BY DEF ComputeUbatch, view
<1>2. /\ IInv /\ Typed(kv) /\ NoFamilies /\ Plain /\ Phases /\ BatchRises /\ BatchWanted
      /\ FoundAll /\ FoundOnce /\ FoundInOrder /\ FoundEmpty /\ left = {} /\ olds = << >>
      /\ step \in Deciding
  BY <1>1, RehearsedFacts DEF ReadInv, Deciding, TInv, CountedInv, Phases
<1>3. N \in Nat \ {0} /\ Books(kv.cells)
  BY <1>2 DEF IInv, RehearsalSound
<1>4. N \in 1 .. Len(sinfos) /\ sinfos[N] = f /\ ~(N <= Len(olds)) /\ ~(N < at)
  BY <1>1, <1>2, <1>3
<1>5. \A st \in Slots, i \in Cells : f[st][i] # 0 => kv.cells[st].pos[i] = -1
  BY <1>2, <1>4 DEF FoundEmpty
<1>6. at = N /\ at' = N + 1
  BY <1>1
<1> HIDE DEF N, f
<1>7. Computing(f, N)
  <2>1. /\ SameBuffers(kv, apply_ubatch(kv, f, batch))
        /\ \A st \in Slots, i \in Cells :
             IF f[st][i] # 0
             THEN /\ apply_ubatch(kv, f, batch).cells[st].pos[i] = batch[f[st][i]].pos
                  /\ apply_ubatch(kv, f, batch).cells[st].seq[i] = {batch[f[st][i]].seq}
                  /\ apply_ubatch(kv, f, batch).cells[st].shift[i] = 0
             ELSE CellAs(kv.cells[st], apply_ubatch(kv, f, batch).cells[st], i)
    BY <1>3, <1>5, ApplyEffect
  <2>2. /\ kv'.cells = apply_ubatch(kv, f, batch).cells
        /\ kv'.copies = kv.copies
        /\ \A st \in Slots, i \in Cells :
                  kv'.data[st][i] = IF f[st][i] # 0
                                  THEN [tok |-> batch[f[st][i]].tok, at  |-> batch[f[st][i]].pos]
                                  ELSE kv.data[st][i]
    BY <1>1, <1>2, ComputeEffect
  <2>3. N <= Len(sinfos) /\ at = N /\ at' = N + 1 /\ sinfos[N] = f
    BY <1>1, <1>4, <1>6
  <2>4. \A st \in Slots, i \in Cells :
       IF f[st][i] # 0
       THEN /\ kv'.cells[st].pos[i] = batch[f[st][i]].pos
            /\ kv'.cells[st].seq[i] = {batch[f[st][i]].seq}
            /\ kv'.cells[st].shift[i] = 0
            /\ kv'.data[st][i] = [tok |-> batch[f[st][i]].tok, at |-> batch[f[st][i]].pos]
       ELSE CellAs(kv.cells[st], kv'.cells[st], i) /\ kv'.data[st][i] = kv.data[st][i]
    BY <2>1, <2>2
  <2> QED BY <1>1, <2>2, <2>3, <2>4 DEF Computing
<1>8. PromptsCached'
  BY <1>1, <1>2, <1>3, <1>7, ComputingCached DEF PromptsCached
<1>9. \A st \in Slots, i \in Cells :
       IF f[st][i] # 0
       THEN kv'.cells[st].seq[i] = {batch[f[st][i]].seq} /\ kv'.cells[st].shift[i] = 0
       ELSE CellAs(kv.cells[st], kv'.cells[st], i)
  BY <1>7 DEF Computing
<1>10. Owners'
  <2> SUFFICES ASSUME NEW st \in Slots, NEW i \in Cells,
                      NEW x \in kv'.cells[st].seq[i], NEW y \in kv'.cells[st].seq[i]
      PROVE  x = y
    BY DEF Owners, OneOwner
  <2>1. CASE f[st][i] # 0
    BY <1>9, <2>1
  <2>2. CASE f[st][i] = 0
    <3>1. kv'.cells[st].seq[i] = kv.cells[st].seq[i]
      BY <1>9, <2>2 DEF CellAs
    <3> QED BY <3>1 DEF ReadInv, Owners, OneOwner
  <2> QED BY <2>1, <2>2
<1>11. Settled'
  <2> SUFFICES ASSUME NEW st \in Slots, NEW i \in Cells, kv'.cells[st].pos[i] # -1
      PROVE  kv'.cells[st].shift[i] = 0
    BY DEF Settled
  <2>1. CASE f[st][i] # 0
    BY <1>9, <2>1
  <2>2. CASE f[st][i] = 0
    <3>1. CellAs(kv.cells[st], kv'.cells[st], i)
      BY <1>9, <2>2
    <3>2. kv.cells[st].pos[i] # -1
      BY <3>1 DEF CellAs
    <3>3. kv.cells[st].shift[i] = 0
      BY <1>2, <3>2, SettledNow
    <3> QED BY <3>1, <3>3 DEF CellAs
  <2> QED BY <2>1, <2>2
<1>12. NothingBeyond'
  <2> SUFFICES ASSUME NEW s \in Slots, slots[s].state \in {"done_prompt", "generating"},
                      NEW p \in Positions, NEW i \in Cells, Holds(s, p, i)'
      PROVE  p < Len(slots[s].prompt)
    BY <1>1 DEF NothingBeyond
  <2> DEFINE st == seq_to_stream(s)
  <2>0. ComputingAt(f, s, p, i)
    BY <1>2, <1>3, <1>7, ComputingHolds
  <2>1. CASE f[st][i] # 0
    <3>1. Holds(s, p, i)' <=> batch[f[st][i]].seq = s /\ batch[f[st][i]].pos = p
      BY <2>0, <2>1 DEF ComputingAt
    <3>2. Wanted(f[st][i], batch[f[st][i]])
      BY <1>2, <1>3, <1>7, <2>1, ComputingFound, StreamType
    <3> QED BY <3>1, <3>2 DEF Wanted
  <2>2. CASE f[st][i] = 0
    <3>1. Holds(s, p, i)' <=> Holds(s, p, i)
      BY <2>0, <2>2 DEF ComputingAt
    <3> QED BY <3>1 DEF ReadInv, NothingBeyond
  <2> QED BY <2>1, <2>2
<1>13. InView' = InView /\ \A j : StreamOf(j)' = StreamOf(j)
  BY <1>1, ViewSame
<1>14. FoundAll' /\ FoundOnce' /\ FoundInOrder'
  BY <1>1, <1>2, <1>13 DEF FoundAll, FoundOnce, FoundInOrder
<1>15. FoundEmpty'
  <2> SUFFICES ASSUME NEW n \in 1 .. Len(sinfos), NEW st \in Slots, NEW i \in Cells,
                      sinfos[n][st][i] # 0
      PROVE  n < N + 1 \/ kv'.cells[st].pos[i] = -1
    <3>1. \A n \in 1 .. Len(sinfos) : ~(n <= Len(olds'))
      BY <1>1, <1>2
    <3> QED BY <1>1, <1>6, <3>1 DEF FoundEmpty
  <2>1. CASE n <= N
    BY <1>3, <2>1
  <2>2. CASE ~(n <= N)
    <3>1. ~(n < at) /\ ~(n <= Len(olds)) /\ n # N
      BY <1>2, <1>3, <1>6, <2>2
    <3>2. kv.cells[st].pos[i] = -1
      BY <1>2, <3>1 DEF FoundEmpty
    <3>3. f[st][i] = 0
      BY <1>2, <1>4, <3>1 DEF FoundOnce
    <3> QED BY <1>9, <3>2, <3>3 DEF CellAs
  <2> QED BY <2>1, <2>2
<1>16. left' \subseteq InView' /\ left' = {} /\ at' <= Len(sinfos') + 1
  <2>1. N + 1 <= Len(sinfos) + 1
    BY <1>4
  <2> QED BY <1>1, <1>2, <1>6, <2>1
<1>17. Rehearsed'
  BY <1>1, <1>14, <1>15, <1>16 DEF Rehearsed
<1>18. NoFamilies' /\ Plain' /\ BatchRises' /\ BatchWanted'
  BY <1>1, <1>2 DEF NoFamilies, Plain, BatchRises, BatchWanted, Wanted
<1>19. Phases'
  BY <1>1, <1>2 DEF Phases
<1>20. kv'.copies = << >>
  BY <1>7 DEF ReadInv, Computing
<1> QED BY <1>8, <1>10, <1>11, <1>12, <1>17, <1>18, <1>19, <1>20 DEF ReadInv

\* The cache as it is when all give up: empty cells may have been filled for
\* slots at work.
Abandoned(k) ==
  /\ Books(k.cells) /\ SameBuffers(kv, k)
  /\ \A st \in Slots :
       /\ k.cells[st].has_shift = kv.cells[st].has_shift
       /\ \A i \in Cells :
            \/ CellAs(kv.cells[st], k.cells[st], i)
            \/ kv.cells[st].pos[i] = -1 /\ \E s \in Processing : k.cells[st].seq[i] = {s}

\* Only cells of slots at work are lost.
LEMMA AbortCells ==
  ASSUME IInv, Owners, NEW k, Abandoned(k), kv' = Clear(k, Processing)
  PROVE  /\ SameBuffers(kv, kv')
         /\ \A st \in Slots :
              /\ kv'.cells[st].has_shift = kv.cells[st].has_shift
              /\ \A i \in Cells :
                   \/ CellAs(kv.cells[st], kv'.cells[st], i)
                   \/ /\ CellGone(kv'.cells[st], i)
                      /\ \A s \in kv.cells[st].seq[i] : s \in Processing
<1>1. \A st \in Slots : OneOwner(k.cells[st])
  <2> SUFFICES ASSUME NEW st \in Slots, NEW i \in Cells,
                      NEW x \in k.cells[st].seq[i], NEW y \in k.cells[st].seq[i]
      PROVE  x = y
    BY DEF OneOwner
  <2>1. CASE CellAs(kv.cells[st], k.cells[st], i)
    BY <2>1 DEF Owners, OneOwner, CellAs
  <2>2. CASE \E s \in Processing : k.cells[st].seq[i] = {s}
    BY <2>2
  <2> QED BY <2>1, <2>2 DEF Abandoned
<1>2. /\ SameBuffers(k, kv')
      /\ \A st \in Slots :
           /\ kv'.cells[st].has_shift = k.cells[st].has_shift
           /\ \A i \in Cells : IF k.cells[st].seq[i] \cap Processing = {}
                               THEN CellAs(k.cells[st], kv'.cells[st], i)
                               ELSE CellGone(kv'.cells[st], i)
  BY <1>1, ClearEffect DEF Abandoned
<1>3. SameBuffers(kv, kv') /\ \A st \in Slots : kv'.cells[st].has_shift = kv.cells[st].has_shift
  BY <1>2 DEF Abandoned, SameBuffers
<1>4. ASSUME NEW st \in Slots, NEW i \in Cells
      PROVE  \/ CellAs(kv.cells[st], kv'.cells[st], i)
             \/ /\ CellGone(kv'.cells[st], i)
                /\ \A s \in kv.cells[st].seq[i] : s \in Processing
  <2>1. CASE CellAs(kv.cells[st], k.cells[st], i)
    <3>1. CASE k.cells[st].seq[i] \cap Processing = {}
      BY <1>2, <2>1, <3>1 DEF CellAs
    <3>2. CASE k.cells[st].seq[i] \cap Processing # {}
      <4>1. CellGone(kv'.cells[st], i)
        BY <1>2, <3>2
      <4>2. PICK x \in kv.cells[st].seq[i] : x \in Processing
        BY <2>1, <3>2 DEF CellAs
      <4>3. \A s \in kv.cells[st].seq[i] : s = x
        BY DEF Owners, OneOwner
      <4> QED BY <4>1, <4>2, <4>3
    <3> QED BY <3>1, <3>2
  <2>2. CASE kv.cells[st].pos[i] = -1 /\ \E s \in Processing : k.cells[st].seq[i] = {s}
    <3>1. k.cells[st].seq[i] \cap Processing # {}
      BY <2>2
    <3>2. CellGone(kv'.cells[st], i)
      BY <1>2, <3>1
    <3>3. kv.cells[st].seq[i] = {}
      BY <2>2 DEF IInv, Books, Exact
    <3> QED BY <3>2, <3>3
  <2> QED BY <2>1, <2>2 DEF Abandoned
<1> QED BY <1>3, <1>4

\* When all give up, what slots at rest count on stays.
LEMMA ReadAbort ==
  ASSUME IInv, ReadInv, NEW k, Abandoned(k), AbortAll(k), olds = << >>
  PROVE  ReadInv'
<1>1. /\ kv' = Clear(k, Processing) /\ params' = params
      /\ slots' = [s \in Slots |-> IF s \in Processing THEN IdleSlot ELSE slots[s]]
      /\ step' = "tasks" /\ batch' = << >> /\ off' = 0 /\ olds' = << >>
  BY DEF AbortAll, RoundOver, NoRehearsal
<1>2. Owners /\ Settled /\ Plain /\ NoFamilies /\ kv.copies = << >> /\ step' \notin Deciding
  BY <1>1 DEF ReadInv, Deciding
<1>3. /\ SameBuffers(kv, kv')
      /\ \A st \in Slots :
              /\ kv'.cells[st].has_shift = kv.cells[st].has_shift
              /\ \A i \in Cells :
                   \/ CellAs(kv.cells[st], kv'.cells[st], i)
                   \/ /\ CellGone(kv'.cells[st], i)
                      /\ \A s \in kv.cells[st].seq[i] : s \in Processing
  BY <1>1, <1>2, AbortCells
<1>4. \A s \in Slots : /\ slots'[s].state = "idle" /\ slots'[s].kind = "single"
                       /\ s \in Processing => slots'[s].prompt = << >>
                       /\ s \notin Processing => slots'[s] = slots[s] /\ slots[s].state = "idle"
  <2>1. IdleSlot.state = "idle" /\ IdleSlot.kind = "single" /\ IdleSlot.prompt = << >>
    BY DEF IdleSlot
  <2>2. \A s \in Slots : s \notin Processing => slots[s].state = "idle"
    BY DEF Processing
  <2> QED BY <1>1, <1>2, <2>1, <2>2 DEF NoFamilies
<1>5. ASSUME NEW s \in Slots, s \notin Processing, NEW i \in Cells, NEW p
      PROVE  /\ Holds(s, p, i)' <=> Holds(s, p, i)
             /\ Holds(s, p, i) =>
                  /\ kv'.data[seq_to_stream(s)][i] = kv.data[seq_to_stream(s)][i]
                  /\ kv'.cells[seq_to_stream(s)].shift[i] = kv.cells[seq_to_stream(s)].shift[i]
  <2> DEFINE st == seq_to_stream(s)
  <2>1. st \in Slots /\ seq_to_stream(s)' = st
    BY <1>1, StreamType, SameStream
  <2>2. ~Placed(st, i) /\ ~Placed(st, i)'
    BY <1>1, EmptyRange DEF Placed
  <2>3. kv'.data[st][i] = kv.data[st][i]
    BY <1>3 DEF SameBuffers
  <2>4. CASE CellAs(kv.cells[st], kv'.cells[st], i)
    BY <1>1, <2>3, <2>4, HoldsSame DEF CellAs
  <2>5. CASE CellGone(kv'.cells[st], i) /\ \A t \in kv.cells[st].seq[i] : t \in Processing
    <3>1. ~Holds(s, p, i)
      BY <1>5, <2>5 DEF Holds
    <3>2. ~Holds(s, p, i)'
      BY <2>1, <2>5 DEF Holds, CellGone
    <3> QED BY <3>1, <3>2
  <2> QED BY <1>3, <2>1, <2>4, <2>5
<1>6. PromptsCached'
  <2> SUFFICES ASSUME NEW s \in Slots, NEW p \in 0 .. Len(slots'[s].prompt) - 1
      PROVE  CachedAt(s, p)'
    BY DEF PromptsCached
  <2>1. s \notin Processing
    BY <1>4
  <2>2. slots'[s] = slots[s] /\ slots[s].state = "idle"
    BY <1>4, <2>1
  <2>3. ~Owed(s, p)
    BY <2>2, StartedOwes
  <2>4. ~Owed(s, p)'
    BY <1>1, EmptyRange DEF Owed
  <2>5. Known(s, p)
    BY <2>2 DEF ReadInv, Phases, Known
  <2>6. CachedAt(s, p)
    BY <2>2, <2>5 DEF ReadInv, PromptsCached
  <2> QED BY <1>1, <1>5, <2>1, <2>2, <2>3, <2>4, <2>6, CachedFrame
<1>7. Owners'
  <2> SUFFICES ASSUME NEW st \in Slots, NEW i \in Cells,
                      NEW x \in kv'.cells[st].seq[i], NEW y \in kv'.cells[st].seq[i]
      PROVE  x = y
    BY DEF Owners, OneOwner
  <2>1. CellAs(kv.cells[st], kv'.cells[st], i)
    BY <1>3 DEF CellGone
  <2> QED BY <1>2, <2>1 DEF Owners, OneOwner, CellAs
<1>8. Settled'
  <2> SUFFICES ASSUME NEW st \in Slots, ~kv'.cells[st].has_shift,
                      NEW i \in Cells, kv'.cells[st].pos[i] # -1
      PROVE  kv'.cells[st].shift[i] = 0
    BY <1>2 DEF Settled
  <2>1. ~kv.cells[st].has_shift /\ CellAs(kv.cells[st], kv'.cells[st], i)
    BY <1>3 DEF CellGone
  <2> QED BY <1>2, <2>1 DEF Settled, CellAs
<1>9. NothingBeyond' /\ NoFamilies'
  BY <1>4 DEF NothingBeyond, NoFamilies
<1>10. Phases'
  BY <1>1, <1>4 DEF Phases
<1>11. BatchRises' /\ BatchWanted' /\ Rehearsed'
  BY <1>1, <1>2, NoBatch
<1>12. kv'.copies = << >> /\ Plain'
  BY <1>1, <1>2, <1>3 DEF SameBuffers, Plain
<1> QED BY <1>6, <1>7, <1>8, <1>9, <1>10, <1>11, <1>12 DEF ReadInv

\* A ubatch that fails to compute.
LEMMA ReadComputeFails ==
  ASSUME TInv, ReadInv, ComputeFails
  PROVE  ReadInv'
<1> DEFINE N == at
           f == sinfos[N]
           k == apply_ubatch(kv, f, batch)
<1>1. step = "compute" /\ N <= Len(sinfos) /\ AbortAll(k)
  BY DEF ComputeFails
<1>2. /\ IInv /\ FoundOnce /\ FoundEmpty /\ olds = << >> /\ BatchWanted
  BY <1>1, RehearsedFacts DEF ReadInv, Deciding, TInv, CountedInv, Phases
<1>3. N \in 1 .. Len(sinfos) /\ ~(N <= Len(olds)) /\ ~(N < at) /\ Books(kv.cells)
  BY <1>1, <1>2 DEF IInv, RehearsalSound
<1>4. \A st \in Slots, i \in Cells : f[st][i] # 0 => kv.cells[st].pos[i] = -1
  BY <1>1, <1>2, <1>3 DEF FoundEmpty
<1>5. \A st \in Slots, i \in Cells : f[st][i] # 0 => batch[f[st][i]].seq \in Processing
  <2> SUFFICES ASSUME NEW st \in Slots, NEW i \in Cells, f[st][i] # 0
      PROVE  batch[f[st][i]].seq \in Processing
    OBVIOUS
  <2>1. f[st][i] \in InView
    BY <1>2, <1>3 DEF FoundOnce
  <2>2. f[st][i] \in off + 1 .. Len(batch) /\ batch[f[st][i]].seq \in Slots
    BY <1>2, <2>1, ViewFacts
  <2>3. Wanted(f[st][i], batch[f[st][i]])
    BY <1>2, <2>2 DEF BatchWanted
  <2> QED BY <2>2, <2>3 DEF Wanted, Processing
<1>6. \A st \in Slots : Writes(f[st], batch)
  BY <1>2, <1>3, WritesFound
<1> HIDE DEF f, N
<1>7. Books(k.cells)
  BY <1>3, <1>6, ApplyBooks
<1>8. /\ SameBuffers(kv, k)
      /\ \A st \in Slots :
           /\ k.cells[st].has_shift = kv.cells[st].has_shift
           /\ \A i \in Cells : IF f[st][i] # 0
                               THEN k.cells[st].seq[i] = {batch[f[st][i]].seq}
                               ELSE CellAs(kv.cells[st], k.cells[st], i)
  BY <1>3, <1>4, ApplyEffect
<1> HIDE DEF k
<1>9. Abandoned(k)
  BY <1>4, <1>5, <1>7, <1>8 DEF Abandoned
<1> QED BY <1>1, <1>2, <1>9, ReadAbort

\* An idle slot is cleared for its cells.
LEMMA ReadPurge ==
  ASSUME IInv, ReadInv, NEW s \in Slots, slots[s].state = "idle",
         kv' = Clear(kv, {s}), slots' = [slots EXCEPT ![s].prompt = << >>],
         UNCHANGED <<params, batch, off, olds>>, step = "no_slot", step' = "decode"
  PROVE  ReadInv'
<1>1. /\ Owners /\ Settled /\ Plain /\ NoFamilies /\ kv.copies = << >> /\ step' \notin Deciding
      /\ Phases /\ olds = << >> /\ olds' = << >> /\ step # "compute"
  BY DEF ReadInv, Deciding, Phases
<1>2. /\ SameBuffers(kv, kv')
      /\ \A st \in Slots :
           /\ kv'.cells[st].has_shift = kv.cells[st].has_shift
           /\ \A i \in Cells : IF kv.cells[st].seq[i] \cap {s} = {}
                               THEN CellAs(kv.cells[st], kv'.cells[st], i)
                               ELSE CellGone(kv'.cells[st], i)
  BY <1>1, ClearEffect DEF IInv, Owners
<1>3. /\ slots'[s].prompt = << >> /\ slots'[s].state = "idle" /\ slots'[s].kind = slots[s].kind
      /\ \A t \in Slots : t # s => slots'[t] = slots[t]
  BY ReadTypes DEF SlotType
<1>4. ASSUME NEW t \in Slots, t # s, NEW i \in Cells, NEW p
      PROVE  /\ Holds(t, p, i)' <=> Holds(t, p, i)
             /\ Holds(t, p, i) =>
                  /\ kv'.data[seq_to_stream(t)][i] = kv.data[seq_to_stream(t)][i]
                  /\ kv'.cells[seq_to_stream(t)].shift[i] = kv.cells[seq_to_stream(t)].shift[i]
  <2> DEFINE st == seq_to_stream(t)
  <2>1. st \in Slots /\ seq_to_stream(t)' = st
    BY StreamType, SameStream
  <2>2. CASE s \in kv.cells[st].seq[i]
    <3>1. t \notin kv.cells[st].seq[i]
      BY <1>1, <1>4, <2>1, <2>2 DEF Owners, OneOwner
    <3>2. kv'.cells[st].seq[i] = {}
      BY <1>2, <2>1, <2>2 DEF CellGone
    <3> QED BY <2>1, <3>1, <3>2 DEF Holds
  <2>3. CASE s \notin kv.cells[st].seq[i]
    <3>1. CellAs(kv.cells[st], kv'.cells[st], i)
      BY <1>2, <2>1, <2>3
    <3>2. kv'.data[st][i] = kv.data[st][i]
      BY <1>2 DEF SameBuffers
    <3>3. kv'.cells[st].shift[i] = kv.cells[st].shift[i]
      BY <3>1 DEF CellAs
    <3>4. Holds(t, p, i)' <=> Holds(t, p, i)
      BY <1>1, <3>1, HoldsSame
    <3> QED BY <3>2, <3>3, <3>4
  <2> QED BY <2>2, <2>3
<1>5. PromptsCached'
  <2> SUFFICES ASSUME NEW t \in Slots, NEW p \in 0 .. Len(slots'[t].prompt) - 1
      PROVE  CachedAt(t, p)'
    BY DEF PromptsCached
  <2>1. t # s /\ slots'[t] = slots[t]
    BY <1>3
  <2>2. Known(t, p)
    BY KnowsAll
  <2>3. CachedAt(t, p)
    BY <2>1, <2>2 DEF ReadInv, PromptsCached
  <2>4. Owed(t, p)' <=> Owed(t, p)
    BY <1>1, OwedSame
  <2> QED BY <1>4, <2>1, <2>3, <2>4, CachedFrame
<1>6. Owners'
  <2> SUFFICES ASSUME NEW st \in Slots, NEW i \in Cells,
                      NEW x \in kv'.cells[st].seq[i], NEW y \in kv'.cells[st].seq[i]
      PROVE  x = y
    BY DEF Owners, OneOwner
  <2>1. CellAs(kv.cells[st], kv'.cells[st], i)
    BY <1>2 DEF CellGone
  <2> QED BY <1>1, <2>1 DEF Owners, OneOwner, CellAs
<1>7. Settled'
  <2> SUFFICES ASSUME NEW st \in Slots, ~kv'.cells[st].has_shift,
                      NEW i \in Cells, kv'.cells[st].pos[i] # -1
      PROVE  kv'.cells[st].shift[i] = 0
    BY <1>1 DEF Settled
  <2>1. ~kv.cells[st].has_shift /\ CellAs(kv.cells[st], kv'.cells[st], i)
    BY <1>2 DEF CellGone
  <2> QED BY <1>1, <2>1 DEF Settled, CellAs
<1>8. NothingBeyond'
  <2> SUFFICES ASSUME NEW t \in Slots, slots'[t].state \in {"done_prompt", "generating"},
                      NEW p \in Positions, NEW i \in Cells, Holds(t, p, i)'
      PROVE  p < Len(slots'[t].prompt)
    BY DEF NothingBeyond
  <2>1. t # s /\ slots'[t] = slots[t]
    BY <1>3
  <2>2. Holds(t, p, i)
    BY <1>4, <2>1
  <2> QED BY <2>1, <2>2 DEF ReadInv, NothingBeyond
<1>9. NoFamilies'
  BY <1>1, <1>3 DEF NoFamilies
<1>10. Phases'
  <2>1. \A t \in Slots : slots'[t].state = "prompt" => slots'[t] = slots[t]
    BY <1>3
  <2> QED BY <1>1, <2>1 DEF Phases
<1>11. BatchRises' /\ BatchWanted'
  BY <1>3, BatchStays
<1>12. kv'.copies = << >> /\ Plain'
  BY <1>1, <1>2 DEF SameBuffers, Plain
<1> QED BY <1>1, <1>5, <1>6, <1>7, <1>8, <1>9, <1>10, <1>11, <1>12, NotRehearsed DEF ReadInv

\* No room was found for the view.
LEMMA ReadNoSlot ==
  ASSUME TInv, ReadInv, NoSlot
  PROVE  ReadInv'
<1> DEFINE purgeable == {s \in Slots \ Processing : slots[s].prompt # << >>}
<1>1. step = "no_slot" /\ IInv /\ olds = << >>
  BY DEF NoSlot, TInv, CountedInv, ReadInv, Phases
<1>2. CASE AbortAll(kv)
  <2>1. Abandoned(kv)
    BY <1>1 DEF Abandoned, IInv, SameBuffers, CellAs
  <2> QED BY <1>1, <1>2, <2>1, ReadAbort
<1>3. CASE /\ purgeable # {} /\ kv' = Clear(kv, {Min(purgeable)})
           /\ slots' = [slots EXCEPT ![Min(purgeable)].prompt = << >>]
           /\ step' = "decode"
           /\ UNCHANGED <<params, batch, view, rehearsal>>
  <2>1. Min(purgeable) \in purgeable
    <3>1. purgeable \in SUBSET Nat
      BY SizesAssumption DEF Slots
    <3> HIDE DEF purgeable
    <3> QED BY <1>3, <3>1, MinIsMember
  <2>2. Min(purgeable) \in Slots /\ slots[Min(purgeable)].state = "idle"
    BY <2>1 DEF Processing
  <2>3. UNCHANGED <<params, batch, off, olds>>
    BY <1>3 DEF view, rehearsal
  <2> HIDE DEF purgeable
  <2> QED BY <1>1, <1>3, <2>2, <2>3, ReadPurge
<1>4. CASE /\ step' = "decode"
           /\ UNCHANGED <<kv, params, slots, batch, off, rehearsal>>
  <2>1. Phases'
    BY <1>1, <1>4 DEF ReadInv, Phases, rehearsal
  <2>2. olds' = << >> /\ step' \notin Deciding /\ step # "compute"
    BY <1>1, <1>4 DEF rehearsal, Deciding
  <2>3. \A s \in Slots : \A p \in Int : Known(s, p)' => Known(s, p)
    BY <1>1, KnowsAll
  <2> QED BY <1>1, <1>4, <2>1, <2>2, <2>3, Unchanged, ReadQuiet
<1> QED BY <1>2, <1>3, <1>4 DEF NoSlot

\* No state is copied where every request has one answer.
LEMMA ReadCopy ==
  ASSUME ReadInv, copy_state_to
  PROVE  FALSE
<1>1. Waiting = {}
  BY DEF ReadInv, NoFamilies, Waiting
<1> QED BY <1>1 DEF copy_state_to

\* What the view owed is computed when it ends.
LEMMA ViewComputed ==
  ASSUME TInv, ReadInv, step = "compute", at > Len(sinfos),
         UNCHANGED <<params, batch>>, off' = off + ViewSize, step' = "decode",
         NEW s, NEW p
  PROVE  Owed(s, p)' <=> Owed(s, p)
<1>1. /\ IInv /\ FoundAll /\ FoundOnce /\ left = {}
      /\ at <= Len(sinfos) + 1 /\ n_batch \in Nat \ {0}
  BY RehearsedFacts, BatchAssumption DEF Deciding, TInv, CountedInv, NumbersFit
<1>2. Len(sinfos) \in Nat /\ at \in Nat
  BY <1>1 DEF IInv, RehearsalSound
<1>3. at - 1 = Len(sinfos)
  BY <1>1, <1>2
<1>4. off \in Nat /\ Len(batch) \in Nat /\ ViewSize \in Int
      /\ InView \subseteq off + 1 .. Len(batch)
  BY <1>1, ViewFacts
<1>5. ASSUME NEW j \in off + 1 .. Len(batch)
      PROVE  Computed(j) <=> j \in InView
  <2>1. Computed(j) <=> \E n \in 1 .. Len(sinfos), i \in Cells : sinfos[n][StreamOf(j)][i] = j
    BY <1>3 DEF Computed
  <2>2. j \in InView => Computed(j)
    BY <1>1, <2>1 DEF FoundAll
  <2>3. j # 0
    BY <1>4
  <2>4. ASSUME Computed(j) PROVE j \in InView
    <3>1. PICK n \in 1 .. Len(sinfos), i \in Cells : sinfos[n][StreamOf(j)][i] = j
      BY <2>1, <2>4
    <3>2. StreamOf(j) \in Slots
      <4>1. j \in 1 .. Len(batch)
        BY <1>4
      <4> QED BY <1>1, <4>1, ViewFacts
    <3> QED BY <1>1, <2>3, <3>1, <3>2 DEF FoundOnce
  <2> QED BY <2>2, <2>4
<1>6. \A j : j \in off' + 1 .. Len(batch) <=> j \in off + 1 .. Len(batch) /\ j \notin InView
  <2> DEFINE V == ViewSize
             L == Len(batch)
  <2>1. V = n_batch \/ V = L - off
    BY <1>1, <1>4, MinOfTwo DEF ViewSize
  <2>2. off' = off + V /\ off \in Nat /\ L \in Nat /\ V \in Int
    BY <1>4
  <2>3. V >= 0 \/ off + V = L
    BY <1>1, <2>1, <2>2
  <2>4. InView = off + 1 .. off + V
    BY DEF InView
  <2>5. off + V <= L
    <3>1. CASE V <= 0
      BY <2>1, <2>2, <1>1, <3>1
    <3>2. CASE V > 0
      <4>1. off + V \in InView
        BY <2>2, <2>4, <3>2
      <4> QED BY <1>4, <4>1
    <3> QED BY <2>2, <3>1, <3>2
  <2> HIDE DEF V, L
  <2>6. \A j : j \in (off + V) + 1 .. L <=> j \in off + 1 .. L /\ j \notin off + 1 .. off + V
    BY <2>2, <2>3, <2>5
  <2> QED BY <2>2, <2>4, <2>6 DEF L
<1>7. Owed(s, p)' <=> \E j \in off' + 1 .. Len(batch) : batch[j].seq = s /\ batch[j].pos = p
  BY DEF Owed, Computed
<1> QED BY <1>5, <1>6, <1>7 DEF Owed

\* A view has been decoded.
LEMMA ReadPost ==
  ASSUME TInv, ReadInv, NEW over \in SUBSET Slots, NEW id \in [Slots -> Sampled],
         post_decode(over, id)
  PROVE  ReadInv'
<1> DEFINE inside == {s \in Slots : /\ slots[s].state \in {"done_prompt", "generating"}
                                    /\ slots[s].i_batch \in InView}
<1>1. /\ step = "compute" /\ at > Len(sinfos) /\ step' = "decode"
      /\ over \subseteq inside
      /\ kv' = Clear(kv, over \cap Children)
      /\ slots' = [s \in Slots |->
                    IF s \in over THEN Released(slots[s])
                    ELSE IF s \in inside
                         THEN [slots[s] EXCEPT !.state = "generating", !.sampled = id[s]]
                         ELSE slots[s]]
      /\ off' = off + ViewSize /\ olds' = << >>
      /\ UNCHANGED <<params, batch>>
  BY DEF post_decode, NoRehearsal, InView
<1>2. /\ IInv /\ Owners /\ NoFamilies /\ Plain /\ Phases /\ BatchRises
      /\ BatchWanted /\ NothingBeyond
      /\ olds = << >> /\ step' \notin Deciding /\ step \in Deciding
  BY <1>1 DEF ReadInv, TInv, CountedInv, Deciding, Phases
<1>3. over \cap Children = {}
  BY <1>2 DEF NoFamilies, Children
<1>4. QuietCache
  BY <1>1, <1>2, <1>3, ClearNone
<1>5. \A s \in Slots :
        /\ slots'[s].prompt = slots[s].prompt /\ slots'[s].kind = "single"
        /\ s \notin inside => slots'[s] = slots[s]
        /\ s \in inside => /\ slots[s].state \in {"done_prompt", "generating"}
                           /\ slots'[s].state \in {"idle", "generating"}
  <2> TAKE s \in Slots
  <2>1. slots[s] \in SlotType /\ slots[s].kind = "single"
    BY <1>2, ReadTypes DEF NoFamilies
  <2>2. CASE s \in over
    <3>1. slots'[s] = Released(slots[s]) /\ s \in inside
      BY <1>1, <2>2
    <3> QED BY <2>1, <3>1, ReleasedSingle
  <2>3. CASE s \notin over /\ s \in inside
    <3>1. slots'[s] = [slots[s] EXCEPT !.state = "generating", !.sampled = id[s]]
      BY <1>1, <2>3
    <3> QED BY <2>1, <2>3, <3>1 DEF SlotType
  <2>4. CASE s \notin inside
    <3>1. slots'[s] = slots[s]
      BY <1>1, <2>4
    <3> QED BY <2>1, <2>4, <3>1
  <2> QED BY <2>2, <2>3, <2>4
<1>6. \A s, p : Owed(s, p)' <=> Owed(s, p)
  BY <1>1, ViewComputed
<1>7. /\ kv'.copies = << >> /\ Owners' /\ Settled' /\ PromptsCached'
      /\ \A s \in Slots, i \in Cells : \A p : Holds(s, p, i)' <=> Holds(s, p, i)
  <2>1. \A s, p : Known(s, p)
    BY <1>1, KnowsAll
  <2> HIDE DEF inside
  <2>2. \A s \in Slots : \A p \in 0 .. Len(slots'[s].prompt) - 1 : Known(s, p)' =>
           /\ p \in 0 .. Len(slots[s].prompt) - 1 /\ Known(s, p)
           /\ slots'[s].prompt[p + 1] = slots[s].prompt[p + 1]
           /\ Owed(s, p)' <=> Owed(s, p)
    BY <1>5, <1>6, <2>1
  <2> QED BY <1>1, <1>2, <1>4, <2>2, QuietStep
<1>8. NothingBeyond'
  <2> SUFFICES ASSUME NEW s \in Slots, slots'[s].state \in {"done_prompt", "generating"},
                      NEW p \in Positions, NEW i \in Cells, Holds(s, p, i)'
      PROVE  p < Len(slots'[s].prompt)
    BY DEF NothingBeyond
  <2>1. slots[s].state \in {"done_prompt", "generating"} /\ slots'[s].prompt = slots[s].prompt
    BY <1>5
  <2>2. Holds(s, p, i)
    BY <1>7
  <2> QED BY <1>2, <2>1, <2>2 DEF NothingBeyond
<1>9. NoFamilies'
  <2>1. \A s \in Slots : slots'[s].state # "wait_other"
    BY <1>2, <1>5 DEF NoFamilies
  <2> QED BY <1>5, <2>1 DEF NoFamilies
<1>10. Phases'
  <2>1. \A s \in Slots : slots'[s].state = "prompt" => slots'[s] = slots[s]
    BY <1>5
  <2> QED BY <1>1, <1>2, <2>1 DEF Phases
<1>11. ASSUME NEW j \in off' + 1 .. Len(batch)
       PROVE  j \in off + 1 .. Len(batch) /\ j \in Int /\ \A k \in InView : k < j
  <2> DEFINE V == ViewSize
             L == Len(batch)
  <2>1. V = n_batch \/ V = L - off
    BY <1>2, ViewFacts, MinOfTwo DEF ViewSize, TInv, NumbersFit
  <2>2. /\ off' = off + V /\ off \in Nat /\ L \in Nat /\ V \in Int /\ n_batch \in Nat
        /\ InView = off + 1 .. off + V
    BY <1>1, <1>2, ViewFacts DEF InView, IInv, RehearsalSound
  <2> HIDE DEF V
  <2>3. j \in off + V + 1 .. L
    BY <2>2
  <2> HIDE DEF L
  <2>4. V >= 0
    BY <2>1, <2>2, <2>3
  <2>5. j \in off + 1 .. L /\ j \in Int /\ \A k \in off + 1 .. off + V : k < j
    BY <2>2, <2>3, <2>4
  <2> QED BY <2>2, <2>5 DEF L
<1>12. BatchRises'
  BY <1>1, <1>2, <1>11 DEF BatchRises
<1>13. BatchWanted'
  <2> SUFFICES ASSUME NEW j \in off' + 1 .. Len(batch)
      PROVE  Wanted(j, batch[j])'
    BY <1>1 DEF BatchWanted
  <2>1. j \in off + 1 .. Len(batch) /\ j \in Int /\ \A k \in InView : k < j
    BY <1>11
  <2>2. Wanted(j, batch[j])
    BY <1>2, <2>1 DEF BatchWanted
  <2> DEFINE t == batch[j].seq
  <2>3. t \in Slots
    BY <1>2, <2>1, ViewFacts
  <2>4. t \notin inside
    <3> SUFFICES ASSUME t \in inside PROVE FALSE
      OBVIOUS
    <3>1. slots[t].state # "prompt" /\ slots[t].i_batch \in InView
      OBVIOUS
    <3>2. j <= slots[t].i_batch /\ slots[t].i_batch < j
      BY <2>1, <2>2, <3>1 DEF Wanted
    <3>3. slots[t].i_batch \in Nat
      BY <1>2, <2>3, ReadTypes DEF SlotType
    <3> QED BY <2>1, <3>2, <3>3
  <2>5. slots'[t] = slots[t] /\ batch' = batch
    BY <1>1, <1>5, <2>3, <2>4
  <2> QED BY <2>2, <2>5 DEF Wanted
<1>14. Plain'
  BY <1>1, <1>2 DEF Plain
<1> QED BY <1>2, <1>7, <1>8, <1>9, <1>10, <1>12, <1>13, <1>14, NotRehearsed DEF ReadInv

\* Nothing is cached and no slot counts on anything at first.
LEMMA ReadInit ==
  ASSUME Init, Plain
  PROVE  ReadInv
<1>1. /\ kv = EmptyCache /\ slots = [s \in Slots |-> IdleSlot] /\ step = "tasks"
      /\ batch = << >> /\ off = 0 /\ olds = << >>
  BY DEF Init
<1>2. /\ kv.copies = << >>
      /\ \A st \in Slots, i \in Cells : /\ kv.cells[st].seq[i] = {} /\ kv.cells[st].pos[i] = -1
  BY <1>1 DEF EmptyCache, NoCells
<1>3. \A s \in Slots : /\ slots[s].state = "idle" /\ slots[s].kind = "single"
                       /\ slots[s].prompt = << >>
  BY <1>1 DEF IdleSlot
<1>4. off + 1 .. Len(batch) = {}
  BY <1>1
<1>5. NoFamilies /\ NothingBeyond /\ PromptsCached
  BY <1>3 DEF NoFamilies, NothingBeyond, PromptsCached
<1>6. Owners /\ Settled
  BY <1>2 DEF Owners, OneOwner, Settled
<1>7. Phases
  BY <1>1, <1>3 DEF Phases
<1>8. BatchRises /\ BatchWanted
  BY <1>4 DEF BatchRises, BatchWanted
<1>9. Rehearsed
  BY <1>1 DEF Rehearsed, Deciding
<1> QED BY <1>2, <1>5, <1>6, <1>7, <1>8, <1>9 DEF ReadInv

\* A step that changes nothing.
LEMMA ReadStutter ==
  ASSUME ReadInv, UNCHANGED vars
  PROVE  ReadInv'
<1>1. /\ UNCHANGED <<kv, params, slots, step, cur, scan, batch, off, n_batch>>
      /\ UNCHANGED <<left, sinfos, olds, at>>
  BY DEF vars, view, rehearsal
<1>2. \A s : seq_to_stream(s)' = seq_to_stream(s)
  BY <1>1, SameStream
<1>3. InView' = InView /\ \A j : StreamOf(j)' = StreamOf(j)
  BY <1>1, ViewSame
<1>4. \A j : Computed(j)' <=> Computed(j)
  BY <1>1, <1>3 DEF Computed
<1>5. \A s, p : Owed(s, p)' <=> Owed(s, p)
  BY <1>1, <1>4 DEF Owed
<1>6. \A st, i : Placed(st, i)' <=> Placed(st, i)
  BY <1>1 DEF Placed
<1>7. \A s, p, i : Holds(s, p, i)' <=> Holds(s, p, i)
  <2> TAKE s, p, i
  <2>1. Placed(seq_to_stream(s), i)' <=> Placed(seq_to_stream(s), i)
    BY <1>1, <1>2 DEF Placed
  <2> QED BY <1>1, <1>2, <2>1 DEF Holds
<1>8. \A s, p : Known(s, p)' <=> Known(s, p)
  BY <1>1 DEF Known
<1>9. PromptsCached'
  <2> SUFFICES ASSUME NEW s \in Slots, NEW p \in 0 .. Len(slots[s].prompt) - 1, Known(s, p)'
      PROVE  CachedAt(s, p)'
    BY <1>1 DEF PromptsCached
  <2>1. CachedAt(s, p)
    BY <1>8 DEF ReadInv, PromptsCached
  <2>2. slots'[s].prompt[p + 1] = slots[s].prompt[p + 1]
    BY <1>1
  <2> QED BY <1>1, <1>5, <1>7, <2>1, <2>2, CachedFrame
<1>10. NothingBeyond'
  BY <1>1, <1>7 DEF ReadInv, NothingBeyond
<1>11. kv'.copies = << >> /\ Plain' /\ NoFamilies' /\ Owners' /\ Settled'
  BY <1>1 DEF ReadInv, Plain, NoFamilies, Owners, Settled
<1>12. Phases'
  BY <1>1 DEF ReadInv, Phases
<1>13. BatchRises' /\ BatchWanted'
  BY <1>1 DEF ReadInv, BatchRises, BatchWanted, Wanted
<1>14. Rehearsed'
  <2> SUFFICES ASSUME step \in Deciding PROVE Rehearsed'
    BY <1>1 DEF Rehearsed
  <2>1. /\ left \subseteq InView /\ (step \in {"restore", "compute"} => left = {})
        /\ at <= Len(sinfos) + 1 /\ (step # "compute" => at = 1)
        /\ (step = "prepare" => Len(olds) = Len(sinfos))
        /\ FoundAll /\ FoundOnce /\ FoundInOrder /\ FoundEmpty
    BY RehearsedFacts
  <2>2. FoundAll' /\ FoundOnce' /\ FoundInOrder'
    BY <1>1, <1>3, <2>1 DEF FoundAll, FoundOnce, FoundInOrder
  <2>3. FoundEmpty'
    BY <1>1, <2>1 DEF FoundEmpty
  <2> QED BY <1>1, <1>3, <2>1, <2>2, <2>3 DEF Rehearsed
<1> QED BY <1>9, <1>10, <1>11, <1>12, <1>13, <1>14 DEF ReadInv

\* Every step keeps the prompts and the cache together.
LEMMA ReadStep ==
  ASSUME TInv, TInv', ReadInv, [Next]_vars
  PROVE  ReadInv'
<1>1. IInv /\ IInv'
  BY DEF TInv, CountedInv
<1>2. CASE TakeTask
  BY <1>1, <1>2, ReadTasks
<1>3. CASE BeginRound \/ SkipPrompt \/ StartPrompt
  BY <1>1, <1>3, ReadPasses
<1>4. CASE ContextShift
  BY <1>1, <1>4, ReadShift
<1>5. CASE AddSampled
  BY <1>1, <1>5, ReadSampled
<1>6. CASE ReuseChunk
  BY <1>1, <1>6, ReadReuse
<1>7. CASE KeepPrefix
  BY <1>1, <1>7, ReadKeep
<1>8. CASE FillPrompt
  BY <1>1, <1>8, ReadFill
<1>9. CASE EndRound
  BY <1>1, <1>9, ReadEnd
<1>10. CASE BeginDecode
  BY <1>10, ReadBegin
<1>11. CASE Prepare
  BY <1>11, ReadPrepare
<1>12. CASE Prepared \/ Restored
  BY <1>12, ReadTurns
<1>13. CASE RestoreOne
  BY <1>13, ReadRestore
<1>14. CASE ComputeUbatch
  BY <1>14, ReadCompute
<1>15. CASE ComputeFails
  BY <1>15, ReadComputeFails
<1>16. CASE NoSlot
  BY <1>16, ReadNoSlot
<1>17. CASE copy_state_to
  BY <1>17, ReadCopy
<1>18. CASE \E over \in SUBSET Slots, id \in [Slots -> Sampled] : post_decode(over, id)
  BY <1>18, ReadPost
<1>19. CASE WaitForTask \/ UNCHANGED vars
  BY <1>19, ReadStutter DEF WaitForTask
<1> QED BY <1>2, <1>3, <1>4, <1>5, <1>6, <1>7, <1>8, <1>9, <1>10, <1>11, <1>12, <1>13, <1>14,
           <1>15, <1>16, <1>17, <1>18, <1>19 DEF Next, update_slots

\* With one answer per request, as lmcode asks for it, and a model without
\* sliding window, a token attends to its own prompt for any number and size of
\* slots, cells, views and ubatches, with cells for all slots or a stream for
\* each, through context shifts, chunk reuse, rehearsals, views that are halved,
\* decode errors, purged slots and aborted requests.
THEOREM PromptRead == Spec /\ Plain => []ModelReadsPrompt
<1> DEFINE RInv == TInv /\ ReadInv
<1>1. Init /\ Plain => RInv
  BY TInvInit, ReadInit
<1>2. RInv /\ [Next]_vars => RInv'
  <2> SUFFICES ASSUME RInv, [Next]_vars PROVE RInv'
    OBVIOUS
  <2>1. TInv'
    BY TInvStep
  <2>2. ReadInv'
    BY <2>1, ReadStep
  <2> QED BY <2>1, <2>2
<1>3. RInv => ModelReadsPrompt
  BY InvReads
<1> QED BY <1>1, <1>2, <1>3, PTL DEF Spec
=============================================================================
