--------------------------- MODULE FileToolsProofs ---------------------------
(***************************************************************************)
(* Proofs about FileTools for any set of files and any number of changes:  *)
(* while the disk has space, a file is always found whole.                 *)
(***************************************************************************)
EXTENDS FileTools, TLAPS, SequenceTheorems

\* The contents the steps build are contents, and not empty once something was
\* written.
LEMMA ContentFacts ==
  /\ <<>> \in Contents /\ NoFile \in Contents /\ NoFile # <<>>
  /\ \A c \in Contents : c # NoFile => c \in Seq(Nat)
  /\ \A c \in Seq(Nat) : c \in Contents /\ c # NoFile
  /\ \A c \in Seq(Nat), n \in Nat : Append(c, n) \in Seq(Nat) /\ Append(c, n) # <<>>
  /\ \A n \in Nat : <<n>> \in Seq(Nat) /\ <<n>> # <<>>
<1>1. <<>> \in Seq(Nat)
  OBVIOUS
<1>2. ASSUME NEW c \in Seq(Nat), NEW n \in Nat
      PROVE  Append(c, n) \in Seq(Nat) /\ Append(c, n) # <<>>
  <2>1. Append(c, n) \in Seq(Nat) /\ Len(Append(c, n)) = Len(c) + 1 /\ Len(c) \in Nat
    BY AppendProperties, LenProperties
  <2>2. QED
    BY <2>1, EmptySeq
<1>3. \A n \in Nat : <<n>> \in Seq(Nat) /\ <<n>> # <<>>
  OBVIOUS
<1>4. QED
  BY <1>1, <1>2, <1>3, FileAssumption DEF Contents

\* A session starts with no call in progress and no empty file.
LEMMA FileInvInit == Init => FileInv
<1> SUFFICES ASSUME Init PROVE FileInv
  OBVIOUS
<1>1. \A p \in Paths : disk[p] \in {NoFile, <<1>>}
  BY DEF Init
<1>2. TypeOK
  <2>1. 1 \in 1..MaxStamp
    BY FileAssumption
  <2>2. <<1>> \in Contents /\ NoFile \in Contents
    BY ContentFacts
  <2>3. QED
    BY <2>1, <2>2 DEF Init, TypeOK
<1>3. WholeOrOld
  BY <1>1, ContentFacts DEF WholeOrOld
<1>4. JobInv
  BY DEF Init, JobInv
<1>5. QED
  BY <1>2, <1>3, <1>4 DEF FileInv

\* Every access to the file system preserves the invariant.
LEMMA FileInvStep ==
  ASSUME FileInv, [Next]_vars
  PROVE  FileInv'
<1> USE FileAssumption DEF FileInv, TypeOK, JobInv, WholeOrOld, books, history, Tools, Steps, NoJob, Jobs,
        Idle, Exists, NewStamp, Overwritten
<1>1. ASSUME NEW p \in Paths, ReadFile(p) \/ ReadFileRange(p) PROVE FileInv'
  BY <1>1 DEF ReadFile, ReadFileRange
<1>2. ASSUME NEW p \in Paths, NEW tool \in {"write", "snippet"}, BeginWrite(p, tool) PROVE FileInv'
  <2> USE <1>2 DEF BeginWrite
  <2>1. TypeOK'
    BY ContentFacts
  <2>2. JobInv'
    BY ContentFacts
  <2>3. WholeOrOld'
    OBVIOUS
  <2>4. QED
    BY <2>1, <2>2, <2>3
<1>3. ASSUME NEW p \in Paths, BeginEdit(p) PROVE FileInv'
  <2> USE <1>3 DEF BeginEdit
  <2> DEFINE new == Append(disk[p], stamp')
  <2>a. new \in Seq(Nat) /\ new # <<>>
    BY ContentFacts, SMTT(40)
  <2>1. TypeOK'
    BY <2>a, SMTT(40)
  <2>2. JobInv'
    BY <2>a
  <2>3. WholeOrOld'
    OBVIOUS
  <2>4. QED
    BY <2>1, <2>2, <2>3
<1>4. ASSUME NEW p \in Paths, CheckDrift(p) PROVE FileInv'
  <2> USE <1>4 DEF CheckDrift
  <2>1. TypeOK'
    BY ContentFacts
  <2>2. JobInv'
    OBVIOUS
  <2>3. WholeOrOld'
    OBVIOUS
  <2>4. QED
    BY <2>1, <2>2, <2>3
<1>5. ASSUME NEW p \in Paths, StartFile(p) PROVE FileInv'
  <2> USE <1>5 DEF StartFile, start_file
  <2>1. TypeOK'
    <3>0. \/ UNCHANGED <<disk, seen, acked, emptied, started>>
          \/ /\ disk' = [disk EXCEPT ![p] = <<>>]
             /\ seen' = [seen EXCEPT ![p] = <<>>]
             /\ acked' = [acked EXCEPT ![p] = <<>>]
             /\ emptied' = emptied \cup {p} /\ started' = started \cup {p}
      OBVIOUS
    <3>1. disk' \in [Paths -> Contents] /\ seen' \in [Paths -> Contents] /\ acked' \in [Paths -> Contents]
      <4> HIDE <1>5
      <4>1. QED
        BY <3>0, ContentFacts
    <3>2. /\ active_write_sessions' \subseteq Paths
          /\ emptied' \subseteq Paths /\ started' \subseteq Paths
      OBVIOUS
    <3>3. QED
      BY <3>1, <3>2
  <2>2. JobInv'
    OBVIOUS
  <2>3. WholeOrOld'
    OBVIOUS
  <2>4. QED
    BY <2>1, <2>2, <2>3
<1>6. ASSUME NEW p \in Paths, AppendFile(p) PROVE FileInv'
  <2> DEFINE next(c, x) == IF c = NoFile THEN NoFile ELSE Append(c, x)
  <2>n. stamp' \in Nat /\ stamp' \in 1..MaxStamp /\ Torn(stamp') \in Nat
    BY <1>6 DEF AppendFile, Torn
  <2>a. \A c \in Contents, x \in Nat : next(c, x) \in Contents /\ next(c, x) # <<>>
    BY ContentFacts
  <2>b. PICK x \in Nat : \/ disk' = disk /\ emptied' = emptied
                         \/ disk' = [disk EXCEPT ![p] = next(@, x)] /\ emptied' = emptied \ {p}
    BY <1>6, <2>n DEF AppendFile, append_file
  <2>c. /\ acked' = acked \/ acked' = [acked EXCEPT ![p] = next(@, stamp')]
        /\ seen' = seen \/ seen' = [seen EXCEPT ![p] = next(@, stamp')]
    BY <1>6 DEF AppendFile, append_file
  <2>d. UNCHANGED <<tmp, books, job, started, overtaken, cut>>
    BY <1>6 DEF AppendFile
  <2> HIDE DEF next
  <2>1. TypeOK'
    BY <2>n, <2>a, <2>b, <2>c, <2>d
  <2>2. JobInv'
    BY <2>d
  <2>3. WholeOrOld'
    BY <2>a, <2>b, <2>d
  <2>4. QED
    BY <2>1, <2>2, <2>3
<1>7. ASSUME NEW p \in Paths, FinishFile(p) \/ TouchFile(p) PROVE FileInv'
  <2> USE <1>7 DEF FinishFile, TouchFile
  <2>1. TypeOK'
    <3>1. CASE FinishFile(p)
      BY <3>1
    <3>2. CASE TouchFile(p)
      BY <3>2, ContentFacts
    <3> QED BY <3>1, <3>2
  <2>2. JobInv'
    OBVIOUS
  <2>3. WholeOrOld'
    OBVIOUS
  <2>4. QED
    BY <2>1, <2>2, <2>3
<1>8. ASSUME NEW p \in Paths, External(p) PROVE FileInv'
  <2> USE <1>8 DEF External
  <2> DEFINE new == IF disk[p] = NoFile THEN <<stamp'>> ELSE Append(disk[p], stamp')
  <2>n. stamp' \in Nat /\ disk[p] \in Contents
    OBVIOUS
  <2>a. new \in Contents /\ new # <<>> /\ NoFile \in Contents /\ NoFile # <<>>
    <3> HIDE <1>8
    <3> QED
      BY <2>n, ContentFacts
  <2>b. PICK c \in {new, NoFile} : disk' = [disk EXCEPT ![p] = c]
    OBVIOUS
  <2>c. c \in Contents /\ c # <<>>
    BY <2>a
  <2> HIDE DEF new
  <2>1. TypeOK'
    <3>1. disk' \in [Paths -> Contents] /\ acked' \in [Paths -> Contents]
      BY <2>b, <2>c, ContentFacts
    <3>2. /\ stamp' \in 1..MaxStamp
          /\ emptied' \subseteq Paths /\ overtaken' \subseteq Paths
      OBVIOUS
    <3>3. QED
      BY <3>1, <3>2
  <2>2. JobInv'
    <3>1. UNCHANGED <<job, tmp, cut>>
      OBVIOUS
    <3>2. QED
      BY <3>1
  <2>3. WholeOrOld'
    BY <2>b, <2>c
  <2>4. QED
    BY <2>1, <2>2, <2>3
<1>9. CASE LoadLines
  <2> USE <1>9 DEF LoadLines
  <2> DEFINE new == Append(disk[job.path], stamp')
  <2>a. job \in Jobs /\ job.path \in Paths
    OBVIOUS
  <2>n. stamp' \in Nat /\ disk[job.path] \in Contents /\ disk[job.path] # NoFile
    BY <2>a
  <2>b. new \in Seq(Nat) /\ new # <<>>
    <3> HIDE <1>9
    <3> QED
      BY <2>n, ContentFacts
  <2>c. job' = [job EXCEPT !.step = "open", !.new = new]
    OBVIOUS
  <2> HIDE DEF new
  <2>d. job' \in Jobs
    <3> HIDE <1>9
    <3> QED
      BY <2>a, <2>b, <2>c
  <2>1. TypeOK'
    <3>1. stamp' \in 1..MaxStamp
      OBVIOUS
    <3>2. QED
      BY <2>d, <3>1
  <2>2. JobInv'
    BY <2>a, <2>b, <2>c
  <2>3. WholeOrOld'
    OBVIOUS
  <2>4. QED
    BY <2>1, <2>2, <2>3
<1>10. CASE OpenTmp
  <2> USE <1>10 DEF OpenTmp
  <2>1. TypeOK'
    BY ContentFacts
  <2>2. JobInv'
    OBVIOUS
  <2>3. WholeOrOld'
    OBVIOUS
  <2>4. QED
    BY <2>1, <2>2, <2>3
<1>11. CASE FillTmp
  <2> USE <1>11 DEF FillTmp
  <2>1. TypeOK'
    <3>1. job \in Jobs /\ job.path \in Paths /\ job.new \in Seq(Nat)
      OBVIOUS
    <3>2. tmp' \in [Paths -> Contents]
      BY <3>1, ContentFacts
    <3>3. job' \in {NoJob} \cup Jobs
      BY <3>1
    <3>4. cut' \subseteq Paths
      BY <3>1
    <3>5. QED
      BY <3>2, <3>3, <3>4
  <2>2. JobInv'
    OBVIOUS
  <2>3. WholeOrOld'
    OBVIOUS
  <2>4. QED
    BY <2>1, <2>2, <2>3
<1>12. CASE RenameTmp
  <2> USE <1>12 DEF RenameTmp
  <2>a. job \in Jobs /\ job.path \in Paths
    OBVIOUS
  <2>b. job.new \in Seq(Nat) /\ job.new # <<>> /\ job.new \in Contents
    BY <2>a, ContentFacts
  <2>c. job.new[Len(job.new)] \in Nat
    BY <2>b, LenProperties, EmptySeq, ElementOfSeq
  <2>d. \A c \in Contents : c # NoFile => Append(c, job.new[Len(job.new)]) \in Contents
    BY <2>c, ContentFacts
  <2>e. seen' \in [Paths -> Contents]
    BY <2>a, <2>b, <2>d
  <2>1. TypeOK'
    <3>1. disk' \in [Paths -> Contents] /\ tmp' \in [Paths -> Contents]
      BY <2>a, ContentFacts
    <3>2. file_sessions' \in [Paths -> Contents]
      BY <2>a, ContentFacts
    <3>3. acked' \in [Paths -> Contents] /\ emptied' \subseteq Paths
      BY <2>a, ContentFacts
    <3>4. cut' \subseteq Paths /\ job' \in {NoJob} \cup Jobs
      OBVIOUS
    <3>5. active_write_sessions' \subseteq Paths /\ stamp' \in 1..MaxStamp
      OBVIOUS
    <3>6. started' \subseteq Paths /\ overtaken' \subseteq Paths
      OBVIOUS
    <3> HIDE DEF RenameTmp, FileInv, JobInv, WholeOrOld, Contents, Jobs, Overwritten
    <3>7. QED
      BY <2>e, <3>1, <3>2, <3>3, <3>4, <3>5, <3>6
  <2>2. JobInv'
    OBVIOUS
  <2>3. WholeOrOld'
    <3>1. ASSUME NEW p \in Paths, disk'[p] = <<>> PROVE p \in emptied' \cup cut'
      <4>1. CASE p = job.path
        BY <2>a, <2>b, <3>1, <4>1
      <4>2. CASE p # job.path
        BY <2>a, <3>1, <4>2
      <4>3. QED
        BY <4>1, <4>2
    <3>2. QED
      BY <3>1
  <2>4. QED
    BY <2>1, <2>2, <2>3
<1>13. CASE JobFails
  <2> USE <1>13 DEF JobFails
  <2>1. TypeOK'
    <3>1. file_sessions' \in [Paths -> Contents]
      <4>1. CASE UNCHANGED file_sessions
        BY <4>1
      <4>2. CASE file_sessions' = [file_sessions EXCEPT ![job.path] = NoFile]
        BY <4>2, ContentFacts
      <4>3. QED
        BY <4>1, <4>2
    <3>2. /\ job' \in {NoJob} \cup Jobs
          /\ UNCHANGED <<disk, tmp, active_write_sessions, history>>
      OBVIOUS
    <3> HIDE DEF JobFails, JobInv, WholeOrOld, Contents, Jobs
    <3>3. QED
      BY <3>1, <3>2
  <2>2. JobInv'
    OBVIOUS
  <2>3. WholeOrOld'
    OBVIOUS
  <2>4. QED
    BY <2>1, <2>2, <2>3
<1>14. CASE Kill
  <2> USE <1>14 DEF Kill
  <2>1. TypeOK'
    BY ContentFacts
  <2>2. JobInv'
    OBVIOUS
  <2>3. WholeOrOld'
    OBVIOUS
  <2>4. QED
    BY <2>1, <2>2, <2>3
<1>15. CASE UNCHANGED vars
  BY <1>15 DEF vars
<1>16. QED
  BY <1>1, <1>2, <1>3, <1>4, <1>5, <1>6, <1>7, <1>8, <1>9, <1>10, <1>11, <1>12, <1>13, <1>14, <1>15
  DEF Next, Replace

-----------------------------------------------------------------------------

\* No kill, failure or other writer makes a file that a tool replaces appear
\* empty, however many files and changes there are, unless a full disk cut its
\* temporary file short.
THEOREM FilesWhole == Spec => []WholeOrOld
<1>1. FileInv /\ [Next]_vars => FileInv'
  BY FileInvStep
<1>2. FileInv => WholeOrOld
  BY DEF FileInv
<1>3. QED
  BY FileInvInit, <1>1, <1>2, PTL DEF Spec

-----------------------------------------------------------------------------
(* Stamps are given out once: what a step writes was in no file and in no book *)
(* before. *)

\* Contents without changes, and contents seen from a later moment.
LEMMA UsedFacts ==
  /\ \A n : UsedBy(<<>>, n) /\ UsedBy(NoFile, n)
  /\ \A c \in Contents : \A n, m \in Nat : UsedBy(c, n) /\ n <= m => UsedBy(c, m)
<1>1. \A n : UsedBy(<<>>, n) /\ UsedBy(NoFile, n)
  BY DEF UsedBy
<1>2. ASSUME NEW c \in Contents, NEW n \in Nat, NEW m \in Nat, UsedBy(c, n), n <= m
      PROVE  UsedBy(c, m)
  <2>1. ASSUME NEW x \in (1..n) \cup (Torn(1)..Torn(n)) PROVE x \in (1..m) \cup (Torn(1)..Torn(m))
    BY <1>2, FileAssumption DEF Torn
  <2> QED BY <1>2, <2>1 DEF UsedBy
<1> QED BY <1>1, <1>2

\* What an append leaves was not there before.
LEMMA NewContent ==
  ASSUME NEW c \in Seq(Nat), NEW n \in Nat, n + 1 <= MaxStamp, NEW x \in {n + 1, Torn(n + 1)},
         UsedBy(c, n)
  PROVE  /\ UsedBy(Append(c, x), n + 1)
         /\ \A d \in Contents : UsedBy(d, n) => Append(c, x) # d
<1>1. /\ Len(c) \in Nat /\ DOMAIN c = 1..Len(c) /\ DOMAIN Append(c, x) = 1..(Len(c) + 1)
      /\ Append(c, x)[Len(c) + 1] = x
      /\ \A i \in 1..Len(c) : Append(c, x)[i] = c[i]
  BY FileAssumption DEF Torn
<1>2. \A i \in 1..(Len(c) + 1) : i \in 1..Len(c) \/ i = Len(c) + 1
  BY <1>1
<1>3. x \in (1..(n + 1)) \cup (Torn(1)..Torn(n + 1))
  BY FileAssumption DEF Torn
<1>4. x \notin (1..n) \cup (Torn(1)..Torn(n))
  BY FileAssumption DEF Torn
<1>5. UsedBy(Append(c, x), n + 1)
  <2>1. UsedBy(c, n + 1) /\ c # NoFile
    BY UsedFacts, ContentFacts
  <2>2. ASSUME NEW i \in 1..(Len(c) + 1)
        PROVE  Append(c, x)[i] \in (1..(n + 1)) \cup (Torn(1)..Torn(n + 1))
    BY <1>1, <1>2, <1>3, <2>1, Zenon DEF UsedBy
  <2> QED BY <1>1, <2>2, Zenon DEF UsedBy
<1>6. ASSUME NEW d \in Contents, UsedBy(d, n), Append(c, x) = d PROVE FALSE
  <2>1. d # NoFile /\ Len(c) + 1 \in DOMAIN d /\ d[Len(c) + 1] = x
    <3>1. d # NoFile
      <4>1. x \in Nat
        BY FileAssumption DEF Torn
      <4>2. Append(c, x) \in Seq(Nat)
        BY <4>1
      <4> QED BY <1>6, <4>2, ContentFacts, Zenon
    <3>2. Len(c) + 1 \in 1..(Len(c) + 1)
      BY <1>1
    <3> QED BY <3>1, <3>2, <1>1, <1>6, Zenon
  <2> QED BY <2>1, <1>4, <1>6, Zenon DEF UsedBy
<1> QED BY <1>5, <1>6

\* A chunk written to a file and acknowledged keeps the two in step; a torn one
\* changes neither.
LEMMA ChunkAdded ==
  ASSUME NEW c \in Seq(Nat), NEW n \in Nat, n + 1 <= MaxStamp, UsedBy(c, n), InOrder(c)
  PROVE  /\ Chunks(Append(c, n + 1)) = Chunks(c) \cup {n + 1} /\ InOrder(Append(c, n + 1))
         /\ Chunks(Append(c, Torn(n + 1))) = Chunks(c) /\ InOrder(Append(c, Torn(n + 1)))
<1>1. \A x \in Nat : /\ Len(c) \in Nat /\ DOMAIN c = 1..Len(c)
                     /\ DOMAIN Append(c, x) = 1..(Len(c) + 1)
                     /\ Append(c, x)[Len(c) + 1] = x
                     /\ \A i \in 1..Len(c) : Append(c, x)[i] = c[i]
  OBVIOUS
<1>2. /\ \A i \in 1..(Len(c) + 1) : i \in 1..Len(c) \/ i = Len(c) + 1
      /\ Len(c) + 1 \in 1..(Len(c) + 1) /\ \A i \in 1..Len(c) : i \in 1..(Len(c) + 1)
  BY <1>1
<1>3. c # NoFile /\ \A i \in 1..Len(c) : c[i] \in Nat
  BY ContentFacts
<1>4. \A i \in 1..Len(c) : c[i] <= MaxStamp => c[i] < n + 1
  <2> SUFFICES ASSUME NEW i \in 1..Len(c), c[i] <= MaxStamp PROVE c[i] < n + 1
    OBVIOUS
  <2>1. c[i] \in (1..n) \cup (Torn(1)..Torn(n))
    BY <1>1, <1>3 DEF UsedBy
  <2> QED BY <2>1, FileAssumption DEF Torn
<1>5. n + 1 \in Nat /\ Torn(n + 1) \in Nat /\ ~(Torn(n + 1) <= MaxStamp) /\ MaxStamp \in Nat
  BY FileAssumption DEF Torn
<1>6. \A x : x \in Chunks(c) <=> \E i \in 1..Len(c) : c[i] <= MaxStamp /\ c[i] = x
  BY <1>1, Zenon DEF Chunks
<1>7. \A y \in Nat : \A x : x \in Chunks(Append(c, y)) <=> x \in Chunks(c) \/ (y <= MaxStamp /\ x = y)
  <2> SUFFICES ASSUME NEW y \in Nat, NEW x
               PROVE x \in Chunks(Append(c, y)) <=> x \in Chunks(c) \/ (y <= MaxStamp /\ x = y)
    OBVIOUS
  <2>1. x \in Chunks(Append(c, y)) <=>
          \E i \in 1..(Len(c) + 1) : Append(c, y)[i] <= MaxStamp /\ Append(c, y)[i] = x
    BY <1>1, Zenon DEF Chunks
  <2>2. /\ Append(c, y)[Len(c) + 1] = y
        /\ \A i \in 1..Len(c) : Append(c, y)[i] = c[i]
    BY <1>1
  <2>3. ASSUME x \in Chunks(Append(c, y)) PROVE x \in Chunks(c) \/ (y <= MaxStamp /\ x = y)
    <3>1. PICK i \in 1..(Len(c) + 1) : Append(c, y)[i] <= MaxStamp /\ Append(c, y)[i] = x
      BY <2>1, <2>3, Zenon
    <3>2. CASE i \in 1..Len(c)
      BY <3>1, <3>2, <2>2, <1>6, Zenon
    <3>3. CASE i = Len(c) + 1
      BY <3>1, <3>3, <2>2, Zenon
    <3> QED BY <3>2, <3>3, <1>2, Zenon
  <2>4. ASSUME x \in Chunks(c) PROVE x \in Chunks(Append(c, y))
    BY <2>1, <2>2, <2>4, <1>2, <1>6, Zenon
  <2>5. ASSUME y <= MaxStamp, x = y PROVE x \in Chunks(Append(c, y))
    BY <2>1, <2>2, <2>5, <1>2, Zenon
  <2> QED BY <2>3, <2>4, <2>5, Zenon
<1>8. Chunks(Append(c, n + 1)) = Chunks(c) \cup {n + 1}
  BY <1>5, <1>7
<1>9. Chunks(Append(c, Torn(n + 1))) = Chunks(c)
  BY <1>5, <1>7
<1>10. ASSUME NEW y \in {n + 1, Torn(n + 1)} PROVE InOrder(Append(c, y))
  <2> DEFINE d == Append(c, y)
  <2> SUFFICES ASSUME NEW i \in 1..(Len(c) + 1), NEW j \in 1..(Len(c) + 1), i < j,
                      d[i] <= MaxStamp, d[j] <= MaxStamp
               PROVE  d[i] < d[j]
    BY <1>1, <1>5, Zenon DEF InOrder
  <2>1. CASE j \in 1..Len(c)
    <3>1. i \in 1..Len(c)
      BY <2>1, <1>1
    <3>2. d[i] = c[i] /\ d[j] = c[j]
      BY <3>1, <2>1, <1>1, <1>5
    <3> HIDE DEF d
    <3> QED BY <3>1, <3>2, <2>1, <1>1 DEF InOrder
  <2>2. CASE j = Len(c) + 1
    <3>1. i \in 1..Len(c)
      BY <2>2, <1>1
    <3>2. d[i] = c[i] /\ d[j] = y
      BY <3>1, <2>2, <1>1, <1>5
    <3>3. y = n + 1
      BY <3>2, <1>5
    <3> HIDE DEF d
    <3> QED BY <3>1, <3>2, <3>3, <1>4
  <2> QED BY <2>1, <2>2, <1>2
<1> QED BY <1>8, <1>9, <1>10

\* An empty file holds no chunks.
LEMMA NoChunks == Chunks(<<>>) = {} /\ InOrder(<<>>)
BY DEF Chunks, InOrder

-----------------------------------------------------------------------------
(* What a file is and what the books say of it: ChunksKept and DriftIsCaught. *)

\* At first nothing has been written, and no session knows a file.
LEMMA BooksInvInit == Init => BooksInv
<1> SUFFICES ASSUME Init PROVE BooksInv
  OBVIOUS
<1>1. /\ \A p \in Paths : /\ disk[p] \in {NoFile, <<1>>} /\ tmp[p] = NoFile
                          /\ file_sessions[p] = NoFile /\ acked[p] = NoFile
      /\ job = NoJob /\ stamp = 1
  BY DEF Init
<1>2. StampsInv
  <2>1. UsedBy(<<1>>, 1)
    BY DEF UsedBy
  <2>2. \A c \in {NoFile, <<1>>} : UsedBy(c, 1)
    BY <2>1, UsedFacts
  <2> QED BY <1>1, <2>2, UsedFacts DEF StampsInv
<1>3. SessionsInv
  BY <1>1 DEF SessionsInv
<1>4. ChunksKept
  BY <1>1 DEF ChunksKept
<1> QED BY <1>2, <1>3, <1>4, FileInvInit DEF BooksInv

\* A step that takes at most one stamp, and leaves in every place a content that
\* was there before, none, the empty one, or one that ends in the new stamp.
LEMMA StampsKept ==
  ASSUME BooksInv, FileInv',
         \/ stamp' = stamp
         \/ stamp' = stamp + 1,
         \A p \in Paths : /\ UsedBy(disk'[p], stamp') /\ UsedBy(tmp'[p], stamp')
                          /\ file_sessions'[p] \in {NoFile, disk[p], file_sessions[p]}
                          /\ UsedBy(acked'[p], stamp'),
         job' # NoJob => UsedBy(job'.new, stamp')
  PROVE  StampsInv'
<1>1. stamp \in Nat /\ stamp' \in Nat /\ stamp <= stamp'
  BY DEF BooksInv, FileInv, TypeOK
<1>2. \A p \in Paths : UsedBy(disk[p], stamp') /\ UsedBy(file_sessions[p], stamp')
  BY <1>1, UsedFacts DEF BooksInv, FileInv, StampsInv, TypeOK
<1>3. \A p \in Paths : UsedBy(file_sessions'[p], stamp')
  BY <1>2, UsedFacts
<1> QED BY <1>3 DEF StampsInv

\* Reading.
LEMMA ReadingKeeps ==
  ASSUME BooksInv, FileInv', NEW p \in Paths, ReadFile(p) \/ ReadFileRange(p)
  PROVE  BooksInv'
<1>1. /\ UNCHANGED <<disk, tmp, job, stamp, acked>> /\ job = NoJob
      /\ seen' = [seen EXCEPT ![p] = disk[p]]
      /\ \/ file_sessions' = file_sessions
         \/ file_sessions' = [file_sessions EXCEPT ![p] = disk[p]]
  BY DEF ReadFile, ReadFileRange, books, Idle
<1>2. TypeOK
  BY DEF BooksInv, FileInv
<1>3. /\ \A q \in Paths : q # p => seen'[q] = seen[q] /\ file_sessions'[q] = file_sessions[q]
      /\ seen'[p] = disk[p]
      /\ \A q \in Paths : file_sessions'[q] \in {file_sessions[q], disk[q]}
  BY <1>1, <1>2 DEF TypeOK
<1>4. StampsInv'
  BY <1>1, <1>3, StampsKept DEF BooksInv, StampsInv
<1>5. SessionsInv'
  BY <1>1, <1>3 DEF BooksInv, SessionsInv
<1>6. ChunksKept'
  BY <1>1 DEF BooksInv, ChunksKept, Exists
<1> QED BY <1>4, <1>5, <1>6 DEF BooksInv

\* A content that ends in the stamp of this step.
LEMMA NewOnDisk ==
  ASSUME BooksInv, NewStamp, NEW c \in Seq(Nat), UsedBy(c, stamp),
         NEW x \in {stamp', Torn(stamp')}
  PROVE  /\ UsedBy(Append(c, x), stamp') /\ Append(c, x) \in Seq(Nat)
         /\ \A p \in Paths : Append(c, x) # file_sessions[p]
<1>1. stamp \in Nat /\ stamp' = stamp + 1 /\ stamp + 1 <= MaxStamp
      /\ \A p \in Paths : file_sessions[p] \in Contents /\ UsedBy(file_sessions[p], stamp)
  BY FileAssumption DEF BooksInv, FileInv, TypeOK, StampsInv, NewStamp
<1>2. Append(c, x) \in Seq(Nat)
  <2>1. x \in Nat
    BY <1>1, FileAssumption DEF Torn
  <2> QED BY <2>1
<1> QED BY <1>1, <1>2, NewContent

\* The first steps of the tools that replace a file.
LEMMA BeginningKeeps ==
  ASSUME BooksInv, FileInv', NEW p \in Paths,
         \/ \E tool \in {"write", "snippet"} : BeginWrite(p, tool)
         \/ BeginEdit(p)
  PROVE  BooksInv'
<1>1. TypeOK /\ StampsInv
  BY DEF BooksInv, FileInv
<1>2. /\ UNCHANGED <<disk, tmp, file_sessions, seen, acked, overtaken>> /\ NewStamp
      /\ job'.step = "open" /\ job'.path = p
  BY DEF BeginWrite, BeginEdit, books
<1>3. PICK c \in Seq(Nat) : UsedBy(c, stamp) /\ job'.new = Append(c, stamp')
  <2>1. CASE \E tool \in {"write", "snippet"} : BeginWrite(p, tool)
    <3>1. job'.new = Append(<<>>, stamp') /\ <<>> \in Seq(Nat)
      BY <2>1 DEF BeginWrite
    <3> QED BY <3>1, UsedFacts
  <2>2. CASE BeginEdit(p)
    <3>1. disk[p] \in Seq(Nat) /\ UsedBy(disk[p], stamp)
      BY <2>2, <1>1, ContentFacts DEF BeginEdit, Exists, TypeOK, StampsInv
    <3> QED BY <3>1, <2>2 DEF BeginEdit
  <2> QED BY <2>1, <2>2
<1>4. stamp' = stamp + 1 /\ stamp \in Nat /\ stamp' \in Nat
  BY <1>1, <1>2 DEF NewStamp, TypeOK
<1>5. UsedBy(job'.new, stamp') /\ \A q \in Paths : job'.new # file_sessions[q]
  BY <1>2, <1>3, NewOnDisk
<1>6. \A q \in Paths : UsedBy(disk[q], stamp') /\ UsedBy(tmp[q], stamp') /\ UsedBy(acked[q], stamp')
  BY <1>1, <1>4, UsedFacts DEF TypeOK, StampsInv
<1>7. StampsInv'
  BY <1>2, <1>4, <1>5, <1>6, StampsKept
<1>8. SessionsInv'
  BY <1>2, <1>5 DEF BooksInv, SessionsInv
<1>9. ChunksKept'
  BY <1>2 DEF BooksInv, ChunksKept, Exists
<1> QED BY <1>7, <1>8, <1>9 DEF BooksInv

\* replace_lines compares the file with its session.
LEMMA CheckKeeps ==
  ASSUME BooksInv, FileInv', NEW p \in Paths, CheckDrift(p)
  PROVE  BooksInv'
<1>1. /\ UNCHANGED <<disk, tmp, file_sessions, stamp, seen, acked>>
      /\ file_sessions[p] \in {NoFile, disk[p]}
      /\ job' = [tool |-> "replace", path |-> p, step |-> "load", new |-> <<>>,
                 guarded |-> file_sessions[p] # NoFile]
  BY DEF CheckDrift, books
<1>2. job'.path = p /\ job'.step = "load" /\ job'.new = <<>> /\ (job'.guarded <=> file_sessions[p] # NoFile)
  BY <1>1
<1>3. StampsInv'
  BY <1>1, <1>2, UsedFacts, StampsKept DEF BooksInv, StampsInv
<1>4. job'.guarded => disk[p] \in {<<>>, seen[p]}
  BY <1>1, <1>2 DEF BooksInv, SessionsInv
<1>5. SessionsInv'
  BY <1>1, <1>2, <1>4 DEF BooksInv, SessionsInv
<1>6. ChunksKept'
  BY <1>1 DEF BooksInv, ChunksKept, Exists
<1> QED BY <1>3, <1>5, <1>6 DEF BooksInv

\* It reads the file again.
LEMMA LoadKeeps ==
  ASSUME BooksInv, FileInv', LoadLines
  PROVE  BooksInv'
<1>1. TypeOK /\ StampsInv
  BY DEF BooksInv, FileInv
<1>2. /\ UNCHANGED <<disk, tmp, file_sessions, seen, acked>> /\ NewStamp
      /\ job # NoJob /\ disk[job.path] # NoFile
      /\ job' = [job EXCEPT !.step = "open", !.new = Append(disk[job.path], stamp')]
  BY DEF LoadLines, books
<1>3. job \in Jobs /\ job.path \in Paths
  BY <1>1, <1>2 DEF TypeOK, Jobs
<1>4. job'.step = "open" /\ job'.path = job.path /\ job'.new = Append(disk[job.path], stamp')
  BY <1>2, <1>3 DEF Jobs
<1>5. disk[job.path] \in Seq(Nat) /\ UsedBy(disk[job.path], stamp)
  BY <1>1, <1>2, <1>3, ContentFacts DEF TypeOK, StampsInv
<1>6. stamp' = stamp + 1 /\ stamp \in Nat /\ stamp' \in Nat
  BY <1>1, <1>2 DEF NewStamp, TypeOK
<1>7. UsedBy(job'.new, stamp') /\ \A q \in Paths : job'.new # file_sessions[q]
  BY <1>2, <1>4, <1>5, NewOnDisk
<1>8. \A q \in Paths : UsedBy(disk[q], stamp') /\ UsedBy(tmp[q], stamp') /\ UsedBy(acked[q], stamp')
  BY <1>1, <1>6, UsedFacts DEF TypeOK, StampsInv
<1>9. StampsInv'
  BY <1>2, <1>6, <1>7, <1>8, StampsKept
<1>10. SessionsInv'
  BY <1>2, <1>3, <1>4, <1>7 DEF BooksInv, SessionsInv
<1>11. ChunksKept'
  BY <1>2 DEF BooksInv, ChunksKept, Exists
<1> QED BY <1>9, <1>10, <1>11 DEF BooksInv

\* Creating, filling, renaming and giving up.
LEMMA ReplacingKeeps ==
  ASSUME BooksInv, FileInv', OpenTmp \/ FillTmp \/ JobFails
  PROVE  BooksInv'
<1>1. TypeOK /\ StampsInv /\ SessionsInv
  BY DEF BooksInv, FileInv
<1>2. /\ UNCHANGED <<disk, stamp, seen, acked, overtaken>> /\ job # NoJob
      /\ job \in Jobs /\ job.path \in Paths
  BY <1>1 DEF OpenTmp, FillTmp, JobFails, history, TypeOK, Jobs
<1>3. /\ \/ tmp' = tmp
         \/ \E c \in {<<>>, NoFile, job.new} : tmp' = [tmp EXCEPT ![job.path] = c]
      /\ \/ job' = NoJob
         \/ \E step \in {"fill", "rename"} : job.step # "load" /\ job' = [job EXCEPT !.step = step]
      /\ \/ file_sessions' = file_sessions
         \/ file_sessions' = [file_sessions EXCEPT ![job.path] = NoFile] /\ job' = NoJob
  <2>1. CASE OpenTmp
    BY <2>1 DEF OpenTmp, books
  <2>2. CASE FillTmp
    BY <2>2 DEF FillTmp, books
  <2>3. CASE JobFails
    BY <2>3 DEF JobFails
  <2> QED BY <2>1, <2>2, <2>3
<1>4. \A q \in Paths : UsedBy(tmp'[q], stamp)
  <2>1. \A c \in {<<>>, NoFile, job.new} : UsedBy(c, stamp)
    BY <1>1, <1>2, UsedFacts DEF StampsInv
  <2> QED BY <1>1, <1>3, <2>1 DEF StampsInv, TypeOK
<1>5. job' # NoJob => /\ job'.new = job.new /\ job'.path = job.path
                      /\ job.step # "load" /\ job'.step # "load"
  BY <1>2, <1>3 DEF Jobs
<1>6. \A q \in Paths : file_sessions'[q] \in {NoFile, file_sessions[q]}
  BY <1>1, <1>3 DEF TypeOK
<1>7. StampsInv'
  BY <1>1, <1>2, <1>4, <1>5, <1>6, StampsKept DEF StampsInv
<1>8. SessionsInv'
  <2>1. \A q \in Paths : file_sessions'[q] \notin {NoFile, <<>>} /\ file_sessions'[q] = disk'[q]
                           => seen'[q] = disk'[q]
    BY <1>1, <1>2, <1>6 DEF SessionsInv
  <2>2. job' # NoJob => file_sessions' = file_sessions
    BY <1>3
  <2>3. job' # NoJob => job'.new # file_sessions'[job'.path]
    BY <1>1, <1>2, <1>5, <2>2 DEF SessionsInv
  <2> QED BY <1>5, <2>1, <2>3 DEF SessionsInv
<1>9. ChunksKept'
  BY <1>2 DEF BooksInv, ChunksKept, Exists
<1> QED BY <1>7, <1>8, <1>9 DEF BooksInv

\* The temporary file takes the place of the file.
LEMMA RenameKeeps ==
  ASSUME BooksInv, FileInv', RenameTmp
  PROVE  BooksInv'
<1>1. TypeOK /\ StampsInv /\ SessionsInv /\ JobInv
  BY DEF BooksInv, FileInv
<1>2. /\ job \in Jobs /\ job.path \in Paths /\ job # NoJob /\ job.step = "rename"
      /\ job' = NoJob /\ stamp' = stamp
  BY <1>1 DEF RenameTmp, TypeOK, Jobs
<1>3. /\ disk' = [disk EXCEPT ![job.path] = tmp[job.path]]
      /\ tmp' = [tmp EXCEPT ![job.path] = NoFile]
      /\ acked' = [acked EXCEPT ![job.path] = NoFile]
      /\ \/ file_sessions' = file_sessions
         \/ file_sessions' = [file_sessions EXCEPT ![job.path] = NoFile]
      /\ \E c : seen' = [seen EXCEPT ![job.path] = c]
  BY DEF RenameTmp, Overwritten
<1>4. tmp[job.path] \in {<<>>, job.new}
  BY <1>1, <1>2 DEF JobInv
<1>5. /\ disk'[job.path] = tmp[job.path] /\ tmp'[job.path] = NoFile /\ acked'[job.path] = NoFile
      /\ \A q \in Paths : q # job.path => disk'[q] = disk[q] /\ tmp'[q] = tmp[q] /\ acked'[q] = acked[q]
      /\ \A q \in Paths : file_sessions'[q] \in {NoFile, file_sessions[q]}
      /\ \A q \in Paths : q # job.path => seen'[q] = seen[q]
  BY <1>1, <1>2, <1>3 DEF TypeOK
<1>6. StampsInv'
  <2>1. \A q \in Paths : UsedBy(disk'[q], stamp) /\ UsedBy(tmp'[q], stamp) /\ UsedBy(acked'[q], stamp)
    BY <1>1, <1>2, <1>5, UsedFacts DEF StampsInv
  <2> QED BY <1>2, <1>5, <2>1, StampsKept
<1>7. SessionsInv'
  <2>1. job.new # file_sessions[job.path]
    BY <1>1, <1>2 DEF SessionsInv
  <2>2. disk'[job.path] = file_sessions'[job.path] => file_sessions'[job.path] \in {NoFile, <<>>}
    BY <1>2, <1>4, <1>5, <2>1
  <2> QED BY <1>1, <1>2, <1>5, <2>2 DEF SessionsInv
<1>8. ChunksKept'
  BY <1>2, <1>5 DEF BooksInv, ChunksKept, Exists
<1> QED BY <1>6, <1>7, <1>8 DEF BooksInv

\* A file made empty on purpose, or created empty.
LEMMA EmptyingKeeps ==
  ASSUME BooksInv, FileInv', NEW p \in Paths, StartFile(p) \/ TouchFile(p)
  PROVE  BooksInv'
<1>1. TypeOK /\ StampsInv /\ SessionsInv /\ ChunksKept
  BY DEF BooksInv, FileInv
<1>2. UNCHANGED <<tmp, file_sessions, job, stamp, overtaken>> /\ job = NoJob
  BY DEF StartFile, TouchFile, books, Idle
<1>3. \/ UNCHANGED <<disk, seen, acked>>
      \/ /\ disk' = [disk EXCEPT ![p] = <<>>]
         /\ \/ seen' = seen
            \/ seen' = [seen EXCEPT ![p] = <<>>]
         /\ \E c \in {<<>>, NoFile} : acked' = [acked EXCEPT ![p] = c]
  BY DEF StartFile, start_file, TouchFile
<1>4. \/ UNCHANGED <<disk, seen, acked>>
      \/ /\ disk'[p] = <<>> /\ acked'[p] \in {<<>>, NoFile}
         /\ \A q \in Paths : q # p => /\ disk'[q] = disk[q] /\ acked'[q] = acked[q]
                                      /\ seen'[q] = seen[q]
  BY <1>1, <1>3 DEF TypeOK
<1>5. StampsInv'
  <2>1. \A q \in Paths : UsedBy(disk'[q], stamp) /\ UsedBy(acked'[q], stamp)
    BY <1>1, <1>4, UsedFacts DEF StampsInv
  <2> QED BY <1>1, <1>2, <2>1, StampsKept DEF StampsInv
<1>6. SessionsInv'
  BY <1>1, <1>2, <1>4 DEF SessionsInv
<1>7. ChunksKept'
  BY <1>1, <1>4, NoChunks, ContentFacts DEF ChunksKept, Exists
<1> QED BY <1>5, <1>6, <1>7 DEF BooksInv

\* A chunk, acknowledged or torn.
LEMMA AppendingKeeps ==
  ASSUME BooksInv, FileInv', NEW p \in Paths, AppendFile(p)
  PROVE  BooksInv'
<1>1. TypeOK /\ StampsInv /\ SessionsInv /\ ChunksKept
  BY DEF BooksInv, FileInv
<1>2. /\ UNCHANGED <<tmp, file_sessions, job, overtaken>> /\ job = NoJob /\ NewStamp
      /\ append_file(p, stamp')
  BY DEF AppendFile, books, Idle
<1>3. /\ disk[p] \in Seq(Nat) /\ UsedBy(disk[p], stamp)
      /\ acked[p] \in Contents /\ UsedBy(acked[p], stamp)
  BY <1>1, ContentFacts DEF AppendFile, Exists, TypeOK, StampsInv
<1>4. stamp \in Nat /\ stamp' = stamp + 1 /\ stamp + 1 <= MaxStamp /\ stamp' \in Nat
  BY <1>1, <1>2, FileAssumption DEF NewStamp, TypeOK
<1>5. /\ \A x \in {stamp', Torn(stamp')} :
           /\ UsedBy(Append(disk[p], x), stamp') /\ Append(disk[p], x) \in Seq(Nat)
           /\ \A q \in Paths : Append(disk[p], x) # file_sessions[q]
      /\ acked[p] # NoFile => UsedBy(Append(acked[p], stamp'), stamp')
  BY <1>2, <1>3, NewOnDisk, ContentFacts
<1>6. \A q \in Paths : UsedBy(disk[q], stamp') /\ UsedBy(tmp[q], stamp') /\ UsedBy(acked[q], stamp')
  BY <1>1, <1>4, UsedFacts DEF TypeOK, StampsInv
<1>7. CASE disk' = [disk EXCEPT ![p] = Append(@, stamp')]
           /\ acked' = [acked EXCEPT ![p] = IF @ = NoFile THEN NoFile ELSE Append(@, stamp')]
           /\ seen' = [seen EXCEPT ![p] = IF @ = NoFile THEN NoFile ELSE Append(@, stamp')]
  <2>1. /\ disk'[p] = Append(disk[p], stamp')
        /\ acked'[p] = IF acked[p] = NoFile THEN NoFile ELSE Append(acked[p], stamp')
        /\ \A q \in Paths : q # p => disk'[q] = disk[q] /\ acked'[q] = acked[q] /\ seen'[q] = seen[q]
    BY <1>1, <1>7 DEF TypeOK
  <2>2. StampsInv'
    <3>1. UsedBy(acked'[p], stamp')
      BY <1>5, <2>1, UsedFacts
    <3> QED BY <1>2, <1>4, <1>5, <1>6, <2>1, <3>1, StampsKept
  <2>3. SessionsInv'
    BY <1>1, <1>2, <1>5, <2>1 DEF SessionsInv
  <2>4. ASSUME acked'[p] # NoFile
        PROVE  /\ disk'[p] # NoFile /\ Chunks(disk'[p]) = Chunks(acked'[p])
               /\ InOrder(disk'[p]) /\ InOrder(acked'[p])
    <3>1. acked[p] # NoFile /\ acked[p] \in Seq(Nat) /\ acked'[p] = Append(acked[p], stamp + 1)
      BY <1>3, <1>4, <2>1, <2>4, ContentFacts
    <3>2. Chunks(disk[p]) = Chunks(acked[p]) /\ InOrder(disk[p]) /\ InOrder(acked[p])
      BY <1>1, <3>1 DEF ChunksKept
    <3>3. /\ Chunks(Append(disk[p], stamp + 1)) = Chunks(disk[p]) \cup {stamp + 1}
          /\ InOrder(Append(disk[p], stamp + 1))
      BY <1>3, <1>4, <3>2, ChunkAdded
    <3>4. /\ Chunks(Append(acked[p], stamp + 1)) = Chunks(acked[p]) \cup {stamp + 1}
          /\ InOrder(Append(acked[p], stamp + 1))
      BY <1>3, <1>4, <3>1, <3>2, ChunkAdded
    <3>5. disk'[p] = Append(disk[p], stamp + 1) /\ disk'[p] # NoFile
      BY <1>4, <1>5, <2>1, ContentFacts
    <3> QED BY <3>1, <3>2, <3>3, <3>4, <3>5, Zenon
  <2>5. ChunksKept'
    BY <1>1, <2>1, <2>4 DEF ChunksKept, Exists
  <2> QED BY <2>2, <2>3, <2>5 DEF BooksInv
<1>8. CASE disk' \in {disk, [disk EXCEPT ![p] = Append(@, Torn(stamp'))]}
           /\ UNCHANGED <<acked, seen>>
  <2>1. /\ disk'[p] \in {disk[p], Append(disk[p], Torn(stamp'))}
        /\ \A q \in Paths : q # p => disk'[q] = disk[q]
    BY <1>1, <1>8 DEF TypeOK
  <2>2. StampsInv'
    BY <1>2, <1>4, <1>5, <1>6, <1>8, <2>1, StampsKept
  <2>3. SessionsInv'
    BY <1>1, <1>2, <1>5, <1>8, <2>1 DEF SessionsInv
  <2>4. ASSUME acked[p] # NoFile
        PROVE  disk'[p] # NoFile /\ Chunks(disk'[p]) = Chunks(disk[p]) /\ InOrder(disk'[p])
    <3>1. InOrder(disk[p])
      BY <1>1, <2>4 DEF ChunksKept
    <3>2. /\ Chunks(Append(disk[p], Torn(stamp + 1))) = Chunks(disk[p])
          /\ InOrder(Append(disk[p], Torn(stamp + 1)))
      BY <1>3, <1>4, <3>1, ChunkAdded
    <3>3. disk'[p] # NoFile
      BY <1>3, <1>5, <2>1, ContentFacts
    <3> QED BY <1>4, <2>1, <3>1, <3>2, <3>3
  <2>5. ChunksKept'
    BY <1>1, <1>8, <2>1, <2>4 DEF ChunksKept, Exists
  <2> QED BY <2>2, <2>3, <2>5 DEF BooksInv
<1> QED BY <1>2, <1>7, <1>8 DEF append_file

\* Somebody else writes the file, or removes it.
LEMMA ExternalKeeps ==
  ASSUME BooksInv, FileInv', NEW p \in Paths, External(p)
  PROVE  BooksInv'
<1>1. TypeOK /\ StampsInv /\ SessionsInv /\ ChunksKept
  BY DEF BooksInv, FileInv
<1>2. /\ UNCHANGED <<tmp, file_sessions, job, seen>> /\ NewStamp
      /\ acked' = [acked EXCEPT ![p] = NoFile] /\ overtaken' = overtaken \cup {p}
      /\ disk' \in {[disk EXCEPT ![p] = IF @ = NoFile THEN <<stamp'>> ELSE Append(@, stamp')],
                    [disk EXCEPT ![p] = NoFile]}
  BY DEF External, Overwritten, books
<1>3. stamp \in Nat /\ stamp' = stamp + 1 /\ stamp' \in Nat
  BY <1>1, <1>2 DEF NewStamp, TypeOK
<1>4. \A q \in Paths : UsedBy(disk[q], stamp') /\ UsedBy(tmp[q], stamp') /\ UsedBy(acked[q], stamp')
  BY <1>1, <1>3, UsedFacts DEF TypeOK, StampsInv
<1>5. PICK c : /\ disk' = [disk EXCEPT ![p] = c] /\ UsedBy(c, stamp')
               /\ c = NoFile \/ c # file_sessions[p]
  <2>1. CASE disk' = [disk EXCEPT ![p] = NoFile]
    BY <2>1, UsedFacts
  <2>2. CASE disk' = [disk EXCEPT ![p] = IF @ = NoFile THEN <<stamp'>> ELSE Append(@, stamp')]
    <3>1. PICK d \in Seq(Nat) : UsedBy(d, stamp) /\ disk' = [disk EXCEPT ![p] = Append(d, stamp')]
      <4>1. CASE disk[p] = NoFile
        <5>1. <<>> \in Seq(Nat) /\ <<stamp'>> = Append(<<>>, stamp')
          OBVIOUS
        <5> QED BY <4>1, <5>1, <2>2, UsedFacts
      <4>2. CASE disk[p] # NoFile
        <5>1. disk[p] \in Seq(Nat) /\ UsedBy(disk[p], stamp)
          BY <1>1, <4>2, ContentFacts DEF TypeOK, StampsInv
        <5> QED BY <4>2, <5>1, <2>2
      <4> QED BY <4>1, <4>2
    <3> QED BY <3>1, <1>2, NewOnDisk
  <2> QED BY <1>2, <2>1, <2>2
<1>6. /\ disk'[p] = c /\ acked'[p] = NoFile
      /\ \A q \in Paths : q # p => disk'[q] = disk[q] /\ acked'[q] = acked[q]
  BY <1>1, <1>2, <1>5 DEF TypeOK
<1>7. StampsInv'
  <2>1. \A q \in Paths : UsedBy(disk'[q], stamp') /\ UsedBy(acked'[q], stamp')
    BY <1>4, <1>5, <1>6, UsedFacts
  <2>2. job' # NoJob => UsedBy(job'.new, stamp')
    <3> SUFFICES ASSUME job # NoJob PROVE UsedBy(job.new, stamp')
      BY <1>2
    <3>1. job.new \in Contents /\ UsedBy(job.new, stamp)
      BY <1>1, ContentFacts DEF TypeOK, Jobs, StampsInv
    <3> QED BY <1>3, <3>1, UsedFacts
  <2> QED BY <1>2, <1>3, <1>4, <2>1, <2>2, StampsKept
<1>8. SessionsInv'
  <2>1. \A q \in Paths : file_sessions'[q] \notin {NoFile, <<>>} /\ file_sessions'[q] = disk'[q]
                           => seen'[q] = disk'[q]
    BY <1>1, <1>2, <1>5, <1>6 DEF SessionsInv
  <2>2. job' # NoJob /\ job'.step = "load" /\ job'.guarded /\ job'.path \notin overtaken' =>
          disk'[job'.path] \in {<<>>, seen'[job'.path]}
    <3> SUFFICES ASSUME job # NoJob, job.step = "load", job.guarded, job.path \notin overtaken'
                 PROVE  disk'[job.path] \in {<<>>, seen[job.path]}
      BY <1>2
    <3>1. job.path \in Paths /\ job.path # p /\ job.path \notin overtaken
      BY <1>1, <1>2 DEF TypeOK, Jobs
    <3> QED BY <1>1, <1>6, <3>1 DEF SessionsInv
  <2> QED BY <1>1, <1>2, <2>1, <2>2 DEF SessionsInv
<1>9. ChunksKept'
  BY <1>1, <1>6 DEF ChunksKept, Exists
<1> QED BY <1>7, <1>8, <1>9 DEF BooksInv

\* finish_file, a new process, and steps that change nothing here.
LEMMA ForgettingKeeps ==
  ASSUME BooksInv, FileInv', (\E p \in Paths : FinishFile(p)) \/ Kill \/ UNCHANGED vars
  PROVE  BooksInv'
<1>1. TypeOK /\ StampsInv /\ SessionsInv /\ ChunksKept
  BY DEF BooksInv, FileInv
<1>2. /\ UNCHANGED <<disk, tmp, stamp, overtaken>>
      /\ job' \in {NoJob, job}
      /\ \/ UNCHANGED <<file_sessions, seen, acked>>
         \/ /\ file_sessions' = [q \in Paths |-> NoFile] /\ acked' = [q \in Paths |-> NoFile]
            /\ job' = NoJob
  BY DEF FinishFile, Kill, vars, books, history
<1>3. \/ UNCHANGED <<file_sessions, seen, acked>>
      \/ /\ \A q \in Paths : file_sessions'[q] = NoFile /\ acked'[q] = NoFile
         /\ job' = NoJob
  BY <1>2
<1>4. StampsInv'
  BY <1>1, <1>2, <1>3, UsedFacts, StampsKept DEF StampsInv
<1>5. SessionsInv'
  BY <1>1, <1>2, <1>3 DEF SessionsInv
<1>6. ChunksKept'
  BY <1>1, <1>2, <1>3 DEF ChunksKept, Exists
<1> QED BY <1>4, <1>5, <1>6 DEF BooksInv

\* Every access to the file system keeps what the books say.
LEMMA BooksInvStep == BooksInv /\ [Next]_vars => BooksInv'
<1> SUFFICES ASSUME BooksInv, [Next]_vars PROVE BooksInv'
  OBVIOUS
<1>1. FileInv'
  BY FileInvStep DEF BooksInv
<1>2. ASSUME NEW p \in Paths,
             \/ ReadFile(p) \/ ReadFileRange(p)
             \/ BeginWrite(p, "write") \/ BeginWrite(p, "snippet") \/ BeginEdit(p) \/ CheckDrift(p)
             \/ StartFile(p) \/ AppendFile(p) \/ FinishFile(p) \/ TouchFile(p)
             \/ External(p)
      PROVE  BooksInv'
  BY <1>1, <1>2, ReadingKeeps, BeginningKeeps, CheckKeeps, EmptyingKeeps, AppendingKeeps,
     ForgettingKeeps, ExternalKeeps
<1>3. CASE Replace
  BY <1>1, <1>3, LoadKeeps, ReplacingKeeps, RenameKeeps DEF Replace
<1>4. CASE Kill \/ UNCHANGED vars
  BY <1>1, <1>4, ForgettingKeeps
<1> QED BY <1>2, <1>3, <1>4 DEF Next

\* The books agree with the file in every state.
LEMMA BooksHold == Spec => []BooksInv
BY BooksInvInit, BooksInvStep, PTL DEF Spec

\* An acknowledged chunk is in its file, in its place and once, whatever failed
\* appends left between, in a session of any length.
THEOREM ChunksAlwaysKept == Spec => []ChunksKept
<1>1. BooksInv => ChunksKept
  BY DEF BooksInv
<1> QED BY <1>1, BooksHold, PTL

\* The hash that read_file_range left is enough: a guarded replace_lines edits what
\* the model read, whatever tools, restarts and other writers came before its check.
THEOREM DriftAlwaysCaught == Spec => DriftIsCaught
<1> DEFINE Caught == LoadLines /\ job.guarded /\ job.path \notin overtaken
                       => disk[job.path] = seen[job.path]
<1>1. BooksInv => [Caught]_vars
  BY DEF BooksInv, SessionsInv, LoadLines
<1>2. [][Caught]_vars <=> DriftIsCaught
  BY DEF DriftIsCaught
<1> HIDE DEF Caught
<1> QED BY <1>1, <1>2, BooksHold, PTL
=============================================================================
