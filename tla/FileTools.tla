------------------------------ MODULE FileTools ------------------------------
(***************************************************************************)
(* The file tools of cli_tool_executor_impl (tools/lmcode/                 *)
(* cli-tool-exec.cpp) and the two books they keep: file_sessions_, the     *)
(* hash of what read_file_range last showed the model, and                 *)
(* active_write_sessions_, the files between start_file and finish_file.   *)
(*                                                                         *)
(* One tool call runs at a time, but others write the same files at any    *)
(* moment (the user's editor, a build, a command of the shell tool), the   *)
(* disk may be full, and a second SIGINT ends the process between any two  *)
(* system calls.  A step is one access to the file system.                 *)
(*                                                                         *)
(* The content of a file is the sequence of the changes it went through,   *)
(* each with a stamp of its own, so that a missing change shows; the hash  *)
(* of a content is the content, djb2 collisions are left out.              *)
(***************************************************************************)
EXTENDS Naturals, Sequences

CONSTANTS
  Paths,      \* canonical paths inside the working directory
  NoFile,     \* no such file; no hash
  DiskFull,   \* whether writes may fail for lack of space
  MayFail,    \* whether opening and renaming files may fail
  MaxStamp    \* bound: changes to files in a behaviour

ASSUME FileAssumption ==
  /\ NoFile \notin Seq(Nat)
  /\ DiskFull \in BOOLEAN /\ MayFail \in BOOLEAN
  /\ MaxStamp \in Nat \ {0}

VARIABLES
  disk,                    \* the content of every file
  tmp,                     \* the temporary file beside it
  file_sessions,           \* file_sessions_: the hash of the last range read
  active_write_sessions,   \* active_write_sessions_
  job,                     \* the tool call that is replacing a file, and its next step
  stamp,                   \* history: number of changes made so far
  seen,                    \* history: what the model knows of the file
  acked,                   \* history: chunks acknowledged since start_file, or NoFile
  emptied,                 \* history: files made empty on purpose
  started,                 \* history: open sessions whose start_file succeeded
  overtaken,               \* history: files changed by others since the drift check
  cut                      \* history: files replaced, or about to be, by a temporary
                           \*   file that a full disk cut short

books   == <<file_sessions, active_write_sessions>>
history == <<stamp, seen, acked, emptied, started, overtaken, cut>>
vars    == <<disk, tmp, books, job, history>>

\* write: write_file.  edit: insert_line, replace_range, delete_lines,
\* search_replace and search_regex.  replace: replace_lines.
Tools == {"write", "edit", "replace", "snippet"}
Steps == {"load", "open", "fill", "rename"}
NoJob == [tool |-> "none"]
Jobs  == [tool : Tools, path : Paths, step : Steps, new : Seq(Nat), guarded : BOOLEAN]

Contents == Seq(Nat) \cup {NoFile}

TypeOK ==
  /\ disk \in [Paths -> Contents]
  /\ tmp \in [Paths -> Contents]
  /\ file_sessions \in [Paths -> Contents]
  /\ active_write_sessions \subseteq Paths
  /\ job \in {NoJob} \cup Jobs
  /\ stamp \in 1..MaxStamp
  /\ seen \in [Paths -> Contents]
  /\ acked \in [Paths -> Contents]
  /\ emptied \subseteq Paths /\ started \subseteq Paths /\ overtaken \subseteq Paths /\ cut \subseteq Paths

\* A file the user has written, or none; a new process has no sessions.
Init ==
  /\ disk \in [Paths -> {NoFile, <<1>>}]
  /\ tmp = [p \in Paths |-> NoFile]
  /\ file_sessions = [p \in Paths |-> NoFile]
  /\ active_write_sessions = {}
  /\ job = NoJob
  /\ stamp = 1
  /\ seen = [p \in Paths |-> NoFile]
  /\ acked = [p \in Paths |-> NoFile]
  /\ emptied = {} /\ started = {} /\ overtaken = {} /\ cut = {}

Idle == job = NoJob
Exists(p) == disk[p] # NoFile

NewStamp == stamp < MaxStamp /\ stamp' = stamp + 1

\* What a chunk leaves in the file when the disk is full half-way.
Torn(n) == MaxStamp + n

\* A change to file p that is not a chunk ends the record of its chunks.
Overwritten(p) ==
  /\ acked' = [acked EXCEPT ![p] = NoFile]
  /\ emptied' = emptied \ {p}

-----------------------------------------------------------------------------
(* Reading. *)

\* read_file, get_line_numbers: the model sees the file, no session is kept.
ReadFile(p) ==
  /\ Idle /\ Exists(p)
  /\ seen' = [seen EXCEPT ![p] = disk[p]]
  /\ UNCHANGED <<disk, tmp, books, job, stamp, acked, emptied, started, overtaken, cut>>

\* read_file_range records the hash of the whole file.
ReadFileRange(p) ==
  /\ Idle /\ Exists(p)
  /\ seen' = [seen EXCEPT ![p] = disk[p]]
  /\ file_sessions' = [file_sessions EXCEPT ![p] = disk[p]]
  /\ UNCHANGED <<disk, tmp, active_write_sessions, job, stamp, acked, emptied, started, overtaken, cut>>

-----------------------------------------------------------------------------
(* Tools that replace a whole file through a temporary one. *)

\* write_file and load_snippet have the new content at hand.
BeginWrite(p, tool) ==
  /\ Idle
  /\ NewStamp
  /\ job' = [tool |-> tool, path |-> p, step |-> "open", new |-> <<stamp'>>, guarded |-> FALSE]
  /\ UNCHANGED <<disk, tmp, books, seen, acked, emptied, started, overtaken, cut>>

\* The edit tools read the file and compute the new content from it.
BeginEdit(p) ==
  /\ Idle /\ Exists(p)
  /\ NewStamp
  /\ job' = [tool |-> "edit", path |-> p, step |-> "open", new |-> Append(disk[p], stamp'), guarded |-> FALSE]
  /\ UNCHANGED <<disk, tmp, books, seen, acked, emptied, started, overtaken, cut>>

\* Mutant: the drift check compares with nothing.
CheckDriftNever(p) ==
  /\ Idle
  /\ job' = [tool |-> "replace", path |-> p, step |-> "load", new |-> <<>>,
             guarded |-> file_sessions[p] # NoFile]
  /\ overtaken' = overtaken \ {p}
  /\ UNCHANGED <<disk, tmp, books, stamp, seen, acked, emptied, started, cut>>

\* replace_lines first compares the file with its session, if it has one; on a
\* difference, and when the file is gone, the call is refused.
CheckDrift(p) ==
  /\ Idle
  /\ file_sessions[p] \in {NoFile, disk[p]}
  /\ job' = [tool |-> "replace", path |-> p, step |-> "load", new |-> <<>>,
             guarded |-> file_sessions[p] # NoFile]
  /\ overtaken' = overtaken \ {p}
  /\ UNCHANGED <<disk, tmp, books, stamp, seen, acked, emptied, started, cut>>

\* Then it reads the file again and computes the new content; an empty file has
\* no line to replace.
LoadLines ==
  /\ job # NoJob /\ job.step = "load"
  /\ disk[job.path] \notin {NoFile, <<>>}
  /\ NewStamp
  /\ job' = [job EXCEPT !.step = "open", !.new = Append(disk[job.path], stamp')]
  /\ UNCHANGED <<disk, tmp, books, seen, acked, emptied, started, overtaken, cut>>

\* Mutant: the file itself is opened for writing.
OpenTmpInPlace ==
  /\ job # NoJob /\ job.step = "open"
  /\ tmp' = [tmp EXCEPT ![job.path] = <<>>]
  /\ disk' = [disk EXCEPT ![job.path] = <<>>]
  /\ job' = [job EXCEPT !.step = "fill"]
  /\ UNCHANGED <<books, history>>

\* write_string_to_file_atomically: the temporary file is created empty ...
OpenTmp ==
  /\ job # NoJob /\ job.step = "open"
  /\ tmp' = [tmp EXCEPT ![job.path] = <<>>]
  /\ job' = [job EXCEPT !.step = "fill"]
  /\ UNCHANGED <<disk, books, history>>

\* ... filled; only load_snippet looks whether that worked ...
FillTmp ==
  /\ job # NoJob /\ job.step = "fill"
  /\ \/ /\ tmp' = [tmp EXCEPT ![job.path] = job.new]
        /\ job' = [job EXCEPT !.step = "rename"]
        /\ UNCHANGED cut
     \/ /\ DiskFull /\ job.tool # "snippet"
        /\ job' = [job EXCEPT !.step = "rename"]
        /\ cut' = cut \cup {job.path}
        /\ UNCHANGED tmp
     \/ /\ DiskFull /\ job.tool = "snippet"
        /\ tmp' = [tmp EXCEPT ![job.path] = NoFile]
        /\ job' = NoJob
        /\ UNCHANGED cut
  /\ UNCHANGED <<disk, books, stamp, seen, acked, emptied, started, overtaken>>

\* ... and renamed.  The model learns that the change it asked for was made; a
\* successful replace_lines ends the session.
RenameTmp ==
  /\ job # NoJob /\ job.step = "rename"
  /\ disk' = [disk EXCEPT ![job.path] = tmp[job.path]]
  /\ tmp' = [tmp EXCEPT ![job.path] = NoFile]
  /\ file_sessions' = IF job.tool = "replace" THEN [file_sessions EXCEPT ![job.path] = NoFile]
                      ELSE file_sessions
  /\ seen' = [seen EXCEPT ![job.path] =
                IF job.tool \in {"write", "snippet"} THEN job.new
                ELSE IF seen[job.path] = NoFile THEN NoFile
                ELSE Append(seen[job.path], job.new[Len(job.new)])]
  /\ Overwritten(job.path)
  /\ cut' = {p \in cut : p = job.path => tmp[p] = <<>>}
  /\ job' = NoJob
  /\ UNCHANGED <<active_write_sessions, stamp, started, overtaken>>

\* The call fails: the range is not in the file, the file is gone, or a file
\* cannot be opened or renamed.  replace_lines then leaves result.success
\* uninitialized, and execute_replace_lines decides by it about the session.
JobFails ==
  /\ job # NoJob
  /\ \/ job.step = "load"
     \/ MayFail /\ job.step \in {"open", "rename"}
  /\ \/ UNCHANGED file_sessions
     \/ /\ job.tool = "replace"
        /\ file_sessions' = [file_sessions EXCEPT ![job.path] = NoFile]
  /\ job' = NoJob
  /\ UNCHANGED <<disk, tmp, active_write_sessions, history>>

-----------------------------------------------------------------------------
(* Chunked writing. *)

\* start_file creates the file empty, or empties it, if it can be opened.
start_file(p) ==
  \/ /\ disk' = [disk EXCEPT ![p] = <<>>]
     /\ seen' = [seen EXCEPT ![p] = <<>>]
     /\ acked' = [acked EXCEPT ![p] = <<>>]
     /\ emptied' = emptied \cup {p}
     /\ started' = started \cup {p}
  \/ MayFail /\ UNCHANGED <<disk, seen, acked, emptied, started>>

\* execute_start_file opens the session before it knows whether that worked.
StartFile(p) ==
  /\ Idle
  /\ active_write_sessions' = active_write_sessions \cup {p}
  /\ start_file(p)
  /\ UNCHANGED <<tmp, file_sessions, job, stamp, overtaken, cut>>

\* Mutant: a failed write is acknowledged like any other.
AppendFileUnchecked(p) ==
  /\ Idle /\ p \in active_write_sessions /\ Exists(p)
  /\ NewStamp
  /\ emptied' = emptied \ {p}
  /\ acked' = [acked EXCEPT ![p] = IF @ = NoFile THEN NoFile ELSE Append(@, stamp')]
  /\ \E written \in {stamp'} \cup (IF DiskFull THEN {Torn(stamp')} ELSE {}) :
       disk' = [disk EXCEPT ![p] = Append(@, written)]
  /\ UNCHANGED <<tmp, books, job, seen, started, overtaken, cut>>

\* append_file: the chunk is acknowledged, or the disk is full and a part of it,
\* or nothing, is written.
append_file(p, chunk) ==
  \/ /\ disk' = [disk EXCEPT ![p] = Append(@, chunk)]
     /\ acked' = [acked EXCEPT ![p] = IF @ = NoFile THEN NoFile ELSE Append(@, chunk)]
     /\ seen' = [seen EXCEPT ![p] = IF @ = NoFile THEN NoFile ELSE Append(@, chunk)]
     /\ emptied' = emptied \ {p}
  \/ /\ DiskFull
     /\ disk' \in {disk, [disk EXCEPT ![p] = Append(@, Torn(chunk))]}
     /\ emptied' = IF disk' = disk THEN emptied ELSE emptied \ {p}
     /\ UNCHANGED <<acked, seen>>

\* execute_append_file, only with a session and to a file that exists.
AppendFile(p) ==
  /\ Idle /\ p \in active_write_sessions /\ Exists(p)
  /\ NewStamp
  /\ append_file(p, stamp')
  /\ UNCHANGED <<tmp, books, job, started, overtaken, cut>>

\* finish_file closes the session, also of a file that is gone.
FinishFile(p) ==
  /\ Idle
  /\ active_write_sessions' = active_write_sessions \ {p}
  /\ started' = started \ {p}
  /\ UNCHANGED <<disk, tmp, file_sessions, job, stamp, seen, acked, emptied, overtaken, cut>>

\* touch_file creates the file if there is none.
TouchFile(p) ==
  /\ Idle /\ ~Exists(p)
  /\ disk' = [disk EXCEPT ![p] = <<>>]
  /\ emptied' = emptied \cup {p}
  /\ acked' = [acked EXCEPT ![p] = NoFile]
  /\ UNCHANGED <<tmp, books, job, stamp, seen, started, overtaken, cut>>

-----------------------------------------------------------------------------
(* The rest of the world. *)

\* Somebody else changes, creates or removes the file.
External(p) ==
  /\ NewStamp
  /\ Overwritten(p)
  /\ disk' \in {[disk EXCEPT ![p] = IF @ = NoFile THEN <<stamp'>> ELSE Append(@, stamp')],
                [disk EXCEPT ![p] = NoFile]}
  /\ overtaken' = overtaken \cup {p}
  /\ UNCHANGED <<tmp, books, job, seen, started, cut>>

\* The process ends and another one is started; the files stay as they are.
Kill ==
  /\ job' = NoJob
  /\ file_sessions' = [p \in Paths |-> NoFile]
  /\ active_write_sessions' = {}
  /\ seen' = [p \in Paths |-> NoFile]
  /\ acked' = [p \in Paths |-> NoFile]
  /\ started' = {}
  /\ UNCHANGED <<disk, tmp, stamp, emptied, overtaken, cut>>

-----------------------------------------------------------------------------

Replace == LoadLines \/ OpenTmp \/ FillTmp \/ RenameTmp \/ JobFails

Next ==
  \/ \E p \in Paths :
       \/ ReadFile(p) \/ ReadFileRange(p)
       \/ BeginWrite(p, "write") \/ BeginWrite(p, "snippet") \/ BeginEdit(p) \/ CheckDrift(p)
       \/ StartFile(p) \/ AppendFile(p) \/ FinishFile(p) \/ TouchFile(p)
       \/ External(p)
  \/ Replace
  \/ Kill

Spec == Init /\ [][Next]_vars

-----------------------------------------------------------------------------
(* Properties that hold. *)

\* The chunks in a content, without what failed appends left behind, and that they
\* are there in the order they were given, each once: stamps count upwards.
Chunks(c) == {c[i] : i \in {j \in DOMAIN c : c[j] <= MaxStamp}}
InOrder(c) ==
  \A i, j \in DOMAIN c : i < j /\ c[i] <= MaxStamp /\ c[j] <= MaxStamp => c[i] < c[j]

\* A file with acknowledged chunks holds those chunks and no other, in order and each
\* once, besides what failed appends left behind, as long as nobody else wrote to it:
\* an acknowledgement means the chunk is in the file.
ChunksKept ==
  \A p \in Paths : acked[p] # NoFile =>
    Exists(p) /\ Chunks(disk[p]) = Chunks(acked[p]) /\ InOrder(disk[p]) /\ InOrder(acked[p])

\* A file is replaced as a whole: at no moment, and so after no kill, is one
\* found empty that start_file or touch_file did not make empty, unless a full
\* disk cut its temporary file short, which write_string_to_file_atomically
\* does not notice.
WholeOrOld == \A p \in Paths : disk[p] = <<>> => p \in emptied \cup cut

\* A replace_lines that had a session to compare with edits exactly the content
\* the model read, unless another writer came between the check and the edit.
DriftIsCaught ==
  [][LoadLines /\ job.guarded /\ job.path \notin overtaken => disk[job.path] = seen[job.path]]_vars

-----------------------------------------------------------------------------
(* The inductive invariant behind WholeOrOld. *)

\* What a tool is about to rename is the whole new content, or was cut short.
JobInv ==
  job # NoJob =>
    /\ job.step # "load" => job.new # <<>>
    /\ job.step = "rename" =>
         \/ tmp[job.path] = job.new
         \/ tmp[job.path] = <<>> /\ job.path \in cut
    /\ job.step = "fill" => tmp[job.path] = <<>>

FileInv == TypeOK /\ JobInv /\ WholeOrOld

-----------------------------------------------------------------------------
(* The inductive invariant behind ChunksKept and DriftIsCaught. *)

\* No change in a content is newer than the n-th.
UsedBy(c, n) == c # NoFile => \A i \in DOMAIN c : c[i] \in (1..n) \cup (Torn(1)..Torn(n))

StampsInv ==
  /\ \A p \in Paths : UsedBy(disk[p], stamp) /\ UsedBy(tmp[p], stamp)
                      /\ UsedBy(file_sessions[p], stamp) /\ UsedBy(acked[p], stamp)
  /\ job # NoJob => UsedBy(job.new, stamp)

\* While a file is what its session says, it is what the model has seen; only an
\* empty file can come back after it was something else, and that has no line to
\* replace.  No call in progress brings back the content of a session.
SessionsInv ==
  /\ \A p \in Paths :
       file_sessions[p] \notin {NoFile, <<>>} /\ file_sessions[p] = disk[p] => seen[p] = disk[p]
  /\ job # NoJob /\ job.step # "load" => job.new # file_sessions[job.path]
  /\ job # NoJob /\ job.step = "load" /\ job.guarded /\ job.path \notin overtaken =>
       disk[job.path] \in {<<>>, seen[job.path]}

BooksInv == FileInv /\ StampsInv /\ SessionsInv /\ ChunksKept

-----------------------------------------------------------------------------
(* What comments say, and the code does not do. *)

\* write_string_to_file_atomically: a file is replaced by its whole new content
\* or not at all, on a full disk too.
WholeOnFullDisk == \A p \in Paths : disk[p] = <<>> => p \in emptied

\* "Check for file drift before editing" (cli-tool-exec.cpp): the same of every
\* replace_lines on a file whose content the model knows, from whichever tool.
DriftCheckedBeforeEdit ==
  [][LoadLines /\ seen[job.path] # NoFile /\ job.path \notin overtaken
       => disk[job.path] = seen[job.path]]_vars

\* "Invalidate session after successful edit" (cli-tool-exec.cpp): a failed edit
\* leaves the session in place.
SessionSurvivesFailure == [][JobFails => UNCHANGED file_sessions]_vars

\* "Prevents append_file from writing to arbitrary existing files"
\* (cli-tool-exec.h): a chunk goes only to a file start_file has created.
AppendOnlyAfterStart == [][\A p \in Paths : AppendFile(p) => p \in started]_vars
=============================================================================
