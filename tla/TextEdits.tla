------------------------------ MODULE TextEdits ------------------------------
(***************************************************************************)
(* What the editing tools make of the text of a file: the tools that       *)
(* address lines by number (insert_line, replace_range, replace_lines,     *)
(* delete_lines), the ones that tell the model these numbers               *)
(* (read_file_range, get_line_numbers), and search_replace, which tries    *)
(* one matching strategy after the other                                   *)
(* (src/tools/lmcode/cli-tool-exec.cpp).  How the text gets to the disk is *)
(* the subject of FileTools.                                               *)
(*                                                                         *)
(* A text is a sequence of character codes.  ESC stands for the two        *)
(* characters of the escape sequence of a newline.                         *)
(***************************************************************************)
EXTENDS Integers, Sequences, FiniteSets, SequencesExt

CONSTANTS Texts,      \* bound: the texts that are edited
          Inserted,   \* the texts a model may put in
          Searches    \* the texts a model may search for

NL  == 10
SP  == 32
ESC == 92

ASSUME TextAssumption ==
  /\ Texts \subseteq Seq(Nat) /\ Inserted \subseteq Seq(Nat)
  /\ Searches \subseteq Seq(Nat) \ {<< >>}

VARIABLES
  file,   \* the text of the file
  job     \* the search_replace under way

vars == <<file, job>>

NoJob == [step |-> "none"]

(***************************************************************************)
(* Texts.  Offsets count from 0, as in the code.                           *)
(***************************************************************************)
Sub(s, from, to) == SubSeq(s, from + 1, to)

Nth(K, n) == CHOOSE i \in K : Cardinality({j \in K : j <= i}) = n

Keep(s, K) == [n \in 1 .. Cardinality(K) |-> s[Nth(K, n)]]

Newlines(s) == {i \in DOMAIN s : s[i] = NL}

EndsInNewline(s) == s # << >> /\ Last(s) = NL

\* Where line n begins, counted from 0; the end of the text if there is none.
line_offset(s, n) ==
  IF n <= 0 THEN 0
  ELSE IF n > Cardinality(Newlines(s)) THEN Len(s) ELSE Nth(Newlines(s), n)

\* The lines that the editing tools and getline count: a newline at the end
\* begins no line.
total_lines(s) ==
  Cardinality(Newlines(s)) + (IF s = << >> \/ EndsInNewline(s) THEN 0 ELSE 1)

\* Lines i .. i + n - 1, counted from 0, without the newline behind them.
Block(s, i, n) ==
  LET to == line_offset(s, i + n)
  IN  Sub(s, line_offset(s, i),
          IF to > line_offset(s, i + n - 1) /\ s[to] = NL THEN to - 1 ELSE to)

split_lines(s) == [k \in 1 .. total_lines(s) |-> Block(s, k - 1, 1)]

Occurrences(s, m) == {p \in 0 .. Len(s) - Len(m) : Sub(s, p, p + Len(m)) = m}

\* The first occurrence at or after an offset, -1 if there is none.
find(s, m, from) ==
  LET P == {p \in Occurrences(s, m) : p >= from}
  IN  IF P = {} THEN -1 ELSE Min(P)

replace(s, from, to, t) == Sub(s, 0, from) \o t \o Sub(s, to, Len(s))

White == {SP, NL}

Visible(s) == {i \in DOMAIN s : s[i] \notin White}

trim(s) == IF Visible(s) = {} THEN << >> ELSE SubSeq(s, Min(Visible(s)), Max(Visible(s)))

normalize_whitespace(s) ==
  LET t == trim(s)
      K == {i \in DOMAIN t : t[i] \notin White \/ t[i - 1] \notin White}
      u == Keep(t, K)
  IN  [n \in DOMAIN u |-> IF u[n] \in White THEN SP ELSE u[n]]

unescape_string(s) == [i \in DOMAIN s |-> IF s[i] = ESC THEN NL ELSE s[i]]

\* The least indentation of the lines that are not blank is taken off them.
remove_indentation(s) ==
  LET L == split_lines(s)
      text == {k \in DOMAIN L : Visible(L[k]) # {}}
      indent(k) == Cardinality({i \in DOMAIN L[k] : \A j \in 1 .. i : L[k][j] = SP})
      least == Min({indent(k) : k \in text})
      off == UNION {line_offset(s, k - 1) + 1 .. line_offset(s, k - 1) + least : k \in text}
  IN  IF text = {} \/ least = 0 THEN s
      ELSE Keep(s, DOMAIN s \ (off \cup IF EndsInNewline(s) THEN {Len(s)} ELSE {}))

(***************************************************************************)
(* Tools that address lines by number                                      *)
(***************************************************************************)
\* Mutant of insert_line_at: a last line without a newline is not ended.
insert_line_glued(s, n, t) ==
  replace(s, line_offset(s, n), line_offset(s, n), Append(t, NL))

insert_line_at(s, n, t) ==
  LET o == line_offset(s, n)
      open == o = Len(s) /\ s # << >> /\ ~EndsInNewline(s)
  IN  replace(s, o, o, (IF open THEN <<NL>> ELSE << >>) \o Append(t, NL))

\* replace_range and replace_lines
replace_range(s, a, b, t) ==
  replace(s, line_offset(s, a), line_offset(s, b),
          IF t = << >> \/ EndsInNewline(t) THEN t ELSE Append(t, NL))

delete_lines(s, a, b) == replace(s, line_offset(s, a), line_offset(s, b), << >>)

RangeValid(s, a, b) == a \in 0 .. total_lines(s) - 1 /\ b \in a .. total_lines(s)

\* Mutant of read_file_range: the first line is not converted to an offset
\* from 0.
read_range_shifted(s, a, b) == Sub(s, line_offset(s, a), line_offset(s, b))

\* Lines a .. b, counted from 1.  This tool counts one more line than the
\* others if the text ends in a newline; a larger b is lowered to that.
read_file_range(s, a, b) ==
  LET total == Cardinality(Newlines(s)) + 1
  IN  Sub(s, line_offset(s, a - 1), IF b >= total THEN Len(s) ELSE line_offset(s, b))

InsertLine(n, t) ==
  /\ job = NoJob /\ file \in Texts
  /\ n \in 0 .. total_lines(file)
  /\ file' = insert_line_at(file, n, t)
  /\ UNCHANGED job

ReplaceRange(a, b, t) ==
  /\ job = NoJob /\ file \in Texts
  /\ RangeValid(file, a, b)
  /\ file' = replace_range(file, a, b, t)
  /\ UNCHANGED job

DeleteLines(a, b) ==
  /\ job = NoJob /\ file \in Texts
  /\ RangeValid(file, a, b)
  /\ file' = delete_lines(file, a, b)
  /\ UNCHANGED job

(***************************************************************************)
(* search_replace: the strategies.  Each gives a set of texts that occur   *)
(* in the file.                                                            *)
(***************************************************************************)
Strategies == <<"exact", "escape_norm", "line_trimmed", "block_anchor", "whitespace_norm",
                "indent_flexible", "trimmed_boundary">>

\* Where a block of n lines can begin.
Starts(s, n) == 0 .. total_lines(s) - n

\* A block that reaches the last line goes to the end of the file, with the
\* newline there; the lines of the search text without an empty last one.
extract_block(s, i, n) ==
  IF i + n < total_lines(s) THEN Block(s, i, n) ELSE Sub(s, line_offset(s, i), Len(s))

SearchLines(q) ==
  LET L == split_lines(q)
  IN  IF L # << >> /\ Last(L) = << >> THEN Front(L) ELSE L

simple_replacer(s, q) == IF Occurrences(s, q) = {} THEN {} ELSE {q}

escape_normalized_replacer(s, q) ==
  LET u == unescape_string(q)
      n == total_lines(u)
  IN  IF u = q THEN {}
      ELSE simple_replacer(s, u)
           \cup {Block(s, i, n) : i \in {i \in Starts(s, n) :
                                           n > 1 /\ unescape_string(Block(s, i, n)) = u}}

line_trimmed_replacer(s, q) ==
  LET L == SearchLines(q)
      S == split_lines(s)
      n == Len(L)
  IN  {extract_block(s, i, n) : i \in {i \in Starts(s, n) :
         n > 0 /\ \A j \in 1 .. n : trim(S[i + j]) = trim(L[j])}}

\* First and last line as anchors, at least one line between them.  Of
\* several blocks one that is similar is taken, or none; how similarity is
\* measured is left open.
Anchored(s, q) ==
  LET L == SearchLines(q)
      S == split_lines(s)
      ends(i) == {j \in i + 2 .. Len(S) : trim(S[j]) = trim(Last(L))}
  IN  IF Len(L) < 3 THEN {}
      ELSE {<<i, Min(ends(i))>> :
              i \in {i \in DOMAIN S : trim(S[i]) = trim(L[1]) /\ ends(i) # {}}}

block_anchor_replacer(s, q) ==
  {extract_block(s, b[1] - 1, b[2] - b[1] + 1) : b \in Anchored(s, q)}

whitespace_normalized_replacer(s, q) ==
  LET n == total_lines(q)
      same(m) == normalize_whitespace(m) = normalize_whitespace(q)
  IN  {m \in ToSet(split_lines(s)) : same(m)}
      \cup {m \in {Block(s, i, n) : i \in Starts(s, n)} : n > 1 /\ same(m)}

indentation_flexible_replacer(s, q) ==
  {m \in {Block(s, i, total_lines(q)) : i \in Starts(s, total_lines(q))} :
     remove_indentation(m) = remove_indentation(q)}

trimmed_boundary_replacer(s, q) ==
  IF trim(q) = q THEN {}
  ELSE simple_replacer(s, trim(q))
       \cup {m \in {Block(s, i, total_lines(q)) : i \in Starts(s, total_lines(q))} :
               trim(m) = trim(q)}

Candidates(name, s, q) ==
  CASE name = "exact"            -> simple_replacer(s, q)
    [] name = "escape_norm"      -> escape_normalized_replacer(s, q)
    [] name = "line_trimmed"     -> line_trimmed_replacer(s, q)
    [] name = "block_anchor"     -> block_anchor_replacer(s, q)
    [] name = "whitespace_norm"  -> whitespace_normalized_replacer(s, q)
    [] name = "indent_flexible"  -> indentation_flexible_replacer(s, q)
    [] name = "trimmed_boundary" -> trimmed_boundary_replacer(s, q)

\* The loop over the blocks runs to lines.size() - search_lines.size(), which
\* is a very large number if the search text has more lines than the file.
Overruns(name, s, q) ==
  LET n == IF name = "escape_norm" THEN total_lines(unescape_string(q)) ELSE total_lines(q)
  IN  /\ n > total_lines(s)
      /\ \/ name = "escape_norm" /\ unescape_string(q) # q /\ n > 1
         \/ name = "whitespace_norm" /\ n > 1
         \/ name = "indent_flexible"
         \/ name = "trimmed_boundary" /\ trim(q) # q

\* The loop that collects the occurrences of a text that is empty does not
\* advance, and collects one more each time.
Spins(name, q) == name = "trimmed_boundary" /\ trim(q) = << >>

\* std::sort orders by character codes.
Before(m1, m2) ==
  \E n \in 0 .. Len(m1) :
    /\ n <= Len(m2) /\ Sub(m1, 0, n) = Sub(m2, 0, n)
    /\ n < Len(m2)
    /\ n < Len(m1) => m1[n + 1] < m2[n + 1]

Least(C) == CHOOSE m \in C : \A x \in C \ {m} : Before(m, x)

(***************************************************************************)
(* search_replace: the steps                                               *)
(***************************************************************************)
BeginSearch(q, t, all) ==
  /\ job = NoJob /\ file \in Texts
  /\ job' = [step |-> "try", n |-> 1, search |-> q, new |-> t, all |-> all]
  /\ UNCHANGED file

Trying == job.step = "try" /\ job.n <= Len(Strategies)

Name == Strategies[job.n]

\* The process reads beyond the end of the lines, or lets the matches or the
\* result grow until there is no memory: an exception that becomes an error, or
\* a crash.
Overrun ==
  /\ \/ Trying /\ (Overruns(Name, file, job.search) \/ Spins(Name, job.search))
     \/ job.step = "all" /\ job.match = << >> /\ job.new # << >>
  /\ job' \in {NoJob, [step |-> "crashed"]}
  /\ UNCHANGED file

\* The loop of apply_replace finds the empty text where it stands, and puts the
\* empty text in its place.
Spin ==
  /\ job.step = "all" /\ job.match = << >> /\ job.new = << >>
  /\ UNCHANGED vars

NextStrategy ==
  /\ Trying
  /\ ~Overruns(Name, file, job.search) /\ ~Spins(Name, job.search)
  /\ \/ Candidates(Name, file, job.search) = {}
     \/ Name = "block_anchor" /\ Cardinality(Anchored(file, job.search)) > 1
  /\ job' = [job EXCEPT !.n = @ + 1]
  /\ UNCHANGED file

NotFound ==
  /\ job.step = "try" /\ job.n > Len(Strategies)
  /\ job' = NoJob
  /\ UNCHANGED file

\* The text that a strategy settles on.
Settled ==
  LET C == Candidates(Name, file, job.search)
  IN  IF C = {} THEN {} ELSE IF Name = "block_anchor" THEN C ELSE {Least(C)}

\* Mutant of Ambiguous: the second occurrence is not looked for.
AmbiguousNever(m) == FALSE

Ambiguous(m) == find(file, m, find(file, m, 0) + Len(m)) # -1

\* apply_replace
ApplyReplace(m) ==
  /\ Trying
  /\ ~Overruns(Name, file, job.search) /\ ~Spins(Name, job.search)
  /\ m \in Settled
  /\ \/ /\ job.all
        /\ job' = [step |-> "all", match |-> m, search |-> job.search, new |-> job.new,
                   text |-> file, pos |-> 0]
        /\ UNCHANGED file
     \/ /\ ~job.all /\ Ambiguous(m)
        /\ job' = NoJob
        /\ UNCHANGED file
     \/ /\ ~job.all /\ ~Ambiguous(m)
        /\ LET p == find(file, m, 0)
           IN  file' = replace(file, p, p + Len(m), job.new)
              /\ job' = NoJob

\* Mutant of ReplaceNext: the search goes on where the last match began.
ReplaceNextStays ==
  /\ job.step = "all" /\ job.match # << >>
  /\ LET p == find(job.text, job.match, job.pos)
     IN  \/ p # -1 /\ job' = [job EXCEPT !.text = replace(@, p, p + Len(job.match), job.new),
                                         !.pos = p]
                   /\ UNCHANGED file
         \/ p = -1 /\ job' = NoJob /\ file' = job.text

\* One pass of the loop of apply_replace; the result is written at the end.
ReplaceNext ==
  /\ job.step = "all" /\ job.match # << >>
  /\ LET p == find(job.text, job.match, job.pos)
     IN  \/ /\ p # -1
            /\ job' = [job EXCEPT !.text = replace(@, p, p + Len(job.match), job.new),
                                  !.pos = p + Len(job.new)]
            /\ UNCHANGED file
         \/ /\ p = -1
            /\ file' = job.text
            /\ job' = NoJob

Init == file \in Texts /\ job = NoJob

SearchStep ==
  \/ Overrun
  \/ Spin
  \/ NextStrategy
  \/ NotFound
  \/ Trying /\ \E m \in Settled : ApplyReplace(m)
  \/ ReplaceNext

Next ==
  \/ \E n \in 0 .. Len(file), t \in Inserted : InsertLine(n, t)
  \/ \E a, b \in 0 .. Len(file), t \in Inserted : ReplaceRange(a, b, t)
  \/ \E a, b \in 0 .. Len(file) : DeleteLines(a, b)
  \/ \E q \in Searches, t \in Inserted, all \in BOOLEAN : BeginSearch(q, t, all)
  \/ SearchStep

\* Once begun, a tool runs on in its thread.
Spec == Init /\ [][Next]_vars /\ WF_vars(SearchStep)

-----------------------------------------------------------------------------
(***************************************************************************)
(* Properties                                                              *)
(***************************************************************************)
TypeOK ==
  /\ file \in Seq(Nat)
  /\ \/ job \in {NoJob, [step |-> "crashed"]}
     \/ job \in [step : {"try"}, n : 1 .. Len(Strategies) + 1, search : Searches,
                 new : Inserted, all : BOOLEAN]
     \/ /\ job \in [step : {"all"}, match : Seq(Nat), search : Searches, new : Inserted,
                    text : Seq(Nat), pos : Nat]
        /\ job.pos <= Len(job.text)

\* A text with these lines; the last may lack its newline.
HasLines(s, L) ==
  LET whole == FlattenSeq([k \in DOMAIN L |-> Append(L[k], NL)])
  IN  s = whole \/ (s = Front(whole) /\ L # << >> /\ Last(L) # << >>)

\* The tools that take line numbers edit the list of lines, whatever the text
\* ends in: the result consists of the lines before the range, the new lines
\* and the lines behind the range, none of them split or joined.
LinesSpliced ==
  LET L == split_lines(file)
      Spliced(a, b, N) == SubSeq(L, 1, a) \o N \o SubSeq(L, b + 1, Len(L))
  IN  /\ HasLines(file, L)
      /\ \A t \in Inserted :
           LET T == split_lines(Append(t, NL))
           IN  \A a \in 0 .. Len(L) :
                 /\ HasLines(insert_line_at(file, a, t), Spliced(a, a, T))
                 /\ \A b \in {b \in a .. Len(L) : RangeValid(file, a, b)} :
                      /\ HasLines(replace_range(file, a, b, t), Spliced(a, b, split_lines(t)))
                      /\ HasLines(delete_lines(file, a, b), Spliced(a, b, << >>))

\* The numbers that the reading tools give the model mean the same lines to
\* the editing tools: putting back what read_file_range returned for lines
\* a .. b, as replace_lines(a - 1, b), changes no line.
NumbersAgree ==
  LET L == split_lines(file)
  IN  \A a \in DOMAIN L : \A b \in a .. Len(L) :
        LET r == read_file_range(file, a, b)
        IN  /\ split_lines(r) = SubSeq(L, a, b)
            /\ RangeValid(file, a - 1, b)
            /\ split_lines(replace_range(file, a - 1, b, r)) = L

\* Equal but for white space and escapes, or a block between the same lines.
SameText(m, q) ==
  \/ normalize_whitespace(unescape_string(m)) = normalize_whitespace(unescape_string(q))
  \/ LET M == split_lines(m)
         L == SearchLines(q)
     IN  Len(M) > 2 /\ Len(L) > 2 /\ trim(M[1]) = trim(L[1]) /\ trim(Last(M)) = trim(Last(L))

\* s2 is s1 with the stretch m, of the same text as q, replaced by t.
OneReplaced(s1, s2, q, t, m) ==
  /\ SameText(m, q)
  /\ \E p \in Occurrences(s1, m) : s2 = replace(s1, p, p + Len(m), t)

\* search_replace removes only what it was asked for: one stretch that occurs
\* once, the search text itself if the file has it, else one that differs in
\* white space or escapes; with replaceAll one such stretch after the other.
OnlyMatchReplaced ==
  [][/\ job.step = "try" /\ file' # file =>
          \E p \in 0 .. Len(file) : \E r \in p .. Len(file) :
             LET m == Sub(file, p, r)
             IN  /\ OneReplaced(file, file', job.search, job.new, m)
                 /\ find(file, m, p + Len(m)) = -1
                 /\ Occurrences(file, job.search) # {} => m = job.search
     /\ job.step = "all" /\ job'.step = "all" =>
          OneReplaced(job.text, job'.text, job.search, job.new, job.match)]_vars

\* A search for a text that is not only white space comes to an end, with an
\* answer or with the end of the process, also if the new text contains the
\* one it replaces.
SearchEnds ==
  job.step \in {"try", "all"} /\ trim(job.search) # << >>
    ~> job.step \in {"none", "crashed"}

-----------------------------------------------------------------------------
(* What comments and messages say, and the code does not do. *)

\* "Search string not found. Tried ... matching strategies": whatever the
\* search text and the file, a search is answered.
SearchAnswered == job # NoJob ~> job = NoJob

\* The same: no search goes on for ever.
SearchStops == job.step \in {"try", "all"} ~> job.step \in {"none", "crashed"}

\* "Search and replace: find a unique block of text and replace it": what a
\* strategy replaces is the only text in the file it could have matched.
UniqueBlock ==
  [][job.step = "try" /\ ~job.all /\ file' # file =>
       Cardinality(Candidates(Name, file, job.search)) = 1]_vars
=============================================================================
