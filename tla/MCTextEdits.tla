----------------------------- MODULE MCTextEdits -----------------------------
(***************************************************************************)
(* Texts for TLC: every text of up to four letters, spaces and newlines,   *)
(* and a few longer ones for the strategies that need several lines.       *)
(***************************************************************************)
EXTENDS TextEdits

CONSTANTS MaxLen

X == 120
Y == 121

Short == UNION {[1 .. n -> {X, SP, NL}] : n \in 0 .. MaxLen}

Long == {<<X, NL, Y, NL, X>>, <<SP, X, NL, SP, Y, NL>>, <<X, NL, X, NL, Y, NL, X>>,
         <<X, ESC, Y, NL>>, <<X, NL, Y>>}

MCTexts == Short \cup Long

MCInserted == {<< >>, <<X>>, <<Y, NL>>}

MCSearches == {<<X>>, <<X, SP>>, <<SP, X, NL>>, <<X, NL, X>>, <<X, ESC, Y>>,
               <<SP, X, NL, SP, SP, Y>>, <<X, NL, NL, X>>, <<X, SP, X>>, <<SP>>}

\* Searches for white space, and for more lines than a file may have.
Blank == {<<SP>>}
TwoLines == {<<X, NL, X>>}
=============================================================================
