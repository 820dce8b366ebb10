----------------------------- MODULE MCTerminal -----------------------------
(* A keyboard for TLC: a letter of one byte and one of two. *)
EXTENDS Terminal

Letter == {<<"a">>}
TwoBytes == {<<"lead", "cont">>}
=============================================================================
