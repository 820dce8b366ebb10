---------------------------- MODULE MCServerQueue ----------------------------
(***************************************************************************)
(* ServerQueue for TLC.  Readers are interchangeable, and so are slots     *)
(* that no request asks for by id; the symmetry is used by the runs that   *)
(* check invariants only.                                                  *)
(***************************************************************************)
EXTENDS ServerQueue, TLC

ReaderSlotSymmetry == Permutations(Readers) \cup Permutations(Slots)
=============================================================================
