----------------------------- MODULE MCSlotCache -----------------------------
(***************************************************************************)
(* Configurations of SlotCache for TLC.  In every one a slot's context is  *)
(* n_ctx positions and all slots share Size cells, or have Size each.      *)
(***************************************************************************)
EXTENDS SlotCache

CONSTANTS a, b

Base == [unified |-> TRUE, n_swa |-> 0, n_ctx |-> 4, families |-> FALSE,
         ctx_shift |-> FALSE, n_keep |-> 0, n_discard |-> 1, n_reuse |-> 0,
         may_fail |-> FALSE]

\* Requests for several answers with cells for every slot's whole context;
\* context shift and chunk reuse with too few cells for all; streams, where
\* both come together; a sliding window.
Sound ==
  {[Base EXCEPT !.families = TRUE, !.may_fail = TRUE],
   [Base EXCEPT !.n_ctx = 6, !.ctx_shift = TRUE, !.n_reuse = 1],
   [Base EXCEPT !.n_ctx = 5, !.unified = FALSE, !.families = TRUE, !.ctx_shift = TRUE,
                !.n_keep = 1, !.n_discard = 0, !.n_reuse = 1],
   [Base EXCEPT !.n_ctx = 8, !.n_swa = 2]}

\* Shared cells and context shift; shared cells and not enough of them.
SharedShift == {[Base EXCEPT !.n_ctx = 5, !.families = TRUE, !.ctx_shift = TRUE]}
SharedTight == {[Base EXCEPT !.n_ctx = 6, !.families = TRUE]}

MCPrompts == {<<a, b>>, <<a, b, b>>, <<b, a>>}
=============================================================================
