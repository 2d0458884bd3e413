------------------------- MODULE MCDecisionHistory -------------------------
(***************************************************************************)
(* DecisionHistory for TLC.                                                *)
(***************************************************************************)
EXTENDS DecisionHistory, TLC

CONSTANTS x, y, none, lax, strict, foreign

\* A fresh evaluation blocks y under the strict settings only.
StrictRejectsY == {<<strict, y>>}

Interchangeable == Permutations(Topics)
=============================================================================
