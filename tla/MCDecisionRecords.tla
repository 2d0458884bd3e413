------------------------- MODULE MCDecisionRecords -------------------------
(***************************************************************************)
(* DecisionRecords for TLC.  The contents of the lockfile other than its   *)
(* absence are interchangeable: the specification only compares them.      *)
(***************************************************************************)
EXTENDS DecisionRecords, TLC

InterchangeableContents == Permutations(Contents \ {Absent})

\* Bound: the runs in progress at once.
AtMostTwo == Cardinality(Running) <= 2
=============================================================================
