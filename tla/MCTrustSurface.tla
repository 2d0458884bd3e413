--------------------------- MODULE MCTrustSurface ---------------------------
(***************************************************************************)
(* TrustSurface for TLC, with any two of its runs at a time.               *)
(***************************************************************************)
EXTENDS TrustSurface

\* Bound: the runs in progress at once.
AtMostTwo == Cardinality({r \in Runs : pc[r] \notin Ended \cup {"idle"}}) <= 2
=============================================================================
