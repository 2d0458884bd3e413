--------------------------- MODULE DecisionStore ---------------------------
(***************************************************************************)
(* What appendDecisionRecord (src/src/decision-store.ts) promises: a       *)
(* record is appended in one step, at the next position of a whole chain,  *)
(* under a digest no record has yet, and no record is changed or removed.  *)
(* DecisionRecords is shown to implement it.                               *)
(***************************************************************************)
EXTENDS DecisionChain

VARIABLES files, lastDigest

Init == files = {} /\ lastDigest = 0

Append(new) ==
  /\ ChainOk(files)
  /\ [seq |-> new.seq, prev |-> new.prev] = NextPosition(files)
  /\ new.digest = lastDigest + 1
  /\ files' = files \cup {new}
  /\ lastDigest' = new.digest

Next == \E new \in files' \ files : Append(new)

Spec == Init /\ [][Next]_<<files, lastDigest>>
=============================================================================
