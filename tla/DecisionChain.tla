--------------------------- MODULE DecisionChain ---------------------------
(***************************************************************************)
(* The chain of decision records of one lockfile path: where the next      *)
(* record goes and what makes the chain readable (src/src/                 *)
(* decision-store.ts), and what `decisions verify` demands of it for a     *)
(* base and a head (src/src/decision-verify.ts).                           *)
(*                                                                         *)
(* A chain is the set of its records.  A record has a place (seq), the     *)
(* digest of the record before (prev), its own digest, and the lockfile    *)
(* before and after the command it records.  Digests are positive numbers, *)
(* the genesis digest is 0, and a lockfile's content is its own digest.    *)
(***************************************************************************)
EXTENDS Integers, FiniteSets

Genesis == [seq |-> 1, prev |-> 0]

\* readDecisionChain and verifyChainLinkage: the records are numbered from 1
\* on without a gap, and each names the digest of the one before.
ChainOk(F) ==
  /\ \A f, g \in F : f.seq = g.seq => f = g
  /\ \A f \in F : \/ f.seq = 1 /\ f.prev = 0
                  \/ \E g \in F : f.seq = g.seq + 1 /\ f.prev = g.digest

LastOf(F) == CHOOSE f \in F : \A g \in F : g.seq <= f.seq

\* Fault: the records are numbered from 0.
NextPosition_FromZero(F) ==
  IF F = {} THEN [Genesis EXCEPT !.seq = 0]
  ELSE [seq |-> LastOf(F).seq + 1, prev |-> LastOf(F).digest]

\* appendDecisionRecord: the place after the last record.
NextPosition(F) ==
  IF F = {} THEN Genesis
  ELSE [seq |-> LastOf(F).seq + 1, prev |-> LastOf(F).digest]

\* verifyChainLinkage: each record starts from what the one before it left.
Continuous(F) == \A f, g \in F : f.seq = g.seq + 1 => f.before = g.after

\* Fault: the chain need not start from the base.
LockFindings_Unanchored(from, to, F) ==
  IF ~ChainOk(F) THEN {"chain-broken"}
  ELSE IF ~Continuous(F) THEN {"state-discontinuity"}
  ELSE IF from = to THEN {}
  ELSE IF F = {} THEN {"missing"}
  ELSE IF LastOf(F).after # to THEN {"binding-mismatch"} ELSE {}

\* What verifyDecisions finds wrong with a lockfile that is `from` at the
\* base and `to` at the head, given the records at the head.
LockFindings(from, to, F) ==
  IF ~ChainOk(F) THEN {"chain-broken"}
  ELSE IF ~Continuous(F) THEN {"state-discontinuity"}
  ELSE IF from = to THEN {}
  ELSE IF F = {} THEN {"missing"}
  ELSE IF \A f \in F : f.before # from THEN {"base-unanchored"}
  ELSE IF LastOf(F).after # to THEN {"binding-mismatch"} ELSE {}
=============================================================================
