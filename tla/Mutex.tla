------------------------------- MODULE Mutex -------------------------------
(***************************************************************************)
(* What withFileLock (src/src/file-lock.ts) promises its callers: the      *)
(* critical actions of different calls never overlap.  FileLock is the     *)
(* detailed specification that is shown to implement this one, and the     *)
(* ledger and record-store modules take a lock of this kind as given.      *)
(***************************************************************************)
EXTENDS FiniteSets

CONSTANT Calls              \* the withFileLock calls

VARIABLE holders            \* the calls whose action is running

Init == holders = {}

Acquire(c) == /\ holders = {}
              /\ holders' = {c}

Release(c) == /\ c \in holders
              /\ holders' = holders \ {c}

Next == \E c \in Calls : Acquire(c) \/ Release(c)

Spec == Init /\ [][Next]_holders
=============================================================================
