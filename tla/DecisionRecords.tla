-------------------------- MODULE DecisionRecords --------------------------
(***************************************************************************)
(* The artifact-bound install and the decision record it leaves            *)
(* (src/src/install-flow.ts, install-binding.ts, check-flow.ts,            *)
(* decision-emit.ts, decision-store.ts), for one lockfile path of one      *)
(* worktree.                                                               *)
(*                                                                         *)
(* One element of Runs is one `safeinstall` process.  A step is one        *)
(* awaited operation on the lockfile or on the record store.  A content is *)
(* its own blob identity; digests are fresh numbers, the genesis digest    *)
(* is 0.  What the policy makes of a package is a free choice.             *)
(***************************************************************************)
EXTENDS DecisionChain

CONSTANTS
  Additions,        \* runs of `safeinstall npm install <package>`
  ProjectInstalls,  \* runs of `safeinstall npm install`
  Checks,           \* runs of `safeinstall check --record`
  Faulty,           \* runs that may be killed, aborted, or fail to write
  Undo,             \* TRUE: the lockfile may get a content it had before
  Contents,         \* contents of the lockfile
  Absent,           \* one of them: there is no lockfile
  MaxEdits          \* bound: changes of the lockfile by others

Runs     == Additions \cup ProjectInstalls \cup Checks
Verdicts == {"installed", "allow", "block"}

Records == [seq : Nat \ {0}, prev : Nat, digest : Nat, run : Runs,
            verdict : Verdicts, before : Contents, after : Contents]

ASSUME DecisionRecordsAssumption ==
  /\ Undo \in BOOLEAN
  /\ Absent \in Contents
  /\ MaxEdits \in Nat

VARIABLES
  tree,        \* the lockfile in the working tree
  seen,        \* history: the contents it has had
  files,       \* the record files of this lockfile path
  storeLock,   \* the runs that hold decisions.lock
  lastDigest,  \* the record digests used so far
  edits,       \* changes of the lockfile by others so far
  pc,          \* where each run stands
  before,      \* the lockfile captureDecisionState bound
  locked,      \* the lockfile whose digest loadInstallScope took
  targets,     \* the lockfile whose targets were evaluated
  frozen,      \* the lockfile the frozen install read
  verdict,     \* "installed": allowed, and the manager exited 0
  after,       \* the lockfile emitDecisionRecord bound
  position     \* the chain position appendDecisionRecord assigned

store   == <<files, storeLock, lastDigest>>
binding == <<locked, targets, frozen>>
record  == <<before, verdict, after, position>>
vars    == <<tree, seen, store, edits, pc, binding, record>>

Ended  == {"refused", "recorded", "unrecorded", "failed", "killed"}
Places == Ended \cup {"idle", "capture", "prepare", "digest", "targets", "evaluate",
                      "recheck", "frozen", "recheckAfter", "bindAfter", "acquire",
                      "readChain", "publish"}

TypeOK ==
  /\ tree \in Contents /\ seen \subseteq Contents
  /\ files \subseteq Records
  /\ storeLock \subseteq Runs
  /\ {lastDigest, edits} \subseteq Nat
  /\ pc \in [Runs -> Places]
  /\ {before, locked, targets, frozen, after} \subseteq [Runs -> Contents]
  /\ verdict \in [Runs -> Verdicts]
  /\ position \in [Runs -> [seq : Nat \ {0}, prev : Nat]]

Init ==
  /\ tree \in Contents
  /\ seen = {tree}
  /\ files = {}
  /\ storeLock = {}
  /\ lastDigest = 0 /\ edits = 0
  /\ pc = [r \in Runs |-> "idle"]
  /\ before = [r \in Runs |-> tree]
  /\ locked = [r \in Runs |-> tree]
  /\ targets = [r \in Runs |-> tree]
  /\ frozen = [r \in Runs |-> tree]
  /\ after = [r \in Runs |-> tree]
  /\ verdict = [r \in Runs |-> "block"]
  /\ position = [r \in Runs |-> Genesis]

Goto(r, l) == pc' = [pc EXCEPT ![r] = l]
At(r, l) == pc[r] = l
Running == {r \in Runs : pc[r] \notin Ended \cup {"idle"}}

\* The contents a writer of the lockfile may give it.
Writable == IF Undo THEN Contents ELSE Contents \ seen

Decide(r, v) == verdict' = [verdict EXCEPT ![r] = v]

\* An InstallBindingError: the install is blocked, and recorded as blocked.
Block(r) == Decide(r, "block") /\ Goto(r, "bindAfter")
-----------------------------------------------------------------------------
(* runInstallFlow and the check flow up to captureDecisionState *)

\* Refusals before the state is captured leave no record.
Begin(r) ==
  /\ At(r, "idle")
  /\ \/ Goto(r, "capture")
     \/ Goto(r, "refused")
  /\ UNCHANGED <<tree, seen, store, edits, binding, record>>

\* An install, its policy evaluated: blocked and recorded as such, or begun.
Capture(r) ==
  /\ At(r, "capture") /\ r \notin Checks
  /\ before' = [before EXCEPT ![r] = tree]
  /\ \/ Block(r)
     \/ /\ Goto(r, IF r \in Additions THEN "prepare" ELSE "digest")
        /\ UNCHANGED verdict
  /\ UNCHANGED <<tree, seen, store, edits, binding, after, position>>

\* check --record, its policy evaluated: the verdict is recorded at once.
CaptureCheck(r) ==
  /\ At(r, "capture") /\ r \in Checks
  /\ before' = [before EXCEPT ![r] = tree]
  /\ \E v \in {"allow", "block"} : Decide(r, v)
  /\ Goto(r, "bindAfter")
  /\ UNCHANGED <<tree, seen, store, edits, binding, after, position>>
-----------------------------------------------------------------------------
(* runBoundInstall *)

\* The lockfile-only preparation of an explicit addition.  A non-zero exit
\* ends the install there, with an allow verdict.
Prepare(r) ==
  /\ At(r, "prepare")
  /\ tree' \in {tree} \cup (Writable \ {Absent})
  /\ seen' = seen \cup {tree'}
  /\ \/ Goto(r, "digest") /\ UNCHANGED verdict
     \/ Goto(r, "bindAfter") /\ Decide(r, "allow")
  /\ UNCHANGED <<store, edits, binding, before, after, position>>

\* loadInstallScope: the digest of the lockfile.  When there is none the
\* install is blocked, or fails on the second of the two reads.
Digest(r) ==
  /\ At(r, "digest")
  /\ locked' = [locked EXCEPT ![r] = tree]
  /\ \/ tree # Absent /\ Goto(r, "targets") /\ UNCHANGED verdict
     \/ tree = Absent /\ Block(r)
     \/ tree = Absent /\ Goto(r, "failed") /\ UNCHANGED verdict
  /\ UNCHANGED <<tree, seen, store, edits, targets, frozen, before, after, position>>

\* Fault: the targets are those of the lockfile before the preparation.
LoadTargets_Stale(r) ==
  /\ At(r, "targets")
  /\ targets' = [targets EXCEPT ![r] = before[r]]
  /\ Goto(r, "evaluate")
  /\ UNCHANGED <<tree, seen, store, edits, locked, frozen, record>>

\* loadInstallScope reads the lockfile again for what it would install.
LoadTargets(r) ==
  /\ At(r, "targets")
  /\ targets' = [targets EXCEPT ![r] = tree]
  /\ IF tree = Absent THEN Block(r) ELSE Goto(r, "evaluate") /\ UNCHANGED verdict
  /\ UNCHANGED <<tree, seen, store, edits, locked, frozen, before, after, position>>

\* verifyTargets, and the policy on every target not evaluated yet.
Evaluate(r) ==
  /\ At(r, "evaluate")
  /\ \/ Goto(r, "recheck") /\ UNCHANGED verdict
     \/ Block(r)
  /\ UNCHANGED <<tree, seen, store, edits, binding, before, after, position>>

\* The lockfile must still be the one whose digest was taken.
Recheck(r) ==
  /\ At(r, "recheck")
  /\ IF tree = locked[r] THEN Goto(r, "frozen") /\ UNCHANGED verdict
     ELSE IF tree = Absent THEN Goto(r, "failed") /\ UNCHANGED verdict
     ELSE Block(r)
  /\ UNCHANGED <<tree, seen, store, edits, binding, before, after, position>>

\* npm ci, or pnpm install --frozen-lockfile: reads the lockfile only.
Freeze(r) ==
  /\ At(r, "frozen")
  /\ frozen' = [frozen EXCEPT ![r] = tree]
  /\ \/ tree # Absent /\ Decide(r, "installed")
     \/ Decide(r, "allow")
  /\ Goto(r, "recheckAfter")
  /\ UNCHANGED <<tree, seen, store, edits, locked, targets, before, after, position>>

\* Fault: the lockfile is not compared with its digest after the install.
RecheckAfter_Skipped(r) ==
  /\ At(r, "recheckAfter")
  /\ Goto(r, "bindAfter")
  /\ UNCHANGED <<tree, seen, store, edits, binding, record>>

RecheckAfter(r) ==
  /\ At(r, "recheckAfter")
  /\ IF tree = locked[r] THEN Goto(r, "bindAfter") /\ UNCHANGED verdict
     ELSE IF tree = Absent THEN Goto(r, "failed") /\ UNCHANGED verdict
     ELSE Block(r)
  /\ UNCHANGED <<tree, seen, store, edits, binding, before, after, position>>
-----------------------------------------------------------------------------
(* emitDecisionRecord and appendDecisionRecord *)

\* The lockfile is read once more: its content now is the record's "after".
BindAfter(r) ==
  /\ At(r, "bindAfter")
  /\ after' = [after EXCEPT ![r] = tree]
  /\ Goto(r, "acquire")
  /\ UNCHANGED <<tree, seen, store, edits, binding, before, verdict, position>>

\* decisions.lock: withFileLock keeps the contract of Mutex.
StoreLock == INSTANCE Mutex WITH Calls <- Runs, holders <- storeLock

\* Fault: the chain is read and written without the lock.
Acquire_Shared(r) ==
  /\ At(r, "acquire")
  /\ storeLock' = storeLock \cup {r}
  /\ Goto(r, "readChain")
  /\ UNCHANGED <<tree, seen, files, lastDigest, edits, binding, record>>

Acquire(r) ==
  /\ At(r, "acquire")
  /\ StoreLock!Acquire(r)
  /\ Goto(r, "readChain")
  /\ UNCHANGED <<tree, seen, files, lastDigest, edits, binding, record>>

\* The lock was not free within waitMs: a warning instead of a record.
AcquireTimesOut(r) ==
  /\ At(r, "acquire") /\ storeLock # {}
  /\ Goto(r, "unrecorded")
  /\ UNCHANGED <<tree, seen, store, edits, binding, record>>

\* The position is assigned under the lock; a broken chain is not extended.
ReadChain(r) ==
  /\ At(r, "readChain")
  /\ IF ChainOk(files)
     THEN /\ position' = [position EXCEPT ![r] = NextPosition(files)]
          /\ Goto(r, "publish")
          /\ UNCHANGED storeLock
     ELSE /\ StoreLock!Release(r)
          /\ Goto(r, "unrecorded")
          /\ UNCHANGED position
  /\ UNCHANGED <<tree, seen, files, lastDigest, edits, binding, before, verdict, after>>

\* The record is written beside its place and renamed; the lock is released.
Publish(r) ==
  /\ At(r, "publish")
  /\ lastDigest' = lastDigest + 1
  /\ files' = files \cup
       {[seq |-> position[r].seq, prev |-> position[r].prev, digest |-> lastDigest',
         run |-> r, verdict |-> verdict[r], before |-> before[r], after |-> after[r]]}
  /\ StoreLock!Release(r)
  /\ Goto(r, "recorded")
  /\ UNCHANGED <<tree, seen, edits, binding, record>>

\* Emission fails (a full disk): reported as a warning, never an error.
EmitFails(r) ==
  /\ r \in Faulty /\ pc[r] \in {"bindAfter", "readChain", "publish"}
  /\ storeLock' = storeLock \ {r}
  /\ Goto(r, "unrecorded")
  /\ UNCHANGED <<tree, seen, files, lastDigest, edits, binding, record>>
-----------------------------------------------------------------------------
(* The environment *)

\* A run is killed or aborted; its store lock goes stale and is stolen.
Kill(r) ==
  /\ r \in Faulty /\ r \in Running
  /\ storeLock' = storeLock \ {r}
  /\ Goto(r, "killed")
  /\ UNCHANGED <<tree, seen, files, lastDigest, edits, binding, record>>

\* Something else writes or deletes the lockfile: a hand edit, a checkout.
Edit ==
  /\ edits < MaxEdits
  /\ edits' = edits + 1
  /\ tree' \in Writable \ {tree}
  /\ seen' = seen \cup {tree'}
  /\ UNCHANGED <<store, pc, binding, record>>

Evaluation(r) == Begin(r) \/ Capture(r) \/ CaptureCheck(r)

Bind(r) ==
  Prepare(r) \/ Digest(r) \/ LoadTargets(r) \/ Evaluate(r) \/ Recheck(r)
  \/ Freeze(r) \/ RecheckAfter(r)

Emit(r) ==
  BindAfter(r) \/ Acquire(r) \/ AcquireTimesOut(r) \/ ReadChain(r) \/ Publish(r)
  \/ EmitFails(r)

Finished == (\A r \in Runs : pc[r] \in Ended) /\ UNCHANGED vars

Next ==
  \/ \E r \in Runs : Evaluation(r) \/ Bind(r) \/ Emit(r) \/ Kill(r)
  \/ Edit \/ Finished

Spec == Init /\ [][Next]_vars
-----------------------------------------------------------------------------
(* Properties *)

\* Parallel runs, killed ones included, never fork or break the chain of
\* records: it stays readable, and the next run can extend it.
Unforked == ChainOk(files)

\* Where the outcome of a run is settled.
Reported == {"bindAfter", "acquire", "readChain", "publish", "recorded", "unrecorded"}

\* Each record is appended in one step, at the next position of a whole
\* chain, and no record is changed or removed, whatever overlaps or dies.
Store == INSTANCE DecisionStore
ImplementsStore == Store!Spec

\* An install that ended well installed the lockfile whose targets were
\* evaluated: the two comparisons with the digest leave no gap in which
\* another writer's lockfile is installed unexamined.
InstalledWasEvaluated ==
  \A r \in Runs : verdict[r] = "installed" /\ pc[r] \in Reported
     => frozen[r] = targets[r]

\* The record of a successful install binds the lockfile that was evaluated
\* and installed, unless somebody else has written the lockfile: the record
\* is bound later than the install's last look at the lockfile.
RecordBindsInstalled ==
  edits = 0 => \A f \in files :
    f.verdict = "installed" /\ (\A q \in Additions \ {f.run} : pc[q] \in {"idle", "refused"})
       => f.after = targets[f.run]
=============================================================================
