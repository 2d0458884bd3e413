----------------------------- MODULE GuardSetup -----------------------------
(***************************************************************************)
(* `safeinstall guard install` (src/src/guard-setup.ts) and `safeinstall   *)
(* init` (src/src/init-flow.ts): they register the guard in the hook files *)
(* of the agents' clients, while people and agents edit the same files.    *)
(*                                                                         *)
(* A hook file holds how often it registers the guard and the other hooks. *)
(* The lock is the snapshot that TrustSurface's baselines record; how it   *)
(* is taken, approved and removed is TrustSurface's subject and one step   *)
(* here.  The ledger's head is recorded outside the project as well        *)
(* (mirror), by which a lock that is gone is told from one never taken;    *)
(* nobody touches that directory but SafeInstall.                          *)
(***************************************************************************)
EXTENDS Integers, FiniteSets

CONSTANTS
  Clients,   \* the clients: "claude", "codex", "cursor"
  Hooks,     \* hooks of others that a hook file may hold
  Setups,    \* runs of guard install and init
  Inits,     \* those of init
  Forced,    \* the inits with --force
  Guarding,  \* the setups without --no-guard
  Locking,   \* the inits without --no-lock
  Asked,     \* for each setup the clients of --client; {}: none named
  Present,   \* clients that leave another file in the project, like CLAUDE.md
  Faulty,    \* setups that may be killed
  Absent,    \* there is no hook file
  Broken,    \* the hook file is not a JSON object
  NoLock,    \* the project is not locked
  BadLock,   \* it is, and the lock is gone or does not fit its ledger or its mirror
  MaxEdits   \* bound: edits, approvals and unlocks by others

HookFiles == {Absent, Broken} \cup [guard : Nat, others : SUBSET Hooks]

Policies == {"absent", "default", "custom"}
Tools    == {"reviewed", "other"}

Snapshots == [hooks : [Clients -> HookFiles], policy : Policies, tools : Tools]

ASSUME GuardSetupAssumption ==
  /\ Clients \subseteq {"claude", "codex", "cursor"} /\ Present \subseteq Clients
  /\ Inits \subseteq Setups /\ Forced \subseteq Inits /\ Locking \subseteq Inits
  /\ Setups \ Inits \subseteq Guarding /\ Guarding \subseteq Setups
  /\ Asked \in [Setups -> SUBSET Clients] /\ Faulty \subseteq Setups
  /\ {Absent, Broken} \cap [guard : Nat, others : SUBSET Hooks] = {} /\ Absent # Broken
  /\ {NoLock, BadLock} \cap Snapshots = {} /\ NoLock # BadLock
  /\ MaxEdits \in Nat

VARIABLES
  hooks,   \* the hook file of each client
  policy,  \* safeinstall.config.json
  tools,   \* the MCP configuration
  lock,    \* the baseline of the trust lock
  mirror,  \* has this machine recorded the ledger's head?
  edits,   \* edits, approvals and unlocks by others so far
  pc,      \* where each setup stands
  todo,    \* the clients it has not yet set up
  seen,    \* the hook file it has read for the client it is setting up
  failed,  \* has it failed for some client?
  calm     \* history: has nobody else changed a file since it began?

files == <<hooks, policy, tools>>
run   == <<pc, todo, seen, failed>>
trust == <<lock, mirror>>
vars  == <<files, trust, edits, run, calm>>

Ended == {"done", "failed", "killed"}

TypeOK ==
  /\ hooks \in [Clients -> HookFiles] /\ policy \in Policies /\ tools \in Tools
  /\ lock \in Snapshots \cup {NoLock, BadLock} /\ mirror \in BOOLEAN
  /\ edits \in Nat
  /\ pc \in [Setups -> {"idle", "config", "clients", "read", "write", "lock"} \cup Ended]
  /\ todo \in [Setups -> SUBSET Clients]
  /\ seen \in [Setups -> HookFiles]
  /\ {failed, calm} \subseteq [Setups -> BOOLEAN]

Snapshot == [hooks |-> hooks, policy |-> policy, tools |-> tools]

\* A project in any state, guarded or not, locked or not, here or in the
\* repository this is a clone of.
Init ==
  /\ hooks \in [Clients -> {Absent, Broken} \cup [guard : {0, 1}, others : SUBSET Hooks]]
  /\ policy \in {"absent", "custom"} /\ tools = "reviewed"
  /\ lock \in {NoLock, Snapshot} /\ mirror \in BOOLEAN /\ (mirror => lock # NoLock)
  /\ edits = 0
  /\ pc = [r \in Setups |-> "idle"]
  /\ todo = [r \in Setups |-> {}]
  /\ seen = [r \in Setups |-> Absent]
  /\ failed = [r \in Setups |-> FALSE]
  /\ calm = [r \in Setups |-> TRUE]

Goto(r, l) == pc' = [pc EXCEPT ![r] = l]

\* r changes a file under the other setups.
Disturb(r) == calm' = [q \in Setups |-> calm[q] /\ (q = r \/ pc[q] = "idle")]
-----------------------------------------------------------------------------
(* runInitFlow and runGuardSetupFlow *)

Begin(r) ==
  /\ pc[r] = "idle"
  /\ Goto(r, IF r \in Inits THEN "config" ELSE "clients")
  /\ UNCHANGED <<files, trust, edits, todo, seen, failed, calm>>

\* An existing policy is kept unless --force asks to replace it.
Config(r) ==
  /\ pc[r] = "config"
  /\ IF policy = "absent" \/ r \in Forced
     THEN policy' = "default" /\ Disturb(r)
     ELSE UNCHANGED <<policy, calm>>
  /\ Goto(r, "clients")
  /\ UNCHANGED <<hooks, tools, trust, edits, todo, seen, failed>>

AfterGuard(r) == IF r \in Locking THEN "lock" ELSE "done"

\* Fault: a name given to --client is not compared with the clients there are.
Requested_Unchecked(r) == IF Asked[r] # {} THEN Asked[r] ELSE {"claude", "windsurf"}

\* init looks for the clients the project uses; guard install takes all.
Requested(r) ==
  IF Asked[r] # {} THEN Asked[r]
  ELSE IF r \in Inits THEN {c \in Clients : c \in Present \/ hooks[c] # Absent} ELSE Clients

ChooseClients(r) ==
  /\ pc[r] = "clients"
  /\ todo' = [todo EXCEPT ![r] = IF r \in Guarding THEN Requested(r) ELSE {}]
  /\ Goto(r, IF todo'[r] = {} THEN AfterGuard(r) ELSE "read")
  /\ UNCHANGED <<files, trust, edits, seen, failed, calm>>

Guards(f) == f \notin {Absent, Broken} /\ f.guard > 0

\* Fault: whether the guard is already registered is not looked at.
Merge_Always(f) ==
  IF f = Absent THEN [guard |-> 1, others |-> {}] ELSE [f EXCEPT !.guard = @ + 1]

\* mergeClaudeSettings, mergeCodexHooks, mergeCursorHooks
Merge(f) ==
  IF f = Absent THEN [guard |-> 1, others |-> {}]
  ELSE IF Guards(f) THEN f ELSE [f EXCEPT !.guard = 1]

\* Fault: a failure is reported, and nothing else.
Finish_GoesOn(r, c, ok) ==
  LET rest == todo[r] \ {c}
  IN /\ todo' = [todo EXCEPT ![r] = rest]
     /\ failed' = [failed EXCEPT ![r] = failed[r] \/ ~ok]
     /\ Goto(r, IF rest # {} THEN "read" ELSE AfterGuard(r))

\* A client is done with; the run goes on with the others, and init stops
\* after the last if one of them failed.
Finish(r, c, ok) ==
  LET rest == todo[r] \ {c}
      bad  == failed[r] \/ ~ok
  IN /\ todo' = [todo EXCEPT ![r] = rest]
     /\ failed' = [failed EXCEPT ![r] = bad]
     /\ Goto(r, IF rest # {} THEN "read" ELSE IF bad THEN "failed" ELSE AfterGuard(r))

First(C) == IF "claude" \in C THEN "claude" ELSE IF "codex" \in C THEN "codex" ELSE "cursor"

\* setupClient: a file that is no JSON object is reported and left alone.
ReadHooks(r) ==
  /\ pc[r] = "read"
  /\ LET c == First(todo[r]) IN
       IF hooks[c] # Broken /\ Merge(hooks[c]) # hooks[c]
       THEN /\ seen' = [seen EXCEPT ![r] = hooks[c]]
            /\ Goto(r, "write")
            /\ UNCHANGED <<todo, failed>>
       ELSE Finish(r, c, hooks[c] # Broken) /\ UNCHANGED seen
  /\ UNCHANGED <<files, trust, edits, calm>>

WriteHooks(r) ==
  /\ pc[r] = "write"
  /\ LET c == First(todo[r]) IN
       /\ hooks' = [hooks EXCEPT ![c] = Merge(seen[r])]
       /\ Finish(r, c, TRUE)
  /\ seen' = [seen EXCEPT ![r] = Absent]
  /\ Disturb(r)
  /\ UNCHANGED <<policy, tools, trust, edits>>

\* Fault: a project without a lock file counts as not locked.
TakeLock_LockOnly(r) ==
  /\ pc[r] = "lock"
  /\ lock' = IF lock \in {NoLock, BadLock} THEN Snapshot ELSE lock
  /\ mirror' = TRUE
  /\ Goto(r, IF lock' = Snapshot THEN "done" ELSE "failed")
  /\ UNCHANGED <<files, edits, todo, seen, failed, calm>>

\* runTrustLockFlow: a first lock records what is there; a lock in force is
\* never replaced, and a drift from it, or its absence, ends the run.  A lock
\* that fits its ledger is recorded in the mirror if it was not.
TakeLock(r) ==
  /\ pc[r] = "lock"
  /\ lock' = IF lock = NoLock THEN Snapshot ELSE lock
  /\ mirror' \in {TRUE, mirror \/ lock # BadLock}
  /\ Goto(r, IF lock' = Snapshot THEN "done" ELSE "failed")
  /\ UNCHANGED <<files, edits, todo, seen, failed, calm>>

\* A setup is killed; what it was writing may be left truncated.
Kill(r) ==
  /\ r \in Faulty /\ pc[r] \notin {"idle"} \cup Ended
  /\ Goto(r, "killed")
  /\ IF pc[r] = "write"
     THEN /\ hooks' \in {hooks, [hooks EXCEPT ![First(todo[r])] = Broken]}
          /\ IF hooks' = hooks THEN UNCHANGED calm ELSE Disturb(r)
     ELSE UNCHANGED <<hooks, calm>>
  /\ UNCHANGED <<policy, tools, trust, edits, todo, seen, failed>>

Setup(r) ==
  \/ Begin(r) \/ Config(r) \/ ChooseClients(r) \/ ReadHooks(r) \/ WriteHooks(r)
  \/ TakeLock(r) \/ Kill(r)
-----------------------------------------------------------------------------
(* Everybody else *)

\* What is left of a lock that is removed: where the mirror is, findTrustContext
\* reports the removal; where it is not, the project counts as not locked.
Gone == IF mirror THEN BadLock ELSE NoLock

\* Somebody edits a file with something other than a guarded shell; the lock
\* is edited or removed.
Edit ==
  /\ edits < MaxEdits /\ edits' = edits + 1
  /\ \/ /\ \E c \in Clients, f \in {Absent, Broken} \cup [guard : {0, 1}, others : SUBSET Hooks] :
             f # hooks[c] /\ hooks' = [hooks EXCEPT ![c] = f]
        /\ UNCHANGED <<policy, tools, lock>>
     \/ policy' \in {"absent", "custom"} \ {policy} /\ UNCHANGED <<hooks, tools, lock>>
     \/ tools' \in Tools \ {tools} /\ UNCHANGED <<hooks, policy, lock>>
     \/ lock # NoLock /\ lock' \in {BadLock, Gone} \ {lock} /\ UNCHANGED files
  /\ calm' = [r \in Setups |-> calm[r] /\ pc[r] = "idle"]
  /\ UNCHANGED <<mirror, run>>

\* trust approve, by a human at a terminal.
Approve ==
  /\ edits < MaxEdits /\ edits' = edits + 1
  /\ lock \notin {NoLock, Snapshot}
  /\ lock' = Snapshot /\ mirror' = TRUE
  /\ UNCHANGED <<files, run, calm>>

\* trust unlock, by a human at a terminal.
Unlock ==
  /\ edits < MaxEdits /\ edits' = edits + 1
  /\ lock # NoLock
  /\ lock' = NoLock /\ mirror' = FALSE
  /\ UNCHANGED <<files, run, calm>>

Human == Approve \/ Unlock

Next == (\E r \in Setups : Setup(r)) \/ Edit \/ Human

Spec == Init /\ [][Next]_vars
-----------------------------------------------------------------------------
(* Properties *)

\* No hook file ever registers the guard twice, however setups overlap and
\* are repeated.
GuardedOnce == \A c \in Clients : hooks[c] \notin {Absent, Broken} => hooks[c].guard <= 1

\* When an init that was left alone has ended well, every client it was asked
\* for is guarded, and the lock covers the hook files as they are.
InitProtects ==
  \A r \in Inits \cap Locking :
    pc[r] = "done" /\ calm[r] =>
      /\ r \in Guarding => \A c \in Asked[r] : Guards(hooks[c])
      /\ lock # NoLock => lock = Snapshot

\* Once this machine has recorded the lock, only a human puts another baseline
\* in force or takes the project out of force: neither a setup nor a command
\* does, whatever either does to the lock first.  A lock that is removed, and an
\* init after it, bless nothing.
LockHolds == [][mirror => (lock' \in {lock, BadLock} /\ mirror') \/ Human]_vars
=============================================================================
