-------------------------- MODULE GuardSetup_proofs --------------------------
(***************************************************************************)
(* Proofs about the steps of GuardSetup, for any clients, hooks and runs   *)
(* of guard install and init, any of which may be killed.                  *)
(***************************************************************************)
EXTENDS GuardSetup, TLAPS

\* What a setup that was left alone has done so far: it guards every client it
\* was asked for and is done with, and a lock it has taken is the snapshot.
Protects(r) ==
  /\ pc[r] \in {"read", "write", "lock"} =>
       failed[r] \/ \A c \in Asked[r] \ todo[r] : Guards(hooks[c])
  /\ pc[r] = "done" /\ r \in Locking =>
       /\ \A c \in Asked[r] : Guards(hooks[c])
       /\ lock # NoLock => lock = Snapshot

RunInv(r) ==
  /\ pc[r] \in {"idle", "config", "clients"} => ~failed[r]
  /\ pc[r] \in {"read", "write"} => r \in Guarding /\ todo[r] # {}
  /\ pc[r] = "write" => seen[r] # Broken
  /\ pc[r] = "lock" => ~failed[r] /\ todo[r] = {}
  /\ pc[r] = "done" /\ r \in Locking /\ r \notin Guarding /\ lock # NoLock /\ calm[r] => lock = Snapshot
  /\ r \in Guarding /\ calm[r] => Protects(r)

\* Every hook file, on disk or in a setup's hands, registers the guard at most once.
AtMostOnce(f) == f \notin {Absent, Broken} => f.guard <= 1

OnceInv == /\ \A c \in Clients : AtMostOnce(hooks[c])
           /\ \A r \in Setups : AtMostOnce(seen[r])

\* Where the ledger's head is recorded, the project is locked, whatever became
\* of the lock.
MirrorInv == mirror => lock # NoLock

SetupInv == TypeOK /\ OnceInv /\ MirrorInv /\ \A r \in Setups : RunInv(r)
-----------------------------------------------------------------------------
(* Helpers *)

LEMMA MergeGuards ==
  ASSUME GuardSetupAssumption, NEW f \in HookFiles, f # Broken
  PROVE  /\ Merge(f) \in HookFiles /\ Guards(Merge(f))
         /\ AtMostOnce(f) => AtMostOnce(Merge(f))
  BY DEF GuardSetupAssumption, HookFiles, Merge, Guards, AtMostOnce

LEMMA FirstIsOne ==
  ASSUME GuardSetupAssumption, NEW C \in SUBSET Clients, C # {}
  PROVE  First(C) \in C
  BY DEF GuardSetupAssumption, First

LEMMA RequestedType ==
  ASSUME GuardSetupAssumption, NEW r \in Setups
  PROVE  Requested(r) \subseteq Clients /\ Asked[r] \subseteq Clients
         /\ (Asked[r] # {} => Requested(r) = Asked[r])
  BY DEF GuardSetupAssumption, Requested

\* A setup that does not take part in a step keeps its part of the invariant
\* if the step counts as a disturbance whenever it changes a file or spoils the lock.
LEMMA Bystander ==
  ASSUME TypeOK, NEW r \in Setups, RunInv(r),
         pc'[r] = pc[r], todo'[r] = todo[r], seen'[r] = seen[r], failed'[r] = failed[r],
         calm'[r] => calm[r],
         calm'[r] /\ pc[r] # "idle" => UNCHANGED files /\ lock' \in {lock, NoLock, Snapshot'}
  PROVE  RunInv(r)'
<1>1. CASE pc[r] = "idle"
  BY <1>1 DEF RunInv, Protects
<1>2. CASE pc[r] # "idle" /\ calm'[r]
  <2>1. calm[r] /\ UNCHANGED <<hooks, policy, tools>>
    BY <1>2 DEF files
  <2>2. Snapshot' = Snapshot
    BY <2>1 DEF Snapshot
  <2> QED BY <1>2, <2>1, <2>2 DEF RunInv, Protects, Guards
<1>3. CASE pc[r] # "idle" /\ ~calm'[r]
  BY <1>3 DEF RunInv
<1> QED BY <1>1, <1>2, <1>3
-----------------------------------------------------------------------------
(* The steps *)

\* Whoever changes files leaves the others in order.
LEMMA OthersKeep ==
  ASSUME SetupInv, NEW r \in Setups, Setup(r), NEW q \in Setups \ {r}
  PROVE  RunInv(q)'
<1> USE DEF SetupInv, TypeOK, Goto, Disturb, files
<1>1. /\ pc'[q] = pc[q] /\ todo'[q] = todo[q] /\ seen'[q] = seen[q] /\ failed'[q] = failed[q]
      /\ calm'[q] => calm[q]
  BY DEF Setup, Begin, Config, ChooseClients, ReadHooks, WriteHooks, Finish, TakeLock, Kill, trust
<1>2. calm'[q] /\ pc[q] # "idle" => UNCHANGED files /\ lock' \in {lock, NoLock, Snapshot'}
  BY DEF Setup, Begin, Config, ChooseClients, ReadHooks, WriteHooks, Finish, TakeLock, Kill, Snapshot, trust
<1> QED BY <1>1, <1>2, Bystander

LEMMA SetupStep ==
  ASSUME GuardSetupAssumption, SetupInv, NEW r \in Setups, Setup(r)
  PROVE  SetupInv'
<1> USE DEF SetupInv, TypeOK, Goto, Disturb, files, trust, run, Ended, MirrorInv
<1>1. ASSUME TypeOK', OnceInv', RunInv(r)' PROVE SetupInv'
  <2>1. MirrorInv'
    <3>1. Snapshot # NoLock /\ Snapshot' # NoLock
      BY <1>1, GuardSetupAssumption DEF Snapshot, Snapshots, GuardSetupAssumption
    <3> QED BY <3>1
        DEF Setup, Begin, Config, ChooseClients, ReadHooks, WriteHooks, Finish, TakeLock, Kill
  <2> QED BY <1>1, <2>1, OthersKeep
<1>2. CASE Begin(r)
  <2>1. TypeOK' /\ OnceInv'
    BY <1>2 DEF Begin, OnceInv
  <2>2. RunInv(r)'
    BY <1>2 DEF Begin, RunInv, Protects
  <2> QED BY <1>1, <2>1, <2>2
<1>3. CASE Config(r)
  <2>1. policy' \in Policies /\ calm' \in [Setups -> BOOLEAN]
    BY <1>3 DEF Config, Policies
  <2>2. TypeOK' /\ OnceInv'
    BY <1>3, <2>1 DEF Config, OnceInv
  <2>3. RunInv(r)'
    BY <1>3 DEF Config, RunInv, Protects
  <2> QED BY <1>1, <2>2, <2>3
<1>4. CASE ChooseClients(r)
  <2>1. TypeOK' /\ OnceInv'
    BY <1>4, RequestedType DEF ChooseClients, OnceInv, AfterGuard
  <2>2. RunInv(r)'
    BY <1>4, RequestedType DEF ChooseClients, RunInv, Protects, AfterGuard
  <2> QED BY <1>1, <2>1, <2>2
<1>5. CASE ReadHooks(r)
  <2> DEFINE c == First(todo[r])
  <2>1. c \in Clients /\ c \in todo[r] /\ hooks[c] \in HookFiles /\ r \in Guarding
    BY <1>5, FirstIsOne DEF ReadHooks, RunInv
  <2>2. CASE hooks[c] # Broken /\ Merge(hooks[c]) # hooks[c]
    <3>1. TypeOK' /\ OnceInv'
      BY <1>5, <2>1, <2>2 DEF ReadHooks, OnceInv
    <3>2. RunInv(r)'
      BY <1>5, <2>1, <2>2 DEF ReadHooks, RunInv, Protects
    <3> QED BY <1>1, <3>1, <3>2
  <2>3. CASE ~(hooks[c] # Broken /\ Merge(hooks[c]) # hooks[c])
    <3>1. Finish(r, c, hooks[c] # Broken) /\ UNCHANGED <<files, trust, edits, seen, calm>>
      BY <1>5, <2>3 DEF ReadHooks
    <3>2. hooks[c] # Broken => Guards(hooks[c])
      BY <2>1, <2>3, MergeGuards
    <3>3. TypeOK' /\ OnceInv'
      BY <2>1, <3>1 DEF Finish, OnceInv, AfterGuard
    <3>4. RunInv(r)'
      BY <1>5, <2>1, <3>1, <3>2 DEF ReadHooks, Finish, AfterGuard, RunInv, Protects
    <3> QED BY <1>1, <3>3, <3>4
  <2> QED BY <2>2, <2>3
<1>6. CASE WriteHooks(r)
  <2> DEFINE c == First(todo[r])
  <2>1. c \in Clients /\ c \in todo[r] /\ seen[r] \in HookFiles /\ seen[r] # Broken /\ r \in Guarding
    BY <1>6, FirstIsOne DEF WriteHooks, RunInv
  <2>2. Merge(seen[r]) \in HookFiles /\ Guards(Merge(seen[r])) /\ AtMostOnce(Merge(seen[r]))
    BY <2>1, MergeGuards DEF OnceInv
  <2>3. /\ Finish(r, c, TRUE)
        /\ hooks' = [hooks EXCEPT ![c] = Merge(seen[r])]
        /\ seen' = [seen EXCEPT ![r] = Absent]
        /\ calm' = [q \in Setups |-> calm[q] /\ (q = r \/ pc[q] = "idle")]
        /\ UNCHANGED <<policy, tools, lock, mirror, edits>>
    BY <1>6 DEF WriteHooks
  <2>4. TypeOK'
    BY <2>1, <2>2, <2>3 DEF Finish, AfterGuard, HookFiles
  <2>5. OnceInv'
    BY <2>1, <2>2, <2>3 DEF OnceInv, AtMostOnce
  <2>6. \A d \in Clients : Guards(hooks[d]) => Guards(hooks'[d])
    BY <2>1, <2>2, <2>3
  <2>7. Guards(hooks'[c])
    BY <2>1, <2>2, <2>3
  <2>8. Asked[r] \subseteq Clients
    BY RequestedType
  <2>9. RunInv(r)'
    BY <1>6, <2>1, <2>3, <2>6, <2>7, <2>8 DEF WriteHooks, Finish, AfterGuard, RunInv, Protects
  <2> QED BY <1>1, <2>4, <2>5, <2>9
<1>7. CASE TakeLock(r)
  <2>1. Snapshot \in Snapshots
    BY DEF Snapshot, Snapshots
  <2>2. TypeOK' /\ OnceInv'
    BY <1>7, <2>1 DEF TakeLock, OnceInv
  <2>3. RunInv(r)'
    BY <1>7 DEF TakeLock, RunInv, Protects, Snapshot, Guards
  <2> QED BY <1>1, <2>2, <2>3
<1>8. CASE Kill(r)
  <2>1. \A d \in Clients : hooks'[d] \in {hooks[d], Broken}
    BY <1>8 DEF Kill
  <2>2. hooks' \in [Clients -> HookFiles]
    BY <1>8 DEF Kill, HookFiles
  <2>3. calm' \in [Setups -> BOOLEAN]
    BY <1>8 DEF Kill
  <2>4. TypeOK'
    BY <1>8, <2>2, <2>3 DEF Kill
  <2>5. OnceInv'
    BY <1>8, <2>1 DEF Kill, OnceInv, AtMostOnce
  <2>6. RunInv(r)'
    BY <1>8 DEF Kill, RunInv, Protects
  <2> QED BY <1>1, <2>4, <2>5, <2>6
<1> QED BY <1>2, <1>3, <1>4, <1>5, <1>6, <1>7, <1>8 DEF Setup

LEMMA EditStep ==
  ASSUME GuardSetupAssumption, SetupInv, Edit
  PROVE  SetupInv'
<1> USE DEF SetupInv, TypeOK, files, run
<1>1. /\ hooks' \in [Clients -> HookFiles]
      /\ \A c \in Clients : hooks'[c] = hooks[c] \/ AtMostOnce(hooks'[c])
  BY DEF Edit, HookFiles, AtMostOnce
<1>2. TypeOK' /\ MirrorInv'
  <2>1. policy' \in Policies /\ tools' \in Tools
    BY DEF Edit, Policies
  <2>2. lock' \in Snapshots \cup {NoLock, BadLock} /\ (mirror => lock' # NoLock)
    BY DEF Edit, Gone, MirrorInv, GuardSetupAssumption
  <2>3. mirror' = mirror
    BY DEF Edit
  <2>4. edits' \in Nat /\ calm' \in [Setups -> BOOLEAN] /\ UNCHANGED <<pc, todo, seen, failed>>
    BY DEF Edit
  <2> QED BY <1>1, <2>1, <2>2, <2>3, <2>4 DEF MirrorInv
<1>3. OnceInv'
  BY <1>1 DEF Edit, OnceInv, AtMostOnce
<1>4. \A r \in Setups : RunInv(r)'
  BY Bystander DEF Edit
<1> QED BY <1>2, <1>3, <1>4

LEMMA HumanStep ==
  ASSUME GuardSetupAssumption, SetupInv, Human
  PROVE  SetupInv'
<1> USE DEF SetupInv, TypeOK, files, run
<1>1. Snapshot \in Snapshots /\ Snapshot' = Snapshot
  BY DEF Human, Approve, Unlock, Snapshot, Snapshots
<1>2. /\ UNCHANGED <<hooks, policy, tools, pc, todo, seen, failed, calm>> /\ edits' \in Nat
      /\ (lock' = Snapshot /\ mirror' = TRUE) \/ (lock' = NoLock /\ mirror' = FALSE)
  <2>1. CASE Approve
    BY <2>1 DEF Approve
  <2>2. CASE Unlock
    BY <2>2 DEF Unlock
  <2> QED BY <2>1, <2>2 DEF Human
<1>3. Snapshot # NoLock
  BY <1>1 DEF GuardSetupAssumption
<1>4. TypeOK'
  BY <1>1, <1>2
<1>5. OnceInv' /\ MirrorInv'
  BY <1>2, <1>3 DEF OnceInv, MirrorInv
<1>6. \A r \in Setups : RunInv(r)'
  BY <1>1, <1>2, Bystander
<1> QED BY <1>4, <1>5, <1>6

LEMMA SetupInvInit == GuardSetupAssumption /\ Init => SetupInv
<1> SUFFICES ASSUME GuardSetupAssumption, Init PROVE SetupInv
  OBVIOUS
<1>1. hooks \in [Clients -> HookFiles] /\ \A c \in Clients : AtMostOnce(hooks[c])
  BY DEF Init, HookFiles, AtMostOnce
<1>2. TypeOK
  <2>1. lock \in Snapshots \cup {NoLock, BadLock} /\ policy \in Policies /\ tools \in Tools
    BY <1>1 DEF Init, Snapshot, Snapshots, Policies, Tools
  <2> QED BY <1>1, <2>1 DEF Init, TypeOK, HookFiles, Ended
<1>3. OnceInv
  BY <1>1 DEF Init, OnceInv, AtMostOnce
<1>4. \A r \in Setups : RunInv(r)
  BY DEF Init, RunInv, Protects
<1> QED BY <1>2, <1>3, <1>4 DEF SetupInv, MirrorInv, Init

LEMMA SetupInvStep ==
  ASSUME GuardSetupAssumption, SetupInv, Next
  PROVE  SetupInv'
  BY SetupStep, EditStep, HumanStep DEF Next

LEMMA SetupInvProtects ==
  ASSUME GuardSetupAssumption, SetupInv
  PROVE  GuardedOnce /\ InitProtects
<1>1. GuardedOnce
  BY DEF SetupInv, OnceInv, AtMostOnce, GuardedOnce
<1>2. InitProtects
  BY DEF SetupInv, RunInv, Protects, InitProtects, GuardSetupAssumption
<1> QED BY <1>1, <1>2

\* No setup and no edit puts another baseline in force where the ledger's head
\* is recorded.
LEMMA SetupsHoldLock ==
  ASSUME MirrorInv, [Next]_vars, mirror
  PROVE  (lock' \in {lock, BadLock} /\ mirror') \/ Human
<1>1. ASSUME NEW r \in Setups, Setup(r) PROVE lock' = lock /\ mirror'
  BY <1>1 DEF Setup, Begin, Config, ChooseClients, ReadHooks, WriteHooks, Finish, TakeLock, Kill, trust,
              MirrorInv
<1>2. CASE Edit
  BY <1>2 DEF Edit, Gone
<1>3. CASE UNCHANGED vars
  BY <1>3 DEF vars, trust
<1> QED BY <1>1, <1>2, <1>3 DEF Next
=============================================================================
