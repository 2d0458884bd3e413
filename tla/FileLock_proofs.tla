-------------------------- MODULE FileLock_proofs --------------------------
(***************************************************************************)
(* Proofs about FileLock, for any set of calls and any time limits.  The   *)
(* lock is exclusive as long as no call has died and no action outlasts    *)
(* StaleMs: nobody then ever sees a stale lock, so nobody steals.  And the *)
(* ticks a call has waited never exceed what the calls that have created   *)
(* the file before it can have cost, whoever of them died.                 *)
(***************************************************************************)
EXTENDS FileLock, FiniteSetTheorems, TLAPS

\* The staleness limit is longer than any action takes.
Punctual == Slow = {} /\ HoldMax <= StaleMs

\* No call has died or left its file behind.
FaultFree == \A c \in Calls : pc[c] \notin {"crashed", "failed"}

\* The lock file is the file of the one call that holds the lock.
HolderOwnsFile ==
  \A c \in Calls : pc[c] \in Holding => Exists /\ lockFile.creator = c

\* The lock file has a live holder and is not older than its action may be.
FileIsFresh ==
  Exists => /\ pc[lockFile.creator] \in Holding
            /\ now - lockFile.mtime <= HoldMax

\* Nobody is about to move the lock file away.
NobodySteals == \A c \in Calls : pc[c] \notin {"steal", "discard"}

\* A holder is identified by the token in the file.
TokenWritten ==
  \A c \in Calls : pc[c] \in Holding \ {"write"} => lockFile.token = c

IInv == FaultFree => HolderOwnsFile /\ FileIsFresh /\ NobodySteals /\ TokenWritten

\* The lock is exclusive until the first fault.
ExclusiveUntilFault == FaultFree => MutualExclusion
-----------------------------------------------------------------------------
LEMMA NoFileIsNoFile == NoFile \notin Files
  BY FileLockAssumption DEF NoFile, Files

\* The variables keep their types: every step of every call and of the clock.
THEOREM TypeCorrect == Spec => []TypeOK
<1> USE FileLockAssumption
<1>1. Init => TypeOK
  BY DEF Init, TypeOK
<1>2. TypeOK /\ [Next]_vars => TypeOK'
  <2> SUFFICES ASSUME TypeOK, [Next]_vars PROVE TypeOK'
    OBVIOUS
  <2> USE DEF TypeOK, Goto, Files, NoToken, Polling, Holding, Terminal
  <2>1. ASSUME NEW c \in Calls, Step(c) PROVE TypeOK'
    <3>1. CASE Start(c)      BY <3>1 DEF Start
    <3>2. CASE Create(c)     BY <3>2 DEF Create
    <3>3. CASE WriteToken(c)
      <4>1. lockFile' \in Files \cup {NoFile}
        BY <3>3 DEF WriteToken, Exists
      <4> QED BY <4>1, <3>3 DEF WriteToken
    <3>4. CASE WriteFails(c) BY <3>4 DEF WriteFails
    <3>5. CASE Stat(c)       BY <3>5 DEF Stat
    <3>6. CASE Steal(c)      BY <3>6 DEF Steal
    <3>7. CASE Discard(c)    BY <3>7 DEF Discard
    <3>8. CASE Wake(c)       BY <3>8 DEF Wake
    <3>9. CASE Return(c)     BY <3>9 DEF Return
    <3>10. CASE ReadBack(c)  BY <3>10 DEF ReadBack
    <3>11. CASE Remove(c)    BY <3>11 DEF Remove
    <3>12. CASE Crash(c)     BY <3>12 DEF Crash
    <3> QED BY <2>1, <3>1, <3>2, <3>3, <3>4, <3>5, <3>6, <3>7, <3>8, <3>9,
               <3>10, <3>11, <3>12 DEF Step, Proceed
  <2>2. CASE Tick
    BY <2>2 DEF Tick
  <2>3. CASE UNCHANGED vars
    BY <2>3 DEF vars
  <2> QED BY <2>1, <2>2, <2>3 DEF Next, Finished
<1> QED BY <1>1, <1>2, PTL DEF Spec
-----------------------------------------------------------------------------
\* A fault is for ever: a call that has died takes no further step.
LEMMA FaultsStay ==
  ASSUME TypeOK, [Next]_vars, FaultFree'
  PROVE  FaultFree
<1> SUFFICES ASSUME NEW c \in Calls, pc[c] \in {"crashed", "failed"}
             PROVE  pc'[c] = pc[c]
  BY DEF FaultFree
<1>1. ASSUME NEW d \in Calls, Step(d) PROVE pc'[c] = pc[c]
  BY <1>1 DEF Step, Proceed, Start, Create, WriteToken, WriteFails, Stat,
     Steal, Discard, Wake, Return, ReadBack, Remove, Crash, Goto, TypeOK,
     Polling, Holding
<1>2. CASE Tick
  BY <1>2 DEF Tick, TypeOK
<1>3. CASE UNCHANGED vars
  BY <1>3 DEF vars
<1> QED BY <1>1, <1>2, <1>3 DEF Next, Finished

\* The inductive step, for punctual actions.
LEMMA StepKeepsIInv ==
  ASSUME Punctual, TypeOK, IInv, [Next]_vars
  PROVE  IInv'
<1> USE FileLockAssumption, NoFileIsNoFile
<1> SUFFICES ASSUME FaultFree'
             PROVE  (HolderOwnsFile /\ FileIsFresh /\ NobodySteals /\ TokenWritten)'
  BY DEF IInv
<1>a. FaultFree /\ HolderOwnsFile /\ FileIsFresh /\ NobodySteals /\ TokenWritten
  BY FaultsStay DEF IInv
<1> USE <1>a DEF TypeOK, HolderOwnsFile, FileIsFresh, NobodySteals, TokenWritten,
                 Exists, Goto, Holding, Polling, Terminal
<1>1. ASSUME NEW c \in Calls, Step(c)
      PROVE  (HolderOwnsFile /\ FileIsFresh /\ NobodySteals /\ TokenWritten)'
  <2>1. CASE Start(c)      BY <2>1 DEF Start
  <2>2. CASE Create(c)
    <3>1. CASE Exists
      <4>1. lockFile \in Files /\ lockFile.creator \in Calls
        BY <3>1 DEF Files
      <4>2. \A d \in Calls : d # c => pc'[d] = pc[d]
        BY <2>2 DEF Create
      <4>3. lockFile' = lockFile /\ now' = now /\ pc'[c] = "stat"
        BY <2>2, <3>1 DEF Create
      <4>4. lockFile.creator # c
        BY <2>2, <3>1 DEF Create
      <4> QED BY <3>1, <4>1, <4>2, <4>3, <4>4
    <3>2. CASE ~Exists
      <4>1. lockFile' = [creator |-> c, token |-> NoToken, mtime |-> now]
        BY <2>2, <3>2 DEF Create
      <4>2. lockFile' # NoFile
        BY <4>1 DEF NoFile
      <4> QED BY <2>2, <3>2, <4>1, <4>2 DEF Create
    <3> QED BY <3>1, <3>2
  <2>3. CASE WriteToken(c)
    <3>1. Exists /\ lockFile.creator = c /\ lockFile \in Files
      BY <2>3 DEF WriteToken
    <3>2. lockFile' = [creator |-> c, token |-> c, mtime |-> now]
      BY <2>3, <3>1 DEF WriteToken, Files
    <3>3. lockFile' # NoFile
      BY <3>2 DEF NoFile
    <3> QED BY <2>3, <3>1, <3>2, <3>3 DEF WriteToken
  <2>4. CASE WriteFails(c)
    BY <2>4 DEF WriteFails, FaultFree
  <2>5. CASE Stat(c)
    <3>1. ~(Exists /\ IsStale)
      BY DEF IsStale, Punctual, Files
    <3>2. pc' = [pc EXCEPT ![c] = pc'[c]]
          /\ pc'[c] \in {"create", "timedOut", "asleep"} /\ pc[c] = "stat"
      BY <2>5, <3>1 DEF Stat
    <3>3. lockFile' = lockFile /\ now' = now
      BY <2>5 DEF Stat
    <3>4. Exists => lockFile.creator \in Calls /\ lockFile.creator # c
      BY <2>5 DEF Stat, Files
    <3> QED BY <3>2, <3>3, <3>4
  <2>6. CASE Steal(c)      BY <2>6 DEF Steal
  <2>7. CASE Discard(c)    BY <2>7 DEF Discard
  <2>8. CASE Wake(c)       BY <2>8 DEF Wake
  <2>9. CASE Return(c)     BY <2>9 DEF Return
  <2>10. CASE ReadBack(c)
    <3>1. OwnsFile(c)
      BY <2>10 DEF ReadBack, OwnsFile
    <3> QED BY <2>10, <3>1 DEF ReadBack
  <2>11. CASE Remove(c)    BY <2>11 DEF Remove
  <2>12. CASE Crash(c)
    BY <2>12 DEF Crash, FaultFree
  <2> QED BY <1>1, <2>1, <2>2, <2>3, <2>4, <2>5, <2>6, <2>7, <2>8, <2>9,
             <2>10, <2>11, <2>12 DEF Step, Proceed
<1>2. CASE Tick
  <2>1. Exists => now - lockFile.mtime < HoldMax
    BY <1>2 DEF Tick, MayOutlast, Punctual, Files
  <2>2. \A c \in Calls : pc[c] \in Holding => pc'[c] = pc[c]
    BY <1>2 DEF Tick
  <2>3. Exists' => now' - lockFile'.mtime <= HoldMax
    BY <1>2, <2>1 DEF Tick, Files
  <2>4. \A c \in Calls : pc'[c] # pc[c] => pc'[c] = "create"
    BY <1>2 DEF Tick
  <2>5. lockFile' = lockFile /\ (Exists => lockFile.creator \in Calls)
    BY <1>2 DEF Tick, Files
  <2>6. FileIsFresh'
    BY <2>2, <2>3, <2>5
  <2>7. (HolderOwnsFile /\ NobodySteals /\ TokenWritten)'
    BY <2>2, <2>4, <2>5
  <2>8. QED BY <2>6, <2>7
<1>3. CASE UNCHANGED vars
  BY <1>3 DEF vars, FaultFree
<1> QED BY <1>1, <1>2, <1>3 DEF Next, Finished

LEMMA InitIInv == Init => IInv
  BY DEF Init, IInv, HolderOwnsFile, FileIsFresh, NobodySteals, TokenWritten,
         Exists, Holding

LEMMA Invariance == ASSUME Punctual PROVE Spec => []IInv
<1>1. TypeOK /\ IInv /\ [Next]_vars => IInv'
  BY StepKeepsIInv
<1> QED BY <1>1, InitIInv, TypeCorrect, PTL DEF Spec
-----------------------------------------------------------------------------
\* Whatever may fail, the lock is exclusive until a call has died or failed.
THEOREM ExclusionUntilFault ==
  ASSUME Punctual
  PROVE  Spec => []ExclusiveUntilFault
<1>1. IInv => ExclusiveUntilFault
  BY DEF IInv, ExclusiveUntilFault, MutualExclusion, HolderOwnsFile, Holding
<1> QED BY <1>1, Invariance, PTL

LEMMA NoFaults ==
  ASSUME Faulty = {}
  PROVE  Spec => []FaultFree
<1>1. Init => FaultFree
  BY DEF Init, FaultFree
<1>2. TypeOK /\ FaultFree /\ [Next]_vars => FaultFree'
  <2> SUFFICES ASSUME TypeOK, FaultFree, [Next]_vars PROVE FaultFree'
    OBVIOUS
  <2> USE DEF FaultFree, TypeOK
  <2>1. ASSUME NEW c \in Calls, Step(c) PROVE FaultFree'
    BY <2>1 DEF Step, Proceed, Start, Create, WriteToken, WriteFails, Stat,
       Steal, Discard, Wake, Return, ReadBack, Remove, Crash, Goto
  <2>2. CASE Tick            BY <2>2 DEF Tick
  <2>3. CASE UNCHANGED vars  BY <2>3 DEF vars
  <2> QED BY <2>1, <2>2, <2>3 DEF Next, Finished
<1> QED BY <1>1, <1>2, TypeCorrect, PTL DEF Spec

\* With live and punctual calls, two actions never overlap.
THEOREM Exclusion ==
  ASSUME Punctual, Faulty = {}
  PROVE  Spec => []MutualExclusion
<1>1. FaultFree /\ ExclusiveUntilFault => MutualExclusion
  BY DEF ExclusiveUntilFault
<1> QED BY <1>1, ExclusionUntilFault, NoFaults, PTL

\* With live and punctual calls, a release removes the caller's own file.
THEOREM ReleasesOwn ==
  ASSUME Punctual, Faulty = {}
  PROVE  Spec => ReleaseOnlyOwn
<1>1. IInv /\ FaultFree /\ [Next]_vars
        => [\A c \in Calls : Remove(c) => ~Exists \/ lockFile.creator = c]_vars
  BY DEF IInv, HolderOwnsFile, Holding, Remove
<1> QED BY <1>1, Invariance, NoFaults, PTL DEF Spec, ReleaseOnlyOwn

\* With live and punctual calls, the file lock implements the abstract lock:
\* writing the token acquires it, the end of the action releases it.
THEOREM Refinement ==
  ASSUME Punctual, Faulty = {}
  PROVE  Spec => ImplementsMutex
<1> USE DEF Running, TypeOK
<1>1. Init => Abstract!Init
  BY DEF Init, Abstract!Init
<1>2. TypeOK /\ IInv /\ FaultFree /\ FaultFree' /\ [Next]_vars
        => [Abstract!Next]_Running
  <2> SUFFICES ASSUME TypeOK, IInv, FaultFree, FaultFree', [Next]_vars
               PROVE  [Abstract!Next]_Running
    OBVIOUS
  <2>1. ASSUME NEW c \in Calls, Step(c) PROVE [Abstract!Next]_Running
    <3>1. CASE WriteToken(c)
      <4>1. Running = {}
        BY <3>1 DEF WriteToken, IInv, HolderOwnsFile, Holding
      <4>2. Running' = {c}
        BY <3>1, <4>1 DEF WriteToken, Goto
      <4> QED BY <4>1, <4>2 DEF Abstract!Next, Abstract!Acquire
    <3>2. CASE Return(c)
      <4>1. c \in Running /\ Running' = Running \ {c}
        BY <3>2 DEF Return, Goto
      <4> QED BY <4>1 DEF Abstract!Next, Abstract!Release
    <3>3. CASE Start(c) \/ Create(c) \/ Stat(c) \/ Steal(c) \/ Discard(c)
               \/ Wake(c) \/ ReadBack(c) \/ Remove(c)
      <4>1. Running' = Running
        BY <3>3 DEF Start, Create, Stat, Steal, Discard, Wake, ReadBack,
                    Remove, Goto
      <4> QED BY <4>1
    <3>4. CASE WriteFails(c) \/ Crash(c)
      BY <3>4 DEF WriteFails, Crash, Goto, FaultFree
    <3> QED BY <2>1, <3>1, <3>2, <3>3, <3>4 DEF Step, Proceed
  <2>2. CASE Tick
    BY <2>2 DEF Tick
  <2>3. CASE UNCHANGED vars
    BY <2>3 DEF vars
  <2> QED BY <2>1, <2>2, <2>3 DEF Next, Finished
<1> QED BY <1>1, <1>2, Invariance, NoFaults, TypeCorrect, PTL
        DEF Spec, ImplementsMutex, Abstract!Spec
-----------------------------------------------------------------------------
(* No lock leaks, whatever fails and however long anything takes.          *)

Dead == {"crashed", "failed"}

\* The file at the lock path belongs to a holder, or to a holder that died: a
\* file that was moved or removed never comes back.
FileHasHolder == Exists => pc[lockFile.creator] \in Holding \cup Dead

\* A holder that reads its own file back finds its token there.
OwnTokenThere ==
  Exists /\ pc[lockFile.creator] \in Holding \ {"write"}
    => lockFile.token = lockFile.creator

LInv == FileHasHolder /\ OwnTokenThere

LEMMA LInvStep ==
  ASSUME TypeOK, LInv, [Next]_vars
  PROVE  LInv'
<1> USE FileLockAssumption, NoFileIsNoFile
<1> USE DEF TypeOK, LInv, FileHasHolder, OwnTokenThere, Exists, Goto, Holding, Polling,
            Dead, Files
<1>1. ASSUME NEW c \in Calls, Step(c) PROVE LInv'
  <2>1. CASE Start(c)        BY <2>1 DEF Start
  <2>2. CASE Create(c)       BY <2>2 DEF Create
  <2>3. CASE WriteToken(c)   BY <2>3 DEF WriteToken
  <2>4. CASE WriteFails(c)   BY <2>4 DEF WriteFails
  <2>5. CASE Stat(c)         BY <2>5 DEF Stat
  <2>6. CASE Steal(c)        BY <2>6 DEF Steal
  <2>7. CASE Discard(c)      BY <2>7 DEF Discard
  <2>8. CASE Wake(c)         BY <2>8 DEF Wake
  <2>9. CASE Return(c)       BY <2>9 DEF Return
  <2>10. CASE ReadBack(c)    BY <2>10 DEF ReadBack, OwnsFile
  <2>11. CASE Remove(c)      BY <2>11 DEF Remove
  <2>12. CASE Crash(c)       BY <2>12 DEF Crash
  <2> QED BY <1>1, <2>1, <2>2, <2>3, <2>4, <2>5, <2>6, <2>7, <2>8, <2>9,
             <2>10, <2>11, <2>12 DEF Step, Proceed
<1>2. CASE Tick            BY <1>2 DEF Tick
<1>3. CASE UNCHANGED vars  BY <1>3 DEF vars
<1> QED BY <1>1, <1>2, <1>3 DEF Next, Finished

\* A lock file that is left when all calls have ended is that of a call that
\* died or failed: whoever steals, overruns the limits or dies, with no
\* assumption on the time limits at all.
THEOREM LeavesNoLock == Spec => []NoLeak
<1>1. Init => LInv
  BY DEF Init, LInv, FileHasHolder, OwnTokenThere, Exists
<1>2. TypeOK /\ LInv /\ [Next]_vars => LInv'
  BY LInvStep
<1>3. TypeOK /\ LInv => NoLeak
  BY DEF TypeOK, LInv, FileHasHolder, NoLeak, Exists, Files, Holding, Dead, Terminal
<1> QED BY <1>1, <1>2, <1>3, TypeCorrect, PTL DEF Spec
-----------------------------------------------------------------------------
(* How many deaths and holders the waiters can outwait.                    *)

\* The ticks in which these calls can block another: one, or until the file of
\* a call that may die is stale.
Cost(S) == Cardinality(S \ Faulty) + (StaleMs + 1) * Cardinality(S \cap Faulty)

\* Nobody holds the lock for a tick, a polling round takes less than one, and
\* the wait is long enough for every call to hold it in a tick of its own and
\* for the file of each that dies to become stale.
Patient ==
  /\ Slow = {} /\ HoldMax = 0 /\ PromptPolls
  /\ IsFiniteSet(Calls)
  /\ Cost(Calls) <= WaitMs + 2

\* The calls that will never create a lock file again.
Past == {c \in Calls : pc[c] \in Holding \cup {"done"} \cup Dead}

\* The ticks for which the lock file of a dead call has yet to block the others.
Remaining ==
  IF Exists /\ lockFile.creator \in Faulty /\ now - lockFile.mtime < StaleMs
  THEN StaleMs - (now - lockFile.mtime) ELSE 0

\* The ticks in which the calls so far can have blocked the others.
Spent == Cost(Past) - Remaining

\* This call is kept from creating the lock file in this tick.
Blocked(c) == pc[c] = "asleep" \/ (Exists /\ ~IsStale)

\* The ticks since a call began to wait are among those.
Accounted(c) ==
  pc[c] \in Polling \cup {"asleep"} =>
    now + WaitMs - waitUntil[c] + (IF Blocked(c) THEN 1 ELSE 0) <= Spent

\* A dead call was a faulty one.
DeadAreFaulty == \A c \in Calls : pc[c] \in Dead => c \in Faulty

\* Nobody holds its lock file for a tick.
HeldWithinTick ==
  \A c \in Calls : Exists /\ lockFile.creator = c /\ pc[c] \in Holding => lockFile.mtime = now

FileIsPast == Exists => lockFile.mtime <= now

\* Nobody sleeps on a stale file: it was there, and stale, all the tick.
NobodySleepsOnStale == Exists /\ IsStale => \A c \in Calls : pc[c] # "asleep"

QInv == /\ DeadAreFaulty /\ HeldWithinTick /\ FileIsPast /\ NobodySleepsOnStale
        /\ (\A c \in Calls : Accounted(c)) /\ OneCrashDelaysNobody

LEMMA Multiples ==
  ASSUME NEW m \in Nat, NEW k \in Nat
  PROVE  /\ m * k \in Nat /\ m * (k + 1) = m * k + m
         /\ \A j \in Nat : j <= k => m * j <= m * k
<1>1. m * k \in Nat /\ m * (k + 1) = m * k + m
  BY Z3
<1>2. ASSUME NEW j \in Nat, j <= k PROVE m * j <= m * k
  <2>1. PICK d \in Nat : k = j + d
    <3>1. k - j \in Nat /\ k = j + (k - j)
      BY <1>2
    <3> QED BY <3>1
  <2>2. m * d \in Nat /\ m * j \in Nat /\ m * k = m * j + m * d
    BY <2>1
  <2> QED BY <2>2
<1> QED BY <1>1, <1>2

LEMMA CostAdds ==
  ASSUME Patient, NEW S \in SUBSET Calls, NEW c \in Calls \ S
  PROVE  /\ Cost(S) \in Nat
         /\ Cost(S \cup {c}) = Cost(S) + IF c \in Faulty THEN StaleMs + 1 ELSE 1
<1>1. StaleMs + 1 \in Nat
  BY FileLockAssumption
<1>2. IsFiniteSet(S \ Faulty) /\ IsFiniteSet(S \cap Faulty)
  BY FS_Subset DEF Patient
<1>3. Cardinality(S \ Faulty) \in Nat /\ Cardinality(S \cap Faulty) \in Nat
  BY <1>2, FS_CardinalityType
<1> DEFINE n == Cardinality(S \ Faulty)
           k == Cardinality(S \cap Faulty)
           m == StaleMs + 1
<1>4. CASE c \in Faulty
  <2>1. (S \cup {c}) \ Faulty = S \ Faulty /\ (S \cup {c}) \cap Faulty = (S \cap Faulty) \cup {c}
    BY <1>4
  <2>2. Cardinality((S \cap Faulty) \cup {c}) = Cardinality(S \cap Faulty) + 1
    BY <1>2, FS_AddElement
  <2>3. Cost(S) = n + m * k /\ Cost(S \cup {c}) = n + m * (k + 1)
    BY <2>1, <2>2 DEF Cost
  <2>4. n \in Nat /\ k \in Nat /\ m \in Nat
    BY <1>1, <1>3
  <2> HIDE DEF n, k, m
  <2>5. m * k \in Nat /\ m * (k + 1) = m * k + m
    BY <2>4, Multiples
  <2>6. Cost(S) \in Nat /\ Cost(S \cup {c}) = Cost(S) + m
    BY <2>3, <2>4, <2>5
  <2> QED BY <1>4, <2>6 DEF m
<1>5. CASE c \notin Faulty
  <2>1. (S \cup {c}) \ Faulty = (S \ Faulty) \cup {c} /\ (S \cup {c}) \cap Faulty = S \cap Faulty
    BY <1>5
  <2>2. Cardinality((S \ Faulty) \cup {c}) = Cardinality(S \ Faulty) + 1
    BY <1>2, FS_AddElement
  <2>3. Cost(S) = n + m * k /\ Cost(S \cup {c}) = (n + 1) + m * k
    BY <2>1, <2>2 DEF Cost
  <2>4. n \in Nat /\ m * k \in Nat
    BY <1>1, <1>3, Multiples
  <2> HIDE DEF n, k, m
  <2> QED BY <1>5, <2>3, <2>4
<1> QED BY <1>4, <1>5

LEMMA CostGrows ==
  ASSUME Patient, NEW T \in SUBSET Calls, NEW S \in SUBSET T
  PROVE  Cost(S) \in Nat /\ Cost(T) \in Nat /\ Cost(S) <= Cost(T)
<1>1. StaleMs + 1 \in Nat
  BY FileLockAssumption
<1>2. /\ IsFiniteSet(T \ Faulty) /\ IsFiniteSet(T \cap Faulty)
      /\ IsFiniteSet(S \ Faulty) /\ IsFiniteSet(S \cap Faulty)
  BY FS_Subset DEF Patient
<1>3. /\ Cardinality(S \ Faulty) \in Nat /\ Cardinality(S \cap Faulty) \in Nat
      /\ Cardinality(T \ Faulty) \in Nat /\ Cardinality(T \cap Faulty) \in Nat
  BY <1>2, FS_CardinalityType
<1>4. Cardinality(S \ Faulty) <= Cardinality(T \ Faulty)
  <2>1. S \ Faulty \in SUBSET (T \ Faulty)
    OBVIOUS
  <2> QED BY <1>2, <2>1, FS_Subset
<1>5. Cardinality(S \cap Faulty) <= Cardinality(T \cap Faulty)
  <2>1. S \cap Faulty \in SUBSET (T \cap Faulty)
    OBVIOUS
  <2> QED BY <1>2, <2>1, FS_Subset
<1>6. /\ (StaleMs + 1) * Cardinality(S \cap Faulty) \in Nat
      /\ (StaleMs + 1) * Cardinality(T \cap Faulty) \in Nat
      /\ (StaleMs + 1) * Cardinality(S \cap Faulty) <= (StaleMs + 1) * Cardinality(T \cap Faulty)
  BY <1>1, <1>3, <1>5, Multiples
<1> QED BY <1>3, <1>4, <1>6 DEF Cost

\* A call that has not created a file leaves room for its own tick.
LEMMA CostBound ==
  ASSUME Patient, NEW c \in Calls, NEW S \in SUBSET (Calls \ {c})
  PROVE  Cost(S) <= WaitMs + 1
<1>1. Cost(S) \in Nat /\ Cost(Calls \ {c}) \in Nat /\ Cost(S) <= Cost(Calls \ {c})
  BY CostGrows
<1>2. Cost(Calls) = Cost(Calls \ {c}) + IF c \in Faulty THEN StaleMs + 1 ELSE 1
  <2>1. (Calls \ {c}) \cup {c} = Calls /\ c \in Calls \ (Calls \ {c})
    OBVIOUS
  <2> QED BY <2>1, CostAdds
<1> QED BY <1>1, <1>2, FileLockAssumption DEF Patient

LEMMA SpentType ==
  ASSUME Patient, TypeOK, FileIsPast
  PROVE  /\ Remaining \in 0..StaleMs /\ Cost(Past) \in Nat /\ Past \in SUBSET Calls
         /\ Spent \in Int /\ Spent <= Cost(Past)
<1>1. Past \in SUBSET Calls
  BY DEF Past
<1>2. Cost(Past) \in Nat
  BY <1>1, CostGrows
<1>3. Remaining \in 0..StaleMs
  BY FileLockAssumption, NoFileIsNoFile DEF Remaining, TypeOK, Files, Exists, FileIsPast
<1> QED BY <1>1, <1>2, <1>3, FileLockAssumption DEF Spent

LEMMA SpentTypeNext ==
  ASSUME Patient, TypeOK', FileIsPast'
  PROVE  Remaining' \in 0..StaleMs /\ Spent' \in Int
<1>1. Past' \in SUBSET Calls
  BY DEF Past
<1>2. Cost(Past') \in Nat
  BY <1>1, CostGrows
<1>3. Remaining' \in 0..StaleMs
  BY FileLockAssumption, NoFileIsNoFile DEF Remaining, TypeOK, Files, Exists, FileIsPast
<1> QED BY <1>2, <1>3, FileLockAssumption DEF Spent

LEMMA FileIsCounted ==
  ASSUME Patient, TypeOK, LInv, FileIsPast
  PROVE  0 <= Spent /\ (Exists => 1 <= Spent)
<1>1. Remaining \in 0..StaleMs /\ Cost(Past) \in Nat /\ Past \in SUBSET Calls /\ StaleMs \in Nat
  BY SpentType, FileLockAssumption
<1>2. CASE ~Exists
  BY <1>1, <1>2 DEF Spent, Remaining
<1>3. CASE Exists
  <2> DEFINE d == lockFile.creator
  <2>1. d \in Calls /\ d \in Past
    BY <1>3 DEF LInv, FileHasHolder, Past, TypeOK, Exists, Files
  <2>2. Cost(Past) = Cost(Past \ {d}) + IF d \in Faulty THEN StaleMs + 1 ELSE 1
    <3>1. (Past \ {d}) \cup {d} = Past /\ d \in Calls \ (Past \ {d}) /\ Past \ {d} \in SUBSET Calls
      BY <1>1, <2>1
    <3> QED BY <3>1, CostAdds
  <2>3. Cost(Past \ {d}) \in Nat
    BY <1>1, CostGrows
  <2>4. d \notin Faulty => Remaining = 0
    BY DEF Remaining
  <2> QED BY <1>1, <2>2, <2>3, <2>4 DEF Spent
<1> QED BY <1>2, <1>3

\* The first four parts of QInv need no counting.
LEMMA FileSteps ==
  ASSUME Patient, TypeOK, DeadAreFaulty, HeldWithinTick, FileIsPast, NobodySleepsOnStale, [Next]_vars
  PROVE  (DeadAreFaulty /\ HeldWithinTick /\ FileIsPast /\ NobodySleepsOnStale)'
<1> USE FileLockAssumption, NoFileIsNoFile
<1> USE DEF Patient, TypeOK, DeadAreFaulty, HeldWithinTick, FileIsPast, NobodySleepsOnStale, Exists,
            IsStale, Goto, Holding, Polling, Dead, Files
<1> DEFINE Kept == (DeadAreFaulty /\ HeldWithinTick /\ FileIsPast /\ NobodySleepsOnStale)'
<1>1. ASSUME NEW c \in Calls, Step(c) PROVE Kept
  <2>1. CASE Start(c)        BY <2>1 DEF Start
  <2>2. CASE Create(c)
    <3>1. CASE Exists
      BY <2>2, <3>1 DEF Create
    <3>2. CASE ~Exists
      <4>1. lockFile' = [creator |-> c, token |-> NoToken, mtime |-> now] /\ now' = now
            /\ pc' = [pc EXCEPT ![c] = "write"]
        BY <2>2, <3>2 DEF Create
      <4>2. lockFile'.mtime = now' /\ ~(now' - lockFile'.mtime > StaleMs)
        BY <4>1
      <4> QED BY <4>1, <4>2
    <3> QED BY <3>1, <3>2
  <2>3. CASE WriteToken(c)
    <3>1. CASE Exists /\ lockFile.creator = c
      <4>1. lockFile'.mtime = now' /\ lockFile'.creator = c /\ now' = now
            /\ pc' = [pc EXCEPT ![c] = "critical"]
        BY <2>3, <3>1 DEF WriteToken
      <4>2. ~(now' - lockFile'.mtime > StaleMs)
        BY <4>1
      <4> QED BY <4>1, <4>2
    <3>2. CASE ~(Exists /\ lockFile.creator = c)
      BY <2>3, <3>2 DEF WriteToken
    <3> QED BY <3>1, <3>2
  <2>4. CASE WriteFails(c)   BY <2>4 DEF WriteFails
  <2>5. CASE Stat(c)         BY <2>5 DEF Stat
  <2>6. CASE Steal(c)        BY <2>6 DEF Steal
  <2>7. CASE Discard(c)      BY <2>7 DEF Discard
  <2>8. CASE Wake(c)         BY <2>8 DEF Wake
  <2>9. CASE Return(c)       BY <2>9 DEF Return
  <2>10. CASE ReadBack(c)    BY <2>10 DEF ReadBack
  <2>11. CASE Remove(c)      BY <2>11 DEF Remove
  <2>12. CASE Crash(c)       BY <2>12 DEF Crash
  <2> QED BY <1>1, <2>1, <2>2, <2>3, <2>4, <2>5, <2>6, <2>7, <2>8, <2>9,
             <2>10, <2>11, <2>12 DEF Step, Proceed
<1>2. CASE Tick
  <2>1. \A c \in Calls : ~(pc[c] \in Holding /\ Exists /\ lockFile.creator = c)
    BY <1>2 DEF Tick, MayOutlast
  <2> QED BY <1>2, <2>1 DEF Tick
<1>3. CASE UNCHANGED vars    BY <1>3 DEF vars
<1> QED BY <1>1, <1>2, <1>3 DEF Next, Finished

\* A wait goes on being accounted for while nothing new blocks it that is not
\* paid for.
LEMMA WaitGoesOn ==
  ASSUME TypeOK, Spent \in Int, Spent' \in Int, Spent <= Spent', now' = now,
         NEW d \in Calls, Accounted(d), pc'[d] = pc[d], waitUntil'[d] = waitUntil[d],
         Blocked(d)' => Blocked(d) \/ Spent + 1 <= Spent'
  PROVE  Accounted(d)'
<1>1. now \in Nat /\ waitUntil[d] \in Nat /\ WaitMs \in Nat
  BY FileLockAssumption DEF TypeOK
<1> QED BY <1>1 DEF Accounted

\* A waiter never meets its deadline in front of a fresh file.
LEMMA NoTimeout ==
  ASSUME Patient, TypeOK, FileIsPast, NEW c \in Calls, Accounted(c), pc[c] = "stat", Exists, ~IsStale
  PROVE  ~Deadline(c)
<1>1. now \in Nat /\ waitUntil[c] \in Nat /\ WaitMs \in Nat
  BY FileLockAssumption DEF TypeOK
<1>2. now + WaitMs - waitUntil[c] + 1 <= Spent
  BY DEF Accounted, Blocked, Polling
<1>3. Past \in SUBSET (Calls \ {c})
  BY DEF Past, Holding, Dead
<1>4. Spent <= WaitMs + 1
  BY <1>3, CostBound, SpentType, FileLockAssumption
<1>5. Spent \in Int
  BY SpentType
<1> QED BY <1>1, <1>2, <1>4, <1>5 DEF Deadline

LEMMA QInvCall ==
  ASSUME Patient, TypeOK, LInv, QInv, TypeOK', FileIsPast', NEW c \in Calls, Step(c)
  PROVE  (\A d \in Calls : Accounted(d))' /\ OneCrashDelaysNobody'
<1> USE FileLockAssumption, NoFileIsNoFile
<1>1. /\ FileIsPast /\ HeldWithinTick /\ OneCrashDelaysNobody
      /\ \A d \in Calls : Accounted(d)
  BY DEF QInv
<1>2. /\ Spent \in Int /\ Spent' \in Int /\ Cost(Past) \in Nat /\ Past \in SUBSET Calls
      /\ Remaining \in 0..StaleMs /\ Remaining' \in 0..StaleMs
      /\ 0 <= Spent /\ (Exists => 1 <= Spent)
  BY <1>1, SpentType, SpentTypeNext, FileIsCounted
<1>3. /\ now' = now
      /\ \A d \in Calls \ {c} : pc'[d] = pc[d] /\ waitUntil'[d] = waitUntil[d]
  BY DEF Step, Proceed, Start, Create, WriteToken, WriteFails, Stat, Steal, Discard, Wake, Return,
         ReadBack, Remove, Crash, Goto, TypeOK
<1>4. ASSUME NEW l, pc' = [pc EXCEPT ![c] = l]
      PROVE  /\ pc[c] \notin Holding \cup {"done"} \cup Dead /\ l \notin Holding \cup {"done"} \cup Dead
                  => Past' = Past
             /\ pc[c] \in Holding /\ l \in Holding \cup {"done"} \cup Dead => Past' = Past
             /\ pc[c] \notin Holding \cup {"done"} \cup Dead /\ l \in Holding \cup Dead
                  => c \notin Past /\ Past' = Past \cup {c}
             /\ pc'[c] = l
  BY <1>4 DEF Past, TypeOK
\* The file stays as far as the account goes, or is gone.
<1>5. ASSUME \/ lockFile' = NoFile
             \/ lockFile' = lockFile
             \/ Exists /\ Exists' /\ lockFile'.creator = lockFile.creator /\ lockFile'.mtime = lockFile.mtime
      PROVE  /\ Remaining' <= Remaining
             /\ Exists' /\ ~IsStale' => Exists /\ ~IsStale
             /\ \A d \in Calls \ {c} : Blocked(d)' => Blocked(d)
  <2>1. CASE lockFile' = NoFile
    <3>1. ~Exists' /\ Remaining' = 0
      BY <2>1 DEF Exists, Remaining
    <3> QED BY <1>2, <1>3, <3>1 DEF Blocked
  <2>2. CASE \/ lockFile' = lockFile
             \/ Exists /\ Exists' /\ lockFile'.creator = lockFile.creator /\ lockFile'.mtime = lockFile.mtime
    <3>1. Exists' = Exists /\ (Exists => IsStale' = IsStale) /\ Remaining' = Remaining
      BY <1>3, <2>2 DEF Exists, IsStale, Remaining
    <3> QED BY <1>2, <1>3, <3>1 DEF Blocked
  <2> QED BY <1>5, <2>1, <2>2
<1>6. ASSUME Spent <= Spent', \A d \in Calls \ {c} : Blocked(d)' => Blocked(d) \/ Spent + 1 <= Spent',
             Accounted(c)', pc'[c] # "timedOut"
      PROVE  (\A d \in Calls : Accounted(d))' /\ OneCrashDelaysNobody'
  <2>1. ASSUME NEW d \in Calls \ {c} PROVE Accounted(d)'
    BY <1>1, <1>2, <1>3, <1>6, WaitGoesOn
  <2> QED BY <1>1, <1>3, <1>6, <2>1 DEF OneCrashDelaysNobody
\* Only Create adds a file.
<1>7. CASE Create(c) /\ ~Exists
  <2>1. /\ lockFile' = [creator |-> c, token |-> NoToken, mtime |-> now]
        /\ pc' = [pc EXCEPT ![c] = "write"] /\ pc[c] = "create"
    BY <1>7 DEF Create, Goto
  <2>2. c \notin Past /\ Past' = Past \cup {c} /\ pc'[c] = "write"
    BY <1>4, <2>1 DEF Holding, Dead
  <2>3. Cost(Past)' = Cost(Past) + IF c \in Faulty THEN StaleMs + 1 ELSE 1
    <3>1. Cost(Past') = Cost(Past) + IF c \in Faulty THEN StaleMs + 1 ELSE 1
      BY <1>2, <2>2, CostAdds
    <3> QED BY <3>1 DEF Cost
  <2>4. Remaining = 0 /\ Remaining' = IF c \in Faulty THEN StaleMs ELSE 0
    <3>1. lockFile'.creator = c /\ now' - lockFile'.mtime = 0
      BY <1>3, <2>1 DEF TypeOK
    <3>2. Exists'
      BY <2>1 DEF Exists, NoFile
    <3> QED BY <1>3, <1>7, <3>1, <3>2 DEF Remaining
  <2>5. Spent' = Spent + 1
    BY <1>2, <2>3, <2>4 DEF Spent
  <2>6. Accounted(c)'
    BY <2>2 DEF Accounted, Polling
  <2> QED BY <1>2, <1>6, <2>2, <2>5, <2>6
\* The others add none.
<1>8. CASE ~(Create(c) /\ ~Exists)
  <2>1. \/ lockFile' = NoFile
        \/ lockFile' = lockFile
        \/ Exists /\ Exists' /\ lockFile'.creator = lockFile.creator /\ lockFile'.mtime = lockFile.mtime
    <3>1. CASE WriteToken(c) /\ Exists /\ lockFile.creator = c
      <4>1. lockFile.mtime = now
        BY <1>1, <3>1 DEF HeldWithinTick, WriteToken, Holding
      <4>2. lockFile' = [lockFile EXCEPT !.token = c, !.mtime = now] /\ lockFile \in Files
        BY <3>1 DEF WriteToken, TypeOK, Exists
      <4>3. lockFile'.creator = lockFile.creator /\ lockFile'.mtime = now /\ lockFile' \in Files
        BY <4>2 DEF Files, TypeOK
      <4> QED BY <3>1, <4>1, <4>3 DEF Exists
    <3>2. CASE ~(WriteToken(c) /\ Exists /\ lockFile.creator = c)
      BY <1>8, <3>2 DEF Step, Proceed, Start, Create, WriteToken, WriteFails, Stat, Steal, Discard,
         Wake, Return, ReadBack, Remove, Crash
    <3> QED BY <3>1, <3>2
  <2>2. /\ Remaining' <= Remaining
        /\ Exists' /\ ~IsStale' => Exists /\ ~IsStale
        /\ \A d \in Calls \ {c} : Blocked(d)' => Blocked(d)
    BY <1>5, <2>1
  <2>3. ASSUME Past' = Past \/ (c \notin Past /\ Past' = Past \cup {c}) PROVE Spent <= Spent'
    <3>1. Cost(Past') \in Nat /\ Cost(Past) <= Cost(Past')
      <4>1. Past \in SUBSET Past' /\ Past' \in SUBSET Calls
        BY <1>2, <2>3
      <4> QED BY <4>1, CostGrows
    <3>2. Cost(Past)' = Cost(Past')
      BY DEF Cost
    <3> QED BY <1>2, <2>2, <3>1, <3>2 DEF Spent
  <2>4. CASE Start(c)
    <3>1. pc' = [pc EXCEPT ![c] = "create"] /\ pc[c] = "idle" /\ waitUntil'[c] = now + WaitMs
          /\ lockFile' = lockFile
      BY <2>4 DEF Start, Goto, TypeOK
    <3>2. Past' = Past /\ pc'[c] = "create"
      BY <1>4, <3>1 DEF Holding, Dead
    <3>3. Spent <= Spent'
      BY <2>3, <3>2
    <3>4. Accounted(c)'
      <4>1. now' + WaitMs - waitUntil'[c] = 0
        BY <1>3, <3>1 DEF TypeOK
      <4>2. Blocked(c)' => Exists
        BY <2>2, <3>2 DEF Blocked
      <4> QED BY <1>2, <3>3, <4>1, <4>2 DEF Accounted
    <3> QED BY <1>6, <2>2, <3>2, <3>3, <3>4
  <2>5. CASE WriteToken(c) \/ WriteFails(c) \/ Return(c) \/ ReadBack(c) \/ Remove(c)
    <3>1. PICK l \in {"critical", "failed", "readback", "remove", "done"} :
            pc' = [pc EXCEPT ![c] = l] /\ pc[c] \in Holding
      BY <2>5 DEF WriteToken, WriteFails, Return, ReadBack, Remove, Goto, Holding
    <3>2. Past' = Past /\ pc'[c] = l
      BY <1>4, <3>1 DEF Holding, Dead
    <3>3. Accounted(c)'
      BY <3>1, <3>2 DEF Accounted, Polling
    <3> QED BY <1>6, <2>2, <2>3, <3>1, <3>2, <3>3
  <2>6. CASE Crash(c)
    <3>1. pc' = [pc EXCEPT ![c] = "crashed"] /\ pc[c] \in Polling \cup Holding \cup {"asleep"}
      BY <2>6 DEF Crash, Goto
    <3>2. pc'[c] = "crashed" /\ (Past' = Past \/ (c \notin Past /\ Past' = Past \cup {c}))
      BY <1>4, <3>1 DEF Polling, Holding, Dead
    <3>3. Accounted(c)'
      BY <3>2 DEF Accounted, Polling
    <3> QED BY <1>6, <2>2, <2>3, <3>2, <3>3
  <2>7. CASE Stat(c) \/ Create(c) \/ Steal(c) \/ Discard(c) \/ Wake(c)
    <3>1. PICK l \in {"create", "stat", "steal", "discard", "asleep", "timedOut"} :
            /\ pc' = [pc EXCEPT ![c] = l] /\ pc[c] \in Polling \cup {"asleep"}
            /\ l = "timedOut" => pc[c] = "stat" /\ Exists /\ ~IsStale /\ Deadline(c)
            /\ l = "asleep" => pc[c] = "stat" /\ Exists /\ ~IsStale
      BY <1>8, <2>7 DEF Stat, Create, Steal, Discard, Wake, Goto, Polling
    <3>2. Past' = Past /\ pc'[c] = l
      BY <1>4, <3>1 DEF Polling, Holding, Dead
    <3>3. l # "timedOut"
      BY <1>1, <3>1, NoTimeout
    <3>4. Spent <= Spent'
      BY <2>3, <3>2
    <3>5. waitUntil'[c] = waitUntil[c]
      BY <2>7 DEF Stat, Create, Steal, Discard, Wake
    <3>6. Blocked(c)' => Blocked(c)
      BY <2>2, <3>1, <3>2 DEF Blocked
    <3>7. Accounted(c)'
      <4>1. now \in Nat /\ waitUntil[c] \in Nat
        BY DEF TypeOK
      <4> QED BY <1>1, <1>2, <1>3, <3>1, <3>4, <3>5, <3>6, <4>1 DEF Accounted
    <3> QED BY <1>6, <2>2, <3>2, <3>3, <3>4, <3>7
  <2> QED BY <2>4, <2>5, <2>6, <2>7 DEF Step, Proceed
<1> QED BY <1>7, <1>8

LEMMA QInvTick ==
  ASSUME Patient, TypeOK, LInv, QInv, TypeOK', FileIsPast', Tick
  PROVE  (\A d \in Calls : Accounted(d))' /\ OneCrashDelaysNobody'
<1> USE FileLockAssumption
<1>1. /\ FileIsPast /\ HeldWithinTick /\ DeadAreFaulty /\ NobodySleepsOnStale /\ OneCrashDelaysNobody
      /\ \A d \in Calls : Accounted(d)
  BY DEF QInv
<1>2. /\ now' = now + 1 /\ now \in Nat /\ lockFile' = lockFile /\ waitUntil' = waitUntil
      /\ pc' = [d \in Calls |-> IF pc[d] = "asleep" THEN "create" ELSE pc[d]]
      /\ \A d \in Calls : MayOutlast(d) /\ pc[d] \notin Polling
  BY DEF Tick, Patient, TypeOK
<1>3. Past' = Past /\ Cost(Past)' = Cost(Past) /\ Cost(Past) \in Nat
  <2>1. Past' = Past
    BY <1>2 DEF Past, Holding, Dead
  <2> QED BY <1>1, <2>1, SpentType DEF Cost
<1>4. OneCrashDelaysNobody'
  BY <1>1, <1>2 DEF OneCrashDelaysNobody
<1>5. ASSUME NEW d \in Calls, pc'[d] \in Polling \cup {"asleep"} PROVE Accounted(d)'
  <2>1. pc[d] = "asleep" /\ pc'[d] = "create" /\ waitUntil[d] \in Nat /\ WaitMs \in Nat
    BY <1>2, <1>5 DEF TypeOK
  <2>2. now + WaitMs - waitUntil[d] + 1 <= Spent
    BY <1>1, <2>1 DEF Accounted, Blocked
  <2>3. CASE ~Exists
    <3>1. Remaining = 0 /\ Remaining' = 0 /\ ~Blocked(d)'
      BY <1>2, <2>1, <2>3 DEF Remaining, Exists, Blocked
    <3> QED BY <1>2, <1>3, <2>1, <2>2, <3>1 DEF Spent, Accounted
  <2>4. CASE Exists
    <3> DEFINE e == lockFile.creator
               age == now - lockFile.mtime
    <3>1. e \in Calls /\ lockFile.mtime \in Nat /\ age \in Nat
      BY <1>1, <2>4 DEF TypeOK, Exists, Files, FileIsPast
    <3>2. pc[e] \notin Holding
      <4>1. pc[e] \in Holding => age = 0
        BY <1>1, <1>2, <2>4, <3>1 DEF HeldWithinTick
      <4>2. pc[e] \in Holding => age < 0
        BY <1>2, <2>4, <3>1 DEF MayOutlast, Patient
      <4> QED BY <4>1, <4>2
    <3>3. e \in Faulty
      BY <1>1, <2>4, <3>1, <3>2 DEF LInv, FileHasHolder, DeadAreFaulty
    <3>4. age <= StaleMs
      BY <1>1, <2>1, <2>4, <3>1 DEF NobodySleepsOnStale, IsStale
    <3>5. /\ Remaining = StaleMs - age
          /\ age < StaleMs => Remaining' = Remaining - 1
          /\ age = StaleMs => Remaining' = Remaining
      BY <1>2, <2>4, <3>1, <3>3, <3>4 DEF Remaining, Exists
    <3>6. age = StaleMs => ~Blocked(d)'
      BY <1>2, <2>1, <3>1 DEF Blocked, IsStale
    <3>7. /\ age < StaleMs => Spent' = Spent + 1
          /\ age = StaleMs => Spent' = Spent
          /\ Spent \in Int
      BY <1>3, <3>1, <3>5 DEF Spent
    <3>8. now' + WaitMs - waitUntil'[d] = now + WaitMs - waitUntil[d] + 1
      BY <1>2, <2>1
    <3> HIDE DEF age
    <3> QED BY <1>2, <2>1, <2>2, <3>1, <3>4, <3>6, <3>7, <3>8 DEF Accounted
  <2> QED BY <2>3, <2>4
<1>6. \A d \in Calls : Accounted(d)'
  BY <1>5 DEF Accounted
<1> QED BY <1>4, <1>6

\* When the wait outlasts a tick of every other call and the staleness of every
\* lock file left behind, no death makes a waiter time out.  The bound cannot
\* be raised: with one call more, TLC finds one that times out.
THEOREM DeathsDelayNobody ==
  ASSUME Patient
  PROVE  Spec => []OneCrashDelaysNobody
<1>1. Init => LInv /\ QInv
  <2> SUFFICES ASSUME Init PROVE LInv /\ QInv
    OBVIOUS
  <2>1. LInv
    BY DEF Init, LInv, FileHasHolder, OwnTokenThere, Exists
  <2>2. \A c \in Calls : pc[c] = "idle"
    BY DEF Init
  <2>3. DeadAreFaulty /\ HeldWithinTick /\ FileIsPast /\ NobodySleepsOnStale
    BY <2>2 DEF Init, DeadAreFaulty, HeldWithinTick, FileIsPast, NobodySleepsOnStale, Exists, Dead
  <2> QED BY <2>1, <2>2, <2>3 DEF QInv, Accounted, OneCrashDelaysNobody, Polling
<1>2. TypeOK /\ TypeOK' /\ LInv /\ QInv /\ [Next]_vars => QInv'
  <2> SUFFICES ASSUME TypeOK, TypeOK', LInv, QInv, [Next]_vars PROVE QInv'
    OBVIOUS
  <2>1. (DeadAreFaulty /\ HeldWithinTick /\ FileIsPast /\ NobodySleepsOnStale)'
    BY FileSteps DEF QInv
  <2>2. ASSUME NEW c \in Calls, Step(c) PROVE QInv'
    BY <2>1, <2>2, QInvCall DEF QInv
  <2>3. CASE Tick
    BY <2>1, <2>3, QInvTick DEF QInv
  <2>4. CASE UNCHANGED vars
    BY <2>1, <2>4 DEF vars, QInv, Accounted, Blocked, IsStale, Exists, Spent, Past, Cost, Remaining,
                       OneCrashDelaysNobody
  <2> QED BY <2>2, <2>3, <2>4 DEF Next, Finished
<1>3. TypeOK /\ LInv /\ [Next]_vars => LInv'
  BY LInvStep
<1>4. QInv => OneCrashDelaysNobody
  BY DEF QInv
<1> QED BY <1>1, <1>2, <1>3, <1>4, TypeCorrect, PTL DEF Spec
=============================================================================
