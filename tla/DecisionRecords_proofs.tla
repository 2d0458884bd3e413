----------------------- MODULE DecisionRecords_proofs -----------------------
(***************************************************************************)
(* Proofs about DecisionRecords, for any set of overlapping runs, any of   *)
(* which may be killed or time out.  The chain stays linear because a      *)
(* position is computed and used within one critical section.  The         *)
(* installed lockfile is the evaluated one because a lockfile that equals  *)
(* a digest taken earlier has not changed since, as long as no content     *)
(* comes back.                                                             *)
(***************************************************************************)
EXTENDS DecisionRecords, TLAPS

Critical == {"readChain", "publish"}

\* A run in the critical section is the only holder of the store lock.
LockHeld == \A r \in Runs : pc[r] \in Critical => storeLock = {r}

\* The chain has a last record, unless it is empty.
HasLast == files # {} => \E f \in files : \A g \in files : g.seq <= f.seq

\* A run about to publish has the position that follows the last record.
PositionIsNext == \A r \in Runs : pc[r] = "publish" => position[r] = NextPosition(files)

SInv == LockHeld /\ HasLast /\ PositionIsNext /\ Unforked

\* Where the digest of the lockfile has been taken and will be compared, and
\* where the targets have been loaded as well.
Digested == {"targets", "evaluate", "recheck", "frozen", "recheckAfter"}
Loaded   == Digested \ {"targets"}

\* Only the frozen install makes a verdict "installed".
Undecided == \A r \in Runs :
  pc[r] \in {"idle", "capture", "prepare", "digest"} \cup (Digested \ {"recheckAfter"})
    => verdict[r] # "installed"

\* The history knows every content a digest was taken of.
SeenInv == tree \in seen /\ \A r \in Runs : pc[r] \in Digested => locked[r] \in seen

\* A lockfile that equals the digest has not changed since.
SameSince == \A r \in Runs : tree = locked[r] =>
  /\ pc[r] \in Loaded => targets[r] = tree
  /\ pc[r] = "recheckAfter" => frozen[r] = tree

BInv == Undecided /\ SeenInv /\ SameSince /\ InstalledWasEvaluated
-----------------------------------------------------------------------------
(* The store *)

LEMMA LastIsLast ==
  ASSUME NEW F, NEW e \in F, \A g \in F : g.seq <= e.seq
  PROVE  LastOf(F) \in F /\ \A g \in F : g.seq <= LastOf(F).seq
  BY DEF LastOf

LEMMA NextPositionType ==
  ASSUME TypeOK, HasLast
  PROVE  NextPosition(files) \in [seq : Nat \ {0}, prev : Nat]
<1>1. CASE files = {}
  BY <1>1 DEF NextPosition, Genesis
<1>2. CASE files # {}
  <2>1. LastOf(files) \in Records
    BY <1>2, LastIsLast DEF HasLast, TypeOK
  <2> QED BY <1>2, <2>1 DEF NextPosition, Records
<1> QED BY <1>1, <1>2

\* A chain extended at its next position is a chain, with a new last record.
LEMMA ExtendChain ==
  ASSUME NEW F \in SUBSET Records, ChainOk(F),
         F # {} => \E f \in F : \A g \in F : g.seq <= f.seq,
         NEW n \in Records,
         n.seq = NextPosition(F).seq, n.prev = NextPosition(F).prev
  PROVE  ChainOk(F \cup {n}) /\ \A g \in F \cup {n} : g.seq <= n.seq
<1>1. CASE F = {}
  BY <1>1 DEF ChainOk, NextPosition, Genesis, Records
<1>2. CASE F # {}
  <2>1. LastOf(F) \in F /\ \A g \in F : g.seq <= LastOf(F).seq
    BY <1>2, LastIsLast
  <2>2. n.seq = LastOf(F).seq + 1 /\ n.prev = LastOf(F).digest
    BY <1>2 DEF NextPosition
  <2>3. \A g \in F : g.seq \in Nat /\ g.seq < n.seq
    BY <2>1, <2>2 DEF Records
  <2>4. n.seq \in Nat
    BY DEF Records
  <2> QED BY <2>1, <2>2, <2>3, <2>4 DEF ChainOk
<1> QED BY <1>1, <1>2
-----------------------------------------------------------------------------
(* Types *)

LEMMA TypeStep ==
  ASSUME TypeOK, HasLast, [Next]_vars
  PROVE  TypeOK'
<1> USE DecisionRecordsAssumption
<1> USE DEF TypeOK, Goto, At, Decide, Block, Writable, Places, Ended, Verdicts,
            store, binding, record
<1>1. ASSUME NEW r \in Runs, Evaluation(r) PROVE TypeOK'
  <2>1. CASE Begin(r)    BY <2>1 DEF Begin
  <2>2. CASE Capture(r)  BY <2>2 DEF Capture
  <2>3. CASE CaptureCheck(r)  BY <2>3 DEF CaptureCheck
  <2> QED BY <1>1, <2>1, <2>2, <2>3 DEF Evaluation
<1>2. ASSUME NEW r \in Runs, Bind(r) PROVE TypeOK'
  <2>1. CASE Prepare(r)
    <3>1. tree' \in Contents /\ seen' \subseteq Contents
      BY <2>1 DEF Prepare
    <3>2. pc' \in [Runs -> Places] /\ verdict' \in [Runs -> Verdicts]
      BY <2>1 DEF Prepare
    <3> QED BY <2>1, <3>1, <3>2 DEF Prepare
  <2>2. CASE Digest(r)
    <3>1. locked' \in [Runs -> Contents]
      BY <2>2 DEF Digest
    <3>2. pc' \in [Runs -> Places] /\ verdict' \in [Runs -> Verdicts]
      BY <2>2 DEF Digest
    <3> QED BY <2>2, <3>1, <3>2 DEF Digest
  <2>3. CASE LoadTargets(r)   BY <2>3 DEF LoadTargets
  <2>4. CASE Evaluate(r)      BY <2>4 DEF Evaluate
  <2>5. CASE Recheck(r)       BY <2>5 DEF Recheck
  <2>6. CASE Freeze(r)        BY <2>6 DEF Freeze
  <2>7. CASE RecheckAfter(r)  BY <2>7 DEF RecheckAfter
  <2> QED BY <1>2, <2>1, <2>2, <2>3, <2>4, <2>5, <2>6, <2>7 DEF Bind
<1>3. ASSUME NEW r \in Runs, Emit(r) PROVE TypeOK'
  <2>1. CASE BindAfter(r)        BY <2>1 DEF BindAfter
  <2>2. CASE Acquire(r)          BY <2>2 DEF Acquire, StoreLock!Acquire
  <2>3. CASE AcquireTimesOut(r)  BY <2>3 DEF AcquireTimesOut
  <2>4. CASE ReadChain(r)
    <3>1. position' \in [Runs -> [seq : Nat \ {0}, prev : Nat]]
      <4> HIDE DEF binding, record
      <4> QED BY <2>4, NextPositionType DEF ReadChain
    <3>2. pc' \in [Runs -> Places] /\ storeLock' \subseteq Runs
      BY <2>4 DEF ReadChain, StoreLock!Release
    <3> QED BY <2>4, <3>1, <3>2 DEF ReadChain
  <2>5. CASE Publish(r)
    <3>1. position[r] \in [seq : Nat \ {0}, prev : Nat]
      OBVIOUS
    <3>2. files' \subseteq Records
      BY <2>5, <3>1 DEF Publish, Records
    <3> QED BY <2>5, <3>2 DEF Publish, StoreLock!Release
  <2>6. CASE EmitFails(r)        BY <2>6 DEF EmitFails
  <2> QED BY <1>3, <2>1, <2>2, <2>3, <2>4, <2>5, <2>6 DEF Emit
<1>4. ASSUME NEW r \in Runs, Kill(r) PROVE TypeOK'
  BY <1>4 DEF Kill
<1>5. CASE Edit            BY <1>5 DEF Edit
<1>6. CASE UNCHANGED vars  BY <1>6 DEF vars
<1> QED BY <1>1, <1>2, <1>3, <1>4, <1>5, <1>6 DEF Next, Finished
-----------------------------------------------------------------------------
(* The chain *)

\* Outside the critical section, and by the death of a run, the store's
\* invariant is only moved along.
LEMMA SInvFrame ==
  ASSUME TypeOK, SInv, NEW r \in Runs,
         NEW l \in Places \ Critical, pc' = [pc EXCEPT ![r] = l],
         storeLock' \in {storeLock, storeLock \ {r}},
         UNCHANGED <<files, position>>
  PROVE  SInv'
<1> USE DEF SInv, TypeOK, Critical
<1>1. \A q \in Runs : pc'[q] \in Critical => q # r /\ pc[q] \in Critical /\ pc'[q] = pc[q]
  OBVIOUS
<1>2. LockHeld'
  BY <1>1 DEF LockHeld
<1>3. HasLast' /\ Unforked'
  BY DEF HasLast, Unforked
<1>4. PositionIsNext'
  BY <1>1 DEF PositionIsNext, NextPosition
<1> QED BY <1>2, <1>3, <1>4

LEMMA SInvStep ==
  ASSUME TypeOK, SInv, [Next]_vars
  PROVE  SInv'
<1> USE DEF Goto, At, Decide, Block, store, binding, record
<1>1. ASSUME NEW r \in Runs, Evaluation(r) \/ Bind(r) PROVE SInv'
  <2>1. UNCHANGED <<files, position, storeLock>>
    BY <1>1 DEF Evaluation, Begin, Capture, CaptureCheck, Bind, Prepare, Digest, LoadTargets, Evaluate,
                Recheck, Freeze, RecheckAfter
  <2>2. PICK l \in Places \ Critical : pc' = [pc EXCEPT ![r] = l]
    BY <1>1 DEF Evaluation, Begin, Capture, CaptureCheck, Bind, Prepare, Digest, LoadTargets, Evaluate,
                Recheck, Freeze, RecheckAfter, Places, Ended, Critical
  <2> QED BY <2>1, <2>2, SInvFrame
<1>2. ASSUME NEW r \in Runs, Emit(r) PROVE SInv'
  <2>1. CASE BindAfter(r)
    BY <2>1, SInvFrame DEF BindAfter, Places, Critical
  <2>2. CASE Acquire(r)
    <3>1. \A q \in Runs : pc[q] \notin Critical
      BY <2>2 DEF Acquire, StoreLock!Acquire, SInv, LockHeld
    <3>2. LockHeld'
      BY <2>2, <3>1 DEF Acquire, StoreLock!Acquire, LockHeld, TypeOK
    <3>3. PositionIsNext'
      BY <2>2, <3>1 DEF Acquire, PositionIsNext, TypeOK, Critical
    <3> QED BY <2>2, <3>2, <3>3 DEF Acquire, SInv, HasLast, Unforked
  <2>3. CASE AcquireTimesOut(r)
    BY <2>3, SInvFrame DEF AcquireTimesOut, Places, Ended, Critical
  <2>4. CASE ReadChain(r)
    <3>1. pc' = [pc EXCEPT ![r] = "publish"] /\ pc[r] \in Critical
          /\ position' = [position EXCEPT ![r] = NextPosition(files)]
          /\ UNCHANGED <<files, storeLock>>
      BY <2>4 DEF ReadChain, SInv, Unforked, Critical
    <3>2. \A q \in Runs : pc[q] \in Critical => q = r
      BY <3>1 DEF SInv, LockHeld
    <3>3. LockHeld'
      BY <3>1, <3>2 DEF SInv, LockHeld, TypeOK
    <3>4. PositionIsNext'
      BY <3>1, <3>2 DEF PositionIsNext, NextPosition, TypeOK, Critical
    <3> QED BY <3>1, <3>3, <3>4 DEF SInv, HasLast, Unforked
  <2>5. CASE Publish(r)
    <3> DEFINE n == [seq |-> position[r].seq, prev |-> position[r].prev,
                     digest |-> lastDigest + 1, run |-> r, verdict |-> verdict[r],
                     before |-> before[r], after |-> after[r]]
    <3>1. files' = files \cup {n} /\ pc' = [pc EXCEPT ![r] = "recorded"]
      BY <2>5 DEF Publish
    <3>2. n \in Records
      BY DEF TypeOK, Records
    <3>3. position[r] = NextPosition(files)
      BY <2>5 DEF Publish, SInv, PositionIsNext
    <3>4. n.seq = NextPosition(files).seq /\ n.prev = NextPosition(files).prev
      BY <3>3
    <3>5. ChainOk(files \cup {n}) /\ \A g \in files \cup {n} : g.seq <= n.seq
      <4> HIDE DEF n
      <4> QED BY <3>2, <3>4, ExtendChain DEF SInv, HasLast, Unforked, TypeOK
    <3>6. Unforked' /\ HasLast'
      <4> HIDE DEF n
      <4> QED BY <3>1, <3>5 DEF Unforked, HasLast
    <3>7. \A q \in Runs : pc'[q] \notin Critical
      BY <2>5, <3>1 DEF Publish, SInv, LockHeld, TypeOK, Critical
    <3> QED BY <3>6, <3>7 DEF SInv, LockHeld, PositionIsNext, Critical
  <2>6. CASE EmitFails(r)
    BY <2>6, SInvFrame DEF EmitFails, Places, Ended, Critical
  <2> QED BY <1>2, <2>1, <2>2, <2>3, <2>4, <2>5, <2>6 DEF Emit
<1>3. ASSUME NEW r \in Runs, Kill(r) PROVE SInv'
  BY <1>3, SInvFrame DEF Kill, Places, Ended, Critical
<1>4. CASE UNCHANGED <<files, position, storeLock, pc>>
  BY <1>4 DEF SInv, LockHeld, HasLast, PositionIsNext, NextPosition, Unforked
<1> QED BY <1>1, <1>2, <1>3, <1>4 DEF Next, Edit, Finished, vars

LEMMA StoreInvariant == Spec => [](TypeOK /\ SInv)
<1>1. Init => TypeOK /\ SInv
  BY DecisionRecordsAssumption
  DEF Init, TypeOK, SInv, LockHeld, HasLast, PositionIsNext, Unforked, ChainOk,
      Critical, Genesis, Places, Ended, Verdicts
<1>2. TypeOK /\ SInv /\ [Next]_vars => (TypeOK /\ SInv)'
  BY TypeStep, SInvStep DEF SInv
<1> QED BY <1>1, <1>2, PTL DEF Spec

\* The variables keep their types.
THEOREM TypeCorrect == Spec => []TypeOK
  BY StoreInvariant, PTL

\* However many runs overlap, are killed or time out, the records of a
\* lockfile path form one readable chain.
THEOREM ChainIsLinear == Spec => []Unforked
<1>1. SInv => Unforked
  BY DEF SInv
<1> QED BY <1>1, StoreInvariant, PTL

\* The record store implements the atomic append of DecisionStore: reading the
\* chain and publishing the record are one step to everybody else.
THEOREM AppendIsAtomic == Spec => ImplementsStore
<1>1. Init => Store!Init
  BY DEF Init, Store!Init
<1>2. TypeOK /\ SInv /\ [Next]_vars => [Store!Next]_<<files, lastDigest>>
  <2> SUFFICES ASSUME TypeOK, SInv, [Next]_vars, <<files, lastDigest>>' # <<files, lastDigest>>
               PROVE  Store!Next
    OBVIOUS
  <2>1. PICK r \in Runs : Publish(r)
    BY DEF Next, vars, store, Evaluation, Bind, Emit, Begin, Capture, CaptureCheck, Prepare,
           Digest, LoadTargets, Evaluate, Recheck, Freeze, RecheckAfter, BindAfter, Acquire,
           AcquireTimesOut, ReadChain, EmitFails, Kill, Edit, Finished
  <2> DEFINE n == [seq |-> position[r].seq, prev |-> position[r].prev,
                   digest |-> lastDigest + 1, run |-> r, verdict |-> verdict[r],
                   before |-> before[r], after |-> after[r]]
  <2>2. files' = files \cup {n} /\ lastDigest' = lastDigest + 1 /\ n.digest = lastDigest + 1
    BY <2>1 DEF Publish
  <2>3. position[r] = NextPosition(files) /\ ChainOk(files)
    BY <2>1 DEF Publish, At, SInv, PositionIsNext, Unforked
  <2>4. [seq |-> n.seq, prev |-> n.prev] = NextPosition(files)
    BY <2>3 DEF TypeOK
  <2>5. n.seq = position[r].seq /\ position[r].seq \in Nat
    BY DEF TypeOK
  <2>6. n \notin files
    <3>1. CASE files = {}
      BY <3>1
    <3>2. CASE files # {}
      <4>1. LastOf(files) \in files /\ \A g \in files : g.seq <= LastOf(files).seq
        BY <3>2, LastIsLast DEF SInv, HasLast
      <4>2. n.seq = LastOf(files).seq + 1
        BY <2>3, <2>5, <3>2 DEF NextPosition
      <4>3. LastOf(files).seq \in Nat
        BY <4>1 DEF TypeOK, Records
      <4> HIDE DEF n
      <4> QED BY <4>1, <4>2, <4>3
    <3> QED BY <3>1, <3>2
  <2> HIDE DEF n
  <2>7. n \in files' \ files
    BY <2>2, <2>6
  <2>8. Store!Append(n)
    BY <2>2, <2>3, <2>4 DEF Store!Append, Store!ChainOk, ChainOk, Store!NextPosition,
                              NextPosition, Store!LastOf, LastOf, Store!Genesis, Genesis
  <2> QED BY <2>7, <2>8 DEF Store!Next
<1> QED BY <1>1, <1>2, StoreInvariant, PTL DEF Spec, ImplementsStore, Store!Spec
-----------------------------------------------------------------------------
(* The binding, when no content of the lockfile comes back *)

\* A writer gives the lockfile a content that no digest was taken of.
LEMMA BInvWrite ==
  ASSUME TypeOK, BInv, tree' # tree => tree' \notin seen,
         seen' = seen \cup {tree'}, UNCHANGED <<locked, targets, frozen>>,
         \A r \in Runs : pc'[r] = pc[r] /\ verdict'[r] = verdict[r]
  PROVE  BInv'
<1> USE DEF BInv
<1>1. Undecided'              BY DEF Undecided
<1>2. SeenInv'                BY DEF SeenInv
<1>3. SameSince'              BY DEF SameSince, SeenInv, Loaded, Digested
<1>4. InstalledWasEvaluated'  BY DEF InstalledWasEvaluated
<1> QED BY <1>1, <1>2, <1>3, <1>4

LEMMA BInvStep ==
  ASSUME Undo = FALSE, TypeOK, BInv, [Next]_vars
  PROVE  BInv'
<1> USE DEF Goto, At, Decide, Block, store, binding, record
<1>1. ASSUME NEW r \in Runs, Evaluation(r) PROVE BInv'
  <2> USE DEF TypeOK, BInv, Places
  <2>1. Undecided'              BY <1>1 DEF Evaluation, Begin, Capture, CaptureCheck, Undecided, Digested
  <2>2. SeenInv'                BY <1>1 DEF Evaluation, Begin, Capture, CaptureCheck, SeenInv, Digested
  <2>3. SameSince'              BY <1>1 DEF Evaluation, Begin, Capture, CaptureCheck, SameSince, Digested, Loaded
  <2>4. InstalledWasEvaluated'
    BY <1>1 DEF Evaluation, Begin, Capture, CaptureCheck, InstalledWasEvaluated, Reported, Undecided
  <2> QED BY <2>1, <2>2, <2>3, <2>4
<1>2. ASSUME NEW r \in Runs, Bind(r) PROVE BInv'
  <2> USE DEF TypeOK, BInv, Digested, Loaded, Reported
  <2>1. CASE Prepare(r)
    <3>1. tree' # tree => tree' \notin seen
      BY <2>1 DEF Prepare, Writable
    <3>2. Undecided' /\ InstalledWasEvaluated'
      BY <2>1 DEF Prepare, Undecided, InstalledWasEvaluated
    <3>3. SeenInv'
      BY <2>1 DEF Prepare, SeenInv
    <3>4. SameSince'
      BY <2>1, <3>1 DEF Prepare, SameSince, SeenInv
    <3> QED BY <3>2, <3>3, <3>4
  <2>2. CASE Digest(r)
    <3>1. Undecided' /\ InstalledWasEvaluated'
      BY <2>2 DEF Digest, Undecided, InstalledWasEvaluated
    <3>2. SeenInv'
      BY <2>2 DEF Digest, SeenInv
    <3>3. SameSince'
      BY <2>2 DEF Digest, SameSince
    <3> QED BY <3>1, <3>2, <3>3
  <2>3. CASE LoadTargets(r)
    <3>1. Undecided' /\ InstalledWasEvaluated'
      BY <2>3 DEF LoadTargets, Undecided, InstalledWasEvaluated
    <3>2. SeenInv'
      BY <2>3 DEF LoadTargets, SeenInv
    <3>3. SameSince'
      BY <2>3 DEF LoadTargets, SameSince
    <3> QED BY <3>1, <3>2, <3>3
  <2>4. CASE Evaluate(r)
    <3>1. Undecided' /\ InstalledWasEvaluated'
      BY <2>4 DEF Evaluate, Undecided, InstalledWasEvaluated
    <3>2. SeenInv' /\ SameSince'
      BY <2>4 DEF Evaluate, SeenInv, SameSince
    <3> QED BY <3>1, <3>2
  <2>5. CASE Recheck(r)
    <3>1. Undecided' /\ InstalledWasEvaluated'
      BY <2>5 DEF Recheck, Undecided, InstalledWasEvaluated
    <3>2. SeenInv' /\ SameSince'
      BY <2>5 DEF Recheck, SeenInv, SameSince
    <3> QED BY <3>1, <3>2
  <2>6. CASE Freeze(r)
    <3>1. Undecided' /\ InstalledWasEvaluated'
      BY <2>6 DEF Freeze, Undecided, InstalledWasEvaluated
    <3>2. SeenInv' /\ SameSince'
      BY <2>6 DEF Freeze, SeenInv, SameSince
    <3> QED BY <3>1, <3>2
  <2>7. CASE RecheckAfter(r)
    <3>1. tree = locked[r] => frozen[r] = targets[r]
      BY <2>7 DEF RecheckAfter, SameSince
    <3>2. InstalledWasEvaluated'
      BY <2>7, <3>1 DEF RecheckAfter, InstalledWasEvaluated
    <3>3. Undecided'
      BY <2>7 DEF RecheckAfter, Undecided
    <3>4. SeenInv' /\ SameSince'
      BY <2>7 DEF RecheckAfter, SeenInv, SameSince
    <3> QED BY <3>2, <3>3, <3>4
  <2> QED BY <1>2, <2>1, <2>2, <2>3, <2>4, <2>5, <2>6, <2>7 DEF Bind
<1>3. ASSUME NEW r \in Runs, Emit(r) \/ Kill(r) PROVE BInv'
  <2>1. UNCHANGED <<tree, seen, locked, targets, frozen, verdict>>
    BY <1>3 DEF Emit, Kill, BindAfter, Acquire, AcquireTimesOut, ReadChain,
                Publish, EmitFails
  <2>2. \A q \in Runs : pc'[q] \in Reported => pc[q] \in Reported
    BY <1>3 DEF Emit, Kill, BindAfter, Acquire, AcquireTimesOut, ReadChain,
                Publish, EmitFails, TypeOK, Reported
  <2>3. \A q \in Runs : pc'[q] = pc[q] \/ pc'[q] \in Reported \cup {"killed"}
    BY <1>3 DEF Emit, Kill, BindAfter, Acquire, AcquireTimesOut, ReadChain,
                Publish, EmitFails, TypeOK, Reported
  <2>4. \A q \in Runs : pc'[q] \in {"idle", "capture", "prepare", "digest"} \cup Digested
                           => pc'[q] = pc[q]
    BY <2>3 DEF Reported, Digested
  <2> USE DEF BInv
  <2>5. Undecided'              BY <2>1, <2>4 DEF Undecided
  <2>6. SeenInv'                BY <2>1, <2>4 DEF SeenInv
  <2>7. SameSince'              BY <2>1, <2>4 DEF SameSince, Loaded, Digested
  <2>8. InstalledWasEvaluated'  BY <2>1, <2>2 DEF InstalledWasEvaluated
  <2> QED BY <2>5, <2>6, <2>7, <2>8
<1>4. CASE Edit
  BY <1>4, BInvWrite DEF Edit, Writable
<1>5. CASE UNCHANGED vars
  BY <1>5 DEF vars, BInv, Undecided, SeenInv, SameSince, InstalledWasEvaluated
<1> QED BY <1>1, <1>2, <1>3, <1>4, <1>5 DEF Next, Finished

\* As long as no content of the lockfile comes back, an install that ended
\* well installed the lockfile it had evaluated, whoever writes in between.
THEOREM InstallIsBound ==
  ASSUME Undo = FALSE
  PROVE  Spec => []InstalledWasEvaluated
<1>1. Init => BInv
  BY DEF Init, BInv, Undecided, SeenInv, SameSince, InstalledWasEvaluated,
         Digested, Loaded, Reported
<1>2. TypeOK /\ BInv /\ [Next]_vars => BInv'
  BY BInvStep
<1>3. BInv => InstalledWasEvaluated
  BY DEF BInv
<1> QED BY <1>1, <1>2, <1>3, TypeCorrect, PTL DEF Spec
-----------------------------------------------------------------------------
(* The binding, when nobody else writes the lockfile: contents may come    *)
(* back here, but none is written once the targets have been loaded.       *)

\* Nobody but the run itself has written the lockfile, or is about to.
Undisturbed(r) == edits = 0 /\ \A q \in Additions \ {r} : pc[q] \in {"idle", "refused"}

OnlyAdditionsPrepare == \A r \in Runs : pc[r] = "prepare" => r \in Additions

\* From its targets to its record, what such a run installs.
Bound == \A r \in Runs : Undisturbed(r) =>
  /\ pc[r] \in Loaded => targets[r] = tree
  /\ pc[r] = "bindAfter" /\ verdict[r] = "installed" => targets[r] = tree
  /\ pc[r] \in {"acquire", "readChain", "publish"} /\ verdict[r] = "installed" => after[r] = targets[r]

RecordsOfEnded == \A f \in files : pc[f.run] = "recorded"

UInv == Undecided /\ OnlyAdditionsPrepare /\ Bound /\ RecordsOfEnded /\ RecordBindsInstalled

\* A run's step leaves the others where they stand, and what they have bound.
LEMMA OthersStay ==
  ASSUME TypeOK, NEW r \in Runs, Evaluation(r) \/ Bind(r) \/ Emit(r) \/ Kill(r), NEW q \in Runs \ {r}
  PROVE  pc'[q] = pc[q] /\ verdict'[q] = verdict[q] /\ targets'[q] = targets[q] /\ after'[q] = after[q]
BY DEF TypeOK, Goto, Decide, Block, store, binding, record, Evaluation, Bind, Emit, Begin, Capture,
       CaptureCheck, Prepare, Digest, LoadTargets, Evaluate, Recheck, Freeze, RecheckAfter, BindAfter,
       Acquire, AcquireTimesOut, ReadChain, Publish, EmitFails, Kill

\* A run undisturbed after a step was so before, and only its own preparation
\* has written the lockfile.
LEMMA UndisturbedBefore ==
  ASSUME TypeOK, OnlyAdditionsPrepare, [Next]_vars, NEW r \in Runs, Undisturbed(r)'
  PROVE  Undisturbed(r) /\ (UNCHANGED tree \/ Prepare(r))
<1>1. ASSUME NEW q \in Runs, Evaluation(q) \/ Bind(q) \/ Emit(q) \/ Kill(q)
      PROVE  Undisturbed(r) /\ (UNCHANGED tree \/ Prepare(r))
  <2>1. UNCHANGED edits /\ (UNCHANGED tree \/ Prepare(q))
    BY <1>1 DEF Evaluation, Bind, Emit, Begin, Capture, CaptureCheck, Prepare, Digest, LoadTargets,
         Evaluate, Recheck, Freeze, RecheckAfter, BindAfter, Acquire, AcquireTimesOut, ReadChain,
         Publish, EmitFails, Kill
  <2>2. pc'[q] \in {"idle", "refused"} => Begin(q)
    BY <1>1 DEF TypeOK, Goto, Block, Evaluation, Bind, Emit, Capture, CaptureCheck, Prepare, Digest,
         LoadTargets, Evaluate, Recheck, Freeze, RecheckAfter, BindAfter, Acquire, AcquireTimesOut,
         ReadChain, Publish, EmitFails, Kill
  <2>3. ASSUME NEW a \in Additions \ {r} PROVE pc[a] \in {"idle", "refused"}
    <3>1. a \in Runs /\ pc'[a] \in {"idle", "refused"}
      BY <2>3 DEF Undisturbed, Runs
    <3> QED BY <1>1, <2>2, <3>1, OthersStay DEF Begin, At
  <2>4. ASSUME Prepare(q) PROVE q = r
    <3>1. q \in Additions /\ pc'[q] \notin {"idle", "refused"}
      BY <2>4 DEF Prepare, At, Goto, TypeOK, OnlyAdditionsPrepare
    <3> QED BY <3>1 DEF Undisturbed
  <2> QED BY <2>1, <2>3, <2>4 DEF Undisturbed
<1>2. ~Edit
  BY DEF Edit, Undisturbed, TypeOK
<1>3. CASE UNCHANGED vars
  BY <1>3 DEF vars, Undisturbed
<1> QED BY <1>1, <1>2, <1>3 DEF Next, Finished

\* What a run's own step does to what it has bound.
LEMMA BoundStep ==
  ASSUME TypeOK, UInv, NEW r \in Runs, Evaluation(r) \/ Bind(r) \/ Emit(r) \/ Kill(r),
         Undisturbed(r), UNCHANGED tree \/ Prepare(r)
  PROVE  /\ pc'[r] \in Loaded => targets'[r] = tree'
         /\ pc'[r] = "bindAfter" /\ verdict'[r] = "installed" => targets'[r] = tree'
         /\ pc'[r] \in {"acquire", "readChain", "publish"} /\ verdict'[r] = "installed" => after'[r] = targets'[r]
<1> USE DEF TypeOK, UInv, Goto, At, Decide, Block, store, binding, record
<1>1. CASE Evaluation(r)
  BY <1>1 DEF Evaluation, Begin, Capture, CaptureCheck, Loaded, Digested, Undecided
<1>2. CASE Bind(r)
  BY <1>2 DEF Bind, Prepare, Digest, LoadTargets, Evaluate, Recheck, Freeze, RecheckAfter, Loaded, Digested,
       Undecided, Bound
<1>3. CASE Emit(r) \/ Kill(r)
  BY <1>3 DEF Emit, BindAfter, Acquire, AcquireTimesOut, ReadChain, Publish, EmitFails, Kill, Loaded, Digested,
       Bound
<1> QED BY <1>1, <1>2, <1>3

LEMMA UInvStep ==
  ASSUME TypeOK, UInv, NEW r \in Runs, Evaluation(r) \/ Bind(r) \/ Emit(r) \/ Kill(r), [Next]_vars
  PROVE  UInv'
<1> USE DEF TypeOK, UInv
<1>1. Undecided' /\ OnlyAdditionsPrepare'
  <2>1. /\ pc'[r] \in {"idle", "capture", "prepare", "digest"} \cup (Digested \ {"recheckAfter"}) => verdict'[r] # "installed"
        /\ pc'[r] = "prepare" => r \in Additions
    BY DEF Goto, At, Decide, Block, store, binding, record, Digested, Undecided, Evaluation, Bind, Emit, Begin, Capture,
         CaptureCheck, Prepare, Digest, LoadTargets, Evaluate, Recheck, Freeze, RecheckAfter, BindAfter,
         Acquire, AcquireTimesOut, ReadChain, Publish, EmitFails, Kill
  <2> QED BY <2>1, OthersStay DEF Undecided, OnlyAdditionsPrepare
<1>2. Bound'
  <2> SUFFICES ASSUME NEW q \in Runs, Undisturbed(q)'
               PROVE  /\ pc'[q] \in Loaded => targets'[q] = tree'
                      /\ pc'[q] = "bindAfter" /\ verdict'[q] = "installed" => targets'[q] = tree'
                      /\ pc'[q] \in {"acquire", "readChain", "publish"} /\ verdict'[q] = "installed"
                           => after'[q] = targets'[q]
    BY DEF Bound, Loaded, Digested
  <2>1. Undisturbed(q) /\ (UNCHANGED tree \/ Prepare(q))
    BY UndisturbedBefore
  <2>2. CASE q = r
    BY <2>1, <2>2, BoundStep
  <2>3. CASE q # r
    <3>1. pc'[q] = pc[q] /\ verdict'[q] = verdict[q] /\ targets'[q] = targets[q] /\ after'[q] = after[q]
      BY <2>3, OthersStay
    <3>2. UNCHANGED tree
      BY <2>1, <3>1 DEF Prepare, At, Goto
    <3> QED BY <2>1, <3>1, <3>2 DEF Bound
  <2> QED BY <2>2, <2>3
<1>3. pc[r] # "recorded"
  BY DEF At, Running, Ended, Evaluation, Bind, Emit, Begin, Capture, CaptureCheck, Prepare, Digest, LoadTargets,
       Evaluate, Recheck, Freeze, RecheckAfter, BindAfter, Acquire, AcquireTimesOut, ReadChain, Publish,
       EmitFails, Kill
<1>4. ASSUME NEW f \in files PROVE /\ f.run \in Runs /\ f.run # r /\ pc'[f.run] = "recorded"
                                   /\ targets'[f.run] = targets[f.run]
  <2>1. f.run \in Runs /\ pc[f.run] = "recorded"
    BY <1>4 DEF RecordsOfEnded, Records
  <2> QED BY <1>3, <2>1, OthersStay
<1>5. CASE Publish(r)
  <2> DEFINE n == [seq |-> position[r].seq, prev |-> position[r].prev,
                   digest |-> lastDigest', run |-> r, verdict |-> verdict[r],
                   before |-> before[r], after |-> after[r]]
  <2>1. /\ files' = files \cup {n} /\ pc'[r] = "recorded" /\ UNCHANGED targets
        /\ n.run = r /\ n.verdict = verdict[r] /\ n.after = after[r]
    BY <1>5 DEF Publish, Goto, binding
  <2> HIDE DEF n
  <2>2. RecordsOfEnded'
    BY <1>4, <2>1 DEF RecordsOfEnded
  <2>3. ASSUME edits' = 0, NEW f \in files', f.verdict = "installed",
               \A q \in Additions \ {f.run} : pc'[q] \in {"idle", "refused"}
        PROVE  f.after = targets'[f.run]
    <3>1. f.run \in Runs
      BY <1>4, <2>1
    <3>2. Undisturbed(f.run)
      BY <2>3, <3>1, UndisturbedBefore DEF Undisturbed
    <3>3. CASE f = n
      BY <1>5, <2>1, <2>3, <3>2, <3>3 DEF Bound, Publish, At
    <3>4. CASE f \in files
      BY <1>4, <2>3, <3>2, <3>4 DEF RecordBindsInstalled, Undisturbed
    <3> QED BY <2>1, <3>3, <3>4
  <2>4. RecordBindsInstalled'
    BY <2>3 DEF RecordBindsInstalled
  <2> QED BY <1>1, <1>2, <2>2, <2>4
<1>6. CASE ~Publish(r)
  <2>1. UNCHANGED files
    BY <1>6 DEF store, Evaluation, Bind, Emit, Begin, Capture, CaptureCheck, Prepare, Digest, LoadTargets,
         Evaluate, Recheck, Freeze, RecheckAfter, BindAfter, Acquire, AcquireTimesOut, ReadChain,
         EmitFails, Kill
  <2>2. RecordsOfEnded'
    BY <1>4, <2>1 DEF RecordsOfEnded
  <2>3. ASSUME edits' = 0, NEW f \in files, f.verdict = "installed",
               \A q \in Additions \ {f.run} : pc'[q] \in {"idle", "refused"}
        PROVE  f.after = targets'[f.run]
    <3>1. Undisturbed(f.run)
      BY <1>4, <2>3, UndisturbedBefore DEF Undisturbed
    <3> QED BY <1>4, <2>3, <3>1 DEF RecordBindsInstalled, Undisturbed
  <2>4. RecordBindsInstalled'
    BY <2>1, <2>3 DEF RecordBindsInstalled
  <2> QED BY <1>1, <1>2, <2>2, <2>4
<1> QED BY <1>5, <1>6

LEMMA UInvAlways == Spec => []UInv
<1>1. Init => UInv
  BY DEF Init, UInv, Undecided, OnlyAdditionsPrepare, Bound, Loaded, Digested, RecordsOfEnded, RecordBindsInstalled
<1>2. TypeOK /\ UInv /\ [Next]_vars => UInv'
  <2> SUFFICES ASSUME TypeOK, UInv, [Next]_vars PROVE UInv'
    OBVIOUS
  <2>1. ASSUME Edit PROVE UInv'
    <3>1. edits' # 0 /\ UNCHANGED <<files, pc, verdict>>
      BY <2>1 DEF Edit, TypeOK, store, record
    <3> QED BY <3>1 DEF UInv, Undecided, OnlyAdditionsPrepare, Bound, Undisturbed, RecordsOfEnded,
                        RecordBindsInstalled
  <2>2. ASSUME UNCHANGED vars PROVE UInv'
    BY <2>2 DEF vars, store, binding, record, UInv, Undecided, OnlyAdditionsPrepare, Bound, Undisturbed,
         RecordsOfEnded, RecordBindsInstalled
  <2> QED BY <2>1, <2>2, UInvStep DEF Next, Finished
<1> QED BY <1>1, <1>2, TypeCorrect, PTL DEF Spec

\* The record of a successful install binds the lockfile it evaluated, if
\* nobody else wrote the lockfile: for any number of overlapping runs, killed or
\* not, and even when the contents of the lockfile come back.
THEOREM RecordIsBound == Spec => []RecordBindsInstalled
<1>1. UInv => RecordBindsInstalled
  BY DEF UInv
<1> QED BY <1>1, UInvAlways, PTL

\* What such a run has frozen is what it has evaluated.
FrozenBound == \A r \in Runs :
  Undisturbed(r) /\ (pc[r] = "recheckAfter" \/ (verdict[r] = "installed" /\ pc[r] \in Reported))
    => frozen[r] = targets[r]

LEMMA FrozenBoundStep ==
  ASSUME TypeOK, UInv, FrozenBound, NEW r \in Runs, Evaluation(r) \/ Bind(r) \/ Emit(r) \/ Kill(r), [Next]_vars
  PROVE  FrozenBound'
<1> USE DEF TypeOK
<1> SUFFICES ASSUME NEW q \in Runs, Undisturbed(q)',
                    pc'[q] = "recheckAfter" \/ (verdict'[q] = "installed" /\ pc'[q] \in Reported)
             PROVE  frozen'[q] = targets'[q]
  BY DEF FrozenBound
<1>1. Undisturbed(q)
  BY UndisturbedBefore DEF UInv
<1>2. CASE Freeze(r) /\ q = r
  BY <1>1, <1>2 DEF Freeze, At, UInv, Bound, Loaded, Digested
<1>3. CASE q # r
  <2>1. frozen'[q] = frozen[q]
    BY <1>3 DEF Goto, Decide, Block, store, binding, record, Evaluation, Bind, Emit, Begin, Capture, CaptureCheck,
         Prepare, Digest, LoadTargets, Evaluate, Recheck, Freeze, RecheckAfter, BindAfter, Acquire,
         AcquireTimesOut, ReadChain, Publish, EmitFails, Kill
  <2> QED BY <1>1, <1>3, <2>1, OthersStay DEF FrozenBound
<1>4. CASE ~Freeze(r) /\ q = r
  <2>1. /\ frozen'[r] = frozen[r] /\ targets'[r] = targets[r]
        /\ pc[r] = "recheckAfter" \/ (verdict[r] = "installed" /\ pc[r] \in Reported)
    BY <1>4 DEF UInv, Undecided, Digested, Reported, Goto, At, Decide, Block, store, binding, record, Evaluation, Bind,
         Emit, Begin, Capture, CaptureCheck, Prepare, Digest, LoadTargets, Evaluate, Recheck, RecheckAfter,
         BindAfter, Acquire, AcquireTimesOut, ReadChain, Publish, EmitFails, Kill
  <2> QED BY <1>1, <1>4, <2>1 DEF FrozenBound
<1> QED BY <1>2, <1>3, <1>4

\* Even when contents come back, an install that had the lockfile to itself
\* installed what it had evaluated: InstalledWasEvaluated for such a run.
THEOREM LoneInstallIsBound ==
  Spec => [](\A r \in Runs : Undisturbed(r) /\ verdict[r] = "installed" /\ pc[r] \in Reported
                               => frozen[r] = targets[r])
<1>1. Init => FrozenBound
  BY DEF Init, FrozenBound, Reported
<1>2. TypeOK /\ UInv /\ FrozenBound /\ [Next]_vars => FrozenBound'
  <2> SUFFICES ASSUME TypeOK, UInv, FrozenBound, [Next]_vars PROVE FrozenBound'
    OBVIOUS
  <2>1. ASSUME Edit PROVE FrozenBound'
    BY <2>1 DEF Edit, TypeOK, FrozenBound, Undisturbed
  <2>2. ASSUME UNCHANGED vars PROVE FrozenBound'
    BY <2>2 DEF vars, binding, record, FrozenBound, Undisturbed
  <2> QED BY <2>1, <2>2, FrozenBoundStep DEF Next, Finished
<1>3. FrozenBound => \A r \in Runs : Undisturbed(r) /\ verdict[r] = "installed" /\ pc[r] \in Reported
                                       => frozen[r] = targets[r]
  BY DEF FrozenBound
<1> QED BY <1>1, <1>2, <1>3, UInvAlways, TypeCorrect, PTL DEF Spec
=============================================================================
