------------------------- MODULE TrustSurface_proofs -------------------------
(***************************************************************************)
(* Proofs about TrustSurface, for any number of runs of each kind.  Every  *)
(* baseline on disk, in flight or in a run's hands was reviewed.  A run    *)
(* that has the project to itself writes what it has read, so that its     *)
(* books agree whatever it met; and one writer beside readers leaves books *)
(* whose differences tell at which of its steps it stands.                 *)
(***************************************************************************)
EXTENDS TrustSurface, TLAPS

\* A reconciliation that looks at the mirror has read a chain.
ChainRead ==
  \A r \in Runs : pc[r] \in {"readMirror", "heal", "healing"} => seenText[r] # <<>>

TInv == TypeOK /\ ChainRead
-----------------------------------------------------------------------------
(* The operators *)

\* The findings have names the program knows.
LEMMA FindingKinds ==
  ASSUME NEW lock, NEW files, NEW text, NEW m
  PROVE  /\ DriftFindings(lock, files) \in SUBSET Kinds
         /\ LedgerFindings(lock, text) \in SUBSET Kinds
         /\ MirrorFindings(text, m) \in SUBSET Kinds
BY DEF DriftFindings, LedgerFindings, MirrorFindings, Soft, Kinds

\* A chain that is not missing has a head, which is a number.
LEMMA HeadIsHash ==
  ASSUME NEW text \in Seq(Entries), text # <<>>
  PROVE  ChainHead(text) \in Nat
<1>1. Len(text) \in 1..Len(text)
  OBVIOUS
<1>2. text[Len(text)] \in Entries
  BY <1>1
<1> QED BY <1>2 DEF ChainHead, Entries

LEMMA PrevHashType ==
  ASSUME NEW text \in Seq(Entries)
  PROVE  PrevHash(text) \in Nat
BY HeadIsHash DEF PrevHash, ChainStatus
-----------------------------------------------------------------------------
(* Types *)

\* What the states on disk at first have in common.
LEMMA DiskInit ==
  ASSUME Init
  PROVE  /\ trustLock \in Locks \cup {NoLock, BadLock}
         /\ ledger \in [exists : BOOLEAN, text : Seq(Entries)]
         /\ {mirror, lastHash} \subseteq Nat
         /\ reviewed \subseteq Baselines
<1> DEFINE b(m) == [mode |-> m, files |-> surface]
<1>1. surface \in Surfaces
  BY DEF Init
<1>2. \A m \in Modes : b(m) \in Baselines
  BY <1>1 DEF Baselines
<1>3. \A h, p \in Nat, m \in Modes : Entry(h, p, b(m)) \in Entries
  BY <1>2 DEF Entry, Entries
<1> HIDE DEF b
<1>4. CASE InitUnlocked
  BY <1>4 DEF InitUnlocked
<1>5. ASSUME NEW m \in Modes, InitLocked(m)
      PROVE  /\ trustLock \in Locks
             /\ ledger \in [exists : BOOLEAN, text : Seq(Entries)]
             /\ {mirror, lastHash} \subseteq Nat
             /\ reviewed \subseteq Baselines
  <2>1. /\ trustLock = [baseline |-> b(m), ledgerHead |-> 1]
        /\ ledger = [exists |-> TRUE, text |-> <<Entry(1, 0, b(m))>>]
        /\ mirror \in {0, 1} /\ lastHash = 1 /\ reviewed = {b(m)}
    BY <1>5 DEF InitLocked, b
  <2> QED BY <2>1, <1>2, <1>3 DEF Locks
<1>6. CASE InitAny
  <2> DEFINE e == Entry(1, 0, b("warn"))
             f == Entry(2, 1, b("warn"))
  <2>1. e \in Entries /\ f \in Entries
    BY <1>3 DEF Modes
  <2>2. ledger \in [exists : {TRUE}, text : {<<>>, <<e>>, <<f>>, <<e, f>>}]
    BY <1>6 DEF InitAny, b
  <2>3. trustLock \in {NoLock, BadLock} \cup
           [baseline : [mode : Modes, files : {surface}], ledgerHead : {1, 2}]
    BY <1>6 DEF InitAny
  <2>4. mirror \in {0, 1, 2, 3} /\ lastHash = 3 /\ reviewed = [mode : Modes, files : {surface}]
    BY <1>6 DEF InitAny
  <2> HIDE DEF e, f
  <2>5. ledger \in [exists : BOOLEAN, text : Seq(Entries)]
    <3>1. {<<>>, <<e>>, <<f>>, <<e, f>>} \subseteq Seq(Entries)
      BY <2>1
    <3> QED BY <3>1, <2>2
  <2>6. trustLock \in Locks \cup {NoLock, BadLock}
    BY <2>3, <1>1 DEF Locks, Baselines
  <2> QED BY <2>4, <2>5, <2>6, <1>1 DEF Baselines
<1> QED BY <1>4, <1>5, <1>6 DEF Init

LEMMA TInvInit == Init => TInv
<1> SUFFICES ASSUME Init PROVE TInv
  OBVIOUS
<1> USE DEF Init
<1>1. DiskOK
  BY DiskInit DEF DiskOK
<1>2. CheckOK
  BY DEF CheckOK
<1>3. WritingOK
  BY DiskInit DEF WritingOK, Baselines, Modes
<1>4. PcOK /\ ChainRead
  BY DEF PcOK, ChainRead, Places
<1> QED BY <1>1, <1>2, <1>3, <1>4 DEF TInv, TypeOK
-----------------------------------------------------------------------------
(* Which actions write which variables *)

\* The tracked files, the lock, the ledger and the mirror.
LEMMA DiskFrame ==
  ASSUME NEW r \in Runs, Proceed(r) \/ Kill(r)
  PROVE  \/ OpenMirror(r) \/ Heal(r) \/ Scaffold(r) \/ Acquire(r) \/ Truncate(r) \/ AppendEntry(r)
         \/ WriteMirror(r) \/ WriteTmp(r) \/ Rename(r) \/ RmLock(r) \/ RmLedger(r) \/ RmMirror(r)
         \/ Kill(r)
         \/ UNCHANGED <<surface, disk, edits>>
BY DEF Proceed, Reconcile, Lock, Approve, WriteBaseline, Unlock, disk, check, writing,
       Begin, Find, FindMirror, ReadLock, Snapshot, ReadChain, ReadMirror, Report,
       ContextLock, ContextMirror, PreScaffold, Relock, Rescan, Gate, ReadMode, Review,
       Confirm, Recheck, Chain, AcquireTimesOut, ReadHead, ReadText

\* What a run has seen.
LEMMA CheckFrame ==
  ASSUME NEW r \in Runs, Proceed(r) \/ Kill(r)
  PROVE  \/ Find(r) \/ FindMirror(r) \/ ReadLock(r) \/ Snapshot(r) \/ ReadChain(r) \/ ReadMirror(r)
         \/ Acquire(r) \/ ReadText(r)
         \/ UNCHANGED check
BY DEF Proceed, Reconcile, Lock, Approve, WriteBaseline, Unlock, disk, check, writing,
       Begin, OpenMirror, Heal, Report, ContextLock, ContextMirror, PreScaffold, Relock,
       Scaffold, Rescan, Gate, ReadMode, Review, Confirm, Recheck, Chain,
       AcquireTimesOut, ReadHead, Truncate, AppendEntry, WriteMirror, WriteTmp, Rename, RmLock,
       RmLedger, RmMirror, Kill

\* What a run is going to write.
LEMMA WritingFrame ==
  ASSUME NEW r \in Runs, Proceed(r) \/ Kill(r)
  PROVE  \/ PreScaffold(r) \/ Relock(r) \/ Rescan(r) \/ ReadMode(r) \/ Review(r) \/ Chain(r)
         \/ Acquire(r) \/ ReadHead(r) \/ AppendEntry(r)
         \/ UNCHANGED writing
BY DEF Proceed, Reconcile, Lock, Approve, WriteBaseline, Unlock, disk, check, writing,
       Begin, Find, FindMirror, ReadLock, Snapshot, ReadChain, ReadMirror, OpenMirror,
       Heal, Report, ContextLock, ContextMirror, Scaffold, Gate, Confirm, Recheck,
       AcquireTimesOut, ReadText, Truncate, WriteMirror, WriteTmp, Rename, RmLock, RmLedger,
       RmMirror, Kill

\* What has been reviewed.
LEMMA ReviewedFrame ==
  ASSUME NEW r \in Runs, Proceed(r) \/ Kill(r)
  PROVE  \/ PreScaffold(r) \/ Rescan(r) \/ Confirm(r)
         \/ UNCHANGED reviewed
BY DEF Proceed, Reconcile, Lock, Approve, WriteBaseline, Unlock, disk, check, writing,
       Begin, Find, FindMirror, ReadLock, Snapshot, ReadChain, ReadMirror, OpenMirror,
       Heal, Report, ContextLock, ContextMirror, Relock, Scaffold, Gate, ReadMode,
       Review, Recheck, Chain, Acquire, AcquireTimesOut, ReadHead, ReadText, Truncate,
       AppendEntry, WriteMirror, WriteTmp, Rename, RmLock, RmLedger, RmMirror, Kill

\* The ledger.
LEMMA LedgerFrame ==
  ASSUME NEW r \in Runs, Proceed(r) \/ Kill(r)
  PROVE  \/ Truncate(r) \/ AppendEntry(r) \/ RmLedger(r)
         \/ UNCHANGED ledger
BY DEF Proceed, Reconcile, Lock, Approve, WriteBaseline, Unlock, disk, check, writing,
       Begin, Find, FindMirror, ReadLock, Snapshot, ReadChain, ReadMirror, OpenMirror,
       Heal, Report, ContextLock, ContextMirror, PreScaffold, Relock, Scaffold, Rescan,
       Gate, ReadMode, Review, Confirm, Recheck, Chain, Acquire, AcquireTimesOut,
       ReadHead, ReadText, WriteMirror, WriteTmp, Rename, RmLock, RmMirror, Kill

\* The tracked files.
LEMMA SurfaceFrame ==
  ASSUME NEW r \in Runs, Proceed(r) \/ Kill(r)
  PROVE  Scaffold(r) \/ UNCHANGED surface
BY DEF Proceed, Reconcile, Lock, Approve, WriteBaseline, Unlock,
       Begin, Find, FindMirror, ReadLock, Snapshot, ReadChain, ReadMirror, OpenMirror,
       Heal, Report, ContextLock, ContextMirror, PreScaffold, Relock, Rescan,
       Gate, ReadMode, Review, Confirm, Recheck, Chain, Acquire, AcquireTimesOut, ReadHead,
       ReadText, Truncate, AppendEntry, WriteMirror, WriteTmp, Rename, RmLock, RmLedger,
       RmMirror, Kill

\* The lock and its temporary file.
LEMMA LockFrame ==
  ASSUME NEW r \in Runs, Proceed(r) \/ Kill(r)
  PROVE  \/ WriteTmp(r) \/ Rename(r) \/ RmLock(r)
         \/ UNCHANGED <<trustLock, tmpLock>>
BY DEF Proceed, Reconcile, Lock, Approve, WriteBaseline, Unlock, disk, check, writing,
       Begin, Find, FindMirror, ReadLock, Snapshot, ReadChain, ReadMirror, OpenMirror,
       Heal, Report, ContextLock, ContextMirror, PreScaffold, Relock, Scaffold, Rescan,
       Gate, ReadMode, Review, Confirm, Recheck, Chain, Acquire, AcquireTimesOut,
       ReadHead, ReadText, Truncate, AppendEntry, WriteMirror, RmLedger, RmMirror, Kill

-----------------------------------------------------------------------------
(* A step of a run keeps the types *)

LEMMA Moves ==
  ASSUME NEW r \in Runs, Proceed(r) \/ Kill(r)
  PROVE  \E l \in Places : Goto(r, l)
<1> USE DEF Places, Ended
<1>1. CASE Begin(r)
  BY <1>1 DEF Begin
<1>2. CASE Find(r)
  BY <1>2 DEF Find
<1>3. CASE FindMirror(r)
  BY <1>3 DEF FindMirror
<1>4. CASE ReadLock(r)
  BY <1>4 DEF ReadLock
<1>5. CASE Snapshot(r)
  BY <1>5 DEF Snapshot
<1>6. CASE ReadChain(r)
  BY <1>6 DEF ReadChain
<1>7. CASE ReadMirror(r)
  BY <1>7 DEF ReadMirror
<1>8. CASE OpenMirror(r)
  BY <1>8 DEF OpenMirror
<1>9. CASE Heal(r)
  BY <1>9 DEF Heal
<1>10. CASE Report(r)
  BY <1>10 DEF Report
<1>11. CASE ContextLock(r)
  BY <1>11 DEF ContextLock, Found
<1>12. CASE ContextMirror(r)
  BY <1>12 DEF ContextMirror, Found, NotFound
<1>13. CASE PreScaffold(r)
  BY <1>13 DEF PreScaffold
<1>14. CASE Relock(r)
  BY <1>14 DEF Relock
<1>15. CASE Scaffold(r)
  BY <1>15 DEF Scaffold
<1>16. CASE Rescan(r)
  BY <1>16 DEF Rescan
<1>17. CASE Gate(r)
  BY <1>17 DEF Gate
<1>18. CASE ReadMode(r)
  BY <1>18 DEF ReadMode
<1>19. CASE Review(r)
  BY <1>19 DEF Review
<1>20. CASE Confirm(r)
  BY <1>20 DEF Confirm
<1>21. CASE Recheck(r)
  BY <1>21 DEF Recheck
<1>22. CASE Chain(r)
  BY <1>22 DEF Chain
<1>23. CASE Acquire(r)
  BY <1>23 DEF Acquire
<1>24. CASE AcquireTimesOut(r)
  BY <1>24 DEF AcquireTimesOut
<1>25. CASE ReadHead(r)
  BY <1>25 DEF ReadHead
<1>26. CASE ReadText(r)
  BY <1>26 DEF ReadText
<1>27. CASE Truncate(r)
  BY <1>27 DEF Truncate
<1>28. CASE AppendEntry(r)
  BY <1>28 DEF AppendEntry
<1>29. CASE WriteMirror(r)
  BY <1>29 DEF WriteMirror
<1>30. CASE WriteTmp(r)
  BY <1>30 DEF WriteTmp
<1>31. CASE Rename(r)
  BY <1>31 DEF Rename
<1>32. CASE RmLock(r)
  BY <1>32 DEF RmLock
<1>33. CASE RmLedger(r)
  BY <1>33 DEF RmLedger
<1>34. CASE RmMirror(r)
  BY <1>34 DEF RmMirror
<1>35. CASE Kill(r)
  BY <1>35 DEF Kill
<1> QED
  BY <1>1, <1>2, <1>3, <1>4, <1>5, <1>6, <1>7, <1>8, <1>9, <1>10, <1>11, <1>12, <1>13, <1>14, <1>15, <1>16, <1>17, <1>18, <1>19, <1>20, <1>21, <1>22, <1>23, <1>24, <1>25, <1>26, <1>27, <1>28, <1>29, <1>30, <1>31, <1>32, <1>33, <1>34, <1>35
     DEF Proceed, Reconcile, Lock, Approve, WriteBaseline, Unlock

LEMMA PcStep ==
  ASSUME PcOK, NEW r \in Runs, Proceed(r) \/ Kill(r)
  PROVE  PcOK'
BY Moves DEF PcOK, Goto

LEMMA DiskStep ==
  ASSUME TypeOK, ChainRead, NEW r \in Runs, Proceed(r) \/ Kill(r)
  PROVE  DiskOK'
<1> USE DEF TypeOK, DiskOK, disk, check, writing
<1>1. CASE OpenMirror(r)
  BY <1>1 DEF OpenMirror
<1>2. CASE Heal(r)
  <2>1. mirror' \in Nat
    BY <1>2, HeadIsHash DEF Heal, ChainRead, At, CheckOK
  <2> QED BY <2>1, <1>2 DEF Heal
<1>3. CASE Scaffold(r)
  BY <1>3 DEF Scaffold, Surfaces
<1>4. CASE Acquire(r)
  BY <1>4 DEF Acquire, LedgerLock!Acquire
<1>5. CASE Truncate(r)
  BY <1>5 DEF Truncate
<1>6. CASE AppendEntry(r)
  <2>1. Entry(lastHash', head[r], target[r]) \in Entries
    BY <1>6 DEF AppendEntry, Entry, Entries, WritingOK
  <2>2. Append(seenText[r], Entry(lastHash', head[r], target[r])) \in Seq(Entries)
    BY <2>1 DEF CheckOK
  <2>3. ledger' \in [exists : BOOLEAN, text : Seq(Entries)]
    BY <2>2, <1>6 DEF AppendEntry
  <2> QED BY <2>3, <1>6 DEF AppendEntry
<1>7. CASE WriteMirror(r)
  BY <1>7 DEF WriteMirror, LedgerLock!Release, WritingOK
<1>8. CASE WriteTmp(r)
  BY <1>8 DEF WriteTmp, Locks, WritingOK
<1>9. CASE Rename(r)
  BY <1>9 DEF Rename
<1>10. CASE RmLock(r)
  BY <1>10 DEF RmLock
<1>11. CASE RmLedger(r)
  BY <1>11 DEF RmLedger
<1>12. CASE RmMirror(r)
  BY <1>12 DEF RmMirror
<1>13. CASE Kill(r)
  BY <1>13 DEF Kill
<1>14. CASE UNCHANGED <<surface, disk, edits>>
  BY <1>14
<1> QED BY <1>1, <1>2, <1>3, <1>4, <1>5, <1>6, <1>7, <1>8, <1>9, <1>10, <1>11, <1>12,
           <1>13, <1>14, DiskFrame

LEMMA CheckStep ==
  ASSUME TypeOK, NEW r \in Runs, Proceed(r) \/ Kill(r)
  PROVE  CheckOK'
<1> USE DEF TypeOK, CheckOK
<1>1. CASE Find(r)
  BY <1>1 DEF Find
<1>2. CASE FindMirror(r)
  BY <1>2 DEF FindMirror, Kinds
<1>3. CASE ReadLock(r)
  <2>1. trustLock \in {NoLock, BadLock} \/ trustLock \in Locks
    BY DEF DiskOK
  <2>2. {"lock-unreadable"} \in SUBSET Kinds
    BY DEF Kinds
  <2> QED BY <2>1, <2>2, <1>3 DEF ReadLock
<1>4. CASE Snapshot(r)
  BY <1>4, FindingKinds DEF Snapshot, DiskOK
<1>5. CASE ReadChain(r)
  BY <1>5, FindingKinds DEF ReadChain, DiskOK
<1>6. CASE ReadMirror(r)
  BY <1>6, FindingKinds DEF ReadMirror
<1>7. CASE Acquire(r)
  BY <1>7 DEF Acquire
<1>8. CASE ReadText(r)
  BY <1>8 DEF ReadText, DiskOK
<1>9. CASE UNCHANGED check
  BY <1>9 DEF check
<1> QED BY <1>1, <1>2, <1>3, <1>4, <1>5, <1>6, <1>7, <1>8, <1>9, CheckFrame

LEMMA WritingStep ==
  ASSUME TypeOK, NEW r \in Runs, Proceed(r) \/ Kill(r)
  PROVE  WritingOK'
<1> USE DEF TypeOK, WritingOK
<1>1. CASE PreScaffold(r)
  <2>1. [mode |-> IF r \in StrictRuns THEN "strict" ELSE "warn", files |-> surface] \in Baselines
    BY DEF Baselines, Modes, DiskOK
  <2>2. target' \in [Runs -> Baselines]
    BY <2>1, <1>1 DEF PreScaffold
  <2> QED BY <2>2, <1>1 DEF PreScaffold
<1>2. CASE Relock(r)
  <2>1. seenLock[r] # NoLock => seenLock[r].baseline \in Baselines
    BY DEF CheckOK, Locks
  <2> QED BY <2>1, <1>2 DEF Relock
<1>3. CASE Rescan(r)
  <2>1. [target[r] EXCEPT !.files.ci = surface.ci] \in Baselines
    <3>1. target[r] \in [mode : Modes, files : Surfaces] /\ surface.ci \in BOOLEAN
      BY DEF Baselines, Surfaces, DiskOK
    <3>2. [target[r].files EXCEPT !.ci = surface.ci] \in Surfaces
      BY <3>1 DEF Surfaces
    <3> QED BY <3>1, <3>2 DEF Baselines
  <2>2. target' \in [Runs -> Baselines]
    BY <1>3 DEF Rescan, Baselines, DiskOK
  <2> QED BY <2>1, <2>2, <1>3 DEF Rescan
<1>4. CASE ReadMode(r)
  <2>1. \A lock \in Locks : lock.baseline.mode \in Modes
    BY DEF Locks, Baselines
  <2>2. \E m \in Modes : target' = [target EXCEPT ![r].mode = m]
    BY <2>1, <1>4 DEF ReadMode, DiskOK, CheckOK, Modes
  <2>3. target' \in [Runs -> Baselines]
    BY <2>2 DEF Baselines
  <2> QED BY <2>3, <1>4 DEF ReadMode
<1>5. CASE Review(r)
  <2>1. target' \in [Runs -> Baselines]
    BY <1>5 DEF Review, Baselines, DiskOK
  <2> QED BY <2>1, <1>5 DEF Review
<1>6. CASE Confirm(r)
  BY <1>6 DEF Confirm, writing
<1>7. CASE Chain(r)
  BY <1>7 DEF Chain
<1>8. CASE Acquire(r)
  BY <1>8 DEF Acquire
<1>9. CASE ReadHead(r)
  BY <1>9, PrevHashType DEF ReadHead, DiskOK
<1>10. CASE AppendEntry(r)
  BY <1>10 DEF AppendEntry, DiskOK
<1>11. CASE UNCHANGED <<writing, reviewed>>
  BY <1>11 DEF writing
<1> QED BY <1>1, <1>2, <1>3, <1>4, <1>5, <1>6, <1>7, <1>8, <1>9, <1>10, <1>11,
           WritingFrame, ReviewedFrame

\* A step of one run leaves the others where they stand.
LEMMA OthersStay ==
  ASSUME TypeOK, NEW r \in Runs, Proceed(r) \/ Kill(r), NEW q \in Runs \ {r}
  PROVE  /\ pc'[q] = pc[q]
         /\ findings'[q] = findings[q] /\ seenLock'[q] = seenLock[q]
         /\ seenFiles'[q] = seenFiles[q] /\ seenText'[q] = seenText[q]
         /\ target'[q] = target[q] /\ fresh'[q] = fresh[q] /\ head'[q] = head[q]
<1> USE DEF TypeOK, PcOK, CheckOK, WritingOK
<1>1. pc'[q] = pc[q]
  BY Moves DEF Goto
<1>2. /\ findings'[q] = findings[q] /\ seenLock'[q] = seenLock[q]
      /\ seenFiles'[q] = seenFiles[q] /\ seenText'[q] = seenText[q]
  BY CheckFrame
     DEF check, Find, FindMirror, ReadLock, Snapshot, ReadChain, ReadMirror, Acquire, ReadText
<1>3. target'[q] = target[q] /\ fresh'[q] = fresh[q] /\ head'[q] = head[q]
  BY WritingFrame
     DEF writing, PreScaffold, Relock, Rescan, ReadMode, Review, Chain, Acquire, ReadHead,
         AppendEntry
<1> QED BY <1>1, <1>2, <1>3

\* Once a chain has been read, it stays in view until the mirror is settled.
LEMMA ChainReadStep ==
  ASSUME TypeOK, ChainRead, NEW r \in Runs, Proceed(r) \/ Kill(r)
  PROVE  ChainRead'
<1> USE DEF TypeOK, PcOK, CheckOK, ChainRead, Goto
<1>1. CASE ReadChain(r)
  BY <1>1 DEF ReadChain, LedgerFindings, ChainStatus
<1>2. CASE ReadMirror(r)
  BY <1>2 DEF ReadMirror, At
<1>3. CASE OpenMirror(r)
  BY <1>3 DEF OpenMirror, At, check
<1>4. ASSUME ~ReadChain(r), ~ReadMirror(r), ~OpenMirror(r)
      PROVE  ChainRead'
  <2>1. pc'[r] \notin {"readMirror", "heal", "healing"}
    BY <1>4 DEF Proceed, Reconcile, Lock, Approve, WriteBaseline, Unlock, Found, NotFound,
       Begin, Find, FindMirror, ReadLock, Snapshot, Heal, Report, ContextLock,
       ContextMirror, PreScaffold, Relock, Scaffold, Rescan, Gate, ReadMode, Review,
       Confirm, Recheck, Chain, Acquire, AcquireTimesOut, ReadHead, ReadText, Truncate,
       AppendEntry, WriteMirror, WriteTmp, Rename, RmLock, RmLedger, RmMirror, Kill
  <2>2. \A q \in Runs \ {r} : pc'[q] = pc[q] /\ seenText'[q] = seenText[q]
    BY OthersStay
  <2> QED BY <2>1, <2>2
<1> QED BY <1>1, <1>2, <1>3, <1>4

LEMMA TInvNext == TInv /\ [Next]_vars => TInv'
<1> SUFFICES ASSUME TInv, [Next]_vars PROVE TInv'
  OBVIOUS
<1>1. ASSUME NEW r \in Runs, Proceed(r) \/ Kill(r) PROVE TInv'
  BY <1>1, PcStep, DiskStep, CheckStep, WritingStep, ChainReadStep DEF TInv, TypeOK
<1>2. CASE Edit
  <2>1. surface' \in Surfaces /\ edits' \in Nat
    <3>1. PICK c \in Contents, t \in Texts : surface' = [surface EXCEPT !.content = c, !.text = t]
      BY <1>2 DEF Edit
    <3>2. surface \in Surfaces /\ edits \in Nat
      BY DEF TInv, TypeOK, DiskOK
    <3>3. surface' \in Surfaces
      BY <3>1, <3>2 DEF Surfaces
    <3>4. edits' \in Nat
      BY <3>2, <1>2 DEF Edit
    <3> QED BY <3>3, <3>4
  <2> QED BY <2>1, <1>2 DEF Edit, TInv, TypeOK, PcOK, DiskOK, CheckOK, WritingOK, ChainRead,
                            disk, check, writing
<1>3. CASE UNCHANGED vars
  BY <1>3 DEF vars, disk, check, writing, TInv, TypeOK, PcOK, DiskOK, CheckOK, WritingOK,
              ChainRead
<1> QED BY <1>1, <1>2, <1>3 DEF Next, Finished

\* The variables keep their types: every step of every command, of the people
\* who edit the files, and of a run that is killed.
THEOREM TypeCorrect == Spec => []TypeOK
<1>1. Init => TInv
  BY TInvInit
<1>2. TInv /\ [Next]_vars => TInv'
  BY TInvNext
<1>3. TInv => TypeOK
  BY DEF TInv
<1> QED BY <1>1, <1>2, <1>3, PTL DEF Spec
-----------------------------------------------------------------------------
(* What a reconciliation knows: the drift it saw stays among its findings  *)
(* up to its verdict.                                                      *)

Unread == {"idle", "context", "contextMirror", "find", "findMirror", "readLock"}
Compared == {"readChain", "readMirror", "heal", "healing", "checked"}

DriftSeen(r) == DriftFindings(seenLock[r], seenFiles[r])

NothingRead == \A r \in Runs : pc[r] \in Unread => seenLock[r] = NoLock

DriftKept ==
  \A r \in Runs : pc[r] \in Compared /\ seenLock[r] # NoLock => DriftSeen(r) \subseteq findings[r]

PassedClean ==
  \A r \in Runs : pc[r] = "passed" /\ seenLock[r] # NoLock => DriftSeen(r) \subseteq {"warning"}

DInv == NothingRead /\ DriftKept /\ PassedClean

LEMMA DInvStep ==
  ASSUME TInv, DInv, NEW r \in Runs, Proceed(r) \/ Kill(r)
  PROVE  DInv'
<1> USE DEF TInv, TypeOK, PcOK, CheckOK, Goto, At
<1> DEFINE Kept ==
      /\ pc'[r] \in Unread => seenLock'[r] = NoLock
      /\ pc'[r] \in Compared /\ seenLock'[r] # NoLock => DriftSeen(r)' \subseteq findings'[r]
      /\ pc'[r] = "passed" /\ seenLock'[r] # NoLock => DriftSeen(r)' \subseteq {"warning"}
<1> SUFFICES Kept
  <2>1. ASSUME NEW q \in Runs \ {r}
        PROVE  /\ pc'[q] = pc[q] /\ seenLock'[q] = seenLock[q] /\ findings'[q] = findings[q]
               /\ DriftSeen(q)' = DriftSeen(q)
    BY OthersStay DEF DriftSeen
  <2> HIDE DEF DriftSeen
  <2> QED BY <2>1 DEF DInv, NothingRead, DriftKept, PassedClean
<1>1. CASE Find(r) \/ FindMirror(r)
  BY <1>1 DEF Find, FindMirror, DInv, NothingRead, Unread
<1>2. CASE ReadLock(r)
  BY <1>2 DEF ReadLock, DInv, NothingRead, Unread, Compared
<1>3. CASE Snapshot(r)
  BY <1>3 DEF Snapshot, Unread, DriftSeen
<1>4. CASE ReadChain(r) \/ ReadMirror(r)
  BY <1>4 DEF ReadChain, ReadMirror, DInv, DriftKept, Unread, Compared, DriftSeen
<1>5. ASSUME UNCHANGED <<findings, seenLock, seenFiles>>,
             ~Find(r), ~FindMirror(r), ~ReadLock(r), ~Snapshot(r), ~ReadChain(r), ~ReadMirror(r)
      PROVE  Kept
  <2>1. DriftSeen(r)' = DriftSeen(r)
    BY <1>5 DEF DriftSeen
  <2>2. pc'[r] \in Unread => seenLock[r] = NoLock
    BY <1>5 DEF DInv, NothingRead, Unread, Compared, Proceed, Reconcile, Lock, Approve, WriteBaseline, Unlock, Found, NotFound,
       disk, check, writing, Begin, OpenMirror, Heal, Report, ContextLock, ContextMirror, PreScaffold, Relock,
       Scaffold, Rescan, Gate, ReadMode, Review, Confirm, Recheck, Chain,
       Acquire, AcquireTimesOut, ReadHead, ReadText, Truncate, AppendEntry, WriteMirror, WriteTmp,
       Rename, RmLock, RmLedger, RmMirror, Kill
  <2>3. pc'[r] \in Compared /\ seenLock[r] # NoLock => pc[r] \in Compared
    BY <1>5 DEF DInv, NothingRead, Unread, Compared, Proceed, Reconcile, Lock, Approve, WriteBaseline, Unlock, Found, NotFound,
       disk, check, writing, Begin, OpenMirror, Heal, Report, ContextLock, ContextMirror, PreScaffold, Relock,
       Scaffold, Rescan, Gate, ReadMode, Review, Confirm, Recheck, Chain,
       Acquire, AcquireTimesOut, ReadHead, ReadText, Truncate, AppendEntry, WriteMirror, WriteTmp,
       Rename, RmLock, RmLedger, RmMirror, Kill
  <2>4. pc'[r] = "passed" /\ seenLock[r] # NoLock => pc[r] = "checked" /\ findings[r] \subseteq {"warning"}
    BY <1>5 DEF DInv, NothingRead, Unread, Compared, Proceed, Reconcile, Lock, Approve, WriteBaseline, Unlock, Found, NotFound,
       disk, check, writing, Begin, OpenMirror, Heal, Report, ContextLock, ContextMirror, PreScaffold, Relock,
       Scaffold, Rescan, Gate, ReadMode, Review, Confirm, Recheck, Chain,
       Acquire, AcquireTimesOut, ReadHead, ReadText, Truncate, AppendEntry, WriteMirror, WriteTmp,
       Rename, RmLock, RmLedger, RmMirror, Kill, Clean, Passes
  <2> QED BY <1>5, <2>1, <2>2, <2>3, <2>4 DEF DInv, DriftKept, Compared
<1> QED BY <1>1, <1>2, <1>3, <1>4, <1>5, CheckFrame DEF check, Acquire, ReadText

LEMMA DInvNext == TInv /\ DInv /\ [Next]_vars => DInv'
<1> SUFFICES ASSUME TInv, DInv, [Next]_vars PROVE DInv'
  OBVIOUS
<1>1. ASSUME NEW r \in Runs, Proceed(r) \/ Kill(r) PROVE DInv'
  BY <1>1, DInvStep
<1>2. CASE Edit \/ UNCHANGED vars
  <2>1. UNCHANGED <<pc, check>>
    BY <1>2 DEF Edit, vars
  <2> QED BY <2>1 DEF check, DInv, NothingRead, DriftKept, PassedClean, DriftSeen
<1> QED BY <1>1, <1>2 DEF Next, Finished
-----------------------------------------------------------------------------
(* Every baseline was reviewed, if no run scaffolds a CI workflow while     *)
(* others edit: what a run is about to record, what it has read of the     *)
(* ledger before writing the ledger anew, and what it has read of the lock *)
(* were reviewed too.                                                      *)

\* Nobody edits the tracked files beside a run that snapshots them once more.
Steady == CiRuns = {} \/ MaxEdits = 0

InFlight == {"recheck", "chain", "acquire", "readHead", "readText", "truncate", "append",
             "openMirror", "writeMirror", "writeTmp"}

OnlyCiScaffolds == \A r \in Runs : pc[r] \in {"scaffold", "rescan"} => r \in CiRuns

\* Without edits all snapshots differ in the CI workflow at most.
SameEdits(files) == files.content = surface.content /\ files.text = surface.text

NothingEdited ==
  CiRuns # {} =>
    /\ surface.text \notin Hidden
    /\ \A r \in Runs : SameEdits(seenFiles[r]) /\ SameEdits(target[r].files)

TargetReviewed == \A r \in Runs : pc[r] \in InFlight => target[r] \in reviewed

SeenReviewed ==
  \A r \in Runs : \A i \in 1..Len(seenText[r]) : seenText[r][i].detail \in reviewed

LocksReviewed ==
  /\ trustLock \in Locks => trustLock.baseline \in reviewed
  /\ tmpLock \in Locks => tmpLock.baseline \in reviewed
  /\ \A r \in Runs : seenLock[r] # NoLock => seenLock[r].baseline \in reviewed

\* No reviewed baseline has hidden Unicode, nor has one that may be confirmed.
ReviewedClean ==
  /\ \A b \in reviewed : b.files.text \notin Hidden
  /\ \A r \in Runs : pc[r] = "confirm" => target[r].files.text \notin Hidden

RInv == /\ OnlyCiScaffolds /\ NothingEdited /\ OnlyReviewed /\ TargetReviewed /\ SeenReviewed
        /\ LocksReviewed /\ ReviewedClean

LEMMA RInvInit == Init => RInv
<1> SUFFICES ASSUME Init PROVE RInv
  OBVIOUS
<1> USE DEF Init
<1>1. OnlyReviewed
  <2>1. CASE InitUnlocked
    BY <2>1 DEF InitUnlocked, OnlyReviewed
  <2>2. ASSUME NEW m \in Modes, InitLocked(m) PROVE OnlyReviewed
    BY <2>2 DEF InitLocked, OnlyReviewed, Entry
  <2>3. CASE InitAny
    BY <2>3 DEF InitAny, OnlyReviewed, Entry, Modes
  <2> QED BY <2>1, <2>2, <2>3
<1>2. trustLock \in Locks => trustLock.baseline \in reviewed
  <2>1. CASE InitUnlocked
    BY <2>1, TrustSurfaceAssumption DEF InitUnlocked
  <2>2. ASSUME NEW m \in Modes, InitLocked(m)
        PROVE  trustLock \in Locks => trustLock.baseline \in reviewed
    BY <2>2 DEF InitLocked
  <2>3. CASE InitAny
    <3>1. trustLock \notin {NoLock, BadLock} =>
            trustLock \in [baseline : [mode : Modes, files : {surface}], ledgerHead : {1, 2}]
      BY <2>3 DEF InitAny
    <3>2. reviewed = [mode : Modes, files : {surface}]
      BY <2>3 DEF InitAny
    <3> QED BY <3>1, <3>2, TrustSurfaceAssumption
  <2> QED BY <2>1, <2>2, <2>3
<1>3. \A b \in reviewed : b.files.text \notin Hidden
  <2>1. CASE InitUnlocked
    BY <2>1 DEF InitUnlocked
  <2>2. ASSUME NEW m \in Modes, InitLocked(m) PROVE \A b \in reviewed : b.files.text \notin Hidden
    BY <2>2 DEF InitLocked
  <2>3. CASE InitAny
    BY <2>3 DEF InitAny
  <2> QED BY <2>1, <2>2, <2>3
<1> QED BY <1>1, <1>2, <1>3, TrustSurfaceAssumption
        DEF RInv, OnlyCiScaffolds, NothingEdited, SameEdits, TargetReviewed, SeenReviewed,
            LocksReviewed, ReviewedClean, InFlight

\* A lock is taken again only for files that do not differ from its baseline.
LEMMA NothingEditedStep ==
  ASSUME TInv, DInv, NothingEdited, NEW r \in Runs, Proceed(r) \/ Kill(r)
  PROVE  NothingEdited'
<1> USE DEF TInv, TypeOK
<1> SUFFICES ASSUME CiRuns # {} PROVE NothingEdited'
  BY DEF NothingEdited
<1>1. surface'.content = surface.content /\ surface'.text = surface.text
  BY SurfaceFrame DEF Scaffold, DiskOK, Surfaces
<1>2. SameEdits(seenFiles'[r])
  <2>1. CASE Snapshot(r)
    BY <2>1 DEF Snapshot, CheckOK, SameEdits
  <2>2. CASE UNCHANGED seenFiles
    BY <2>2 DEF NothingEdited, SameEdits
  <2> QED BY <2>1, <2>2, CheckFrame DEF check, Find, FindMirror, ReadLock, ReadChain, ReadMirror, Acquire, ReadText
<1>3. SameEdits(target'[r].files)
  <2>1. CASE PreScaffold(r) \/ Rescan(r) \/ Review(r)
    BY <2>1 DEF PreScaffold, Rescan, Review, WritingOK, Baselines, SameEdits
  <2>2. CASE ReadMode(r)
    BY <2>2 DEF ReadMode, WritingOK, Baselines, NothingEdited, SameEdits
  <2>3. CASE Relock(r)
    <3>1. target'[r] = target[r] \/ (Clean(r) /\ seenLock[r] # NoLock /\ target'[r] = seenLock[r].baseline)
      BY <2>3 DEF Relock, WritingOK
    <3>2. Clean(r) /\ seenLock[r] # NoLock => DriftSeen(r) = {}
      BY <2>3 DEF Relock, At, DInv, DriftKept, Compared, Clean
    <3>3. DriftSeen(r) = {} =>
            /\ seenFiles[r].content = seenLock[r].baseline.files.content
            /\ seenFiles[r].text = seenLock[r].baseline.files.text
      BY DEF DriftSeen, DriftFindings
    <3> QED BY <3>1, <3>2, <3>3 DEF NothingEdited, SameEdits
  <2>4. CASE UNCHANGED target
    BY <2>4 DEF NothingEdited, SameEdits
  <2> QED BY <2>1, <2>2, <2>3, <2>4, WritingFrame DEF writing, Chain, Acquire, ReadHead, AppendEntry
<1>4. SameEdits(surface') => surface'.text \notin Hidden
  BY DEF NothingEdited, SameEdits
<1>5. \A q \in Runs : SameEdits(seenFiles'[q]) /\ SameEdits(target'[q].files)
  BY <1>2, <1>3, OthersStay DEF NothingEdited
<1> QED BY <1>1, <1>4, <1>5 DEF NothingEdited, SameEdits

LEMMA RInvStep ==
  ASSUME TInv, DInv, RInv, NEW r \in Runs, Proceed(r) \/ Kill(r)
  PROVE  RInv'
<1> USE DEF TInv, TypeOK
<1>1. reviewed \subseteq reviewed'
  BY ReviewedFrame DEF PreScaffold, Rescan, Confirm
<1>2. OnlyCiScaffolds' /\ NothingEdited'
  <2>1. pc'[r] \in {"scaffold", "rescan"} => r \in CiRuns
    BY DEF RInv, OnlyCiScaffolds, PcOK, Goto, At, Proceed, Reconcile, Lock, Approve, WriteBaseline, Unlock, Found, NotFound,
       Begin, Find, FindMirror, ReadLock, Snapshot, ReadChain, ReadMirror, OpenMirror,
       Heal, Report, ContextLock, ContextMirror, PreScaffold, Relock, Scaffold, Rescan,
       Gate, ReadMode, Review, Confirm, Recheck, Chain, Acquire, AcquireTimesOut,
       ReadHead, ReadText, Truncate, AppendEntry, WriteMirror, WriteTmp, Rename, RmLock,
       RmLedger, RmMirror, Kill
  <2> QED BY <2>1, OthersStay, NothingEditedStep DEF RInv, OnlyCiScaffolds
<1>3. OnlyReviewed'
  <2>1. CASE Truncate(r) \/ RmLedger(r)
    BY <2>1 DEF Truncate, RmLedger, OnlyReviewed
  <2>2. CASE AppendEntry(r)
    <3> DEFINE s == seenText[r]
               e == Entry(lastHash', head[r], target[r])
    <3>1. s \in Seq(Entries)
      BY DEF CheckOK
    <3>2. \A i \in 1..Len(s) : s[i].detail \in reviewed
      BY DEF RInv, SeenReviewed
    <3>3. e.detail \in reviewed
      BY <2>2 DEF AppendEntry, At, RInv, TargetReviewed, InFlight, Entry
    <3>4. ledger' = ledger \/ ledger' = [ledger EXCEPT !.text = Append(s, e)]
      BY <2>2 DEF AppendEntry
    <3> HIDE DEF s, e
    <3>5. \A i \in 1..Len(Append(s, e)) : Append(s, e)[i].detail \in reviewed
      BY <3>1, <3>2, <3>3
    <3>6. CASE ledger' = [ledger EXCEPT !.text = Append(s, e)]
      <4>1. ledger'.text = Append(s, e)
        BY <3>6 DEF DiskOK
      <4> QED BY <4>1, <3>5, <1>1 DEF OnlyReviewed
    <3> QED BY <3>4, <3>6, <1>1 DEF RInv, OnlyReviewed
  <2>3. CASE UNCHANGED ledger
    BY <2>3, <1>1 DEF RInv, OnlyReviewed
  <2> QED BY <2>1, <2>2, <2>3, LedgerFrame
<1>4. TargetReviewed'
  <2>1. CASE Confirm(r)
    BY <2>1, <1>1, OthersStay
       DEF Confirm, RInv, TargetReviewed, InFlight, writing, PcOK, Goto
  <2>2. CASE PreScaffold(r)
    <3>1. pc'[r] \in InFlight => target'[r] \in reviewed'
      BY <2>2 DEF PreScaffold, InFlight, PcOK, Goto
    <3> QED BY <3>1, <1>1, OthersStay DEF RInv, TargetReviewed
  <2>3. CASE Rescan(r)
    <3>1. target'[r] = [target[r] EXCEPT !.files = surface]
      BY <2>3 DEF Rescan, WritingOK
    <3>2. SameEdits(target[r].files)
      BY <2>3 DEF Rescan, At, RInv, OnlyCiScaffolds, NothingEdited
    <3>3. surface = [target[r].files EXCEPT !.ci = surface.ci]
      <4>1. target[r].files \in Surfaces /\ surface \in Surfaces
        BY DEF WritingOK, DiskOK, Baselines
      <4> QED BY <4>1, <3>2 DEF SameEdits, Surfaces
    <3>4. target'[r] \in reviewed'
      BY <2>3, <3>1, <3>3 DEF Rescan
    <3> QED BY <3>4, <1>1, OthersStay DEF RInv, TargetReviewed
  <2>4. ASSUME ~Confirm(r), ~PreScaffold(r), ~Rescan(r)
        PROVE  pc'[r] \in InFlight => pc[r] \in InFlight /\ target'[r] = target[r]
    BY <2>4 DEF InFlight, PcOK, WritingOK, Goto, At, writing, Found, NotFound,
       Proceed, Reconcile, Lock, Approve, WriteBaseline, Unlock,
       Begin, Find, FindMirror, ReadLock, Snapshot, ReadChain, ReadMirror, OpenMirror,
       Heal, Report, ContextLock, ContextMirror, Relock, Scaffold, Gate,
       ReadMode, Review, Recheck, Chain, Acquire, AcquireTimesOut, ReadHead, ReadText,
       Truncate, AppendEntry, WriteMirror, WriteTmp, Rename, RmLock, RmLedger, RmMirror,
       Kill
  <2> QED BY <2>1, <2>2, <2>3, <2>4, <1>1, OthersStay DEF RInv, TargetReviewed
<1>5. SeenReviewed'
  <2>1. \A i \in 1..Len(seenText'[r]) : seenText'[r][i].detail \in reviewed
    <3>1. CASE ReadChain(r) \/ ReadText(r)
      BY <3>1 DEF ReadChain, ReadText, CheckOK, RInv, OnlyReviewed
    <3>2. CASE Acquire(r)
      BY <3>2 DEF Acquire, CheckOK
    <3>3. CASE UNCHANGED seenText
      BY <3>3 DEF RInv, SeenReviewed
    <3> QED BY <3>1, <3>2, <3>3, CheckFrame
            DEF check, Find, FindMirror, ReadLock, Snapshot, ReadMirror
  <2> QED BY <2>1, <1>1, OthersStay DEF RInv, SeenReviewed
<1>6. LocksReviewed'
  <2>1. /\ trustLock' \in Locks => trustLock'.baseline \in reviewed
        /\ tmpLock' \in Locks => tmpLock'.baseline \in reviewed
    <3>1. CASE WriteTmp(r)
      BY <3>1 DEF WriteTmp, At, RInv, LocksReviewed, TargetReviewed, InFlight
    <3>2. CASE Rename(r)
      BY <3>2, TrustSurfaceAssumption DEF Rename, RInv, LocksReviewed
    <3>3. CASE RmLock(r)
      BY <3>3, TrustSurfaceAssumption DEF RmLock, RInv, LocksReviewed
    <3>4. CASE UNCHANGED <<trustLock, tmpLock>>
      BY <3>4 DEF RInv, LocksReviewed
    <3> QED BY <3>1, <3>2, <3>3, <3>4, LockFrame
  <2>2. seenLock'[r] # NoLock => seenLock'[r].baseline \in reviewed
    <3>1. CASE Find(r)
      BY <3>1 DEF Find, CheckOK
    <3>2. CASE ReadLock(r)
      BY <3>2 DEF ReadLock, CheckOK, DiskOK, RInv, LocksReviewed
    <3>3. CASE UNCHANGED seenLock
      BY <3>3 DEF RInv, LocksReviewed
    <3> QED BY <3>1, <3>2, <3>3, CheckFrame
            DEF check, FindMirror, Snapshot, ReadChain, ReadMirror, Acquire, ReadText
  <2> QED BY <2>1, <2>2, <1>1, OthersStay DEF RInv, LocksReviewed
<1>7. ReviewedClean'
  <2>1. \A b \in reviewed' : b.files.text \notin Hidden
    <3>1. CASE PreScaffold(r)
      BY <3>1 DEF PreScaffold, WritingOK, RInv, ReviewedClean
    <3>2. CASE Confirm(r)
      BY <3>2 DEF Confirm, At, RInv, ReviewedClean
    <3>3. CASE Rescan(r)
      <4>1. target[r].files.text \notin Hidden
        BY <3>3 DEF Rescan, At, RInv, OnlyCiScaffolds, NothingEdited, SameEdits
      <4>2. [target[r] EXCEPT !.files.ci = surface.ci].files.text = target[r].files.text
        BY DEF WritingOK, Baselines, Surfaces
      <4> QED BY <3>3, <4>1, <4>2 DEF Rescan, RInv, ReviewedClean
    <3>4. CASE UNCHANGED reviewed
      BY <3>4 DEF RInv, ReviewedClean
    <3> QED BY <3>1, <3>2, <3>3, <3>4, ReviewedFrame
  <2>2. pc'[r] = "confirm" => target'[r].files.text \notin Hidden
    <3>1. CASE Review(r)
      <4>1. target'[r].files = surface
        BY <3>1 DEF Review, WritingOK, Baselines
      <4> QED BY <4>1, <3>1 DEF Review, PcOK, Goto
    <3>2. ASSUME ~Review(r) PROVE pc'[r] # "confirm"
      BY <3>2 DEF PcOK, Goto, At, Found, NotFound, Proceed, Reconcile, Lock, Approve, WriteBaseline, Unlock,
         Begin, Find, FindMirror, ReadLock, Snapshot, ReadChain, ReadMirror, OpenMirror,
         Heal, Report, ContextLock, ContextMirror, PreScaffold, Relock, Scaffold, Rescan,
         Gate, ReadMode, Confirm, Recheck, Chain, Acquire, AcquireTimesOut, ReadHead,
         ReadText, Truncate, AppendEntry, WriteMirror, WriteTmp, Rename, RmLock, RmLedger,
         RmMirror, Kill
    <3> QED BY <3>1, <3>2
  <2> QED BY <2>1, <2>2, OthersStay DEF RInv, ReviewedClean
<1> QED BY <1>2, <1>3, <1>4, <1>5, <1>6, <1>7 DEF RInv

LEMMA RInvNext ==
  ASSUME Steady, TInv, DInv, RInv, [Next]_vars
  PROVE  RInv'
<1>1. ASSUME NEW r \in Runs, Proceed(r) \/ Kill(r) PROVE RInv'
  BY <1>1, RInvStep
<1>2. CASE Edit \/ UNCHANGED vars
  <2>1. UNCHANGED <<disk, pc, check, writing, reviewed>>
    BY <1>2 DEF Edit, vars
  <2>2. NothingEdited'
    <3>1. CASE CiRuns = {}
      BY <3>1 DEF NothingEdited
    <3>2. CASE MaxEdits = 0
      <4>1. edits \in Nat
        BY DEF TInv, TypeOK, DiskOK
      <4>2. ~(edits < MaxEdits)
        BY <3>2, <4>1
      <4>3. UNCHANGED vars
        BY <1>2, <4>2 DEF Edit
      <4> QED BY <4>3 DEF vars, check, writing, RInv, NothingEdited, SameEdits
    <3> QED BY <3>1, <3>2 DEF Steady
  <2> QED BY <2>1, <2>2 DEF disk, check, writing, RInv, OnlyCiScaffolds, OnlyReviewed,
                            TargetReviewed, SeenReviewed, LocksReviewed, ReviewedClean
<1> QED BY <1>1, <1>2 DEF Next, Finished

LEMMA DInvInit == Init => DInv
BY DEF Init, DInv, NothingRead, DriftKept, PassedClean, Unread, Compared

LEMMA RInvAlways ==
  ASSUME Steady
  PROVE  Spec => []RInv /\ []DInv
<1>1. Init => TInv /\ DInv /\ RInv
  BY TInvInit, DInvInit, RInvInit
<1>2. TInv /\ DInv /\ RInv /\ [Next]_vars => TInv' /\ DInv' /\ RInv'
  BY TInvNext, DInvNext, RInvNext
<1> QED BY <1>1, <1>2, PTL DEF Spec

\* Every baseline in the ledger was confirmed by a human, or examined by the
\* run that locked the project for the first time: for any number of
\* overlapping commands, killed anywhere, as long as nobody edits the files
\* beside a run that adds a CI workflow.
THEOREM LedgerSound ==
  ASSUME Steady
  PROVE  Spec => []OnlyReviewed
<1>1. RInv => OnlyReviewed
  BY DEF RInv
<1> QED BY <1>1, RInvAlways, PTL

\* Under the same assumption no baseline in the ledger carries hidden Unicode:
\* what is reviewed with some is refused before it is recorded.
THEOREM LedgerClean ==
  ASSUME Steady
  PROVE  Spec => []NoHiddenBaseline
<1>1. RInv => NoHiddenBaseline
  BY DEF RInv, OnlyReviewed, NoHiddenBaseline, ReviewedClean
<1> QED BY <1>1, RInvAlways, PTL

\* A reconciliation passes only on files it has compared with a baseline that
\* was reviewed, whatever other commands do to the lock meanwhile.
THEOREM PassSound ==
  ASSUME Steady
  PROVE  Spec => []PassMeansReviewed
<1>1. RInv /\ DInv => PassMeansReviewed
  <2> SUFFICES ASSUME RInv, DInv PROVE PassMeansReviewed
    OBVIOUS
  <2> USE DEF PassMeansReviewed
  <2> TAKE r \in Statuses
  <2> HAVE pc[r] = "passed" /\ seenLock[r] # NoLock
  <2>1. seenLock[r].baseline \in reviewed
    BY DEF RInv, LocksReviewed, Runs
  <2>2. DriftFindings(seenLock[r], seenFiles[r]) \subseteq {"warning"}
    BY DEF DInv, PassedClean, DriftSeen, Runs
  <2> WITNESS seenLock[r].baseline \in reviewed
  <2> QED BY <2>2 DEF DriftFindings, Soft
<1> QED BY <1>1, RInvAlways, PTL
-----------------------------------------------------------------------------
(* Runs that have the project to themselves                                *)

Active(r) == pc[r] \notin Ended \cup {"idle"}

\* Once a late run has begun, the others have ended or are late themselves,
\* and while it is active none of them is.
Alone ==
  \A r \in Runs : r \in Late /\ pc[r] # "idle" =>
    /\ \A q \in Runs \ Late : pc[q] \in Ended
    /\ Active(r) => \A q \in Runs \ {r} : ~Active(q)

LEMMA AloneInit == Init => Alone
BY DEF Init, Alone

\* A run moves from its start only by beginning, and never once it has ended.
LEMMA MovesOnce ==
  ASSUME PcOK, NEW r \in Runs, Proceed(r) \/ Kill(r)
  PROVE  /\ pc[r] \notin Ended /\ pc'[r] # "idle" /\ pc'[r] # pc[r]
         /\ pc[r] = "idle" => Begin(r)
BY DEF PcOK, Ended, Goto, At, Found, NotFound, Proceed, Reconcile, Lock, Approve, WriteBaseline,
       Unlock, Begin, Find, FindMirror, ReadLock, Snapshot, ReadChain, ReadMirror, OpenMirror,
       Heal, Report, ContextLock, ContextMirror, PreScaffold, Relock, Scaffold, Rescan,
       Gate, ReadMode, Review, Confirm, Recheck, Chain, Acquire, AcquireTimesOut,
       ReadHead, ReadText, Truncate, AppendEntry, WriteMirror, WriteTmp, Rename, RmLock,
       RmLedger, RmMirror, Kill

LEMMA AloneStep ==
  ASSUME TypeOK, Alone, NEW r \in Runs, Proceed(r) \/ Kill(r)
  PROVE  Alone'
<1>1. \A q \in Runs \ {r} : pc'[q] = pc[q]
  BY OthersStay
<1>2. pc[r] \notin Ended /\ pc'[r] # "idle" /\ (pc[r] = "idle" => Begin(r))
  BY MovesOnce DEF TypeOK
<1>3. ASSUME NEW q \in Runs, q \in Late, pc'[q] # "idle", NEW x \in Runs \ Late
      PROVE  pc'[x] \in Ended
  BY <1>1, <1>2, <1>3 DEF Alone, Begin
<1>4. ASSUME NEW q \in Runs, q \in Late, pc'[q] \notin Ended \cup {"idle"}, NEW x \in Runs \ {q}
      PROVE  pc'[x] \in Ended \cup {"idle"}
  <2>1. CASE q = r
    BY <1>1, <1>2, <1>4, <2>1 DEF Alone, Active, Begin, At
  <2>2. CASE q # r
    <3>1. Active(q) /\ pc[r] = "idle" /\ Begin(r)
      BY <1>1, <1>2, <1>4, <2>2 DEF Alone, Active
    <3>2. r \notin Late
      BY <3>1, <2>2 DEF Begin, Active, At
    <3> QED BY <3>1, <3>2, <1>4 DEF Alone, Active, Ended
  <2> QED BY <2>1, <2>2
<1> QED BY <1>3, <1>4 DEF Alone, Active

LEMMA AloneNext == TypeOK /\ Alone /\ [Next]_vars => Alone'
<1> SUFFICES ASSUME TypeOK, Alone, [Next]_vars PROVE Alone'
  OBVIOUS
<1>1. CASE Edit \/ UNCHANGED vars
  BY <1>1 DEF Edit, vars, Alone, Active
<1> QED BY <1>1, AloneStep DEF Next, Finished

\* The ledger's critical section is where its holder is.
Critical == {"readHead", "readText", "truncate", "append", "openMirror", "writeMirror"}

HoldsLedgerLock == \A r \in Runs : r \in ledgerLock <=> pc[r] \in Critical

\* A chain that can be extended, and a head that extends what a run has read.
Chained(text) == text # <<>> /\ ChainOk(text)
Extends(text, h) == IF text = <<>> THEN h = 0 ELSE ChainOk(text) /\ h = ChainHead(text)

\* The last entry of the ledger is the one the run has written.
Recorded(r) ==
  /\ Chained(ledger.text) /\ ChainHead(ledger.text) = head[r]
  /\ ledger.text[Len(ledger.text)].detail = target[r]

\* What the places of writeBaseline and of the unlock have established, for a
\* run that no other writer disturbs.
Outline(r) ==
  /\ pc[r] \in {"scaffold", "rescan", "acquire"} /\ ~fresh[r] => Chained(ledger.text)
  /\ pc[r] \in {"readHead", "readText"} => Chained(ledger.text)
  /\ pc[r] = "readText" => head[r] = ChainHead(ledger.text)
  /\ pc[r] \in {"truncate", "append"} => Extends(seenText[r], head[r])
  /\ pc[r] = "append" => ledger.exists
  /\ pc[r] \in {"openMirror", "writeMirror", "writeTmp", "rename"} => Recorded(r)
  /\ pc[r] \in {"writeTmp", "rename"} => mirror \in Hashes(ledger.text) \cup {0}
  /\ pc[r] = "rename" => tmpLock = [baseline |-> target[r], ledgerHead |-> head[r]]
  /\ pc[r] \in {"rmLedger", "rmMirror"} => trustLock = NoLock

\* The places between the first and the last change of a set of changes.
Between == {"append", "openMirror", "writeMirror", "writeTmp", "rename", "rmLedger", "rmMirror"}
Intact  == \A r \in Runs : pc[r] \notin Between

\* Chains of entries.
LEMMA ChainFacts ==
  ASSUME NEW text \in Seq(Entries)
  PROVE  /\ ChainStatus(text) = "ok" <=> Chained(text)
         /\ Chained(text) => ChainHead(text) \in Hashes(text)
         /\ Hashes(text) \subseteq Nat
         /\ text = <<>> => Hashes(text) = {}
<1>1. \A i \in 1..Len(text) : text[i].hash \in Nat
  <2>1. \A i \in 1..Len(text) : text[i] \in Entries
    OBVIOUS
  <2> QED BY <2>1 DEF Entries
<1>2. text # <<>> => Len(text) \in 1..Len(text)
  <2> SUFFICES ASSUME text # <<>> PROVE Len(text) \in 1..Len(text)
    OBVIOUS
  <2> QED OBVIOUS
<1>3. text = <<>> => Len(text) = 0
  OBVIOUS
<1> QED BY <1>1, <1>2, <1>3 DEF ChainStatus, Chained, ChainHead, Hashes

\* An entry whose previous hash extends a chain extends that chain.
LEMMA ChainAppend ==
  ASSUME NEW text \in Seq(Entries), NEW e \in Entries, Extends(text, e.prevHash)
  PROVE  /\ Chained(Append(text, e)) /\ ChainHead(Append(text, e)) = e.hash
         /\ Append(text, e)[Len(Append(text, e))].detail = e.detail
         /\ Hashes(Append(text, e)) = Hashes(text) \cup {e.hash}
<1> DEFINE t == Append(text, e)
           n == Len(text)
<1>1. /\ t \in Seq(Entries) /\ Len(t) = n + 1 /\ n \in Nat /\ t[n + 1] = e
      /\ \A i \in 1..n : t[i] = text[i]
  OBVIOUS
<1>2. t # <<>>
  BY <1>1
<1> HIDE DEF t
<1>3. \A i \in 1..n : i # 1 => i - 1 \in 1..n
  BY <1>1
<1>4. ASSUME NEW i \in 1..n PROVE t[i].prevHash = IF i = 1 THEN 0 ELSE t[i-1].hash
  <2>1. ChainOk(text)
    BY <1>1, <1>4 DEF Extends
  <2> QED BY <2>1, <1>1, <1>3 DEF ChainOk
<1>5. t[n + 1].prevHash = IF n + 1 = 1 THEN 0 ELSE t[n + 1 - 1].hash
  <2>1. CASE n = 0
    BY <2>1, <1>1 DEF Extends
  <2>2. CASE n # 0
    BY <2>2, <1>1 DEF Extends, ChainHead
  <2> QED BY <2>1, <2>2
<1>6. \A i \in 1..(n + 1) : i \in 1..n \/ i = n + 1
  BY <1>1
<1>7. ChainOk(t)
  BY <1>1, <1>4, <1>5, <1>6 DEF ChainOk
<1>8. Hashes(t) = Hashes(text) \cup {e.hash}
  <2>1. \A h : (\E i \in 1..(n + 1) : h = t[i].hash) <=> (\E i \in 1..n : h = text[i].hash) \/ h = e.hash
    BY <1>1, <1>6
  <2> QED BY <2>1, <1>1 DEF Hashes
<1> QED BY <1>1, <1>2, <1>7, <1>8 DEF t, Chained, ChainHead

\* A lock that references the last entry agrees with a ledger that recorded it.
LEMMA Agreement ==
  ASSUME NEW text \in Seq(Entries), Chained(text), NEW lock,
         lock.ledgerHead = ChainHead(text), lock.baseline = text[Len(text)].detail,
         NEW m \in Hashes(text) \cup {0}
  PROVE  LedgerFindings(lock, text) \cup MirrorFindings(text, m) = {}
BY ChainFacts DEF LedgerFindings, MirrorFindings

LEMMA FindingsOfChain ==
  ASSUME NEW text \in Seq(Entries), NEW lock
  PROVE  /\ "warning" \notin LedgerFindings(lock, text)
         /\ LedgerFindings(lock, text) \subseteq {"lock-forged"} => Chained(text)
BY ChainFacts DEF LedgerFindings

LEMMA HoldsLedgerLockStep ==
  ASSUME TypeOK, HoldsLedgerLock, NEW r \in Runs, Proceed(r) \/ Kill(r)
  PROVE  HoldsLedgerLock'
<1> USE DEF TypeOK, PcOK
<1>1. r \in ledgerLock' <=> pc'[r] \in Critical
  BY DEF HoldsLedgerLock, Critical, Ended, Goto, At, Found, NotFound, disk, LedgerLock!Acquire,
       LedgerLock!Release, Proceed, Reconcile, Lock, Approve, WriteBaseline, Unlock,
       Begin, Find, FindMirror, ReadLock, Snapshot, ReadChain, ReadMirror, OpenMirror,
       Heal, Report, ContextLock, ContextMirror, PreScaffold, Relock, Scaffold, Rescan,
       Gate, ReadMode, Review, Confirm, Recheck, Chain, Acquire, AcquireTimesOut,
       ReadHead, ReadText, Truncate, AppendEntry, WriteMirror, WriteTmp, Rename, RmLock,
       RmLedger, RmMirror, Kill
<1>2. \A q \in Runs \ {r} : q \in ledgerLock' <=> q \in ledgerLock
  BY DiskFrame DEF disk, OpenMirror, Heal, Scaffold, Acquire, Truncate, AppendEntry, WriteMirror,
       WriteTmp, Rename, RmLock, RmLedger, RmMirror, Kill, LedgerLock!Acquire, LedgerLock!Release
<1> QED BY <1>1, <1>2, OthersStay DEF HoldsLedgerLock

\* A run's own steps keep its outline, if it re-locks on a chain.
LEMMA OutlineStep ==
  ASSUME TInv, NEW r \in Runs, Outline(r), Proceed(r) \/ Kill(r),
         Relock(r) /\ pc'[r] = "scaffold" => Chained(ledger.text)
  PROVE  Outline(r)'
<1> USE DEF TInv, TypeOK, PcOK, CheckOK, WritingOK, Goto, At
<1>1. CASE PreScaffold(r) \/ Relock(r)
  <2>1. pc'[r] \in {"scaffold", "acquire"} \cup Ended
    BY <1>1 DEF PreScaffold, Relock, Ended
  <2>2. pc'[r] \notin Ended /\ ~fresh'[r] => Chained(ledger.text) /\ UNCHANGED ledger
    BY <1>1 DEF PreScaffold, Relock, disk, Ended
  <2> QED BY <2>1, <2>2 DEF Ended, Outline
<1>15. CASE Scaffold(r) \/ Rescan(r)
  <2>1. /\ pc[r] \in {"scaffold", "rescan"} /\ pc'[r] \in {"rescan", "acquire"}
        /\ UNCHANGED <<fresh, ledger>>
    BY <1>15 DEF Scaffold, Rescan, disk, writing
  <2> QED BY <2>1 DEF Outline
<1>2. CASE Chain(r)
  BY <1>2, ChainFacts DEF Chain, disk, Outline, DiskOK
<1>3. CASE Acquire(r)
  BY <1>3 DEF Acquire, Outline, Extends
<1>4. CASE ReadHead(r)
  <2>1. pc'[r] = "readText" /\ UNCHANGED ledger /\ Chained(ledger.text)
    BY <1>4 DEF ReadHead, Outline, disk
  <2>2. head'[r] = ChainHead(ledger.text)
    BY <1>4, <2>1, ChainFacts DEF ReadHead, PrevHash, DiskOK
  <2> QED BY <2>1, <2>2 DEF Outline
<1>5. CASE ReadText(r)
  <2>1. pc'[r] = "truncate" /\ seenText'[r] = ledger.text /\ UNCHANGED head
    BY <1>5 DEF ReadText, writing
  <2>2. Extends(ledger.text, head[r])
    BY <1>5 DEF ReadText, Outline, Chained, Extends
  <2> QED BY <2>1, <2>2 DEF Outline
<1>6. CASE Truncate(r)
  BY <1>6 DEF Truncate, Outline, check, writing
<1>7. CASE AppendEntry(r)
  <2> DEFINE e == Entry(lastHash', head[r], target[r])
             t == Append(seenText[r], e)
  <2>1. e \in Entries /\ e.prevHash = head[r] /\ e.hash = lastHash' /\ e.detail = target[r]
    BY <1>7 DEF AppendEntry, Entry, Entries, DiskOK
  <2>2. Extends(seenText[r], head[r]) /\ ledger.exists
    BY <1>7 DEF AppendEntry, Outline
  <2>3. ledger' = [ledger EXCEPT !.text = t] /\ head'[r] = lastHash' /\ UNCHANGED target /\ pc'[r] = "openMirror"
    BY <1>7, <2>2 DEF AppendEntry
  <2> HIDE DEF e
  <2>4. Chained(t) /\ ChainHead(t) = lastHash' /\ t[Len(t)].detail = target[r]
    BY <2>1, <2>2, ChainAppend
  <2> HIDE DEF t
  <2>5. ledger'.text = t
    BY <2>3 DEF DiskOK
  <2> QED BY <2>3, <2>4, <2>5 DEF Outline, Recorded
<1>8. CASE OpenMirror(r)
  BY <1>8 DEF OpenMirror, Outline, Recorded, writing, check
<1>9. CASE WriteMirror(r)
  <2>1. Recorded(r) /\ mirror' = head[r] /\ pc'[r] = "writeTmp" /\ UNCHANGED <<ledger, head, target>>
    BY <1>9 DEF WriteMirror, Outline, writing
  <2>2. head[r] \in Hashes(ledger.text)
    BY <2>1, ChainFacts DEF Recorded, DiskOK
  <2> QED BY <2>1, <2>2 DEF Outline, Recorded
<1>10. CASE WriteTmp(r)
  BY <1>10 DEF WriteTmp, Outline, Recorded, writing
<1>11. CASE Rename(r) \/ RmMirror(r) \/ Kill(r)
  BY <1>11 DEF Rename, RmMirror, Kill, Outline
<1>12. CASE RmLock(r) \/ RmLedger(r)
  BY <1>12 DEF RmLock, RmLedger, Outline
<1>13. ASSUME ~PreScaffold(r), ~Relock(r), ~Scaffold(r), ~Rescan(r), ~Chain(r), ~WriteBaseline(r),
              ~OpenMirror(r), ~Unlock(r), ~Kill(r)
       PROVE  Outline(r)'
  <2>1. pc'[r] \notin {"scaffold", "rescan", "acquire", "rmLedger", "rmMirror"} \cup Between \cup Critical
    BY <1>13 DEF Ended, Between, Critical, Found, NotFound, Proceed, Reconcile, Lock, Approve,
         Begin, Find, FindMirror, ReadLock, Snapshot, ReadChain, ReadMirror, Heal, Report,
         ContextLock, ContextMirror, Gate, ReadMode, Review, Confirm, Recheck
  <2> QED BY <2>1 DEF Outline, Between, Critical
<1>14. CASE AcquireTimesOut(r)
  BY <1>14 DEF AcquireTimesOut, Outline
<1> QED BY <1>1, <1>2, <1>3, <1>4, <1>5, <1>6, <1>7, <1>8, <1>9, <1>10, <1>11, <1>12, <1>13, <1>14,
        <1>15 DEF WriteBaseline, Unlock

\* A run keeps its outline while the lock and the ledger stay as they are, and
\* the mirror, once it has written it, moves within the ledger at most.
LEMMA OutlineFrame ==
  ASSUME NEW q \in Runs, Outline(q), UNCHANGED <<trustLock, ledger>>,
         pc[q] = "rename" => UNCHANGED tmpLock,
         pc[q] \in {"writeTmp", "rename"} => mirror' \in {mirror, 0} \cup Hashes(ledger.text),
         pc'[q] = pc[q], seenText'[q] = seenText[q], target'[q] = target[q],
         fresh'[q] = fresh[q], head'[q] = head[q]
  PROVE  Outline(q)'
BY DEF Outline, Recorded

\* A baseline is complete once the lock is in place.
LEMMA RenameCleans ==
  ASSUME TInv, NEW r \in Runs, Outline(r), Rename(r)
  PROVE  pc'[r] = "written" /\ BookFindings' = {} /\ trustLock' # NoLock
<1> USE DEF TInv, TypeOK, PcOK
<1> DEFINE lock == [baseline |-> target[r], ledgerHead |-> head[r]]
<1>1. Recorded(r) /\ mirror \in Hashes(ledger.text) \cup {0} /\ tmpLock = lock
  BY DEF Rename, At, Outline
<1>2. lock \in Locks
  BY DEF Locks, WritingOK
<1>3. lock # NoLock /\ lock # BadLock
  BY <1>2, TrustSurfaceAssumption
<1>4. pc'[r] = "written" /\ trustLock' = lock /\ UNCHANGED <<ledger, mirror>>
  BY <1>1, <1>3 DEF Rename, Goto
<1>5. LedgerFindings(lock, ledger.text) \cup MirrorFindings(ledger.text, mirror) = {}
  BY <1>1, Agreement DEF Recorded, DiskOK
<1> HIDE DEF lock
<1> QED BY <1>3, <1>4, <1>5 DEF BookFindings

\* Away from a set of changes a step of a run leaves the books alone, but for
\* the mirror that a reconciliation heals.
LEMMA BooksFrame ==
  ASSUME TypeOK, NEW r \in Runs, Proceed(r) \/ Kill(r), pc[r] \notin Between, pc'[r] \notin Between
  PROVE  /\ UNCHANGED <<trustLock, ledger, tmpLock>>
         /\ \/ UNCHANGED mirror
            \/ pc[r] = "heal" /\ mirror' = 0
            \/ pc[r] = "healing" /\ mirror' = ChainHead(seenText[r])
BY DiskFrame DEF TypeOK, PcOK, disk, Between, Goto, At, OpenMirror, Heal, Scaffold, Acquire, Truncate,
       AppendEntry, WriteMirror, WriteTmp, Rename, RmLock, RmLedger, RmMirror, Kill

\* How a set of changes ends.
LEMMA ChangesEnd ==
  ASSUME TypeOK, NEW r \in Runs, Proceed(r) \/ Kill(r), pc[r] \in Between, pc'[r] \notin Between
  PROVE  Rename(r) \/ RmMirror(r) \/ Kill(r)
BY DEF TypeOK, PcOK, Between, Goto, At, Found, NotFound, Proceed, Reconcile, Lock, Approve,
       WriteBaseline, Unlock, Begin, Find, FindMirror, ReadLock, Snapshot, ReadChain, ReadMirror,
       OpenMirror, Heal, Report, ContextLock, ContextMirror, PreScaffold, Relock, Scaffold, Rescan,
       Gate, ReadMode, Review, Confirm, Recheck, Chain, Acquire, AcquireTimesOut,
       ReadHead, ReadText, Truncate, AppendEntry, WriteMirror, WriteTmp, RmLock, RmLedger
-----------------------------------------------------------------------------
(* Repair by a run that has the project to itself *)

Healing == {"readMirror", "heal", "healing"}

\* What a reconciliation has established, place by place: one that ends with
\* warnings at most has found nothing in the books.
CheckOutline(r) ==
  /\ pc[r] \in {"findMirror", "contextMirror"} => trustLock = NoLock
  /\ pc[r] = "readLock" => trustLock # NoLock
  /\ pc[r] \in {"snapshot", "readChain"} \cup Healing => trustLock \in Locks /\ seenLock[r] = trustLock
  /\ pc[r] \in Healing =>
       /\ seenText[r] = ledger.text /\ Chained(ledger.text)
       /\ Passes(r) => LedgerFindings(trustLock, ledger.text) = {}
  /\ pc[r] \in {"heal", "healing"} => MirrorFindings(ledger.text, mirror) = {}
  /\ pc[r] = "checked" =>
       /\ Passes(r) => BookFindings = {}
       /\ seenLock[r] # NoLock => seenLock[r] = trustLock

LateOutlines == \A r \in Runs : r \in Late => Outline(r) /\ CheckOutline(r)

Restored == \E r \in Approvers \cap Late : pc[r] \in {"written", "passed", "failed"}
StaysRestored == Restored /\ Intact => BookFindings = {}

Cleared == \E r \in Unlockers \cap Late : pc[r] \in {"passed", "unlocked"}
Cleanly == {"idle", "context", "contextMirror", "find", "findMirror", "checked"}

StaysCleared ==
  Cleared => /\ trustLock = NoLock /\ mirror = 0
             /\ \A r \in Runs : Active(r) => pc[r] \in Cleanly /\ (pc[r] = "checked" => Clean(r))

UnlockerPlaces ==
  \A r \in Unlockers :
    pc[r] \in Ended \cup {"idle", "context", "contextMirror", "rmLock", "rmLedger", "rmMirror"}

FInv == Alone /\ HoldsLedgerLock /\ LateOutlines /\ StaysRestored
UInv == FInv /\ StaysCleared /\ UnlockerPlaces

\* A run's own steps keep what its reconciliation has established.
LEMMA CheckOutlineStep ==
  ASSUME TInv, NothingRead, NEW r \in Runs, CheckOutline(r), Proceed(r) \/ Kill(r)
  PROVE  CheckOutline(r)'
<1> USE DEF TInv, TypeOK, PcOK, CheckOK, Goto, At
<1> DEFINE Elsewhere == {"findMirror", "contextMirror", "readLock", "snapshot", "readChain", "checked"} \cup Healing
<1>1. CASE Find(r)
  BY <1>1 DEF Find, CheckOutline, disk, Healing
<1>2. CASE FindMirror(r)
  <2>1. trustLock = NoLock /\ seenLock[r] = NoLock /\ pc'[r] = "checked" /\ UNCHANGED <<seenLock, disk>>
    BY <1>2 DEF FindMirror, CheckOutline, NothingRead, Unread
  <2>2. Passes(r)' => mirror = 0
    BY <1>2 DEF FindMirror, Passes
  <2> QED BY <2>1, <2>2 DEF CheckOutline, Healing, BookFindings, disk
<1>3. CASE ReadLock(r)
  <2>1. pc'[r] = "checked" => ~Passes(r)' /\ seenLock'[r] = NoLock
    BY <1>3 DEF ReadLock, Passes, NothingRead, Unread
  <2>2. pc'[r] # "checked" => pc'[r] = "snapshot" /\ trustLock \in Locks /\ seenLock'[r] = trustLock
    BY <1>3 DEF ReadLock, DiskOK
  <2>3. UNCHANGED trustLock /\ pc'[r] \in {"checked", "snapshot"}
    BY <1>3 DEF ReadLock, disk
  <2> QED BY <2>1, <2>2, <2>3 DEF CheckOutline, Healing
<1>4. CASE Snapshot(r)
  BY <1>4 DEF Snapshot, CheckOutline, Healing, disk
<1>5. CASE ReadChain(r)
  <2> DEFINE f == LedgerFindings(trustLock, ledger.text)
  <2>1. trustLock \in Locks /\ seenLock[r] = trustLock /\ UNCHANGED <<seenLock, disk>>
    BY <1>5 DEF ReadChain, CheckOutline
  <2>2. /\ findings'[r] = findings[r] \cup f /\ seenText'[r] = ledger.text
        /\ pc'[r] = IF f \subseteq {"lock-forged"} THEN "readMirror" ELSE "checked"
    BY <1>5, <2>1 DEF ReadChain
  <2>3. Passes(r)' => f \subseteq {"warning"}
    BY <2>2 DEF Passes
  <2>4. "warning" \notin f /\ (f \subseteq {"lock-forged"} => Chained(ledger.text))
    BY FindingsOfChain DEF DiskOK
  <2>5. Passes(r)' => f = {}
    BY <2>3, <2>4
  <2>6. f' = f
    BY <2>1 DEF disk
  <2> HIDE DEF f
  <2>7. CASE f \subseteq {"lock-forged"}
    <3>1. pc'[r] = "readMirror" /\ Chained(ledger.text)
      BY <2>2, <2>4, <2>7
    <3> QED BY <3>1, <2>1, <2>2, <2>5, <2>6 DEF CheckOutline, Healing, disk, f
  <2>8. CASE ~(f \subseteq {"lock-forged"})
    <3>1. pc'[r] = "checked" /\ ~Passes(r)'
      BY <2>2, <2>5, <2>8
    <3> QED BY <3>1, <2>1 DEF CheckOutline, Healing, disk
  <2> QED BY <2>7, <2>8
<1>6. CASE ReadMirror(r)
  <2> DEFINE f == MirrorFindings(ledger.text, mirror)
  <2>1. /\ trustLock \in Locks /\ seenLock[r] = trustLock /\ seenText[r] = ledger.text
        /\ Chained(ledger.text) /\ (Passes(r) => LedgerFindings(trustLock, ledger.text) = {})
        /\ UNCHANGED <<seenLock, seenText, disk>>
    BY <1>6 DEF ReadMirror, CheckOutline, Healing
  <2>2. /\ findings'[r] = findings[r] \cup f
        /\ pc'[r] \in {"checked", "heal"} /\ (pc'[r] = "heal" => f = {})
    BY <1>6, <2>1 DEF ReadMirror
  <2>3. Passes(r)' => Passes(r) /\ f = {}
    BY <2>2 DEF Passes, MirrorFindings
  <2>4. trustLock # NoLock /\ trustLock # BadLock
    BY <2>1, TrustSurfaceAssumption
  <2> QED BY <2>1, <2>2, <2>3, <2>4 DEF CheckOutline, Healing, disk, BookFindings
<1>7. CASE OpenMirror(r) \/ Heal(r)
  <2>1. CASE pc[r] = "openMirror"
    BY <1>7, <2>1 DEF OpenMirror, Heal, CheckOutline, Healing
  <2>2. CASE pc[r] \in {"heal", "healing"}
    <3>1. /\ trustLock \in Locks /\ seenLock[r] = trustLock /\ seenText[r] = ledger.text
          /\ Chained(ledger.text) /\ (Passes(r) => LedgerFindings(trustLock, ledger.text) = {})
          /\ MirrorFindings(ledger.text, mirror) = {}
      BY <2>2 DEF CheckOutline, Healing
    <3>2. /\ UNCHANGED <<seenLock, seenText, trustLock, ledger, findings>>
          /\ pc'[r] \in {"checked", "healing"}
          /\ mirror' \in {0, mirror, ChainHead(ledger.text)}
      BY <1>7, <2>2, <3>1 DEF OpenMirror, Heal, check
    <3>3. ChainHead(ledger.text) \in Hashes(ledger.text)
      BY <3>1, ChainFacts DEF DiskOK
    <3>4. MirrorFindings(ledger.text, mirror') = {}
      BY <3>1, <3>2, <3>3 DEF MirrorFindings
    <3>5. trustLock # NoLock /\ trustLock # BadLock
      BY <3>1, TrustSurfaceAssumption
    <3> QED BY <3>1, <3>2, <3>4, <3>5 DEF CheckOutline, Healing, BookFindings, Passes
  <2> QED BY <1>7, <2>1, <2>2 DEF OpenMirror, Heal
<1>8. CASE ContextLock(r)
  BY <1>8 DEF ContextLock, Found, CheckOutline, Healing, disk
<1>9. ASSUME ~Find(r), ~FindMirror(r), ~ReadLock(r), ~Snapshot(r), ~ReadChain(r), ~ReadMirror(r),
             ~OpenMirror(r), ~Heal(r), ~ContextLock(r)
      PROVE  CheckOutline(r)'
  <2>1. pc'[r] \notin Elsewhere
    BY <1>9 DEF Ended, Healing, Found, NotFound, Proceed, Reconcile, Lock, Approve, WriteBaseline, Unlock,
         Begin, Report, ContextMirror, PreScaffold, Relock, Scaffold, Rescan, Gate, ReadMode,
         Review, Confirm, Recheck, Chain, Acquire, AcquireTimesOut, ReadHead, ReadText, Truncate,
         AppendEntry, WriteMirror, WriteTmp, Rename, RmLock, RmLedger, RmMirror, Kill
  <2> QED BY <2>1 DEF CheckOutline, Healing
<1> QED BY <1>1, <1>2, <1>3, <1>4, <1>5, <1>6, <1>7, <1>8, <1>9

\* A lock that passes its own check is chained.
LEMMA PassedChain ==
  ASSUME TInv, NEW r \in Runs, CheckOutline(r), pc[r] = "checked", Clean(r)
  PROVE  /\ BookFindings = {}
         /\ seenLock[r] # NoLock => Chained(ledger.text)
<1> USE DEF TInv, TypeOK
<1>1. BookFindings = {} /\ (seenLock[r] # NoLock => seenLock[r] = trustLock)
  BY DEF CheckOutline, Clean, Passes
<1>2. ASSUME seenLock[r] # NoLock PROVE Chained(ledger.text)
  <2>1. trustLock \in Locks
    BY <1>1, <1>2 DEF CheckOK
  <2>2. LedgerFindings(trustLock, ledger.text) = {}
    BY <1>1, <2>1, TrustSurfaceAssumption DEF BookFindings
  <2> QED BY <2>2, FindingsOfChain DEF DiskOK
<1> QED BY <1>1, <1>2

LEMMA LateOutlinesStep ==
  ASSUME TInv, NothingRead, Alone, LateOutlines, NEW r \in Runs, Proceed(r) \/ Kill(r)
  PROVE  LateOutlines'
<1> USE DEF TInv, TypeOK
<1>1. ASSUME r \in Late PROVE Outline(r)' /\ CheckOutline(r)'
  <2>1. Outline(r) /\ CheckOutline(r)
    BY <1>1 DEF LateOutlines
  <2>2. Relock(r) /\ pc'[r] = "scaffold" => Chained(ledger.text)
    BY <2>1, PassedChain DEF Relock, PcOK, Goto, At
  <2> QED BY <2>1, <2>2, OutlineStep, CheckOutlineStep
<1>2. ASSUME NEW q \in Runs, q \in Late, q # r PROVE Outline(q)' /\ CheckOutline(q)'
  <2>1. pc'[q] = pc[q] /\ findings'[q] = findings[q] /\ seenLock'[q] = seenLock[q]
        /\ seenText'[q] = seenText[q] /\ target'[q] = target[q] /\ fresh'[q] = fresh[q] /\ head'[q] = head[q]
    BY <1>2, OthersStay
  <2>2. CASE Active(q)
    <3>1. pc[r] = "idle"
      BY <1>2, <2>2, MovesOnce DEF Alone, Active
    <3>2. UNCHANGED disk
      BY <3>1, MovesOnce DEF Begin
    <3>3. Outline(q) /\ CheckOutline(q)
      BY <1>2 DEF LateOutlines
    <3> QED BY <2>1, <3>2, <3>3 DEF disk, Outline, Recorded, CheckOutline, Passes, BookFindings
  <2>3. CASE ~Active(q)
    BY <2>1, <2>3 DEF Active, Ended, Outline, CheckOutline, Healing
  <2> QED BY <2>2, <2>3
<1> QED BY <1>1, <1>2 DEF LateOutlines

\* What a run that others leave alone does to books that agree.
LEMMA BooksKept ==
  ASSUME TInv, NEW r \in Runs, CheckOutline(r), Proceed(r) \/ Kill(r),
         pc[r] \notin Between, pc'[r] \notin Between, BookFindings = {}
  PROVE  BookFindings' = {}
<1> USE DEF TInv, TypeOK
<1>1. CASE UNCHANGED <<trustLock, ledger, mirror>>
  BY <1>1 DEF BookFindings
<1>2. CASE pc[r] \in {"heal", "healing"} /\ mirror' \in {0, ChainHead(seenText[r])}
  <2>1. trustLock \in Locks /\ Chained(ledger.text) /\ seenText[r] = ledger.text
    BY <1>2 DEF CheckOutline, Healing
  <2>2. mirror' \in Hashes(ledger.text) \cup {0}
    BY <1>2, <2>1, ChainFacts DEF DiskOK
  <2>3. UNCHANGED <<trustLock, ledger>>
    BY BooksFrame
  <2> QED BY <2>1, <2>2, <2>3, TrustSurfaceAssumption DEF BookFindings, MirrorFindings
<1> QED BY <1>1, <1>2, BooksFrame

\* How an approval comes to its end.
LEMMA ApprovalEnds ==
  ASSUME TInv, Alone, HoldsLedgerLock, NEW r \in Runs, r \in Late, Outline(r), CheckOutline(r),
         Proceed(r) \/ Kill(r), pc'[r] \in {"written", "passed", "failed"}
  PROVE  BookFindings' = {}
<1> USE DEF TInv, TypeOK, PcOK, Goto, At
<1>1. CASE Rename(r)
  BY <1>1, RenameCleans
<1>2. ~AcquireTimesOut(r)
  <2> SUFFICES ASSUME AcquireTimesOut(r) PROVE FALSE
    OBVIOUS
  <2>1. PICK x \in Runs : x \in ledgerLock
    BY DEF AcquireTimesOut, DiskOK
  <2>2. Active(x) /\ Active(r) /\ x # r
    BY <2>1 DEF HoldsLedgerLock, Critical, Active, Ended, AcquireTimesOut
  <2> QED BY <2>2 DEF Alone, Active
<1>3. CASE ContextMirror(r)
  BY <1>3 DEF ContextMirror, Found, CheckOutline, BookFindings, disk
<1>4. CASE Gate(r) \/ Relock(r) \/ Report(r)
  <2>1. pc[r] = "checked" /\ Passes(r)
    BY <1>4 DEF Gate, Relock, Report, Clean, Passes
  <2> QED BY <2>1, <1>4 DEF CheckOutline, Gate, Relock, Report, disk, BookFindings
<1> QED BY <1>1, <1>2, <1>3, <1>4
        DEF Found, NotFound, Proceed, Reconcile, Lock, Approve, WriteBaseline, Unlock,
       Begin, Find, FindMirror, ReadLock, Snapshot, ReadChain, ReadMirror, OpenMirror,
       Heal, ContextLock, PreScaffold, Scaffold, Rescan, ReadMode, Review, Confirm,
       Recheck, Chain, Acquire, ReadHead, ReadText, Truncate, AppendEntry, WriteMirror,
       WriteTmp, RmLock, RmLedger, RmMirror, Kill

LEMMA StaysRestoredStep ==
  ASSUME Late \cap Faulty = {}, TInv, FInv, NEW r \in Runs, Proceed(r) \/ Kill(r)
  PROVE  StaysRestored'
<1> USE DEF TInv, TypeOK, FInv
<1> SUFFICES ASSUME Restored', Intact' PROVE BookFindings' = {}
  BY DEF StaysRestored
<1>1. \A q \in Runs \ {r} : pc'[q] = pc[q]
  BY OthersStay
<1>2. CASE r \in Approvers \cap Late /\ pc'[r] \in {"written", "passed", "failed"}
  BY <1>2, ApprovalEnds DEF LateOutlines
<1>3. ASSUME NEW a \in Approvers \cap Late, pc[a] \in {"written", "passed", "failed"}, a # r
      PROVE  BookFindings' = {}
  <2>1. a \in Runs /\ pc[a] # "idle" /\ pc[r] \notin Ended
    BY <1>3, MovesOnce DEF Runs
  <2>2. r \in Late /\ Outline(r) /\ CheckOutline(r) /\ ~Kill(r)
    BY <1>3, <2>1 DEF Alone, LateOutlines, Kill
  <2>3. CASE Intact
    <3>1. BookFindings = {}
      BY <1>3, <2>3 DEF StaysRestored, Restored
    <3> QED BY <2>2, <2>3, <3>1, BooksKept DEF Intact
  <2>4. CASE ~Intact
    <3>1. PICK x \in Runs : pc[x] \in Between
      BY <2>4 DEF Intact
    <3>2. x = r
      BY <1>1, <3>1 DEF Intact
    <3>3. Rename(r) \/ RmMirror(r)
      BY <2>2, <3>1, <3>2, ChangesEnd DEF Intact
    <3>4. CASE RmMirror(r)
      BY <2>2, <3>4 DEF RmMirror, At, Outline, BookFindings
    <3> QED BY <2>2, <3>3, <3>4, RenameCleans
  <2> QED BY <2>3, <2>4
<1> QED BY <1>1, <1>2, <1>3 DEF Restored, Runs

LEMMA FInvStep ==
  ASSUME Late \cap Faulty = {}, TInv, NothingRead, FInv, NEW r \in Runs, Proceed(r) \/ Kill(r)
  PROVE  FInv'
BY AloneStep, HoldsLedgerLockStep, LateOutlinesStep, StaysRestoredStep DEF FInv, TInv

LEMMA FInvEdit ==
  ASSUME FInv, Edit \/ UNCHANGED vars
  PROVE  FInv'
<1>1. UNCHANGED <<disk, pc, check, writing>>
  BY DEF Edit, vars
<1> QED BY <1>1 DEF disk, check, writing, FInv, Alone, Active, HoldsLedgerLock, LateOutlines, Outline,
           Recorded, CheckOutline, Passes, BookFindings, StaysRestored, Restored, Intact

LEMMA FInvNext ==
  ASSUME Late \cap Faulty = {}
  PROVE  TInv /\ DInv /\ FInv /\ [Next]_vars => TInv' /\ DInv' /\ FInv'
BY TInvNext, DInvNext, FInvStep, FInvEdit DEF Next, Finished, DInv

LEMMA FInvInit == Init => FInv
BY DEF Init, FInv, Alone, HoldsLedgerLock, Critical, LateOutlines, Outline, CheckOutline, Healing,
       StaysRestored, Restored, Runs

\* Whatever crashes, checkouts and hand edits have left on the disk, a human's
\* approval that has the project to itself, is not killed and is not refused
\* leaves books that agree: for any number of earlier runs, and of later ones
\* that also have the project to themselves.
THEOREM ApprovalRepairs ==
  ASSUME Late \cap Faulty = {}
  PROVE  Spec => []ApprovalRestores
<1>1. Init => TInv /\ DInv /\ FInv
  BY TInvInit, DInvInit, FInvInit
<1>2. FInv => ApprovalRestores
  BY DEF FInv, StaysRestored, Restored, Intact, Between, ApprovalRestores, Idle, Ended
<1> QED BY <1>1, <1>2, FInvNext, PTL DEF Spec

LEMMA UnlockerPlacesStep ==
  ASSUME TypeOK, UnlockerPlaces, NEW r \in Runs, Proceed(r) \/ Kill(r)
  PROVE  UnlockerPlaces'
<1>1. r \in Unlockers => pc'[r] \in Ended \cup {"idle", "context", "contextMirror", "rmLock", "rmLedger", "rmMirror"}
  <2> SUFFICES ASSUME r \in Unlockers
               PROVE  pc'[r] \in Ended \cup {"idle", "context", "contextMirror", "rmLock", "rmLedger", "rmMirror"}
    OBVIOUS
  <2>1. r \notin Lockers /\ r \notin Approvers /\ r \notin Statuses
    BY RunsAssumption
  <2> QED
    BY <2>1 DEF TypeOK, PcOK, UnlockerPlaces, Ended, Goto, At, Found, NotFound, Proceed, Reconcile, Lock,
       Approve, WriteBaseline, Unlock,
       Begin, Find, FindMirror, ReadLock, Snapshot, ReadChain, ReadMirror, OpenMirror,
       Heal, Report, ContextLock, ContextMirror, PreScaffold, Relock, Scaffold, Rescan,
       Gate, ReadMode, Review, Confirm, Recheck, Chain, Acquire, AcquireTimesOut,
       ReadHead, ReadText, Truncate, AppendEntry, WriteMirror, WriteTmp, Rename, RmLock,
       RmLedger, RmMirror, Kill
<1> QED BY <1>1, OthersStay DEF UnlockerPlaces, Runs

\* What a run does to a project that has been unlocked, if it does not lock it.
LEMMA StaysUnlocked ==
  ASSUME TInv, NEW r \in Runs \ Lockers, ~Kill(r), Proceed(r), trustLock = NoLock, mirror = 0,
         Active(r) => pc[r] \in Cleanly /\ (pc[r] = "checked" => Clean(r))
  PROVE  /\ trustLock' = NoLock /\ mirror' = 0
         /\ Active(r)' => pc'[r] \in Cleanly /\ (pc'[r] = "checked" => Clean(r)')
<1> USE DEF TInv, TypeOK, PcOK, CheckOK
<1>1. Begin(r) \/ (Active(r) /\ pc[r] # "idle")
  BY MovesOnce DEF Active
<1>2. Begin(r) \/ Find(r) \/ FindMirror(r) \/ ContextLock(r) \/ ContextMirror(r) \/ Report(r) \/ Gate(r)
  BY <1>1 DEF Cleanly, At, Proceed, Reconcile, Lock, Approve, WriteBaseline, Unlock,
       ReadLock, Snapshot, ReadChain, ReadMirror, OpenMirror, Heal, PreScaffold, Relock, Scaffold,
       Rescan, ReadMode, Review, Confirm, Recheck, Chain, Acquire, AcquireTimesOut, ReadHead,
       ReadText, Truncate, AppendEntry, WriteMirror, WriteTmp, Rename, RmLock, RmLedger, RmMirror
<1>3. CASE Begin(r) \/ ContextLock(r) \/ ContextMirror(r) \/ Find(r)
  BY <1>3 DEF Begin, ContextLock, ContextMirror, Find, Found, NotFound, Goto, disk, Cleanly, Active, Ended
<1>4. CASE FindMirror(r)
  BY <1>4 DEF FindMirror, Goto, disk, Cleanly, Clean
<1>5. CASE Report(r) \/ Gate(r)
  BY <1>1, <1>5 DEF Report, Gate, Goto, At, disk, Clean, Passes, Active, Ended
<1> QED BY <1>2, <1>3, <1>4, <1>5

LEMMA StaysClearedStep ==
  ASSUME Late \cap Faulty = {}, Lockers \cap Late = {}, TInv, UInv, NEW r \in Runs, Proceed(r) \/ Kill(r)
  PROVE  StaysCleared'
<1> USE DEF TInv, TypeOK, UInv, FInv
<1> SUFFICES ASSUME Cleared'
             PROVE  /\ trustLock' = NoLock /\ mirror' = 0
                    /\ \A q \in Runs : Active(q)' => pc'[q] \in Cleanly /\ (pc'[q] = "checked" => Clean(q)')
  BY DEF StaysCleared
<1>1. \A q \in Runs \ {r} : pc'[q] = pc[q] /\ findings'[q] = findings[q]
  BY OthersStay
<1>2. ASSUME r \in Unlockers \cap Late, pc'[r] \in {"passed", "unlocked"}
      PROVE  /\ trustLock' = NoLock /\ mirror' = 0
             /\ \A q \in Runs : ~Active(q)'
  <2>1. Outline(r) /\ CheckOutline(r) /\ pc[r] # "checked"
    BY <1>2 DEF LateOutlines, UnlockerPlaces, Ended
  <2>2. ContextMirror(r) \/ RmMirror(r)
    BY <1>2, <2>1 DEF PcOK, Goto, At, Found, NotFound, Proceed, Reconcile, Lock, Approve,
       WriteBaseline, Unlock, Begin, Find, FindMirror, ReadLock, Snapshot, ReadChain, ReadMirror,
       OpenMirror, Heal, Report, ContextLock, PreScaffold, Relock, Scaffold, Rescan, Gate, ReadMode,
       Review, Confirm, Recheck, Chain, Acquire, AcquireTimesOut, ReadHead, ReadText, Truncate,
       AppendEntry, WriteMirror, WriteTmp, Rename, RmLock, RmLedger, Kill
  <2>3. trustLock' = NoLock /\ mirror' = 0
    BY <1>2, <2>1, <2>2 DEF ContextMirror, RmMirror, Found, At, Goto, PcOK, disk, Outline, CheckOutline
  <2>4. Active(r)
    BY <2>2 DEF ContextMirror, RmMirror, At, Active, Ended
  <2>5. \A q \in Runs \ {r} : ~Active(q)
    BY <1>2, <2>4 DEF Alone, Active
  <2> QED BY <1>1, <1>2, <2>3, <2>5 DEF Active, Ended
<1>3. ASSUME NEW u \in Unlockers \cap Late, pc[u] \in {"passed", "unlocked"}, u # r
      PROVE  /\ trustLock' = NoLock /\ mirror' = 0
             /\ \A q \in Runs : Active(q)' => pc'[q] \in Cleanly /\ (pc'[q] = "checked" => Clean(q)')
  <2>1. u \in Runs /\ pc[u] # "idle" /\ pc[r] \notin Ended
    BY <1>3, MovesOnce DEF Runs
  <2>2. r \in Late /\ r \notin Lockers /\ ~Kill(r)
    BY <1>3, <2>1 DEF Alone, Kill
  <2>3. /\ trustLock = NoLock /\ mirror = 0
        /\ \A q \in Runs : Active(q) => pc[q] \in Cleanly /\ (pc[q] = "checked" => Clean(q))
    BY <1>3 DEF StaysCleared, Cleared
  <2>4. /\ trustLock' = NoLock /\ mirror' = 0
        /\ Active(r)' => pc'[r] \in Cleanly /\ (pc'[r] = "checked" => Clean(r)')
    BY <2>2, <2>3, StaysUnlocked
  <2> QED BY <1>1, <2>3, <2>4 DEF Active, Clean
<1> QED BY <1>1, <1>2, <1>3 DEF Cleared, Runs

\* Whatever is on the disk, an unlock that has the project to itself, is not
\* killed and is not refused leaves neither a lock nor a mirror that would keep
\* firing lock-removed, as long as nobody locks the project again.
THEOREM UnlockIsClean ==
  ASSUME Late \cap Faulty = {}, Lockers \cap Late = {}
  PROVE  Spec => []UnlockClears
<1> DEFINE Inv == TInv /\ DInv /\ UInv
<1>1. Init => Inv
  <2>1. Init => StaysCleared /\ UnlockerPlaces
    BY DEF Init, StaysCleared, Cleared, UnlockerPlaces, Runs
  <2> QED BY <2>1, TInvInit, DInvInit, FInvInit DEF UInv
<1>2. Inv /\ [Next]_vars => Inv'
  <2> SUFFICES ASSUME Inv, [Next]_vars PROVE Inv'
    OBVIOUS
  <2>1. TInv' /\ DInv' /\ FInv'
    BY FInvNext DEF UInv
  <2>2. ASSUME Edit \/ UNCHANGED vars PROVE StaysCleared' /\ UnlockerPlaces'
    BY <2>2 DEF Edit, vars, disk, check, UInv, StaysCleared, Cleared, UnlockerPlaces, Active, Clean
  <2>3. ASSUME NEW r \in Runs, Proceed(r) \/ Kill(r) PROVE StaysCleared' /\ UnlockerPlaces'
    BY <2>3, StaysClearedStep, UnlockerPlacesStep DEF UInv, TInv
  <2> QED BY <2>1, <2>2, <2>3 DEF Next, Finished, UInv
<1>3. Inv => UnlockClears
  BY DEF UInv, StaysCleared, Cleared, UnlockClears
<1> QED BY <1>1, <1>2, <1>3, PTL DEF Spec
-----------------------------------------------------------------------------
(* One writer *)

\* The runs that may come to write the lock or the ledger.
Writers == Lockers \cup ((Approvers \cup Unlockers) \cap Humans)

\* One of them may overlap with any number of reconciliations; the others have
\* the project to themselves, and so has whoever unlocks.  No writer dies, and
\* the books agree at first.
OneWriter ==
  /\ \A q, r \in Writers \ Late : q = r
  /\ Unlockers \cap Humans \subseteq Late
  /\ Faulty \cap Writers = {}
  /\ StartStates \subseteq {"locked", "unlocked"}

WriterPlaces ==
  {"preScaffold", "scaffold", "rescan", "mode", "review", "confirm", "recheck", "chain", "acquire",
   "writeTmp", "rename", "rmLock", "rmLedger", "rmMirror"} \cup Critical

OnlyWriters == \A r \in Runs \ Writers : pc[r] \notin WriterPlaces

Examining == {"find", "findMirror", "readLock", "snapshot", "readChain", "checked"} \cup Healing

\* What a writer may rely on, from its first look at the disk.
WriterOutline(r) ==
  /\ pc[r] = "contextMirror" => trustLock = NoLock
  /\ pc[r] \in {"contextMirror", "preScaffold", "append", "rmMirror"} => ledger.text = <<>>
  /\ pc[r] \in {"scaffold", "rescan", "acquire"} /\ fresh[r] => ledger.text = <<>>
  /\ pc[r] \in Examining \cup {"mode", "review", "confirm", "recheck", "chain"} => Chained(ledger.text)
  /\ pc[r] = "truncate" => seenText[r] = ledger.text
  /\ pc[r] \in {"rmLock", "rmLedger", "rmMirror"} => r \in Unlockers

WriterOutlines == \A r \in Writers : Outline(r) /\ WriterOutline(r)

\* A hash in the ledger, or in what a run is about to write back to it.
Kept(h) ==
  \/ h \in Hashes(ledger.text)
  \/ \E r \in Runs : pc[r] = "append" /\ h \in Hashes(seenText[r])

MirrorKept  == (\A r \in Runs : pc[r] # "rmMirror") => mirror = 0 \/ Kept(mirror)
HealersKept == \A r \in Runs : pc[r] \in Healing => Kept(ChainHead(seenText[r]))

BooksAgree == Intact => BookFindings = {} /\ (trustLock = NoLock => ledger.text = <<>>)

WInv == /\ Alone /\ OnlyWriters /\ WriterOutlines /\ MirrorKept /\ HealersKept /\ BooksAgree

\* The entries of the runs that have appended one, and the first one, are kept.
Entered == {"openMirror", "writeMirror", "writeTmp", "rename", "written"}
EntriesKept == Kept(1) /\ \A r \in Runs : pc[r] \in Entered => Kept(head[r])

\* While one writer is at work no other is; while it works late nobody is.
LEMMA OneAtWork ==
  ASSUME OneWriter, Alone, NEW w \in Writers, Active(w), NEW q \in Runs \ {w}, Active(q)
  PROVE  q \notin Writers /\ w \notin Late
<1>1. w \in Runs /\ w \notin Late
  BY DEF Alone, Active, Writers, Runs
<1>2. q \notin Late
  BY <1>1 DEF Alone, Active
<1> QED BY <1>1, <1>2 DEF OneWriter

\* A writer at work sees the books as nobody else is changing them.
LEMMA AtWork ==
  ASSUME OneWriter, TypeOK, WInv, NEW w \in Writers, Active(w)
  PROVE  /\ pc[w] \notin Between => Intact
         /\ \A h : Kept(h) <=> h \in Hashes(ledger.text) \/ (pc[w] = "append" /\ h \in Hashes(seenText[w]))
<1>1. \A q \in Runs \ {w} : pc[q] \notin WriterPlaces
  <2> TAKE q \in Runs \ {w}
  <2>1. CASE Active(q)
    BY <2>1, OneAtWork DEF WInv, OnlyWriters
  <2> QED BY <2>1 DEF Active, Ended, WriterPlaces, Critical
<1>2. Between \subseteq WriterPlaces /\ "append" \in WriterPlaces /\ w \in Runs
  BY DEF Between, WriterPlaces, Critical, Writers, Runs
<1> QED BY <1>1, <1>2 DEF Intact, Kept

\* What a writer finds on its first look at the disk: books that agree.
LEMMA FirstLook ==
  ASSUME OneWriter, TypeOK, WInv, NEW w \in Writers, pc[w] \in {"context", "contextMirror"}
  PROVE  /\ trustLock # NoLock => Chained(ledger.text)
         /\ trustLock = NoLock => ledger.text = <<>> /\ mirror = 0
<1>1. Active(w) /\ Intact
  BY AtWork DEF Active, Ended, Between
<1>2. BookFindings = {} /\ (trustLock = NoLock => ledger.text = <<>>)
  BY <1>1 DEF WInv, BooksAgree
<1>3. CASE trustLock # NoLock
  <2>1. LedgerFindings(trustLock, ledger.text) = {}
    BY <1>2, <1>3 DEF BookFindings
  <2> QED BY <1>3, <2>1, FindingsOfChain DEF TypeOK, DiskOK
<1>4. CASE trustLock = NoLock
  BY <1>2, <1>4 DEF BookFindings
<1> QED BY <1>3, <1>4

\* A writer's own steps keep what it relies on.
LEMMA WriterOutlineStep ==
  ASSUME OneWriter, TInv, WInv, NEW r \in Runs, r \in Writers, Proceed(r)
  PROVE  WriterOutline(r)'
<1> USE DEF TInv, TypeOK, PcOK, CheckOK, WritingOK, Goto, At
<1>1. WriterOutline(r) /\ r \notin Statuses
  BY RunsAssumption DEF WInv, WriterOutlines, Writers
<1>2. CASE Begin(r)
  BY <1>1, <1>2 DEF Begin, WriterOutline, Examining, Healing
<1>3. CASE ContextLock(r) \/ ContextMirror(r)
  <2>1. /\ trustLock # NoLock => Chained(ledger.text)
        /\ trustLock = NoLock => ledger.text = <<>> /\ mirror = 0
    BY <1>3, FirstLook DEF ContextLock, ContextMirror
  <2>2. UNCHANGED <<trustLock, ledger>>
    BY <1>3 DEF ContextLock, ContextMirror, disk
  <2>3. CASE ContextLock(r)
    <3>1. CASE trustLock = NoLock
      BY <2>1, <2>2, <2>3, <3>1 DEF ContextLock, WriterOutline, Examining, Healing
    <3>2. CASE trustLock # NoLock
      BY <2>1, <2>2, <2>3, <3>2 DEF ContextLock, Found, WriterOutline, Examining, Healing
    <3> QED BY <3>1, <3>2
  <2>4. CASE ContextMirror(r)
    <3>1. trustLock = NoLock /\ pc'[r] = NotFound(r)
      BY <1>1, <2>1, <2>4 DEF ContextMirror, WriterOutline
    <3> QED BY <2>1, <2>2, <3>1 DEF NotFound, WriterOutline, Examining, Healing
  <2> QED BY <1>3, <2>3, <2>4
<1>4. CASE PreScaffold(r) \/ Scaffold(r) \/ Rescan(r)
  <2>1. /\ pc[r] \in {"preScaffold", "scaffold", "rescan"} /\ UNCHANGED ledger
        /\ pc'[r] \in {"scaffold", "rescan", "acquire", "refused"}
        /\ fresh'[r] = IF pc[r] = "preScaffold" THEN TRUE ELSE fresh[r]
    BY <1>4 DEF PreScaffold, Scaffold, Rescan, disk, writing
  <2> QED BY <1>1, <2>1 DEF WriterOutline, Examining, Healing
<1>5. CASE Relock(r)
  BY <1>5 DEF Relock, WriterOutline, Examining, Healing
<1>6. CASE Find(r) \/ FindMirror(r) \/ ReadLock(r) \/ Snapshot(r) \/ ReadChain(r) \/ ReadMirror(r)
           \/ Heal(r) \/ (OpenMirror(r) /\ pc[r] = "heal") \/ Approve(r)
  <2>1. pc[r] \in Examining \cup {"mode", "review", "confirm", "recheck", "chain"}
    BY <1>6 DEF Examining, Healing, Find, FindMirror, ReadLock, Snapshot, ReadChain, ReadMirror,
         Heal, OpenMirror, Approve, Gate, ReadMode, Review, Confirm, Recheck, Chain
  <2>2. Chained(ledger.text) /\ ChainStatus(ledger.text) = "ok"
    BY <1>1, <2>1, ChainFacts DEF WriterOutline, DiskOK
  <2>3. /\ pc'[r] \in Examining \cup {"mode", "review", "confirm", "recheck", "chain", "acquire"} \cup Ended
        /\ UNCHANGED ledger
    BY <1>6 DEF Examining, Healing, Find, FindMirror, ReadLock, Snapshot, ReadChain, ReadMirror,
         Heal, OpenMirror, Approve, Gate, ReadMode, Review, Confirm, Recheck, Chain, disk, Ended
  <2>4. pc'[r] = "acquire" => fresh'[r] = FALSE
    BY <1>6, <2>2 DEF Find, FindMirror, ReadLock, Snapshot, ReadChain, ReadMirror,
         Heal, OpenMirror, Approve, Gate, ReadMode, Review, Confirm, Recheck, Chain
  <2> QED BY <2>2, <2>3, <2>4 DEF WriterOutline, Ended, Examining, Healing
<1>7. CASE Acquire(r) \/ AcquireTimesOut(r) \/ ReadHead(r) \/ ReadText(r)
  BY <1>1, <1>7 DEF Acquire, AcquireTimesOut, ReadHead, ReadText, WriterOutline, disk, Examining, Healing
<1>8. CASE Truncate(r) \/ Unlock(r)
  BY <1>1, <1>8 DEF Truncate, Unlock, RmLock, RmLedger, RmMirror, WriterOutline, Examining, Healing
<1>9. CASE AppendEntry(r) \/ (OpenMirror(r) /\ pc[r] = "openMirror") \/ WriteMirror(r) \/ WriteTmp(r)
           \/ Rename(r) \/ Report(r)
  BY <1>9 DEF AppendEntry, OpenMirror, WriteMirror, WriteTmp, Rename, Report, WriterOutline, Examining, Healing
<1> QED BY <1>2, <1>3, <1>4, <1>5, <1>6, <1>7, <1>8, <1>9
        DEF Proceed, Reconcile, Lock, WriteBaseline, OpenMirror

LEMMA OnlyWritersStep ==
  ASSUME TypeOK, OnlyWriters, NEW r \in Runs, Proceed(r) \/ Kill(r)
  PROVE  OnlyWriters'
<1>1. r \notin Writers => pc'[r] \notin WriterPlaces
  <2> SUFFICES ASSUME r \notin Writers PROVE pc'[r] \notin WriterPlaces
    OBVIOUS
  <2>1. r \notin Lockers /\ (r \in Approvers \cup Unlockers => r \notin Humans) /\ pc[r] \notin WriterPlaces
    BY DEF Writers, OnlyWriters
  <2> QED
    BY <2>1 DEF TypeOK, PcOK, WriterPlaces, Critical, Ended, Goto, At, Found, NotFound, Proceed, Reconcile,
       Lock, Approve, WriteBaseline, Unlock,
       Begin, Find, FindMirror, ReadLock, Snapshot, ReadChain, ReadMirror, OpenMirror,
       Heal, Report, ContextLock, ContextMirror, PreScaffold, Relock, Scaffold, Rescan,
       Gate, ReadMode, Review, Confirm, Recheck, Chain, Acquire, AcquireTimesOut,
       ReadHead, ReadText, Truncate, AppendEntry, WriteMirror, WriteTmp, Rename, RmLock,
       RmLedger, RmMirror, Kill
<1> QED BY <1>1, OthersStay DEF OnlyWriters

\* No hash is lost but by removing the ledger.
LEMMA KeptStep ==
  ASSUME OneWriter, TInv, WInv, NEW r \in Runs, Proceed(r) \/ Kill(r), ~RmLedger(r), NEW h, Kept(h)
  PROVE  Kept(h)'
<1> USE DEF TInv, TypeOK
<1>1. pc[r] \in WriterPlaces => /\ r \in Writers /\ Active(r) /\ ~Kill(r)
                                /\ Outline(r) /\ WriterOutline(r)
  BY DEF WInv, OnlyWriters, WriterOutlines, OneWriter, Active, Ended, Kill, WriterPlaces, Critical
<1>2. CASE Truncate(r)
  <2>1. pc[r] = "truncate" /\ r \in Writers /\ Active(r) /\ seenText[r] = ledger.text
    BY <1>1, <1>2 DEF Truncate, At, WriterPlaces, Critical, WriterOutline
  <2>2. h \in Hashes(seenText[r])
    BY <2>1, AtWork
  <2>3. pc'[r] = "append" /\ seenText'[r] = seenText[r]
    BY <1>2 DEF Truncate, Goto, PcOK, check
  <2> QED BY <2>2, <2>3 DEF Kept, Hashes
<1>3. CASE AppendEntry(r)
  <2> DEFINE e == Entry(lastHash', head[r], target[r])
  <2>1. /\ pc[r] = "append" /\ r \in Writers /\ Active(r) /\ Extends(seenText[r], head[r])
        /\ ledger.exists /\ ledger.text = <<>>
    BY <1>1, <1>3 DEF AppendEntry, At, WriterPlaces, Critical, Outline, WriterOutline
  <2>2. h \in Hashes(seenText[r])
    <3>1. Hashes(ledger.text) = {}
      BY <2>1, ChainFacts DEF DiskOK
    <3> QED BY <2>1, <3>1, AtWork
  <2>3. e \in Entries /\ e.prevHash = head[r]
    BY <1>3 DEF AppendEntry, Entry, Entries, DiskOK, WritingOK
  <2>4. ledger'.text = Append(seenText[r], e)
    BY <1>3, <2>1 DEF AppendEntry, DiskOK
  <2> HIDE DEF e
  <2>5. h \in Hashes(Append(seenText[r], e))
    BY <2>1, <2>2, <2>3, ChainAppend DEF CheckOK
  <2> QED BY <2>4, <2>5 DEF Kept, Hashes
<1>4. ASSUME ~Truncate(r), ~AppendEntry(r) PROVE Kept(h)'
  <2>1. UNCHANGED ledger
    BY <1>4, LedgerFrame
  <2>2. pc[r] # "append"
    BY <1>1, <1>4 DEF WriterPlaces, Critical, At, Proceed, Reconcile, Lock, Approve, WriteBaseline, Unlock,
       Begin, Find, FindMirror, ReadLock, Snapshot, ReadChain, ReadMirror, OpenMirror,
       Heal, Report, ContextLock, ContextMirror, PreScaffold, Relock, Scaffold, Rescan,
       Gate, ReadMode, Review, Confirm, Recheck, Chain, Acquire, AcquireTimesOut,
       ReadHead, ReadText, WriteMirror, WriteTmp, Rename, RmLock, RmLedger, RmMirror
  <2> QED BY <2>1, <2>2, OthersStay DEF Kept, Hashes
<1> QED BY <1>2, <1>3, <1>4

\* Whoever writes the mirror writes a hash that is kept.
LEMMA MirrorStep ==
  ASSUME OneWriter, TInv, WInv, NEW r \in Runs, Proceed(r) \/ Kill(r)
  PROVE  \/ UNCHANGED mirror
         \/ mirror' = 0
         \/ pc[r] \in {"healing", "writeMirror"} /\ Kept(mirror')
<1> USE DEF TInv, TypeOK
<1>1. CASE Heal(r)
  BY <1>1 DEF Heal, At, WInv, HealersKept, Healing
<1>2. CASE WriteMirror(r)
  <2>1. pc[r] = "writeMirror" /\ mirror' = head[r] /\ Recorded(r)
    BY <1>2 DEF WriteMirror, At, WInv, OnlyWriters, WriterPlaces, Critical, WriterOutlines, Outline
  <2> QED BY <2>1, ChainFacts DEF Recorded, Kept, DiskOK
<1> QED BY <1>1, <1>2, DiskFrame
        DEF disk, OpenMirror, Scaffold, Acquire, Truncate, AppendEntry, WriteTmp, Rename, RmLock,
            RmLedger, RmMirror, Kill

\* Whoever removes the books is at work alone.
LEMMA RemoverAlone ==
  ASSUME OneWriter, WInv, NEW r \in Runs, pc[r] \in {"rmLock", "rmLedger", "rmMirror"}
  PROVE  r \in Writers /\ r \in Late /\ \A q \in Runs \ {r} : ~Active(q)
<1>1. r \in Writers /\ r \in Unlockers /\ Active(r)
  BY DEF WInv, OnlyWriters, WriterPlaces, WriterOutlines, WriterOutline, Active, Ended
<1>2. r \in Late
  BY <1>1, RunsAssumption DEF OneWriter, Writers
<1> QED BY <1>1, <1>2 DEF WInv, Alone, Active, Ended

LEMMA MirrorKeptStep ==
  ASSUME OneWriter, TInv, WInv, NEW r \in Runs, Proceed(r) \/ Kill(r)
  PROVE  MirrorKept'
<1> USE DEF TInv, TypeOK
<1> SUFFICES ASSUME \A q \in Runs : pc'[q] # "rmMirror" PROVE mirror' = 0 \/ Kept(mirror)'
  BY DEF MirrorKept, Kept, Hashes
<1>1. ~RmLedger(r)
  BY DEF RmLedger, Goto, PcOK
<1>2. CASE mirror' # mirror
  BY <1>1, <1>2, MirrorStep, KeptStep DEF Kept, Hashes
<1>3. CASE mirror' = mirror
  <2>1. CASE \E q \in Runs : pc[q] = "rmMirror"
    <3>1. pc[r] = "rmMirror"
      BY <2>1, OthersStay
    <3>2. ~Kill(r)
      BY <3>1, RemoverAlone DEF OneWriter, Kill
    <3>3. mirror' = 0
      BY <3>1, <3>2 DEF At, Proceed, Reconcile, Lock, Approve, WriteBaseline, Unlock,
       Begin, Find, FindMirror, ReadLock, Snapshot, ReadChain, ReadMirror, OpenMirror,
       Heal, Report, ContextLock, ContextMirror, PreScaffold, Relock, Scaffold, Rescan,
       Gate, ReadMode, Review, Confirm, Recheck, Chain, Acquire, AcquireTimesOut,
       ReadHead, ReadText, Truncate, AppendEntry, WriteMirror, WriteTmp, Rename, RmLock, RmLedger, RmMirror
    <3> QED BY <3>3
  <2>2. CASE \A q \in Runs : pc[q] # "rmMirror"
    BY <1>1, <1>3, <2>2, KeptStep DEF WInv, MirrorKept, Kept, Hashes
  <2> QED BY <2>1, <2>2
<1> QED BY <1>2, <1>3

LEMMA HealersKeptStep ==
  ASSUME OneWriter, TInv, WInv, NEW r \in Runs, Proceed(r) \/ Kill(r)
  PROVE  HealersKept'
<1> USE DEF TInv, TypeOK
<1>1. ASSUME NEW q \in Runs, q # r, pc'[q] \in Healing PROVE Kept(ChainHead(seenText[q]))'
  <2>1. pc[q] \in Healing /\ seenText'[q] = seenText[q]
    BY <1>1, OthersStay
  <2>2. ~RmLedger(r)
    BY <1>1, <2>1, RemoverAlone DEF RmLedger, At, Active, Healing, Ended
  <2>3. Kept(ChainHead(seenText[q]))
    BY <2>1 DEF WInv, HealersKept
  <2> QED BY <2>1, <2>2, <2>3, KeptStep DEF Kept, Hashes, ChainHead
<1>2. ASSUME pc'[r] \in Healing PROVE Kept(ChainHead(seenText[r]))'
  <2>1. CASE ReadChain(r)
    <3>1. seenText'[r] = ledger.text /\ ledger.text # <<>> /\ UNCHANGED ledger
      BY <1>2, <2>1 DEF ReadChain, CheckOK, Goto, PcOK, Healing, disk, LedgerFindings, ChainStatus
    <3>2. ChainHead(ledger.text) \in Hashes(ledger.text)
      <4>1. Chained(ledger.text)
        BY <1>2, <2>1, FindingsOfChain DEF ReadChain, Goto, PcOK, Healing, DiskOK
      <4> QED BY <4>1, ChainFacts DEF DiskOK
    <3> QED BY <3>1, <3>2 DEF Kept, Hashes, ChainHead
  <2>2. CASE ~ReadChain(r)
    <3>1. pc[r] \in Healing /\ UNCHANGED seenText /\ ~RmLedger(r)
      BY <1>2, <2>2 DEF PcOK, Healing, Ended, Goto, At, Found, NotFound, Proceed, Reconcile, Lock, Approve,
       WriteBaseline, Unlock, check,
       Begin, Find, FindMirror, ReadLock, Snapshot, ReadMirror, OpenMirror,
       Heal, Report, ContextLock, ContextMirror, PreScaffold, Relock, Scaffold, Rescan,
       Gate, ReadMode, Review, Confirm, Recheck, Chain, Acquire, AcquireTimesOut,
       ReadHead, ReadText, Truncate, AppendEntry, WriteMirror, WriteTmp, Rename, RmLock,
       RmLedger, RmMirror, Kill
    <3>2. Kept(ChainHead(seenText[r]))
      BY <3>1 DEF WInv, HealersKept
    <3>3. PICK h : h = ChainHead(seenText[r])
      OBVIOUS
    <3>4. Kept(h)'
      BY <3>1, <3>2, <3>3, KeptStep
    <3> QED BY <3>1, <3>3, <3>4 DEF ChainHead
  <2> QED BY <2>1, <2>2
<1> QED BY <1>1, <1>2 DEF HealersKept

\* A writer at work relies on what no other step takes away.
LEMMA WriterOutlinesStep ==
  ASSUME OneWriter, TInv, WInv, NEW r \in Runs, Proceed(r) \/ Kill(r)
  PROVE  WriterOutlines'
<1> USE DEF TInv, TypeOK
<1>1. ASSUME r \in Writers PROVE Outline(r)' /\ WriterOutline(r)'
  <2>1. Outline(r) /\ WriterOutline(r) /\ Proceed(r)
    BY <1>1 DEF WInv, WriterOutlines, OneWriter, Kill
  <2>2. Relock(r) => Chained(ledger.text)
    BY <2>1 DEF Relock, At, WriterOutline, Examining
  <2> QED BY <1>1, <2>1, <2>2, OutlineStep, WriterOutlineStep
<1>2. ASSUME NEW q \in Writers, q # r PROVE Outline(q)' /\ WriterOutline(q)'
  <2>1. /\ q \in Runs /\ pc'[q] = pc[q] /\ seenText'[q] = seenText[q]
        /\ target'[q] = target[q] /\ fresh'[q] = fresh[q] /\ head'[q] = head[q]
    BY <1>2, OthersStay DEF Writers, Runs
  <2>2. Outline(q) /\ WriterOutline(q)
    BY <1>2 DEF WInv, WriterOutlines
  <2>3. CASE Active(q)
    <3>1. pc[r] \notin WriterPlaces
      <4>1. CASE Active(r)
        BY <1>2, <2>1, <2>3, <4>1, OneAtWork DEF WInv, OnlyWriters
      <4> QED BY <4>1 DEF Active, Ended, WriterPlaces, Critical
    <3>2. UNCHANGED <<trustLock, ledger, tmpLock>>
      BY <3>1, DiskFrame DEF WriterPlaces, Critical, At, disk, OpenMirror, Heal, Scaffold, Acquire, Truncate,
         AppendEntry, WriteMirror, WriteTmp, Rename, RmLock, RmLedger, RmMirror, Kill
    <3>3. pc[q] \in {"writeTmp", "rename"} => mirror' \in {mirror, 0} \cup Hashes(ledger.text)
      BY <1>2, <2>3, MirrorStep, AtWork DEF TypeOK
    <3>4. Outline(q)'
      BY <2>1, <2>2, <3>2, <3>3, OutlineFrame
    <3> QED BY <2>1, <2>2, <3>2, <3>4 DEF WriterOutline
  <2>4. CASE ~Active(q)
    BY <2>1, <2>4 DEF Active, Ended, Outline, WriterOutline, Examining, Healing
  <2> QED BY <2>3, <2>4
<1> QED BY <1>1, <1>2 DEF WriterOutlines

LEMMA BooksAgreeStep ==
  ASSUME OneWriter, TInv, WInv, NEW r \in Runs, Proceed(r) \/ Kill(r)
  PROVE  BooksAgree'
<1> USE DEF TInv, TypeOK
<1> SUFFICES ASSUME Intact' PROVE BookFindings' = {} /\ (trustLock' = NoLock => ledger'.text = <<>>)
  BY DEF BooksAgree
<1>1. CASE Intact
  <2>1. pc[r] \notin Between /\ pc'[r] \notin Between
    BY <1>1 DEF Intact
  <2>2. UNCHANGED <<trustLock, ledger>>
    BY <2>1, BooksFrame
  <2>3. BookFindings = {} /\ (trustLock = NoLock => ledger.text = <<>>)
    BY <1>1 DEF WInv, BooksAgree
  <2>4. mirror' \in {mirror, 0} \cup Hashes(ledger.text)
    <3>1. \A h : Kept(h) => h \in Hashes(ledger.text)
      BY <1>1 DEF Intact, Between, Kept
    <3> QED BY <3>1, MirrorStep
  <2>5. CASE trustLock = NoLock
    <3>1. Hashes(ledger.text) = {}
      BY <2>3, <2>5, ChainFacts DEF DiskOK
    <3> QED BY <2>2, <2>3, <2>4, <2>5, <3>1 DEF BookFindings
  <2>6. CASE trustLock # NoLock
    BY <2>2, <2>3, <2>4, <2>6 DEF BookFindings, MirrorFindings
  <2> QED BY <2>5, <2>6
<1>2. CASE ~Intact
  <2>1. pc[r] \in Between
    BY <1>2, OthersStay DEF Intact
  <2>2. r \in Writers /\ Outline(r) /\ WriterOutline(r)
    BY <2>1 DEF WInv, OnlyWriters, WriterOutlines, Between, WriterPlaces, Critical
  <2>3. Rename(r) \/ RmMirror(r)
    BY <2>1, <2>2, ChangesEnd DEF Intact, OneWriter, Kill
  <2>4. CASE Rename(r)
    BY <2>2, <2>4, RenameCleans
  <2>5. CASE RmMirror(r)
    BY <2>2, <2>5 DEF RmMirror, At, Outline, WriterOutline, BookFindings
  <2> QED BY <2>3, <2>4, <2>5
<1> QED BY <1>1, <1>2

LEMMA WInvInit ==
  ASSUME OneWriter
  PROVE  Init => WInv
<1> SUFFICES ASSUME Init PROVE WInv
  OBVIOUS
<1>1. BooksAgree /\ MirrorKept
  <2>1. CASE InitUnlocked
    BY <2>1 DEF InitUnlocked, BooksAgree, BookFindings, MirrorKept
  <2>2. ASSUME NEW m \in Modes, InitLocked(m) PROVE BooksAgree /\ MirrorKept
    <3> DEFINE b == [mode |-> m, files |-> surface]
               e == Entry(1, 0, b)
               lock == [baseline |-> b, ledgerHead |-> 1]
    <3>1. /\ trustLock = lock /\ ledger.text = <<e>> /\ mirror \in {0, 1}
          /\ b \in Baselines
      BY <2>2 DEF InitLocked, Init, Baselines
    <3>2. e \in Entries /\ e.prevHash = 0 /\ e.hash = 1 /\ e.detail = b /\ lock \in Locks
      BY <3>1 DEF Entry, Entries, Locks
    <3>3. lock.ledgerHead = 1 /\ lock.baseline = b
      OBVIOUS
    <3> HIDE DEF b, e, lock
    <3>4. Chained(<<e>>) /\ ChainHead(<<e>>) = 1 /\ <<e>>[Len(<<e>>)].detail = b /\ 1 \in Hashes(<<e>>)
      <4>1. Len(<<e>>) = 1 /\ <<e>>[1] = e /\ <<e>> # <<>>
        OBVIOUS
      <4>2. \A i \in 1..1 : i = 1
        OBVIOUS
      <4> QED BY <3>2, <4>1, <4>2 DEF Chained, ChainOk, ChainHead, Hashes
    <3>5. mirror \in Hashes(<<e>>) \cup {0}
      BY <3>1, <3>4
    <3>6. LedgerFindings(lock, <<e>>) \cup MirrorFindings(<<e>>, mirror) = {}
      <4>1. <<e>> \in Seq(Entries)
        BY <3>2
      <4> QED BY <3>3, <3>4, <3>5, <4>1, Agreement
    <3> QED BY <3>1, <3>2, <3>5, <3>6, TrustSurfaceAssumption DEF BooksAgree, BookFindings, MirrorKept, Kept
  <2> QED BY <2>1, <2>2 DEF Init, OneWriter
<1>2. OnlyWriters /\ WriterOutlines /\ HealersKept
  BY DEF Init, OnlyWriters, WriterPlaces, Critical, Writers, Runs, WriterOutlines, Outline, WriterOutline,
         HealersKept, Healing, Examining
<1> QED BY <1>1, <1>2, AloneInit DEF WInv

LEMMA WInvNext ==
  ASSUME OneWriter
  PROVE  TInv /\ WInv /\ [Next]_vars => TInv' /\ WInv'
<1> SUFFICES ASSUME TInv, WInv, [Next]_vars PROVE WInv'
  BY TInvNext
<1>1. ASSUME NEW r \in Runs, Proceed(r) \/ Kill(r) PROVE WInv'
  BY <1>1, AloneStep, OnlyWritersStep, WriterOutlinesStep, MirrorKeptStep, HealersKeptStep, BooksAgreeStep
     DEF WInv, TInv
<1>2. ASSUME Edit \/ UNCHANGED vars PROVE WInv'
  <2>1. UNCHANGED <<disk, pc, check, writing>>
    BY <1>2 DEF Edit, vars
  <2> QED BY <2>1 DEF disk, check, writing, WInv, Alone, Active, OnlyWriters, WriterOutlines, Outline, Recorded,
             WriterOutline, MirrorKept, HealersKept, Kept, BooksAgree, BookFindings, Intact
<1> QED BY <1>1, <1>2 DEF Next, Finished

LEMMA QuietBooks ==
  ASSUME Quiet
  PROVE  Intact /\ \A h : Kept(h) => h \in Hashes(ledger.text)
BY DEF Quiet, Intact, Between, Ended, Kept

\* One run that writes, beside any number of reconciliations, agents' approvals
\* and agents' unlocks, which may die anywhere, and then any number of commands
\* one by one: once all have ended, the lock, the ledger and the mirror agree, so
\* that nobody is locked down who touched none of them by hand.
THEOREM BooksEndAgreeing ==
  ASSUME OneWriter
  PROVE  Spec => []NoFalseLockdown
<1>1. Init => TInv /\ WInv
  BY TInvInit, WInvInit
<1>2. WInv => NoFalseLockdown
  BY QuietBooks DEF WInv, BooksAgree, NoFalseLockdown
<1> QED BY <1>1, <1>2, WInvNext, PTL DEF Spec

LEMMA EntriesKeptInit ==
  ASSUME StartStates = {"locked"}
  PROVE  Init => EntriesKept
<1> SUFFICES ASSUME Init PROVE EntriesKept
  OBVIOUS
<1>1. PICK m \in Modes : InitLocked(m)
  BY DEF Init
<1> DEFINE e == Entry(1, 0, [mode |-> m, files |-> surface])
<1>2. ledger.text = <<e>> /\ e.hash = 1
  BY <1>1 DEF InitLocked, Entry
<1> HIDE DEF e
<1>3. Len(<<e>>) = 1 /\ <<e>>[1] = e
  OBVIOUS
<1>4. 1 \in Hashes(<<e>>)
  BY <1>2, <1>3 DEF Hashes
<1> QED BY <1>2, <1>4 DEF Init, EntriesKept, Kept, Entered

LEMMA EntriesKeptStep ==
  ASSUME OneWriter, Unlockers \cap Humans = {}, TInv, WInv, EntriesKept,
         NEW r \in Runs, Proceed(r) \/ Kill(r)
  PROVE  EntriesKept'
<1> USE DEF TInv, TypeOK
<1>1. \A h : Kept(h) => Kept(h)'
  <2>1. ~RmLedger(r)
    <3> SUFFICES ASSUME RmLedger(r) PROVE FALSE
      OBVIOUS
    <3>1. r \in Writers /\ r \in Unlockers
      BY DEF RmLedger, At, WInv, OnlyWriters, WriterPlaces, WriterOutlines, WriterOutline
    <3> QED BY <3>1, RunsAssumption DEF Writers
  <2> QED BY <2>1, KeptStep
<1>2. ASSUME NEW q \in Runs, q # r, pc'[q] \in Entered PROVE Kept(head[q])'
  <2>1. pc[q] \in Entered /\ head'[q] = head[q]
    BY <1>2, OthersStay
  <2>2. Kept(head[q])
    BY <2>1 DEF EntriesKept
  <2> QED BY <1>1, <2>1, <2>2 DEF Kept, Hashes
<1>3. ASSUME pc'[r] \in Entered PROVE Kept(head[r])'
  <2>1. CASE AppendEntry(r)
    <3> DEFINE e == Entry(lastHash', head[r], target[r])
    <3>1. Extends(seenText[r], head[r]) /\ ledger.exists
      BY <2>1 DEF AppendEntry, At, WInv, OnlyWriters, WriterPlaces, Critical, WriterOutlines, Outline
    <3>2. e \in Entries /\ e.prevHash = head[r] /\ e.hash = lastHash'
      BY <2>1 DEF AppendEntry, Entry, Entries, DiskOK, WritingOK
    <3>3. ledger'.text = Append(seenText[r], e) /\ head'[r] = lastHash'
      BY <2>1, <3>1 DEF AppendEntry, DiskOK, WritingOK
    <3> HIDE DEF e
    <3>4. lastHash' \in Hashes(Append(seenText[r], e))
      BY <3>1, <3>2, ChainAppend DEF CheckOK
    <3> QED BY <3>3, <3>4 DEF Kept, Hashes
  <2>2. CASE ~AppendEntry(r)
    <3>1. pc[r] \in Entered /\ UNCHANGED head
      BY <1>3, <2>2 DEF PcOK, Entered, Ended, Goto, At, Found, NotFound, Proceed, Reconcile, Lock, Approve,
       WriteBaseline, Unlock, writing,
       Begin, Find, FindMirror, ReadLock, Snapshot, ReadChain, ReadMirror, OpenMirror,
       Heal, Report, ContextLock, ContextMirror, PreScaffold, Relock, Scaffold, Rescan,
       Gate, ReadMode, Review, Confirm, Recheck, Chain, Acquire, AcquireTimesOut,
       ReadHead, ReadText, Truncate, WriteMirror, WriteTmp, Rename, RmLock, RmLedger, RmMirror, Kill
    <3>2. Kept(head[r])
      BY <3>1 DEF EntriesKept
    <3> QED BY <1>1, <3>1, <3>2 DEF Kept, Hashes
  <2> QED BY <2>1, <2>2
<1>4. Kept(1)'
  BY <1>1 DEF EntriesKept
<1> QED BY <1>2, <1>3, <1>4 DEF EntriesKept

\* On a locked project that no human unlocks, with one writer at a time as
\* above, no entry is ever lost: once all runs have ended, the ledger holds the
\* one it held at first and that of every run that recorded a baseline.
THEOREM EntriesSurvive ==
  ASSUME OneWriter, Unlockers \cap Humans = {}, StartStates = {"locked"}
  PROVE  Spec => []NoEntryLost
<1> DEFINE Inv == TInv /\ WInv /\ EntriesKept
<1>1. Init => Inv
  BY TInvInit, WInvInit, EntriesKeptInit
<1>2. Inv /\ [Next]_vars => Inv'
  <2> SUFFICES ASSUME Inv, [Next]_vars PROVE EntriesKept'
    BY WInvNext
  <2>1. ASSUME Edit \/ UNCHANGED vars PROVE EntriesKept'
    <3>1. UNCHANGED <<ledger, pc, seenText, head>>
      BY <2>1 DEF Edit, vars, disk, check, writing
    <3> QED BY <3>1 DEF EntriesKept, Kept, Hashes
  <2> QED BY <2>1, EntriesKeptStep DEF Next, Finished
<1>3. Inv => NoEntryLost
  BY QuietBooks DEF EntriesKept, Entered, NoEntryLost
<1> QED BY <1>1, <1>2, <1>3, PTL DEF Spec
-----------------------------------------------------------------------------
(* Only humans rebase *)

HumanPlaces == {"scaffold", "rescan", "mode", "review", "confirm", "recheck", "chain", "rmLock", "rmLedger", "rmMirror"}

\* A run without a human terminal writes only where no lock was found.
AgentWrites ==
  \A r \in Runs \ Humans :
    /\ pc[r] \notin HumanPlaces
    /\ pc[r] \in WriterPlaces => r \in Lockers
    /\ r \in Lockers /\ pc[r] \in {"contextMirror"} \cup WriterPlaces => trustLock = NoLock

LEMMA AgentWritesStep ==
  ASSUME CiRuns \subseteq Humans, Lockers \ Humans \subseteq Late,
         TypeOK, Alone, AgentWrites, NEW r \in Runs, Proceed(r) \/ Kill(r)
  PROVE  AgentWrites'
<1> USE DEF TypeOK, PcOK
<1>1. \A q \in Runs \ {r} : pc'[q] = pc[q]
  BY OthersStay
<1>2. r \notin Humans => /\ pc'[r] \notin HumanPlaces
                         /\ pc'[r] \in WriterPlaces => r \in Lockers
  BY DEF AgentWrites, HumanPlaces, WriterPlaces, Critical, Ended, Goto, At, Found, NotFound, Proceed,
       Reconcile, Lock, Approve, WriteBaseline, Unlock,
       Begin, Find, FindMirror, ReadLock, Snapshot, ReadChain, ReadMirror, OpenMirror,
       Heal, Report, ContextLock, ContextMirror, PreScaffold, Relock, Scaffold, Rescan,
       Gate, ReadMode, Review, Confirm, Recheck, Chain, Acquire, AcquireTimesOut,
       ReadHead, ReadText, Truncate, AppendEntry, WriteMirror, WriteTmp, Rename, RmLock,
       RmLedger, RmMirror, Kill
<1>3. r \in Lockers \ Humans /\ pc'[r] \in {"contextMirror"} \cup WriterPlaces => trustLock' = NoLock
  BY DEF AgentWrites, HumanPlaces, WriterPlaces, Critical, Ended, Goto, At, Found, NotFound, Proceed,
       Reconcile, Lock, Approve, WriteBaseline, Unlock, disk,
       Begin, Find, FindMirror, ReadLock, Snapshot, ReadChain, ReadMirror, OpenMirror,
       Heal, Report, ContextLock, ContextMirror, PreScaffold, Relock, Scaffold, Rescan,
       Gate, ReadMode, Review, Confirm, Recheck, Chain, Acquire, AcquireTimesOut,
       ReadHead, ReadText, Truncate, AppendEntry, WriteMirror, WriteTmp, Rename, RmLock,
       RmLedger, RmMirror, Kill
<1>4. ASSUME NEW q \in Lockers \ Humans, q # r, pc'[q] \in {"contextMirror"} \cup WriterPlaces
      PROVE  trustLock' = NoLock
  <2>1. Active(q) /\ q \in Runs /\ q \in Late
    BY <1>1, <1>4 DEF Active, WriterPlaces, Critical, Ended, Runs
  <2>2. pc[r] = "idle"
    BY <2>1, <1>4, MovesOnce DEF Alone, Active
  <2>3. UNCHANGED trustLock
    BY <2>2, MovesOnce DEF Begin, disk
  <2> QED BY <2>1, <2>3, <1>1, <1>4 DEF AgentWrites
<1> QED BY <1>1, <1>2, <1>3, <1>4 DEF AgentWrites

\* Once locked, no run without a human terminal replaces or removes the
\* baseline in force: as long as only humans ask for CI workflows, and an agent
\* that locks runs when the commands that were there before it have ended.  The
\* others may overlap and die as they like, on a disk in any state.
THEOREM HumansRebase ==
  ASSUME CiRuns \subseteq Humans, Lockers \ Humans \subseteq Late
  PROVE  Spec => OnlyHumansRebase
<1> DEFINE Inv == TypeOK /\ ChainRead /\ Alone /\ AgentWrites
<1>1. Init => Inv
  <2>1. Init => AgentWrites
    BY DEF Init, AgentWrites, HumanPlaces, WriterPlaces, Critical
  <2> QED BY <2>1, TInvInit, AloneInit DEF TInv
<1>2. Inv /\ [Next]_vars => Inv'
  <2> SUFFICES ASSUME Inv, [Next]_vars PROVE Inv'
    OBVIOUS
  <2>1. ASSUME Edit \/ UNCHANGED vars PROVE AgentWrites'
    BY <2>1 DEF Edit, vars, disk, AgentWrites
  <2>2. AgentWrites'
    BY <2>1, AgentWritesStep DEF Next, Finished
  <2> QED BY <2>2, TInvNext, AloneNext DEF TInv
<1>3. Inv /\ [Next]_vars =>
        (trustLock' # trustLock /\ trustLock \in Locks => \E r \in Humans : pc'[r] # pc[r])
  <2> SUFFICES ASSUME Inv, [Next]_vars, trustLock' # trustLock, trustLock \in Locks
               PROVE  \E r \in Humans : pc'[r] # pc[r]
    OBVIOUS
  <2>1. PICK r \in Runs : Proceed(r) \/ Kill(r)
    BY DEF Next, Finished, Edit, vars, disk
  <2>2. pc'[r] # pc[r]
    BY <2>1, MovesOnce DEF TypeOK
  <2>3. Rename(r) \/ RmLock(r)
    BY <2>1, LockFrame DEF WriteTmp
  <2>4. r \in Humans
    BY <2>3, TrustSurfaceAssumption DEF Rename, RmLock, At, AgentWrites, HumanPlaces, WriterPlaces
  <2> QED BY <2>2, <2>4
<1> QED BY <1>1, <1>2, <1>3, PTL DEF Spec, OnlyHumansRebase
=============================================================================
