------------------------ MODULE DecisionHistory_proofs ------------------------
(***************************************************************************)
(* Proofs about DecisionHistory, for any number of branches, contents,     *)
(* records and edits.  A branch that recorded every change of its lockfile *)
(* extends the commit it started from, record by record; `extends` is kept *)
(* by committing, by merging main, and by landing, as long as only         *)
(* branches that contain main may land.  A chain that verifies leads from  *)
(* the lockfile it is anchored at to the one it ends in.                   *)
(***************************************************************************)
EXTENDS DecisionHistory, FiniteSetTheorems, TLAPS

\* Any records that were written have a first and a last one among them.
HasMaxima ==
  \A S \in SUBSET written : S # {} => \E f \in S : \A g \in S : g.seq <= f.seq

HasMinima ==
  \A S \in SUBSET written : S # {} => \E f \in S : \A g \in S : f.seq <= g.seq

\* Nothing but what was written is in a tree.
FilesWritten ==
  /\ main.files \subseteq written /\ work.files \subseteq written
  /\ \A t \in Topics : tip[t].files \subseteq written /\ fork[t].files \subseteq written

WInv == TypeOK /\ IsFiniteSet(written) /\ HasMaxima /\ HasMinima /\ FilesWritten

\* The records of a tree make a chain that ends in its lockfile.
Recorded(tree) ==
  /\ ChainOk(tree.files) /\ Continuous(tree.files)
  /\ tree.files # {} => LastOf(tree.files).after = tree.lock

\* The head has the records of the base, and new ones if its lockfile differs,
\* the first of which starts from the lockfile of the base.
Extension(base, head) ==
  /\ Recorded(base) /\ Recorded(head)
  /\ base.files \subseteq head.files
  /\ head.files = base.files => head.lock = base.lock
  /\ head.files # base.files => \E f \in head.files : f.before = base.lock

HInv == upToDate =>
  /\ honestMain => Recorded(main)
  /\ honest[on] => Extension(fork[on], work)
  /\ \A t \in Topics : honest[t] =>
       /\ Extension(fork[t], tip[t])
       /\ honestMain => Extension(fork[t], main)
-----------------------------------------------------------------------------
(* Merges *)

LEMMA MergeType ==
  ASSUME DecisionHistoryAssumption, NEW b \in Trees, NEW x \in Trees, NEW y \in Trees,
         NEW m \in MergeTrees(b, x, y)
  PROVE  /\ m \in Trees
         /\ m.files = MergeFiles(b.files, x.files, y.files)
         /\ m.files \subseteq x.files \cup y.files
  BY DEF MergeTrees, Merge3, MergeFiles, Trees

\* A side that has not changed leaves the other as it is.
LEMMA MergeOneSided ==
  ASSUME NEW b \in Trees, NEW x \in Trees, NEW y \in Trees, NEW m \in MergeTrees(b, x, y)
  PROVE  /\ x.files = b.files /\ x.lock = b.lock => m.files = y.files /\ m.lock = y.lock
         /\ y.files = b.files /\ y.lock = b.lock => m.files = x.files /\ m.lock = x.lock
  BY DEF MergeTrees, Merge3, MergeFiles, Trees
-----------------------------------------------------------------------------
(* Records *)

LEMMA LastIsLast ==
  ASSUME NEW F, NEW e \in F, \A g \in F : g.seq <= e.seq
  PROVE  LastOf(F) \in F /\ \A g \in F : g.seq <= LastOf(F).seq
  BY DEF LastOf

LEMMA LastOfWork ==
  ASSUME WInv, work.files # {}
  PROVE  LastOf(work.files) \in work.files /\ \A g \in work.files : g.seq <= LastOf(work.files).seq
<1>1. PICK f \in work.files : \A g \in work.files : g.seq <= f.seq
  BY DEF WInv, HasMaxima, FilesWritten
<1> QED BY <1>1, LastIsLast

LEMMA NewRecordType ==
  ASSUME WInv, NEW c \in Contents
  PROVE  NewRecord(c) \in Records
<1>1. Cardinality(written) \in Nat
  BY FS_CardinalityType DEF WInv
<1>2. work.lock \in Contents /\ work.files \subseteq Records
  BY DEF WInv, TypeOK, Trees
<1>3. NextPosition(work.files) \in [seq : Nat \ {0}, prev : Nat]
  <2>1. CASE work.files = {}
    BY <2>1 DEF NextPosition, Genesis
  <2>2. CASE work.files # {}
    BY <2>2, <1>2, LastOfWork DEF NextPosition, Records
  <2> QED BY <2>1, <2>2
<1> QED BY <1>1, <1>2, <1>3 DEF NewRecord, Records

\* A recorded command continues the chain of the working tree.
LEMMA RecordExtends ==
  ASSUME WInv, NEW c \in Contents, ChainOk(work.files), NEW n, n = NewRecord(c)
  PROVE  /\ ChainOk(work.files \cup {n})
         /\ LastOf(work.files \cup {n}) = n
         /\ n \notin work.files
         /\ Recorded(work) => Continuous(work.files \cup {n})
<1> DEFINE F == work.files
<1>1. n \in Records /\ F \subseteq Records /\ \A f \in F : f.seq \in Nat
  BY NewRecordType DEF WInv, TypeOK, Trees, Records
<1>2. CASE F = {}
  <2>1. n.seq = 1 /\ n.prev = 0
    BY <1>2 DEF NewRecord, NextPosition, Genesis
  <2>2. F \cup {n} = {n}
    BY <1>2
  <2>3. LastOf({n}) = n
    <3>1. n \in {n} /\ \A g \in {n} : g.seq <= n.seq
      BY <2>1
    <3>2. LastOf({n}) \in {n}
      BY <3>1, LastIsLast
    <3> QED BY <3>2
  <2>4. ChainOk({n}) /\ Continuous({n})
    BY <2>1 DEF ChainOk, Continuous
  <2> QED BY <1>2, <2>2, <2>3, <2>4
<1>3. CASE F # {}
  <2>1. LastOf(F) \in F /\ \A g \in F : g.seq <= LastOf(F).seq
    BY <1>3, LastOfWork
  <2>2. n.seq = LastOf(F).seq + 1 /\ n.prev = LastOf(F).digest /\ n.before = work.lock
    BY <1>3 DEF NewRecord, NextPosition
  <2>3. \A g \in F : g.seq < n.seq
    BY <1>1, <2>1, <2>2
  <2>4. n \notin F
    BY <1>1, <2>3
  <2>5. ChainOk(F \cup {n})
    BY <1>1, <2>1, <2>2, <2>3 DEF ChainOk
  <2>6. LastOf(F \cup {n}) = n
    <3>1. n.seq \in Nat
      BY <1>1 DEF Records
    <3>2. \A g \in F \cup {n} : g.seq <= n.seq
      BY <1>1, <2>3, <3>1
    <3>3. LastOf(F \cup {n}) \in F \cup {n} /\ n.seq <= LastOf(F \cup {n}).seq
      BY <3>2, LastIsLast
    <3> QED BY <1>1, <2>3, <3>1, <3>3
  <2>7. Recorded(work) => Continuous(F \cup {n})
    <3> SUFFICES ASSUME Recorded(work), NEW f \in F \cup {n}, NEW g \in F \cup {n}, f.seq = g.seq + 1
                 PROVE  f.before = g.after
      BY DEF Continuous
    <3>1. CASE f \in F /\ g \in F
      BY <3>1 DEF Recorded, Continuous
    <3>2. CASE f = n /\ g \in F
      <4>1. g.seq = LastOf(F).seq
        BY <1>1, <2>1, <2>2, <3>2
      <4>2. g = LastOf(F)
        BY <4>1, <2>1, <3>2 DEF ChainOk
      <4> QED BY <4>2, <1>3, <2>2, <3>2 DEF Recorded
    <3>3. CASE g = n
      <4>1. f.seq \in Nat /\ n.seq \in Nat /\ f.seq <= n.seq
        BY <1>1, <2>3 DEF Records
      <4> QED BY <3>3, <4>1
    <3> QED BY <3>1, <3>2, <3>3
  <2> QED BY <2>4, <2>5, <2>6, <2>7
<1> QED BY <1>2, <1>3
-----------------------------------------------------------------------------
(* Types *)

LEMMA WInvStep ==
  ASSUME WInv, [Next]_vars
  PROVE  WInv'
<1> USE DecisionHistoryAssumption
<1> USE DEF WInv, TypeOK, Distrust, git, place, past
<1>1. ASSUME NEW c \in Contents, Record(c) PROVE WInv'
  <2>1. NewRecord(c) \in Records
    BY NewRecordType
  <2>2. TypeOK'
    BY <1>1, <2>1 DEF Record, Trees
  <2>3. IsFiniteSet(written')
    BY <1>1, FS_AddElement DEF Record
  <2>4. HasMaxima'
    <3> SUFFICES ASSUME NEW S \in SUBSET written', S # {}
                 PROVE  \E f \in S : \A g \in S : g.seq <= f.seq
      BY DEF HasMaxima
    <3> DEFINE n == NewRecord(c)
    <3>1. S \ {n} \subseteq written /\ S \subseteq Records
      BY <1>1, <2>1 DEF Record
    <3>2. \A f \in Records : f.seq \in Nat
      BY DEF Records
    <3> HIDE DEF n
    <3>3. CASE S \ {n} = {}
      BY <3>1, <3>2, <3>3
    <3>4. CASE S \ {n} # {}
      <4>1. PICK f \in S \ {n} : \A g \in S \ {n} : g.seq <= f.seq
        BY <3>1, <3>4 DEF HasMaxima
      <4>2. CASE n \in S /\ f.seq <= n.seq
        BY <3>1, <3>2, <4>1, <4>2
      <4>3. CASE ~(n \in S /\ f.seq <= n.seq)
        BY <3>1, <3>2, <4>1, <4>3
      <4> QED BY <4>2, <4>3
    <3> QED BY <3>3, <3>4
  <2>6. HasMinima'
    <3> SUFFICES ASSUME NEW S \in SUBSET written', S # {}
                 PROVE  \E f \in S : \A g \in S : f.seq <= g.seq
      BY DEF HasMinima
    <3> DEFINE n == NewRecord(c)
    <3>1. S \ {n} \subseteq written /\ S \subseteq Records
      BY <1>1, <2>1 DEF Record
    <3>2. \A f \in Records : f.seq \in Nat
      BY DEF Records
    <3> HIDE DEF n
    <3>3. CASE S \ {n} = {}
      BY <3>1, <3>2, <3>3
    <3>4. CASE S \ {n} # {}
      <4>1. PICK f \in S \ {n} : \A g \in S \ {n} : f.seq <= g.seq
        BY <3>1, <3>4 DEF HasMinima
      <4>2. CASE n \in S /\ n.seq <= f.seq
        BY <3>1, <3>2, <4>1, <4>2
      <4>3. CASE ~(n \in S /\ n.seq <= f.seq)
        BY <3>1, <3>2, <4>1, <4>3
      <4> QED BY <4>2, <4>3
    <3> QED BY <3>3, <3>4
  <2>5. FilesWritten'
    BY <1>1 DEF Record, FilesWritten, Trees
  <2> QED BY <2>2, <2>3, <2>4, <2>5, <2>6
<1>2. ASSUME UNCHANGED written, TypeOK', FilesWritten' PROVE WInv'
  BY <1>2 DEF HasMaxima, HasMinima
<1>3. ASSUME NEW c \in Contents, Unrecorded(c) PROVE WInv'
  BY <1>2, <1>3 DEF Unrecorded, FilesWritten, Trees
<1>4. ASSUME NEW s \in Settings, EditSettings(s) PROVE WInv'
  BY <1>2, <1>4 DEF EditSettings, FilesWritten, Trees
<1>5. ASSUME NEW F \in SUBSET work.files, Delete(F) PROVE WInv'
  BY <1>2, <1>5 DEF Delete, FilesWritten, Trees
<1>6. CASE Commit
  BY <1>2, <1>6 DEF Commit, FilesWritten
<1>7. ASSUME NEW t \in Topics, Switch(t) PROVE WInv'
  BY <1>2, <1>7 DEF Switch, FilesWritten
<1>8. CASE Update
  <2>1. PICK m \in MergeTrees(fork[on], work, main) : work' = m /\ tip' = [tip EXCEPT ![on] = m]
    BY <1>8 DEF Update
  <2>2. m \in Trees /\ m.files \subseteq written
    BY MergeType DEF FilesWritten
  <2>3. TypeOK'
    BY <1>8, <2>1, <2>2 DEF Update
  <2>4. FilesWritten'
    BY <1>8, <2>1, <2>2 DEF Update, FilesWritten
  <2> QED BY <1>2, <1>8, <2>3, <2>4 DEF Update
<1>9. ASSUME NEW t \in Topics, Land(t) PROVE WInv'
  <2>1. main' \in Trees /\ main'.files \subseteq written
    BY <1>9, MergeType DEF Land, FilesWritten
  <2>2. TypeOK'
    BY <1>9, <2>1 DEF Land
  <2>3. FilesWritten'
    BY <1>9, <2>1 DEF Land, FilesWritten
  <2> QED BY <1>2, <1>9, <2>2, <2>3 DEF Land
<1>10. CASE UNCHANGED vars
  BY <1>2, <1>10 DEF vars, FilesWritten
<1> QED
  BY <1>1, <1>3, <1>4, <1>5, <1>6, <1>7, <1>8, <1>9, <1>10 DEF Next, WorkTree, Trees

LEMMA WInvInit == Init => WInv
<1> SUFFICES ASSUME Init PROVE WInv
  OBVIOUS
<1>1. main \in Trees /\ main.files = {}
  BY DecisionHistoryAssumption DEF Init, Trees
<1>2. TypeOK
  BY <1>1, DecisionHistoryAssumption DEF Init, TypeOK
<1> QED BY <1>1, <1>2, FS_EmptySet DEF Init, WInv, HasMaxima, HasMinima, FilesWritten

\* Every tree, tip and record is well formed, whatever is merged or deleted:
\* the last record of a chain exists, so a next position is always a number.
THEOREM TypeCorrect == Spec => []TypeOK
<1>1. WInv /\ [Next]_vars => WInv'
  BY WInvStep
<1>2. WInv => TypeOK
  BY DEF WInv
<1> QED BY WInvInit, <1>1, <1>2, PTL DEF Spec
-----------------------------------------------------------------------------
(* What is recorded in order verifies *)

LEMMA ExtensionRefl ==
  ASSUME NEW b, Recorded(b)
  PROVE  Extension(b, b)
  BY DEF Extension

LEMMA ExtensionTrans ==
  ASSUME NEW a, NEW b, NEW c, Extension(a, b), Extension(b, c)
  PROVE  Extension(a, c)
<1>1. CASE c.files = a.files
  <2>1. b.files = a.files
    BY <1>1 DEF Extension
  <2> QED BY <1>1, <2>1 DEF Extension
<1>2. CASE c.files # a.files /\ b.files # a.files
  BY <1>2 DEF Extension
<1>3. CASE c.files # a.files /\ b.files = a.files
  BY <1>3 DEF Extension
<1> QED BY <1>1, <1>2, <1>3

\* An extension is about lockfiles and records only.
LEMMA ExtensionSame ==
  ASSUME NEW a, NEW b, NEW c, NEW d, Extension(a, b),
         c.files = a.files, c.lock = a.lock, d.files = b.files, d.lock = b.lock
  PROVE  Extension(c, d) /\ Recorded(c) /\ Recorded(d)
  BY DEF Extension, Recorded

LEMMA ExtensionVerifies ==
  ASSUME NEW b, NEW h, Extension(b, h)
  PROVE  LockFindings(b.lock, h.lock, h.files) = {}
<1>1. ChainOk(h.files) /\ Continuous(h.files)
  BY DEF Extension, Recorded
<1>2. CASE h.files = b.files
  BY <1>1, <1>2 DEF Extension, LockFindings
<1>3. CASE h.files # b.files
  <2>1. h.files # {} /\ (\E f \in h.files : f.before = b.lock) /\ LastOf(h.files).after = h.lock
    BY <1>3 DEF Extension, Recorded
  <2> QED BY <1>1, <2>1 DEF LockFindings
<1> QED BY <1>2, <1>3

LEMMA HInvStep ==
  ASSUME WInv, HInv, [Next]_vars
  PROVE  HInv'
<1> USE DEF git, place, past
<1> SUFFICES ASSUME upToDate PROVE HInv'
  <2>1. UNCHANGED upToDate
    BY DEF Next, WorkTree, Record, Unrecorded, EditSettings, Delete, Commit, Switch, Update, Land, vars
  <2> QED BY <2>1 DEF HInv
<1> USE DEF HInv
<1>0. TypeOK /\ on \in Topics /\ tip \in [Topics -> Trees] /\ fork \in [Topics -> Trees]
      /\ work \in Trees /\ main \in Trees /\ honest \in [Topics -> BOOLEAN]
  BY DEF WInv, TypeOK
<1>1. ASSUME NEW c \in Contents, Record(c) PROVE HInv'
  <2>1. work'.files = work.files \cup {NewRecord(c)} /\ work'.lock = c
    BY <1>0, <1>1 DEF Record, Trees
  <2>2. SUFFICES ASSUME honest[on] PROVE Extension(fork[on], work')
    BY <1>1 DEF Record
  <2>3. Extension(fork[on], work)
    BY <2>2
  <2>4. PICK n : n = NewRecord(c)
    OBVIOUS
  <2>5. n.before = work.lock /\ n.after = c
    BY <2>4 DEF NewRecord
  <2>6. /\ ChainOk(work.files \cup {n}) /\ Continuous(work.files \cup {n})
        /\ LastOf(work.files \cup {n}) = n /\ n \notin work.files
    BY <1>1, <2>3, <2>4, RecordExtends DEF Record, Extension
  <2>7. Recorded(work')
    BY <2>1, <2>4, <2>5, <2>6 DEF Recorded
  <2>8. \E f \in work'.files : f.before = fork[on].lock
    <3>1. CASE work.files = fork[on].files
      BY <2>1, <2>3, <2>4, <2>5, <3>1 DEF Extension
    <3>2. CASE work.files # fork[on].files
      BY <2>1, <2>3, <3>2 DEF Extension
    <3> QED BY <3>1, <3>2
  <2> QED BY <2>1, <2>3, <2>4, <2>6, <2>7, <2>8 DEF Extension
<1>2. ASSUME UNCHANGED <<main, tip, fork, on, upToDate, honestMain>>, honest' = [honest EXCEPT ![on] = FALSE]
      PROVE HInv'
  BY <1>0, <1>2
<1>3. ASSUME NEW c \in Contents, Unrecorded(c) PROVE HInv'
  BY <1>2, <1>3 DEF Unrecorded, Distrust
<1>4. ASSUME NEW s \in Settings, EditSettings(s) PROVE HInv'
  <2>1. work'.files = work.files /\ work'.lock = work.lock
    BY <1>0, <1>4 DEF EditSettings, Trees
  <2>2. honest[on] => Extension(fork[on], work')
    BY <2>1, ExtensionSame
  <2> QED BY <1>4, <2>2 DEF EditSettings
<1>5. ASSUME NEW F \in SUBSET work.files, Delete(F) PROVE HInv'
  BY <1>2, <1>5 DEF Delete, Distrust
<1>6. CASE Commit
  BY <1>0, <1>6 DEF Commit
<1>7. ASSUME NEW t \in Topics, Switch(t) PROVE HInv'
  BY <1>0, <1>7 DEF Switch
<1>8. CASE Update
  <2>1. PICK m \in MergeTrees(fork[on], work, main) : work' = m /\ tip' = [tip EXCEPT ![on] = m]
    BY <1>8 DEF Update
  <2>2. fork' = [fork EXCEPT ![on] = main] /\ UNCHANGED <<main, on, upToDate, honestMain>>
        /\ honest' = [honest EXCEPT ![on] =
                        honest[on] /\ honestMain /\ ~Diverged(fork[on], work, main)]
    BY <1>8 DEF Update
  <2>3. ASSUME honest'[on] PROVE Extension(main, m) /\ Extension(main, main)
    <3>1. honest[on] /\ honestMain /\ ~Diverged(fork[on], work, main)
      BY <1>0, <2>2, <2>3
    <3>2. Extension(fork[on], work) /\ Extension(fork[on], main) /\ Extension(main, main)
      BY <1>0, <3>1, ExtensionRefl
    <3>3. CASE work.files = fork[on].files
      <4>1. m.files = main.files /\ m.lock = main.lock
        BY <1>0, <3>2, <3>3, MergeOneSided DEF Extension
      <4> QED BY <3>2, <4>1, ExtensionSame
    <3>4. CASE main.files = fork[on].files
      <4>1. main.lock = fork[on].lock
        BY <3>2, <3>4 DEF Extension
      <4>2. m.files = work.files /\ m.lock = work.lock
        BY <1>0, <3>4, <4>1, MergeOneSided
      <4> QED BY <3>2, <3>4, <4>1, <4>2, ExtensionSame
    <3> QED BY <3>1, <3>3, <3>4 DEF Diverged
  <2>4. ASSUME NEW t \in Topics, honest'[t]
        PROVE  Extension(fork'[t], tip'[t]) /\ (honestMain' => Extension(fork'[t], main'))
    <3>1. CASE t = on
      BY <1>0, <2>1, <2>2, <2>3, <2>4, <3>1
    <3>2. CASE t # on
      BY <1>0, <2>1, <2>2, <2>4, <3>2
    <3> QED BY <3>1, <3>2
  <2>5. honest'[on'] => Extension(fork'[on'], work')
    BY <1>0, <2>1, <2>2, <2>3
  <2> QED BY <2>2, <2>4, <2>5
<1>9. ASSUME NEW t \in Topics, Land(t) PROVE HInv'
  <2>1. /\ fork[t] = main /\ main' \in MergeTrees(fork[t], main, tip[t])
        /\ tip' = [tip EXCEPT ![t] = main'] /\ fork' = [fork EXCEPT ![t] = main']
        /\ work' = (IF on = t THEN main' ELSE work)
        /\ honestMain' = (honestMain /\ honest[t] /\ ~Diverged(fork[t], main, tip[t]))
        /\ honest' = [honest EXCEPT ![t] = honestMain']
        /\ UNCHANGED <<on, upToDate>>
    BY <1>9 DEF Land
  <2>2. main'.files = tip[t].files /\ main'.lock = tip[t].lock
    BY <1>0, <2>1, MergeOneSided
  <2>3. ASSUME honestMain' PROVE Extension(main, main') /\ Extension(main', main')
    <3>1. honest[t] /\ Extension(main, tip[t])
      BY <2>1, <2>3
    <3> QED BY <2>2, <3>1, ExtensionSame, ExtensionRefl
  <2>4. ASSUME NEW q \in Topics, honest'[q]
        PROVE  Extension(fork'[q], tip'[q]) /\ (honestMain' => Extension(fork'[q], main'))
    <3>1. CASE q = t
      BY <1>0, <2>1, <2>3, <2>4, <3>1
    <3>2. CASE q # t
      <4>1. honest[q] /\ fork'[q] = fork[q] /\ tip'[q] = tip[q]
        BY <1>0, <2>1, <2>4, <3>2
      <4>2. honestMain' => honestMain /\ Extension(fork[q], main)
        BY <2>1, <4>1
      <4> QED BY <2>3, <4>1, <4>2, ExtensionTrans
    <3> QED BY <3>1, <3>2
  <2>5. honest'[on'] => Extension(fork'[on'], work')
    <3>1. CASE on = t
      BY <1>0, <2>1, <2>3, <3>1
    <3>2. CASE on # t
      BY <1>0, <2>1, <3>2
    <3> QED BY <3>1, <3>2
  <2>6. honestMain' => Recorded(main')
    BY <2>3 DEF Extension
  <2> QED BY <2>4, <2>5, <2>6
<1>10. CASE UNCHANGED vars
  BY <1>10 DEF vars
<1> QED
  BY <1>0, <1>1, <1>3, <1>4, <1>5, <1>6, <1>7, <1>8, <1>9, <1>10 DEF Next, WorkTree, Trees

LEMMA HInvInit == Init => HInv
<1> SUFFICES ASSUME Init PROVE HInv
  OBVIOUS
<1>1. main.files = {}
  BY DEF Init
<1>2. Recorded(main)
  BY <1>1 DEF Recorded, ChainOk, Continuous
<1> QED BY <1>2, ExtensionRefl DEF Init, HInv

\* Under branch protection, what is recorded in good order is not turned away:
\* verifyDecisions finds nothing wrong with a branch each of whose lockfile
\* changes was recorded and that merged nothing but whole histories, whatever
\* the other branches did and landed.
THEOREM RecordedIsVerified == Spec => []RecordedVerifies
<1>1. WInv /\ HInv /\ [Next]_vars => (WInv /\ HInv)'
  BY WInvStep, HInvStep
<1>2. HInv => RecordedVerifies
  BY ExtensionVerifies DEF HInv, RecordedVerifies
<1> QED BY WInvInit, HInvInit, <1>1, <1>2, PTL DEF Spec
-----------------------------------------------------------------------------
(* What lands was recorded *)

\* Along a chain, each record starts from what the one before it left: a set
\* that the recorded commands do not leave has the last one's lockfile when it
\* has what any of them started from.
LEMMA ChainLeads ==
  ASSUME WInv, NEW F \in SUBSET written, ChainOk(F), Continuous(F),
         NEW f \in F, NEW S, Closed(S), f.before \in S
  PROVE  LastOf(F).after \in S
<1> DEFINE B == {h \in F : f.seq <= h.seq /\ h.after \in S}
           L == LastOf(F)
<1>1. \A g \in F : g \in written /\ g.seq \in Nat \ {0}
  BY DEF WInv, TypeOK, Records
<1>2. L \in F /\ \A g \in F : g.seq <= L.seq
  <2>1. PICK e \in F : \A g \in F : g.seq <= e.seq
    BY DEF WInv, HasMaxima
  <2> QED BY <2>1, LastIsLast
<1>3. PICK m \in B : \A g \in B : g.seq <= m.seq
  <2>1. f \in B
    BY <1>1 DEF Closed
  <2>2. B \in SUBSET written /\ B # {}
    BY <2>1
  <2> HIDE DEF B
  <2> QED BY <2>2 DEF WInv, HasMaxima
<1>4. CASE m.seq = L.seq
  BY <1>2, <1>3, <1>4 DEF ChainOk
<1>5. CASE m.seq # L.seq
  <2> DEFINE G == {g \in F : m.seq < g.seq}
  <2>1. L \in G
    BY <1>1, <1>2, <1>3, <1>5
  <2>2. PICK g \in G : \A h \in G : g.seq <= h.seq
    <3>1. G \in SUBSET written /\ G # {}
      BY <2>1
    <3> HIDE DEF G
    <3> QED BY <3>1 DEF WInv, HasMinima
  <2>3. g \in F /\ m \in F /\ g.seq # 1
    BY <1>1, <1>3, <2>2
  <2>4. PICK p \in F : g.seq = p.seq + 1
    BY <2>3 DEF ChainOk
  <2>5. p.seq = m.seq
    BY <1>1, <2>2, <2>3, <2>4
  <2>6. p = m
    BY <2>3, <2>5 DEF ChainOk
  <2>7. g.before = m.after
    BY <2>3, <2>4, <2>6 DEF Continuous
  <2>8. g \in B
    BY <1>1, <1>3, <2>2, <2>3, <2>7 DEF Closed
  <2> QED BY <1>1, <1>3, <2>2, <2>3, <2>8
<1> QED BY <1>4, <1>5

\* verifyDecisions finds nothing wrong only with a lockfile that the records lead to.
LEMMA VerifiedIsReachable ==
  ASSUME WInv, NEW from, NEW to \in Contents, NEW F \in SUBSET written, LockFindings(from, to, F) = {}
  PROVE  to \in Reachable(from)
<1> SUFFICES ASSUME NEW S \in SUBSET Contents, from \in S, Closed(S) PROVE to \in S
  BY DEF Reachable
<1>1. \/ from = to
      \/ /\ ChainOk(F) /\ Continuous(F) /\ LastOf(F).after = to
         /\ \E f \in F : f.before = from
  BY DEF LockFindings
<1> QED BY <1>1, ChainLeads

LEMMA LandsReachable ==
  ASSUME WInv, NEW t \in Topics, Land(t)
  PROVE  main'.lock \in Reachable(main.lock)
<1>1. main \in Trees /\ tip[t] \in Trees /\ fork[t] \in Trees /\ tip[t].files \in SUBSET written
  BY DEF WInv, TypeOK, FilesWritten
<1>2. /\ LockFindings(fork[t].lock, tip[t].lock, tip[t].files) = {}
      /\ main' \in MergeTrees(fork[t], main, tip[t])
      /\ MergeTrees(fork[t], main, tip[t]) = {main'}
  BY DEF Land, Authorized, VerifyFindings
<1>3. tip[t].lock \in Contents /\ main.lock \in Contents
  BY <1>1 DEF Trees
<1>4. tip[t].lock \in Reachable(fork[t].lock)
  BY <1>1, <1>2, <1>3, VerifiedIsReachable
<1>5. main'.lock = main.lock \/ (main.lock = fork[t].lock /\ main'.lock = tip[t].lock)
  <2> DEFINE locks == Merge3(fork[t].lock, main.lock, tip[t].lock)
             merged(l) == [main' EXCEPT !.lock = l]
  <2>1. main' \in Trees /\ main'.lock \in locks
    BY <1>1, <1>2, MergeType, DecisionHistoryAssumption DEF MergeTrees
  <2>2. \A l \in locks : merged(l) \in MergeTrees(fork[t], main, tip[t])
    BY <1>2 DEF MergeTrees
  <2>3. \A l \in locks : merged(l).lock = l
    BY <2>1 DEF Trees
  <2>4. \A l \in locks : l = main'.lock
    BY <1>2, <2>2, <2>3
  <2> QED BY <2>1, <2>4 DEF Merge3
<1> QED BY <1>3, <1>4, <1>5 DEF Reachable

\* Whatever is edited, deleted or merged, and however the branches interleave,
\* the gate lets no lockfile onto main that the recorded commands do not lead to.
THEOREM LandedIsRecorded == Spec => LandedWasRecorded
<1>1. WInv /\ [Next]_vars => WInv'
  BY WInvStep
<1>2. WInv /\ [Next]_vars => [main'.lock \in Reachable(main.lock)]_vars
  <2> SUFFICES ASSUME WInv, Next PROVE main'.lock \in Reachable(main.lock)
    OBVIOUS
  <2>1. ASSUME NEW t \in Topics, Land(t) PROVE main'.lock \in Reachable(main.lock)
    BY <2>1, LandsReachable
  <2>2. CASE main' = main
    BY <2>2 DEF WInv, TypeOK, Trees, Reachable
  <2> QED
    BY <2>1, <2>2 DEF Next, WorkTree, Record, Unrecorded, EditSettings, Delete, Commit, Switch, Update, git
<1> QED BY WInvInit, <1>1, <1>2, PTL DEF Spec, LandedWasRecorded
=============================================================================
