-------------------------- MODULE DecisionHistory --------------------------
(***************************************************************************)
(* Decision records in a git history: topic branches on which lockfiles    *)
(* change and records are committed, the gate a branch passes before it    *)
(* lands (src/src/decision-verify.ts).                                     *)
(*                                                                         *)
(* A commit is represented by its tree.  A recorded command is one step,   *)
(* which is what DecisionRecords shows of its record.  One lockfile path;  *)
(* the settings stand for package.json and safeinstall.config.json.        *)
(***************************************************************************)
EXTENDS DecisionChain

CONSTANTS
  Topics,      \* branches other than main
  Contents,    \* contents of the lockfile
  Absent,      \* one of them: there is no lockfile
  Settings,    \* contents of the manifest and the configuration
  Foreign,     \* those whose registry the verifier does not trust or cannot read
  Rejected,    \* the pairs of settings and lockfile a fresh evaluation blocks
  Protected,   \* values of upToDate: must a branch contain main before it lands?
  MaxRecords,  \* bound: recorded commands
  MaxEdits     \* bound: changes by other hands

Records == [seq : Nat \ {0}, prev : Nat, digest : Nat \ {0},
            before : Contents, after : Contents]

Trees == [lock : Contents, settings : Settings, files : SUBSET Records]

ASSUME DecisionHistoryAssumption ==
  /\ Absent \in Contents
  /\ Foreign \subseteq Settings
  /\ Rejected \subseteq Settings \X Contents
  /\ Protected \subseteq BOOLEAN
  /\ {MaxRecords, MaxEdits} \subseteq Nat

VARIABLES
  main,       \* the tip of the main branch
  tip, fork,  \* each topic's tip, and the last commit of main it contains
  on, work,   \* the topic checked out, and the working tree
  upToDate,   \* branch protection: only a branch that contains main may land
  edits,      \* changes by other hands so far
  written,    \* history: the records written so far
  honest,     \* history: was every lockfile change on this topic recorded,
              \* and nothing but whole histories merged into it?
  honestMain  \* the same for main

git    == <<main, tip, fork>>
place  == <<on, work>>
past   == <<written, honest, honestMain>>
vars   == <<git, place, upToDate, edits, past>>

TypeOK ==
  /\ main \in Trees
  /\ {tip, fork} \subseteq [Topics -> Trees]
  /\ on \in Topics /\ work \in Trees
  /\ {upToDate, honestMain} \subseteq BOOLEAN
  /\ edits \in Nat
  /\ written \subseteq Records
  /\ honest \in [Topics -> BOOLEAN]

Init ==
  /\ main \in [lock : Contents, settings : Settings \ Foreign, files : {{}}]
  /\ tip = [t \in Topics |-> main] /\ fork = tip
  /\ on \in Topics /\ work = main
  /\ upToDate \in Protected
  /\ edits = 0
  /\ written = {}
  /\ honest = [t \in Topics |-> TRUE] /\ honestMain = TRUE

Distrust(t) == honest' = [honest EXCEPT ![t] = FALSE]
-----------------------------------------------------------------------------
(* The working tree *)

\* Fault: a record is bound to the lockfile before its command.
NewRecord_BoundEarly(c) ==
  [seq |-> NextPosition(work.files).seq, prev |-> NextPosition(work.files).prev,
   digest |-> Cardinality(written) + 1, before |-> work.lock, after |-> work.lock]

NewRecord(c) ==
  [seq |-> NextPosition(work.files).seq, prev |-> NextPosition(work.files).prev,
   digest |-> Cardinality(written) + 1, before |-> work.lock, after |-> c]

\* A recorded command that leaves lockfile c, whatever its verdict.
Record(c) ==
  /\ Cardinality(written) < MaxRecords /\ ChainOk(work.files)
  /\ work' = [work EXCEPT !.lock = c, !.files = @ \cup {NewRecord(c)}]
  /\ written' = written \cup {NewRecord(c)}
  /\ UNCHANGED <<git, on, upToDate, edits, honest, honestMain>>

\* The lockfile changes without a record: an edit, a checkout of the file, a
\* command that died before its record or could not write it.
Unrecorded(c) ==
  /\ edits < MaxEdits /\ edits' = edits + 1
  /\ c # work.lock
  /\ work' = [work EXCEPT !.lock = c]
  /\ Distrust(on)
  /\ UNCHANGED <<git, on, upToDate, written, honestMain>>

EditSettings(s) ==
  /\ edits < MaxEdits /\ edits' = edits + 1
  /\ s # work.settings
  /\ work' = [work EXCEPT !.settings = s]
  /\ UNCHANGED <<git, on, upToDate, past>>

\* Record files are deleted.
Delete(F) ==
  /\ edits < MaxEdits /\ edits' = edits + 1
  /\ F # work.files
  /\ work' = [work EXCEPT !.files = F]
  /\ Distrust(on)
  /\ UNCHANGED <<git, on, upToDate, written, honestMain>>
-----------------------------------------------------------------------------
(* git *)

Commit ==
  /\ work # tip[on]
  /\ tip' = [tip EXCEPT ![on] = work]
  /\ UNCHANGED <<main, fork, place, upToDate, edits, past>>

Switch(t) ==
  /\ t # on /\ work = tip[on]
  /\ on' = t /\ work' = tip[t]
  /\ UNCHANGED <<git, upToDate, edits, past>>

\* The outcomes of a three-way merge of one file; two when a person decides.
Merge3(b, x, y) == IF x = b THEN {y} ELSE IF y \in {b, x} THEN {x} ELSE {x, y}

\* A record file is there when both sides have it or one side has added it.
MergeFiles(b, x, y) == (x \cap y) \cup (x \ b) \cup (y \ b)

MergeTrees(b, x, y) ==
  [lock : Merge3(b.lock, x.lock, y.lock), settings : Merge3(b.settings, x.settings, y.settings),
   files : {MergeFiles(b.files, x.files, y.files)}]

\* Both sides have added or removed records: their chains do not join.
Diverged(b, x, y) == x.files # b.files /\ y.files # b.files

\* git merge main, on the topic checked out.
Update ==
  /\ work = tip[on] /\ fork[on] # main
  /\ \E m \in MergeTrees(fork[on], work, main) :
       work' = m /\ tip' = [tip EXCEPT ![on] = m]
  /\ fork' = [fork EXCEPT ![on] = main]
  /\ honest' = [honest EXCEPT ![on] =
                  honest[on] /\ honestMain /\ ~Diverged(fork[on], work, main)]
  /\ UNCHANGED <<main, on, upToDate, edits, written, honestMain>>
-----------------------------------------------------------------------------
(* verifyDecisions, and the gate *)

VerifyFindings(base, head) ==
  LockFindings(base.lock, head.lock, head.files)
    \cup (IF head.settings \in Foreign THEN {"registry-not-default"} ELSE {})

\* Fault: the evaluation is enough.
Authorized_Unverified(base, head) == <<head.settings, head.lock>> \notin Rejected

\* authorize in a checkout made for it, of commits given by their ids.
Authorized(base, head) ==
  /\ VerifyFindings(base, head) = {}
  /\ <<head.settings, head.lock>> \notin Rejected

\* A branch passes the gate and is merged; it starts anew from main.
Land(t) ==
  /\ tip[t] # fork[t] /\ (on = t => work = tip[t])
  /\ upToDate => fork[t] = main
  /\ Authorized(fork[t], tip[t])
  /\ main' \in MergeTrees(fork[t], main, tip[t])
  /\ MergeTrees(fork[t], main, tip[t]) = {main'}
  /\ tip' = [tip EXCEPT ![t] = main'] /\ fork' = [fork EXCEPT ![t] = main']
  /\ work' = IF on = t THEN main' ELSE work
  /\ honestMain' = (honestMain /\ honest[t] /\ ~Diverged(fork[t], main, tip[t]))
  /\ honest' = [honest EXCEPT ![t] = honestMain']
  /\ UNCHANGED <<on, upToDate, edits, written>>
-----------------------------------------------------------------------------
WorkTree ==
  \/ \E c \in (Contents \ {Absent}) \cup {work.lock} : Record(c)
  \/ \E c \in Contents : Unrecorded(c)
  \/ \E s \in Settings : EditSettings(s)
  \/ \E F \in SUBSET work.files : Delete(F)

Next ==
  \/ WorkTree
  \/ Commit \/ Update
  \/ \E t \in Topics : Switch(t) \/ Land(t)

Spec == Init /\ [][Next]_vars
-----------------------------------------------------------------------------
(* Properties *)

\* The recorded commands lead from no lockfile of S to one outside of it.
Closed(S) == \A g \in written : g.before \in S => g.after \in S

\* The lockfiles that a sequence of recorded commands leads to from c.
Reachable(c) == {d \in Contents : \A S \in SUBSET Contents : c \in S /\ Closed(S) => d \in S}

\* A lockfile lands on main only if a sequence of recorded commands leads from
\* the lockfile main had to it, whatever was edited, deleted or merged.
LandedWasRecorded == [][main'.lock \in Reachable(main.lock)]_vars

\* Nothing that is recorded in good order is turned away: a branch on which
\* every change of the lockfile was recorded, and that was kept up to date,
\* verifies, whatever landed before.
RecordedVerifies ==
  upToDate /\ honest[on] =>
    LockFindings(fork[on].lock, work.lock, work.files) = {}
=============================================================================
