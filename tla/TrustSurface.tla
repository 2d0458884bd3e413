---------------------------- MODULE TrustSurface ----------------------------
(***************************************************************************)
(* The Agent Trust Surface: the committed lock, the hash-chained ledger,   *)
(* its head mirror outside the workspace, and the commands that read and   *)
(* write them (src/src/trust-flow.ts, trust-surface.ts,                    *)
(* trust-surface-check.ts, trust-ledger.ts).                               *)
(*                                                                         *)
(* One element of Runs is one run of the CLI on one project; runs overlap  *)
(* (parallel agent commands, a human's terminal).  A step is one awaited   *)
(* file operation, so that another run may come between any two.  Hashes   *)
(* are collision-free: a baseline hash is the baseline itself, and a       *)
(* ledger entry's hash is a fresh number, the genesis hash being 0.        *)
(***************************************************************************)
EXTENDS Integers, Sequences, FiniteSets

CONSTANTS
  Lockers,      \* runs of `trust lock`
  Approvers,    \* runs of `trust approve`
  Statuses,     \* runs that only reconcile: `trust status`, install and check
  Unlockers,    \* runs of `trust unlock`
  CiRuns,       \* the lockers given --ci
  StrictRuns,   \* the lockers given --mode strict
  Humans,       \* runs at an interactive human terminal
  Faulty,       \* runs that may be killed
  Late,         \* runs started after every other run has ended, one by one
  Contents,     \* contents of the enforcement and tool files
  Unpinned,     \* those that declare an MCP server without a fixed version
  Texts,        \* contents of the instruction files
  Hidden,       \* those that carry hidden Unicode
  NoLock, BadLock,   \* no lock file, and one readTrustLock rejects
  StartStates,  \* "unlocked", "locked" or "any": what is on disk at first
  MaxEdits      \* bound: edits of the tracked files

Runs  == Lockers \cup Approvers \cup Statuses \cup Unlockers
Modes == {"warn", "strict"}

Surfaces  == [content : Contents, text : Texts, ci : BOOLEAN]
Baselines == [mode : Modes, files : Surfaces]
Locks     == [baseline : Baselines, ledgerHead : Nat]
Entries   == [hash : Nat, prevHash : Nat, detail : Baselines]

ASSUME TrustSurfaceAssumption ==
  /\ Contents # {} /\ Texts # {} /\ Hidden \subseteq Texts /\ Unpinned \subseteq Contents
  /\ {NoLock, BadLock} \cap Locks = {} /\ NoLock # BadLock
  /\ MaxEdits \in Nat

\* A run is one command.
ASSUME RunsAssumption ==
  /\ Lockers \cap (Approvers \cup Statuses \cup Unlockers) = {}
  /\ Approvers \cap (Statuses \cup Unlockers) = {} /\ Statuses \cap Unlockers = {}

VARIABLES
  surface,      \* the tracked files
  trustLock,    \* .safeinstall/trust-surface.lock
  tmpLock,      \* .safeinstall/trust-surface.lock.tmp
  ledger,       \* .safeinstall/ledger.jsonl: does it exist, and its entries
  mirror,       \* the head recorded in the state directory, 0 when missing
  ledgerLock,   \* the runs in the ledger's critical section
  lastHash,     \* the entry hashes used so far
  edits,        \* edits of the tracked files so far
  pc,           \* where each run stands
  findings,     \* what its checkTrustSurface found, warnings included
  seenLock,     \* the lock it read
  seenFiles,    \* the snapshot it compared with the lock
  seenText,     \* the ledger it read
  target,       \* the baseline it is going to write
  fresh,        \* whether it starts a fresh chain
  head,         \* the entry hash it chains to, then the hash of its own entry
  reviewed      \* history: what a human confirmed or a first lock recorded

disk    == <<trustLock, tmpLock, ledger, mirror, ledgerLock, lastHash>>
check   == <<findings, seenLock, seenFiles, seenText>>
writing == <<target, fresh, head>>
vars    == <<surface, disk, edits, pc, check, writing, reviewed>>
-----------------------------------------------------------------------------
(* verifyLedgerChain *)

Entry(h, p, b) == [hash |-> h, prevHash |-> p, detail |-> b]

ChainOk(text) ==
  \A i \in 1..Len(text) : text[i].prevHash = IF i = 1 THEN 0 ELSE text[i-1].hash

ChainStatus(text) ==
  IF text = <<>> THEN "missing" ELSE IF ChainOk(text) THEN "ok" ELSE "broken"

ChainHead(text) == text[Len(text)].hash
Hashes(text) == {text[i].hash : i \in 1..Len(text)}

(* computeTrustSurfaceDrift and the classification in checkTrustSurface.    *)
(* An instruction drift blocks in strict mode and warns in warn mode, and   *)
(* so does an unpinned MCP server, in the baseline or not.                  *)

Soft(mode, kind) == IF mode = "strict" THEN kind ELSE "warning"

\* Fault: enforcement files too block in strict mode only.
DriftFindings_AllSoft(lock, files) ==
  LET base == lock.baseline.files
      mode == lock.baseline.mode
  IN (IF files.content # base.content \/ files.ci # base.ci \/ files.text # base.text
        THEN {Soft(mode, "drift")} ELSE {})
     \cup (IF files.text \in Hidden THEN {"hidden-unicode"} ELSE {})
     \cup (IF files.content \in Unpinned THEN {Soft(mode, "unpinned-mcp")} ELSE {})

DriftFindings(lock, files) ==
  LET base == lock.baseline.files
      mode == lock.baseline.mode
  IN (IF files.content # base.content \/ files.ci # base.ci THEN {"drift"} ELSE {})
     \cup (IF files.text # base.text THEN {Soft(mode, "instruction-drift")} ELSE {})
     \cup (IF files.text \in Hidden THEN {"hidden-unicode"} ELSE {})
     \cup (IF files.content \in Unpinned THEN {Soft(mode, "unpinned-mcp")} ELSE {})

\* What the ledger says of the lock: the lock must reference the last entry,
\* and that entry must have recorded the lock's own content.
LedgerFindings(lock, text) ==
  IF ChainStatus(text) # "ok" THEN {"ledger-broken"}
  ELSE IF lock.ledgerHead # ChainHead(text) THEN {"ledger-mismatch"}
  ELSE IF text[Len(text)].detail # lock.baseline THEN {"lock-forged"} ELSE {}

MirrorFindings(text, m) == IF m \in Hashes(text) \cup {0} THEN {} ELSE {"mirror-mismatch"}

\* A reconciliation that found nothing, and one with no block-worthy finding.
Clean(r)  == findings[r] = {}
Passes(r) == findings[r] \subseteq {"warning"}
-----------------------------------------------------------------------------
(* The states of the disk a run can meet *)

\* A project locked here, or a fresh clone of one, which has no mirror yet.
InitLocked(m) ==
  LET b == [mode |-> m, files |-> surface]
  IN /\ trustLock = [baseline |-> b, ledgerHead |-> 1]
     /\ ledger = [exists |-> TRUE, text |-> <<Entry(1, 0, b)>>]
     /\ mirror \in {0, 1}
     /\ lastHash = 1
     /\ reviewed = {b}

InitUnlocked ==
  /\ trustLock = NoLock
  /\ ledger = [exists |-> FALSE, text |-> <<>>]
  /\ mirror = 0 /\ lastHash = 0 /\ reviewed = {}

\* What crashes, checkouts of other commits and hand edits leave behind: a
\* lock, a ledger and a mirror that need not belong together.
InitAny ==
  LET b == [mode |-> "warn", files |-> surface]
  IN /\ trustLock \in {NoLock, BadLock} \cup
          [baseline : [mode : Modes, files : {surface}], ledgerHead : {1, 2}]
     /\ ledger \in [exists : {TRUE},
                    text : {<<>>, <<Entry(1, 0, b)>>, <<Entry(2, 1, b)>>,
                            <<Entry(1, 0, b), Entry(2, 1, b)>>}]
     /\ mirror \in {0, 1, 2, 3}
     /\ lastHash = 3
     /\ reviewed = [mode : Modes, files : {surface}]

Init ==
  /\ surface \in {s \in Surfaces : ~s.ci /\ s.text \notin Hidden}
  /\ \/ "unlocked" \in StartStates /\ InitUnlocked
     \/ "locked" \in StartStates /\ \E m \in Modes : InitLocked(m)
     \/ "any" \in StartStates /\ InitAny
  /\ tmpLock = NoLock
  /\ ledgerLock = {}
  /\ edits = 0
  /\ pc = [r \in Runs |-> "idle"]
  /\ findings = [r \in Runs |-> {}]
  /\ seenLock = [r \in Runs |-> NoLock]
  /\ seenFiles = [r \in Runs |-> surface]
  /\ seenText = [r \in Runs |-> <<>>]
  /\ target = [r \in Runs |-> [mode |-> "warn", files |-> surface]]
  /\ fresh = [r \in Runs |-> FALSE]
  /\ head = [r \in Runs |-> 0]

Ended == {"passed", "blocked", "refused", "failed", "written", "unlocked", "killed"}

Places == Ended \cup
  {"idle", "find", "findMirror", "readLock", "snapshot", "readChain", "readMirror",
   "heal", "healing", "checked", "context", "contextMirror", "preScaffold", "scaffold",
   "rescan", "mode", "review", "confirm", "recheck", "chain", "acquire", "readHead",
   "readText", "truncate", "append", "openMirror", "writeMirror", "writeTmp", "rename",
   "rmLock", "rmLedger", "rmMirror"}

Kinds == {"lock-removed", "lock-unreadable", "drift", "instruction-drift", "unpinned-mcp",
          "hidden-unicode", "warning", "ledger-broken", "ledger-mismatch", "lock-forged",
          "mirror-mismatch"}

PcOK == pc \in [Runs -> Places]

DiskOK ==
  /\ surface \in Surfaces
  /\ {trustLock, tmpLock} \subseteq Locks \cup {NoLock, BadLock}
  /\ ledger \in [exists : BOOLEAN, text : Seq(Entries)]
  /\ {mirror, lastHash, edits} \subseteq Nat
  /\ ledgerLock \subseteq Runs

CheckOK ==
  /\ findings \in [Runs -> SUBSET Kinds]
  /\ seenLock \in [Runs -> Locks \cup {NoLock}]
  /\ seenFiles \in [Runs -> Surfaces]
  /\ seenText \in [Runs -> Seq(Entries)]

WritingOK ==
  /\ target \in [Runs -> Baselines]
  /\ fresh \in [Runs -> BOOLEAN]
  /\ head \in [Runs -> Nat]
  /\ reviewed \subseteq Baselines

TypeOK == PcOK /\ DiskOK /\ CheckOK /\ WritingOK

Goto(r, l) == pc' = [pc EXCEPT ![r] = l]
At(r, l) == pc[r] = l
-----------------------------------------------------------------------------
(* checkTrustSurface *)

Begin(r) ==
  /\ At(r, "idle")
  /\ r \in Late => \A q \in Runs \ {r} : pc[q] \in Ended \/ (q \in Late /\ At(q, "idle"))
  /\ Goto(r, IF r \in Statuses THEN "find" ELSE "context")
  /\ UNCHANGED <<surface, disk, edits, check, writing, reviewed>>

\* findTrustContext, called by checkTrustSurface: the lock, or else the mirror
\* of a lock that is gone.
Find(r) ==
  /\ At(r, "find")
  /\ findings' = [findings EXCEPT ![r] = {}]
  /\ seenLock' = [seenLock EXCEPT ![r] = NoLock]
  /\ Goto(r, IF trustLock # NoLock THEN "readLock" ELSE "findMirror")
  /\ UNCHANGED <<surface, disk, edits, seenFiles, seenText, writing, reviewed>>

FindMirror(r) ==
  /\ At(r, "findMirror")
  /\ findings' = [findings EXCEPT ![r] = IF mirror # 0 THEN {"lock-removed"} ELSE {}]
  /\ Goto(r, "checked")
  /\ UNCHANGED <<surface, disk, edits, seenLock, seenFiles, seenText, writing, reviewed>>

ReadLock(r) ==
  /\ At(r, "readLock")
  /\ IF trustLock \in {NoLock, BadLock}
     THEN /\ findings' = [findings EXCEPT ![r] = {"lock-unreadable"}]
          /\ Goto(r, "checked")
          /\ UNCHANGED seenLock
     ELSE /\ seenLock' = [seenLock EXCEPT ![r] = trustLock]
          /\ Goto(r, "snapshot")
          /\ UNCHANGED findings
  /\ UNCHANGED <<surface, disk, edits, seenFiles, seenText, writing, reviewed>>

Snapshot(r) ==
  /\ At(r, "snapshot")
  /\ seenFiles' = [seenFiles EXCEPT ![r] = surface]
  /\ findings' = [findings EXCEPT ![r] = DriftFindings(seenLock[r], surface)]
  /\ Goto(r, "readChain")
  /\ UNCHANGED <<surface, disk, edits, seenLock, seenText, writing, reviewed>>

ReadChain(r) ==
  /\ At(r, "readChain")
  /\ LET f == LedgerFindings(seenLock[r], ledger.text)
     IN /\ findings' = [findings EXCEPT ![r] = @ \cup f]
        /\ Goto(r, IF f \subseteq {"lock-forged"} THEN "readMirror" ELSE "checked")
  /\ seenText' = [seenText EXCEPT ![r] = ledger.text]
  /\ UNCHANGED <<surface, disk, edits, seenLock, seenFiles, writing, reviewed>>

\* checkLedgerMirror: a missing mirror, or one the chain has moved past, is
\* rewritten by the next step.
ReadMirror(r) ==
  /\ At(r, "readMirror")
  /\ LET f == MirrorFindings(seenText[r], mirror)
     IN /\ findings' = [findings EXCEPT ![r] = @ \cup f]
        /\ Goto(r, IF f # {} \/ mirror = ChainHead(seenText[r]) THEN "checked" ELSE "heal")
  /\ UNCHANGED <<surface, disk, edits, seenLock, seenFiles, seenText, writing, reviewed>>

\* writeLedgerHeadMirror truncates the file, which then reads as missing, and
\* writes it.  A reconciliation gives up when the directory is not writable.
OpenMirror(r) ==
  /\ \/ At(r, "heal") /\ mirror' = 0 /\ Goto(r, "healing")
     \/ At(r, "heal") /\ UNCHANGED mirror /\ Goto(r, "checked")
     \/ At(r, "openMirror") /\ mirror' = 0 /\ Goto(r, "writeMirror")
  /\ UNCHANGED <<surface, trustLock, tmpLock, ledger, ledgerLock, lastHash, edits,
                 check, writing, reviewed>>

Heal(r) ==
  /\ At(r, "healing")
  /\ mirror' = ChainHead(seenText[r])
  /\ Goto(r, "checked")
  /\ UNCHANGED <<surface, trustLock, tmpLock, ledger, ledgerLock, lastHash, edits,
                 check, writing, reviewed>>

\* runTrustStatusFlow and trustSurfacePrecheck: the verdict.
Report(r) ==
  /\ At(r, "checked") /\ r \in Statuses
  /\ Goto(r, IF Passes(r) THEN "passed" ELSE "blocked")
  /\ UNCHANGED <<surface, disk, edits, check, writing, reviewed>>
-----------------------------------------------------------------------------
(* findTrustContext, called first by lock, approve and unlock: what they do *)
(* with a context and without one; unlock goes through the human gate.     *)

Found(r) ==
  IF r \notin Unlockers THEN "find" ELSE IF r \in Humans THEN "rmLock" ELSE "refused"

NotFound(r) ==
  IF r \in Lockers THEN "preScaffold" ELSE IF r \in Approvers THEN "failed" ELSE "passed"

ContextLock(r) ==
  /\ At(r, "context")
  /\ Goto(r, IF trustLock # NoLock THEN Found(r) ELSE "contextMirror")
  /\ UNCHANGED <<surface, disk, edits, check, writing, reviewed>>

\* Fault: only a lock counts as a context.
ContextMirror_Ignored(r) ==
  /\ At(r, "contextMirror")
  /\ Goto(r, NotFound(r))
  /\ UNCHANGED <<surface, disk, edits, check, writing, reviewed>>

ContextMirror(r) ==
  /\ At(r, "contextMirror")
  /\ Goto(r, IF mirror # 0 THEN Found(r) ELSE NotFound(r))
  /\ UNCHANGED <<surface, disk, edits, check, writing, reviewed>>
-----------------------------------------------------------------------------
(* runTrustLockFlow *)

\* The snapshot a first lock refuses or records.
PreScaffold(r) ==
  /\ At(r, "preScaffold")
  /\ target' = [target EXCEPT ![r] =
       [mode |-> IF r \in StrictRuns THEN "strict" ELSE "warn", files |-> surface]]
  /\ fresh' = [fresh EXCEPT ![r] = TRUE]
  /\ Goto(r, IF surface.text \in Hidden THEN "refused"
             ELSE IF r \in CiRuns THEN "scaffold" ELSE "acquire")
  /\ reviewed' = IF surface.text \in Hidden \/ r \in CiRuns THEN reviewed
                 ELSE reviewed \cup {target'[r]}
  /\ UNCHANGED <<surface, disk, edits, check, head>>

\* Already locked: only a clean surface, and only with --ci, is re-baselined.
Relock(r) ==
  /\ At(r, "checked") /\ r \in Lockers
  /\ IF Clean(r) /\ seenLock[r] # NoLock /\ r \in CiRuns
     THEN /\ target' = [target EXCEPT ![r] = seenLock[r].baseline]
          /\ fresh' = [fresh EXCEPT ![r] = FALSE]
          /\ Goto(r, "scaffold")
     ELSE /\ Goto(r, IF Clean(r) THEN "passed" ELSE "blocked")
          /\ UNCHANGED <<target, fresh>>
  /\ UNCHANGED <<surface, disk, edits, check, head, reviewed>>

\* scaffoldCi: fetches the verifier's distribution, then writes the workflow
\* file unless it exists; a failure is reported and ignored.
Scaffold(r) ==
  /\ At(r, "scaffold")
  /\ surface' \in {surface, [surface EXCEPT !.ci = TRUE]}
  /\ Goto(r, "rescan")
  /\ UNCHANGED <<disk, edits, check, writing, reviewed>>

\* The snapshot taken after scaffolding is the one recorded.  The history
\* counts as reviewed what the run had examined, plus its own workflow file.
Rescan(r) ==
  /\ At(r, "rescan")
  /\ target' = [target EXCEPT ![r].files = surface]
  /\ reviewed' = reviewed \cup {[target[r] EXCEPT !.files.ci = surface.ci]}
  /\ Goto(r, "acquire")
  /\ UNCHANGED <<surface, disk, edits, check, fresh, head>>
-----------------------------------------------------------------------------
(* runTrustApproveFlow *)

\* Fault: anybody may approve.
Gate_Open(r) ==
  /\ At(r, "checked") /\ r \in Approvers
  /\ Goto(r, IF Clean(r) THEN "passed" ELSE "mode")
  /\ UNCHANGED <<surface, disk, edits, check, writing, reviewed>>

\* Nothing to approve, or the interactive gate.
Gate(r) ==
  /\ At(r, "checked") /\ r \in Approvers
  /\ Goto(r, IF Clean(r) THEN "passed" ELSE IF r \in Humans THEN "mode" ELSE "refused")
  /\ UNCHANGED <<surface, disk, edits, check, writing, reviewed>>

\* The mode of the lock the check read, else of the lock read again, else warn.
ReadMode(r) ==
  /\ At(r, "mode")
  /\ target' = [target EXCEPT ![r].mode =
       IF seenLock[r] # NoLock THEN seenLock[r].baseline.mode
       ELSE IF trustLock \notin {NoLock, BadLock} THEN trustLock.baseline.mode
       ELSE "warn"]
  /\ Goto(r, "review")
  /\ UNCHANGED <<surface, disk, edits, check, fresh, head, reviewed>>

\* Fault: an approval does not look for hidden Unicode.
Review_NotTainted(r) ==
  /\ At(r, "review")
  /\ target' = [target EXCEPT ![r].files = surface]
  /\ Goto(r, "confirm")
  /\ UNCHANGED <<surface, disk, edits, check, fresh, head, reviewed>>

\* The snapshot shown to the human; one with hidden Unicode is refused.
Review(r) ==
  /\ At(r, "review")
  /\ target' = [target EXCEPT ![r].files = surface]
  /\ Goto(r, IF surface.text \in Hidden THEN "refused" ELSE "confirm")
  /\ UNCHANGED <<surface, disk, edits, check, fresh, head, reviewed>>

\* The human types yes, or something else.
Confirm(r) ==
  /\ At(r, "confirm")
  /\ \/ /\ reviewed' = reviewed \cup {target[r]}
        /\ Goto(r, "recheck")
     \/ /\ Goto(r, "refused")
        /\ UNCHANGED reviewed
  /\ UNCHANGED <<surface, disk, edits, check, writing>>

\* Fault: the state after the confirmation is the one recorded.
Recheck_TakesCurrent(r) ==
  /\ At(r, "recheck")
  /\ target' = [target EXCEPT ![r].files = surface]
  /\ Goto(r, "chain")
  /\ UNCHANGED <<surface, disk, edits, check, fresh, head, reviewed>>

\* The approval binds to the reviewed state.
Recheck(r) ==
  /\ At(r, "recheck")
  /\ Goto(r, IF surface = target[r].files THEN "chain" ELSE "refused")
  /\ UNCHANGED <<surface, disk, edits, check, writing, reviewed>>

\* Fault: an approval always starts a fresh chain.
Chain_AlwaysFresh(r) ==
  /\ At(r, "chain")
  /\ fresh' = [fresh EXCEPT ![r] = TRUE]
  /\ Goto(r, "acquire")
  /\ UNCHANGED <<surface, disk, edits, check, target, head, reviewed>>

\* Fault: an approval appends to a broken chain.
Chain_NeverFresh(r) ==
  /\ At(r, "chain")
  /\ fresh' = [fresh EXCEPT ![r] = FALSE]
  /\ Goto(r, "acquire")
  /\ UNCHANGED <<surface, disk, edits, check, target, head, reviewed>>

\* Whether to start a fresh chain is decided outside the ledger lock.
Chain(r) ==
  /\ At(r, "chain")
  /\ fresh' = [fresh EXCEPT ![r] = ChainStatus(ledger.text) # "ok"]
  /\ Goto(r, "acquire")
  /\ UNCHANGED <<surface, disk, edits, check, target, head, reviewed>>
-----------------------------------------------------------------------------
(* writeBaseline: appendLedgerEntry or resetLedger, then writeTrustLock *)

\* The ledger lock: withFileLock keeps the contract of Mutex.
LedgerLock == INSTANCE Mutex WITH Calls <- Runs, holders <- ledgerLock

Acquire(r) ==
  /\ At(r, "acquire")
  /\ LedgerLock!Acquire(r)
  /\ Goto(r, IF fresh[r] THEN "truncate" ELSE "readHead")
  /\ head' = [head EXCEPT ![r] = 0]
  /\ seenText' = [seenText EXCEPT ![r] = <<>>]
  /\ UNCHANGED <<surface, trustLock, tmpLock, ledger, mirror, lastHash, edits,
                 findings, seenLock, seenFiles, target, fresh, reviewed>>

\* The lock was not free within waitMs: withFileLock throws.
AcquireTimesOut(r) ==
  /\ At(r, "acquire") /\ ledgerLock # {}
  /\ Goto(r, "failed")
  /\ UNCHANGED <<surface, disk, edits, check, writing, reviewed>>

\* Fault: every entry chains to the genesis hash.
PrevHash_Genesis(text) == 0

PrevHash(text) == IF ChainStatus(text) = "ok" THEN ChainHead(text) ELSE 0

\* verifyLedgerChain under the lock: the entry chains to this head.
ReadHead(r) ==
  /\ At(r, "readHead")
  /\ head' = [head EXCEPT ![r] = PrevHash(ledger.text)]
  /\ Goto(r, "readText")
  /\ UNCHANGED <<surface, disk, edits, check, target, fresh, reviewed>>

\* currentLedgerText
ReadText(r) ==
  /\ At(r, "readText")
  /\ seenText' = [seenText EXCEPT ![r] = ledger.text]
  /\ Goto(r, "truncate")
  /\ UNCHANGED <<surface, disk, edits, findings, seenLock, seenFiles, writing, reviewed>>

\* writeFile opens the ledger, which truncates it, and writes it as a whole.
Truncate(r) ==
  /\ At(r, "truncate")
  /\ ledger' = [exists |-> TRUE, text |-> <<>>]
  /\ Goto(r, "append")
  /\ UNCHANGED <<surface, trustLock, tmpLock, mirror, ledgerLock, lastHash, edits,
                 check, writing, reviewed>>

\* The text read before, and the new entry: through the handle, so a ledger
\* unlinked meanwhile stays unlinked.
AppendEntry(r) ==
  /\ At(r, "append")
  /\ lastHash' = lastHash + 1
  /\ head' = [head EXCEPT ![r] = lastHash']
  /\ ledger' = IF ledger.exists
               THEN [ledger EXCEPT !.text =
                       Append(seenText[r], Entry(lastHash', head[r], target[r]))]
               ELSE ledger
  /\ Goto(r, "openMirror")
  /\ UNCHANGED <<surface, trustLock, tmpLock, mirror, ledgerLock, edits, check,
                 target, fresh, reviewed>>

\* The mirror is written, and the ledger lock released.
WriteMirror(r) ==
  /\ At(r, "writeMirror")
  /\ mirror' = head[r]
  /\ LedgerLock!Release(r)
  /\ Goto(r, "writeTmp")
  /\ UNCHANGED <<surface, trustLock, tmpLock, ledger, lastHash, edits, check,
                 writing, reviewed>>

\* Fault: the lock is written without the head of the ledger.
WriteTmp_NoHead(r) ==
  /\ At(r, "writeTmp")
  /\ tmpLock' = [baseline |-> target[r]]
  /\ Goto(r, "rename")
  /\ UNCHANGED <<surface, trustLock, ledger, mirror, ledgerLock, lastHash, edits,
                 check, writing, reviewed>>

\* writeTrustLock: every run uses the same temporary name.
WriteTmp(r) ==
  /\ At(r, "writeTmp")
  /\ tmpLock' = [baseline |-> target[r], ledgerHead |-> head[r]]
  /\ Goto(r, "rename")
  /\ UNCHANGED <<surface, trustLock, ledger, mirror, ledgerLock, lastHash, edits,
                 check, writing, reviewed>>

Rename(r) ==
  /\ At(r, "rename")
  /\ IF tmpLock = NoLock
     THEN Goto(r, "failed") /\ UNCHANGED <<trustLock, tmpLock>>
     ELSE Goto(r, "written") /\ trustLock' = tmpLock /\ tmpLock' = NoLock
  /\ UNCHANGED <<surface, ledger, mirror, ledgerLock, lastHash, edits, check,
                 writing, reviewed>>
-----------------------------------------------------------------------------
(* runTrustUnlockFlow *)

RmLock(r) ==
  /\ At(r, "rmLock")
  /\ trustLock' = NoLock
  /\ Goto(r, "rmLedger")
  /\ UNCHANGED <<surface, tmpLock, ledger, mirror, ledgerLock, lastHash, edits,
                 check, writing, reviewed>>

RmLedger(r) ==
  /\ At(r, "rmLedger")
  /\ ledger' = [exists |-> FALSE, text |-> <<>>]
  /\ Goto(r, "rmMirror")
  /\ UNCHANGED <<surface, trustLock, tmpLock, mirror, ledgerLock, lastHash, edits,
                 check, writing, reviewed>>

RmMirror(r) ==
  /\ At(r, "rmMirror")
  /\ mirror' = 0
  /\ Goto(r, "unlocked")
  /\ UNCHANGED <<surface, trustLock, tmpLock, ledger, ledgerLock, lastHash, edits,
                 check, writing, reviewed>>
-----------------------------------------------------------------------------
(* The environment *)

\* Somebody edits the tracked files.
Edit ==
  /\ edits < MaxEdits
  /\ edits' = edits + 1
  /\ \E c \in Contents, t \in Texts :
       surface' = [surface EXCEPT !.content = c, !.text = t]
  /\ UNCHANGED <<disk, pc, check, writing, reviewed>>

\* A run is killed; its ledger lock goes stale and is stolen.
Kill(r) ==
  /\ r \in Faulty /\ pc[r] \notin Ended \cup {"idle"}
  /\ ledgerLock' = ledgerLock \ {r}
  /\ Goto(r, "killed")
  /\ UNCHANGED <<surface, trustLock, tmpLock, ledger, mirror, lastHash, edits,
                 check, writing, reviewed>>

Reconcile(r) ==
  Begin(r) \/ Find(r) \/ FindMirror(r) \/ ReadLock(r) \/ Snapshot(r) \/ ReadChain(r)
  \/ ReadMirror(r) \/ OpenMirror(r) \/ Heal(r) \/ Report(r)

Lock(r) ==
  PreScaffold(r) \/ Relock(r) \/ Scaffold(r) \/ Rescan(r)

Approve(r) ==
  Gate(r) \/ ReadMode(r) \/ Review(r) \/ Confirm(r)
  \/ Recheck(r) \/ Chain(r)

WriteBaseline(r) ==
  Acquire(r) \/ AcquireTimesOut(r) \/ ReadHead(r) \/ ReadText(r) \/ Truncate(r)
  \/ AppendEntry(r) \/ WriteMirror(r) \/ WriteTmp(r) \/ Rename(r)

Unlock(r) == RmLock(r) \/ RmLedger(r) \/ RmMirror(r)

Proceed(r) ==
  ContextLock(r) \/ ContextMirror(r) \/ Reconcile(r) \/ Lock(r) \/ Approve(r) \/ WriteBaseline(r) \/ Unlock(r)

Quiet == \A r \in Runs : pc[r] \in Ended

Finished == Quiet /\ UNCHANGED vars

Next == (\E r \in Runs : Proceed(r) \/ Kill(r)) \/ Edit \/ Finished

Spec == Init /\ [][Next]_vars
-----------------------------------------------------------------------------
(* Properties *)

\* What a reconciliation of the disk as it is would find, the drift of the
\* tracked files apart: the findings that lock an agent down although nobody
\* touched the lock, the ledger or the mirror by hand.
BookFindings ==
  IF trustLock = NoLock THEN IF mirror # 0 THEN {"lock-removed"} ELSE {}
  ELSE IF trustLock = BadLock THEN {"lock-unreadable"}
  ELSE LedgerFindings(trustLock, ledger.text) \cup MirrorFindings(ledger.text, mirror)

\* Runs of the program leave the lock, the ledger and the mirror agreeing: no
\* false lockdown once they have ended.
NoFalseLockdown == Quiet => BookFindings = {}

\* Every baseline in the ledger is one that a human confirmed, or that a run
\* examined before recording it.
OnlyReviewed == \A i \in 1..Len(ledger.text) : ledger.text[i].detail \in reviewed

\* Hidden Unicode is never part of a recorded baseline.
NoHiddenBaseline == \A i \in 1..Len(ledger.text) : ledger.text[i].detail.files.text \notin Hidden

\* A reconciliation passes only on files that match, but for the instruction
\* files of a warn-mode lock, a baseline some run had recorded.
PassMeansReviewed ==
  \A r \in Statuses : pc[r] = "passed" /\ seenLock[r] # NoLock =>
    \E b \in reviewed : /\ b.files.content = seenFiles[r].content
                        /\ b.mode = "strict" => b.files.text = seenFiles[r].text

\* No entry is lost: when all runs have ended, the ledger holds the entry of
\* every run that recorded a baseline, and the entry it held at first.
NoEntryLost ==
  Quiet => {1} \cup {head[r] : r \in {q \in Runs : pc[q] = "written"}}
             \subseteq Hashes(ledger.text)

\* No run is in progress.
Idle == \A r \in Runs : pc[r] \in Ended \cup {"idle"}

\* Whatever crashes have left on the disk, a human's `trust approve` that has
\* the project to itself and is not refused leaves nothing in the books to
\* find: no lockdown needs a hand edit to get out of.
ApprovalRestores ==
  (Idle /\ \E r \in Approvers \cap Late : pc[r] \in {"written", "passed", "failed"})
     => BookFindings = {}

\* Whatever crashes have left on the disk, after an unlock that has the project
\* to itself and is not refused, no lock is in force and no mirror is left that
\* would keep firing lock-removed.
UnlockClears ==
  (Idle /\ \E r \in Unlockers \cap Late : pc[r] \in {"passed", "unlocked"})
     => trustLock = NoLock /\ mirror = 0

\* Once locked, the baseline in force changes only by a human's hand: no run
\* without a human terminal replaces or removes it.
OnlyHumansRebase ==
  [][trustLock' # trustLock /\ trustLock \in Locks
       => \E r \in Humans : pc'[r] # pc[r]]_vars
=============================================================================
