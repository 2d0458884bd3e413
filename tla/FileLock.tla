------------------------------ MODULE FileLock ------------------------------
(***************************************************************************)
(* The exclusive, owned file lock of src/src/file-lock.ts.                 *)
(*                                                                         *)
(* One element of Calls is one call of withFileLock, in any process: a     *)
(* fresh token, one acquisition, one action, one release.  A step is one   *)
(* awaited file-system operation.  Time is counted in ticks that are long  *)
(* compared with one operation and with the 15-35 ms poll interval.        *)
(***************************************************************************)
EXTENDS Integers, FiniteSets

CONSTANTS
  Calls,        \* the withFileLock calls
  Faulty,       \* calls whose process may die, or whose token write may fail
  Slow,         \* calls whose action may outlast HoldMax
  HoldMax,      \* ticks a punctual action may take
  StaleMs,      \* options.staleMs, in ticks
  WaitMs,       \* options.waitMs, in ticks
  PromptPolls,  \* TRUE: a polling round takes less than one tick
  LastStart,    \* bound: no call starts after this tick
  MaxTime       \* bound: the clock stops here

ASSUME FileLockAssumption ==
  /\ Faulty \subseteq Calls /\ Slow \subseteq Calls
  /\ {HoldMax, StaleMs, WaitMs, LastStart, MaxTime} \subseteq Nat
  /\ PromptPolls \in BOOLEAN
  /\ {"none", "empty"} \cap Calls = {}

VARIABLES
  now,        \* Date.now()
  lockFile,   \* the file at the lock path, or NoFile
  pc,         \* where each call stands
  waitUntil   \* acquireFileLock's deadline of each call

vars == <<now, lockFile, pc, waitUntil>>

NoFile  == [creator |-> "none", token |-> "none", mtime |-> 0]
NoToken == "empty"

Exists == lockFile # NoFile

\* The creator is the handle the file was opened with; the token is the text
\* the file holds, which is empty until the creator has written it.
Files == [creator : Calls, token : Calls \cup {NoToken}, mtime : Nat]

Polling  == {"create", "stat", "steal", "discard"}
Holding  == {"write", "critical", "readback", "remove"}
Terminal == {"done", "timedOut", "failed", "crashed"}

TypeOK ==
  /\ now \in Nat
  /\ lockFile \in Files \cup {NoFile}
  /\ pc \in [Calls -> Polling \cup Holding \cup Terminal \cup {"idle", "asleep"}]
  /\ waitUntil \in [Calls -> Nat]

Init ==
  /\ now = 0
  /\ lockFile = NoFile
  /\ pc = [c \in Calls |-> "idle"]
  /\ waitUntil = [c \in Calls |-> 0]

Goto(c, l) == pc' = [pc EXCEPT ![c] = l]
-----------------------------------------------------------------------------
(* acquireFileLock *)

\* Fault: the deadline is computed with the sign of WaitMs reversed.
Start_PastDeadline(c) ==
  /\ pc[c] = "idle" /\ now <= LastStart
  /\ waitUntil' = [waitUntil EXCEPT ![c] = now - WaitMs]
  /\ Goto(c, "create")
  /\ UNCHANGED <<now, lockFile>>

Start(c) ==
  /\ pc[c] = "idle" /\ now <= LastStart
  /\ waitUntil' = [waitUntil EXCEPT ![c] = now + WaitMs]
  /\ Goto(c, "create")
  /\ UNCHANGED <<now, lockFile>>

\* Fault: the file is opened with "w" instead of "wx".
Create_NotExclusive(c) ==
  /\ pc[c] = "create"
  /\ lockFile' = [creator |-> c, token |-> NoToken, mtime |-> now]
  /\ Goto(c, "write")
  /\ UNCHANGED <<now, waitUntil>>

\* open(lockFile, "wx"): creates the file or fails with EEXIST.
Create(c) ==
  /\ pc[c] = "create"
  /\ \/ /\ ~Exists
        /\ lockFile' = [creator |-> c, token |-> NoToken, mtime |-> now]
        /\ Goto(c, "write")
     \/ /\ Exists
        /\ Goto(c, "stat")
        /\ UNCHANGED lockFile
  /\ UNCHANGED <<now, waitUntil>>

\* handle.writeFile(token): through the handle, so it reaches the file this
\* call created even after a rename has moved it from the lock path.
WriteToken(c) ==
  /\ pc[c] = "write"
  /\ lockFile' = IF Exists /\ lockFile.creator = c
                 THEN [lockFile EXCEPT !.token = c, !.mtime = now]
                 ELSE lockFile
  /\ Goto(c, "critical")
  /\ UNCHANGED <<now, waitUntil>>

\* The write throws (a full disk): the handle is closed, the error leaves
\* withFileLock, and the empty file stays.
WriteFails(c) ==
  /\ pc[c] = "write" /\ c \in Faulty
  /\ Goto(c, "failed")
  /\ UNCHANGED <<now, lockFile, waitUntil>>

\* Fault: a lock exactly staleMs old counts as abandoned.
IsStale_AtLimit == now - lockFile.mtime >= StaleMs

\* Fault: the age is compared with the wrong option.
IsStale_WaitMs == now - lockFile.mtime > WaitMs

IsStale == now - lockFile.mtime > StaleMs

Deadline(c) == now > waitUntil[c]

\* stat(lockFile) and the tests on its answer.  A vanished file is retried
\* at once, before the deadline is looked at.
Stat(c) ==
  /\ pc[c] = "stat"
  /\ \/ ~Exists /\ Goto(c, "create")
     \/ Exists /\ IsStale /\ Goto(c, "steal")
     \/ Exists /\ ~IsStale /\ Deadline(c) /\ Goto(c, "timedOut")
     \/ Exists /\ ~IsStale /\ ~Deadline(c) /\ Goto(c, "asleep")
  /\ UNCHANGED <<now, lockFile, waitUntil>>

\* Fault: the stale file is looked at but not moved out of the way.
Steal_NotMoved(c) ==
  /\ pc[c] = "steal"
  /\ Goto(c, "create")
  /\ UNCHANGED <<now, lockFile, waitUntil>>

\* rename(lockFile, stolen): moves whatever is at the path by now.
Steal(c) ==
  /\ pc[c] = "steal"
  /\ \/ Exists /\ lockFile' = NoFile /\ Goto(c, "discard")
     \/ ~Exists /\ Goto(c, "create") /\ UNCHANGED lockFile
  /\ UNCHANGED <<now, waitUntil>>

\* rm(stolen): the name carries this call's token, nobody else looks at it.
Discard(c) ==
  /\ pc[c] = "discard"
  /\ Goto(c, "create")
  /\ UNCHANGED <<now, lockFile, waitUntil>>

\* The random poll interval ends.  Only a wake-up that finds the file gone is
\* a step of its own; the others see no change until the next tick.
Wake(c) ==
  /\ pc[c] = "asleep" /\ ~Exists
  /\ Goto(c, "create")
  /\ UNCHANGED <<now, lockFile, waitUntil>>
-----------------------------------------------------------------------------
(* withFileLock: the action, then the finally block *)

\* Fault: the release is not in a finally block, a throwing action skips it.
Return_NoFinally(c) ==
  /\ pc[c] = "critical"
  /\ \/ Goto(c, "readback")
     \/ Goto(c, "done")
  /\ UNCHANGED <<now, lockFile, waitUntil>>

\* The action returns or throws.
Return(c) ==
  /\ pc[c] = "critical"
  /\ Goto(c, "readback")
  /\ UNCHANGED <<now, lockFile, waitUntil>>

OwnsFile(c) == Exists /\ lockFile.token = c

\* readFile(lockFile) === token
ReadBack(c) ==
  /\ pc[c] = "readback"
  /\ Goto(c, IF OwnsFile(c) THEN "remove" ELSE "done")
  /\ UNCHANGED <<now, lockFile, waitUntil>>

\* rm(lockFile, { force: true }): by path.
Remove(c) ==
  /\ pc[c] = "remove"
  /\ lockFile' = NoFile
  /\ Goto(c, "done")
  /\ UNCHANGED <<now, waitUntil>>
-----------------------------------------------------------------------------
(* The environment *)

Crash(c) ==
  /\ c \in Faulty
  /\ pc[c] \in Polling \cup Holding \cup {"asleep"}
  /\ Goto(c, "crashed")
  /\ UNCHANGED <<now, lockFile, waitUntil>>

\* A punctual call keeps its lock file for at most HoldMax ticks.
MayOutlast(c) ==
  (pc[c] \in Holding /\ Exists /\ lockFile.creator = c)
     => now - lockFile.mtime < HoldMax

\* Time passes; every sleeping call has polled again by the next tick.
Tick ==
  /\ now < MaxTime
  /\ \A c \in Calls \ Slow : MayOutlast(c)
  /\ PromptPolls => \A c \in Calls \ Slow : pc[c] \notin Polling
  /\ now' = now + 1
  /\ pc' = [c \in Calls |-> IF pc[c] = "asleep" THEN "create" ELSE pc[c]]
  /\ UNCHANGED <<lockFile, waitUntil>>

Proceed(c) ==
  \/ Create(c) \/ WriteToken(c) \/ Stat(c) \/ Steal(c) \/ Discard(c)
  \/ Wake(c) \/ Return(c) \/ ReadBack(c) \/ Remove(c)

Step(c) == Start(c) \/ Proceed(c) \/ WriteFails(c) \/ Crash(c)

\* Every call has ended, or never started: nothing is left to do.
Finished ==
  /\ \A c \in Calls : pc[c] \in Terminal \cup {"idle"}
  /\ UNCHANGED vars

Next == (\E c \in Calls : Step(c)) \/ Tick \/ Finished

Spec == Init /\ [][Next]_vars

\* A live process is scheduled and the clock runs.
FairSpec == Spec /\ (\A c \in Calls : WF_vars(Proceed(c))) /\ WF_vars(Tick)
-----------------------------------------------------------------------------
(* Properties *)

\* Two live calls never run their actions at the same time: the lock is
\* exclusive (withFileLock's "while exclusively holding the lock file").
MutualExclusion ==
  \A c, d \in Calls : pc[c] = "critical" /\ pc[d] = "critical" => c = d

\* The release of a call removes the lock file only while it is the file that
\* call created: no holder deletes a lock another holder has since acquired.
ReleaseOnlyOwn ==
  [][\A c \in Calls : Remove(c) => ~Exists \/ lockFile.creator = c]_vars

\* A lock file left when every call has ended is the file of a call that died
\* or failed: no sequence of steals and releases leaks a lock.
NoLeak ==
  (\A c \in Calls : pc[c] \in Terminal \cup {"idle"}) /\ Exists
     => pc[lockFile.creator] \in {"crashed", "failed"}

\* The two time limits fit together: while punctual calls hold the lock for
\* less than a tick, the death of one holder makes no waiter time out.
OneCrashDelaysNobody == \A c \in Calls : pc[c] # "timedOut"

\* Every call that starts to acquire ends: it gets the lock, steals it from a
\* dead holder or times out; nobody polls for ever.
Termination == \A c \in Calls : pc[c] = "create" ~> pc[c] \in Terminal

\* The calls whose action runs, as the abstract lock sees them.
Running == {c \in Calls : pc[c] = "critical"}

Abstract == INSTANCE Mutex WITH holders <- Running

\* The file lock implements the abstract lock.
ImplementsMutex == Abstract!Spec
=============================================================================
