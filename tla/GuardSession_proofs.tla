------------------------- MODULE GuardSession_proofs -------------------------
(***************************************************************************)
(* Proofs about GuardSession, for any commands, clients and setups, and    *)
(* any number of overlapping tool calls.  What the guard has established   *)
(* about a command stays with the call until it runs: the classes of its   *)
(* segments do not change, and what the calls remember of the project only *)
(* shrinks.                                                                *)
(***************************************************************************)
EXTENDS GuardSession, GuardSetup_proofs, SequenceTheorems

\* There is nothing in the command for the guard to replace, ask or refuse.
Clean(cmd) ==
  cmd \in Commands /\ Unanalyzed(cmd) = {} /\ Installs(cmd) = {} /\ Runners(cmd) = {}

\* The trust surface, when it was checked, let the command pass, given what
\* has lasted ever since; the ledger's head is recorded (head) as long as the
\* lock is in force.
Passed(c, head) ==
  /\ "lockdown" \notin c.drifted
  /\ "tool" \in c.drifted => Installs(c.command) \cup Runners(c.command) = {}
  /\ c.locked => head /\ WriteTargets(c.command) \cap Protected = {}

\* The command was analysed, and what is answered follows from that.
Decided(c, there) ==
  /\ Unanalyzed(c.command) = {}
  /\ c.reply.updated = None => Installs(c.command) = {}
  /\ c.reply.updated # None => c.reply.updated = Rewritten(c.command) /\ Runners(c.command) = {}
  /\ c.settled /\ c.reply.permission # "ask" =>
       c.reply.updated # None
         \/ \A j \in Runners(c.command) : ~FetchesRemote(c.command[j]) /\ c.command[j].arg = "bin" /\ there

CallInv(c, there, head) ==
  c # Idle =>
    /\ c.at \in {"issued", "checked"} => c.reply = NoReply
    /\ c.again => Clean(c.command)
    /\ c.reply.suggested # None => Clean(c.reply.suggested)
    /\ c.at = "refused" => c.reply.suggested # None
    /\ c.command = <<>> => c.at # "checked" /\ c.reply.updated = None
    /\ c.at \in {"checked", "answered"} /\ c.reply.permission # "deny" /\ c.command # <<>> => Passed(c, head)
    /\ c.at = "answered" /\ c.reply.permission # "deny" /\ c.command # <<>> => Decided(c, there)

CallsInv == \A k \in Calls : CallInv(call[k], installed, mirror)

SessionInv == SetupInv /\ SessionTypeOK /\ CallsInv
-----------------------------------------------------------------------------
(* Commands *)

\* A segment that is neither given up on nor replaced runs no raw install that
\* the guard looks for.
LEMMA SegmentIsSafe ==
  ASSUME NEW s \in Segments, ~Unanalyzable(s), ~IsInstall(s), RunsRawInstall(s)
  PROVE  Overlooked(s)
  BY DEF Segments, Unanalyzable, IsInstall, RunsRawInstall, OwnInstall, HasSubstitution, KnownOther,
         Hint, Resolved, Overlooked

\* A replaced segment is a plain call of the SafeInstall CLI.
LEMMA RoutedIsClean ==
  ASSUME NEW s \in Segments, IsInstall(s)
  PROVE  /\ Routed(s) \in Segments /\ Routed(s).names = s.names
         /\ ~Unanalyzable(Routed(s)) /\ ~IsInstall(Routed(s)) /\ ~IsRunner(Routed(s))
         /\ ~RunsRawInstall(Routed(s))
<1>1. s.exe = "npm" /\ s.sub = "install" /\ Resolved(s) /\ s.inside = "none" /\ s.arg # "variable"
  BY DEF IsInstall, Unanalyzable, HasSubstitution, Segments
<1>2. /\ Routed(s) \in Segments /\ Routed(s).names = s.names /\ Routed(s).exe = "safeinstall"
      /\ Routed(s).inside = "none" /\ Routed(s).wrapper \notin {"prints", "unknown"}
  BY <1>1 DEF Routed, Segments, Resolved
<1> QED BY <1>2 DEF Unanalyzable, IsInstall, IsRunner, RunsRawInstall, OwnInstall, HasSubstitution, Resolved

LEMMA CommandType ==
  ASSUME NEW cmd \in Commands
  PROVE  \A j \in DOMAIN cmd : cmd[j] \in Segments
  BY DEF Commands

LEMMA RewrittenType ==
  ASSUME NEW cmd \in Commands
  PROVE  /\ Rewritten(cmd) \in Commands /\ DOMAIN Rewritten(cmd) = DOMAIN cmd
         /\ \A j \in DOMAIN cmd :
              Rewritten(cmd)[j] = IF IsInstall(cmd[j]) THEN Routed(cmd[j]) ELSE cmd[j]
<1>1. Len(cmd) \in Nat /\ DOMAIN cmd = 1..Len(cmd)
  BY LenProperties DEF Commands
<1>2. \A j \in DOMAIN cmd : (IF IsInstall(cmd[j]) THEN Routed(cmd[j]) ELSE cmd[j]) \in Segments
  BY CommandType, RoutedIsClean
<1>3. Rewritten(cmd) \in [1..Len(cmd) -> Segments]
  BY <1>1, <1>2 DEF Rewritten
<1>4. Rewritten(cmd) \in Commands
  BY <1>1, <1>3, SeqDef DEF Commands
<1> QED BY <1>4 DEF Rewritten

LEMMA RewrittenIsClean ==
  ASSUME NEW cmd \in Commands, Unanalyzed(cmd) = {}
  PROVE  /\ Runners(cmd) = {} => Clean(Rewritten(cmd))
         /\ WriteTargets(Rewritten(cmd)) = WriteTargets(cmd)
         /\ Runners(Rewritten(cmd)) = Runners(cmd)
         /\ \A j \in DOMAIN Rewritten(cmd) : RunsRawInstall(Rewritten(cmd)[j])
              => Overlooked(Rewritten(cmd)[j])
<1> DEFINE new == Rewritten(cmd)
<1>1. \A j \in DOMAIN cmd : cmd[j] \in Segments /\ ~Unanalyzable(cmd[j])
  BY CommandType DEF Unanalyzed
<1>2. \A j \in DOMAIN cmd :
        /\ ~Unanalyzable(new[j]) /\ ~IsInstall(new[j]) /\ new[j].names = cmd[j].names
        /\ RunsRawInstall(new[j]) => Overlooked(new[j])
        /\ IsRunner(new[j]) <=> IsRunner(cmd[j])
  <2> SUFFICES ASSUME NEW j \in DOMAIN cmd
               PROVE  /\ ~Unanalyzable(new[j]) /\ ~IsInstall(new[j]) /\ new[j].names = cmd[j].names
                      /\ RunsRawInstall(new[j]) => Overlooked(new[j])
                      /\ IsRunner(new[j]) <=> IsRunner(cmd[j])
    OBVIOUS
  <2>1. CASE IsInstall(cmd[j])
    <3>1. ~IsRunner(cmd[j])
      BY <2>1 DEF IsInstall, IsRunner
    <3> QED BY <1>1, <2>1, <3>1, RoutedIsClean, RewrittenType
  <2>2. CASE ~IsInstall(cmd[j])
    BY <1>1, <2>2, SegmentIsSafe, RewrittenType
  <2> QED BY <2>1, <2>2
<1>3. new \in Commands /\ DOMAIN new = DOMAIN cmd
  BY RewrittenType
<1> HIDE DEF new
<1>4. Unanalyzed(new) = {} /\ Installs(new) = {} /\ Runners(new) = Runners(cmd)
  BY <1>2, <1>3 DEF Unanalyzed, Installs, Runners
<1>5. WriteTargets(new) = WriteTargets(cmd)
  BY <1>2, <1>3 DEF WriteTargets
<1> QED BY <1>2, <1>3, <1>4, <1>5 DEF Clean, new

LEMMA UnreplacedIsSafe ==
  ASSUME NEW cmd \in Commands, Unanalyzed(cmd) = {}, Installs(cmd) = {}
  PROVE  \A j \in DOMAIN cmd : RunsRawInstall(cmd[j]) => Overlooked(cmd[j])
  BY CommandType, SegmentIsSafe DEF Unanalyzed, Installs
-----------------------------------------------------------------------------
(* Calls *)

\* What the others do to a call.
Faded(c, d) ==
  IF c.at \in {"idle", "refused"} THEN d = c
  ELSE \E l \in BOOLEAN, D \in SUBSET DriftKinds, s \in BOOLEAN :
         /\ l => c.locked /\ (mirror => mirror')
         /\ D \subseteq c.drifted
         /\ s => c.settled /\ installed' = installed
         /\ d = [c EXCEPT !.locked = l, !.drifted = D, !.settled = s]

LEMMA IdleAt == Idle.at = "idle" /\ \A c \in CallRecords : c.at = "idle" => c = Idle
  BY DEF Idle, CallRecords

LEMMA FadedKeeps ==
  ASSUME NEW c \in CallRecords, NEW d, Faded(c, d), CallInv(c, installed, mirror)
  PROVE  d \in CallRecords /\ CallInv(d, installed', mirror')
<1>1. CASE c.at \in {"idle", "refused"}
  BY <1>1, IdleAt DEF Faded, CallInv
<1>2. CASE c.at \notin {"idle", "refused"}
  <2>1. c # Idle
    BY <1>2, IdleAt
  <2>2. PICK l \in BOOLEAN, D \in SUBSET DriftKinds, s \in BOOLEAN :
          /\ l => c.locked /\ (mirror => mirror')
          /\ D \subseteq c.drifted
          /\ s => c.settled /\ installed' = installed
          /\ d = [c EXCEPT !.locked = l, !.drifted = D, !.settled = s]
    BY <1>2 DEF Faded
  <2>3. c \in CallRecords \ {Idle} /\ d \in CallRecords \ {Idle}
    BY <2>1, <2>2, IdleAt DEF CallRecords
  <2>4. /\ d.at = c.at /\ d.command = c.command /\ d.reply = c.reply /\ d.again = c.again
        /\ d.locked = l /\ d.drifted = D /\ d.settled = s
    BY <2>2, <2>3 DEF CallRecords
  <2>5. Passed(c, mirror) => Passed(d, mirror')
    BY <2>2, <2>4 DEF Passed
  <2>6. Decided(c, installed) => Decided(d, installed')
    BY <2>2, <2>4 DEF Decided
  <2> QED BY <2>1, <2>3, <2>4, <2>5, <2>6 DEF CallInv
<1> QED BY <1>1, <1>2

LEMMA WatchFades ==
  ASSUME NEW calls \in [Calls -> CallRecords], Watch(calls), installed' \in BOOLEAN, NEW k \in Calls,
         mirror /\ lock' # NoLock => mirror'
  PROVE  Faded(calls[k], call'[k])
<1> DEFINE c == calls[k]
<1>1. call'[k] = IF c.at \in {"idle", "refused"} THEN c
                 ELSE [c EXCEPT !.locked = @ /\ lock' # NoLock, !.drifted = @ \cap Drift',
                                !.settled = @ /\ installed' = installed]
  BY DEF Watch
<1>2. CASE c.at \in {"idle", "refused"}
  BY <1>1, <1>2 DEF Faded
<1>3. CASE c.at \notin {"idle", "refused"}
  <2>1. c.locked \in BOOLEAN /\ c.drifted \in SUBSET DriftKinds /\ c.settled \in BOOLEAN
    BY <1>3, IdleAt DEF CallRecords
  <2> DEFINE l == c.locked /\ lock' # NoLock
             D == c.drifted \cap Drift'
             s == c.settled /\ installed' = installed
  <2>2. l \in BOOLEAN /\ D \in SUBSET DriftKinds /\ s \in BOOLEAN
    BY <2>1
  <2>3. call'[k] = [c EXCEPT !.locked = l, !.drifted = D, !.settled = s]
    BY <1>1, <1>3
  <2>4. (l => c.locked /\ (mirror => mirror')) /\ D \subseteq c.drifted /\ (s => c.settled /\ installed' = installed)
    OBVIOUS
  <2>5. \E L \in BOOLEAN, E \in SUBSET DriftKinds, t \in BOOLEAN :
          /\ L => c.locked /\ (mirror => mirror')
          /\ E \subseteq c.drifted
          /\ t => c.settled /\ installed' = installed
          /\ call'[k] = [c EXCEPT !.locked = L, !.drifted = E, !.settled = t]
    <3> HIDE DEF l, D, s, c
    <3> QED BY <2>2, <2>3, <2>4
  <2> QED BY <1>3, <2>5 DEF Faded
<1> QED BY <1>2, <1>3

\* A step after which the calls are watched keeps what holds of each before.
LEMMA WatchKeeps ==
  ASSUME NEW calls \in [Calls -> CallRecords], Watch(calls), installed' \in BOOLEAN,
         mirror /\ lock' # NoLock => mirror',
         \A k \in Calls : CallInv(calls[k], installed, mirror)
  PROVE  call' \in [Calls -> CallRecords] /\ CallsInv'
<1>1. \A k \in Calls : call'[k] \in CallRecords /\ CallInv(call'[k], installed', mirror')
  BY WatchFades, FadedKeeps
<1>2. call' = [k \in Calls |-> call'[k]]
  BY DEF Watch
<1>3. call' \in [Calls -> CallRecords]
  BY <1>1, <1>2
<1> QED BY <1>1, <1>3 DEF CallsInv

LEMMA DriftType == Drift \subseteq DriftKinds
  BY DEF Drift, DriftKinds

LEMMA RenderType ==
  ASSUME NEW cl \in Clients, NEW action \in {"allow", "deny", "ask"}, NEW u \in Commands \cup {None},
         GuardSessionAssumption
  PROVE  /\ Render(cl, action, u) \in Replies
         /\ Render(cl, action, u).updated \in {u, None} /\ Render(cl, action, u).suggested \in {u, None}
         /\ action = "deny" /\ Render(cl, action, u).permission # "deny"
              => u # None /\ Render(cl, action, u).updated = u
         /\ action = "ask" /\ u = None => Render(cl, action, u).permission \in {"ask", "deny"}
  BY DEF Render, Replies, NoReply, GuardSessionAssumption
-----------------------------------------------------------------------------
(* The steps *)

\* A step that gives one call a new record and changes nothing else.
LEMMA SetCall ==
  ASSUME SessionInv, NEW k \in Calls, NEW d \in CallRecords, CallInv(d, installed, mirror),
         call' = [call EXCEPT ![k] = d], UNCHANGED <<vars, installed>>
  PROVE  SessionInv'
<1>1. SetupInv' /\ mirror' = mirror
  BY DEF SessionInv, SetupInv, TypeOK, OnceInv, MirrorInv, RunInv, Protects, Snapshot, AtMostOnce, vars, files, trust, run
<1>2. SessionTypeOK' /\ CallsInv'
  BY <1>1 DEF SessionInv, SessionTypeOK, SetupInv, CallsInv
<1> QED BY <1>1, <1>2 DEF SessionInv

LEMMA IssueStep ==
  ASSUME SessionInv, NEW k \in Calls, NEW cl \in Clients, NEW cmd \in Commands, NEW again \in BOOLEAN,
         again => Clean(cmd), IssueAs(k, cl, cmd, again)
  PROVE  SessionInv'
<1> DEFINE d == [at |-> "issued", client |-> cl, command |-> cmd, guarded |-> Guards(hooks[cl]),
                 reply |-> NoReply, locked |-> lock # NoLock, drifted |-> Drift, settled |-> TRUE,
                 again |-> again]
<1>1. Guards(hooks[cl]) \in BOOLEAN /\ NoReply \in Replies
  BY DEF Guards, NoReply, Replies
<1>2. d \in CallRecords
  BY <1>1, DriftType DEF CallRecords
<1>3. CallInv(d, installed, mirror)
  BY DEF CallInv, NoReply
<1> QED BY <1>2, <1>3, SetCall DEF IssueAs

LEMMA CallType ==
  ASSUME SessionInv, NEW k \in Calls, call[k].at # "idle"
  PROVE  /\ call[k] \in CallRecords \ {Idle}
         /\ call[k].client \in Clients /\ call[k].command \in Commands
         /\ call[k].reply \in Replies /\ CallInv(call[k], installed, mirror)
<1>1. call[k] \in CallRecords /\ CallInv(call[k], installed, mirror) /\ call[k] # Idle
  BY IdleAt DEF SessionInv, SessionTypeOK, CallsInv
<1> QED BY <1>1 DEF CallRecords

\* The hook's look at the trust surface records the ledger's head at most.
LEMMA HealKeeps ==
  ASSUME SetupInv, UNCHANGED <<files, lock, edits, run, calm>>, mirror' \in {mirror, mirror \/ lock # NoLock}
  PROVE  SetupInv' /\ (mirror => mirror')
<1>1. UNCHANGED <<hooks, policy, tools, lock, edits, pc, todo, seen, failed, calm>>
  BY DEF files, run
<1>2. mirror' \in BOOLEAN /\ MirrorInv' /\ (mirror => mirror')
  BY <1>1 DEF SetupInv, TypeOK, MirrorInv
<1>3. TypeOK' /\ OnceInv'
  BY <1>1, <1>2 DEF SetupInv, TypeOK, OnceInv, AtMostOnce
<1>4. \A r \in Setups : RunInv(r)'
  BY <1>1 DEF SetupInv, RunInv, Protects, Snapshot, Guards
<1> QED BY <1>2, <1>3, <1>4 DEF SetupInv

\* An answer that fits what has been established keeps the invariant.
LEMMA AnswerStep ==
  ASSUME SessionInv, NEW k \in Calls, NEW d \in CallRecords, CallInv(d, installed, mirror),
         Watch([call EXCEPT ![k] = d]), SetupInv', installed' = installed,
         mirror /\ lock' # NoLock => mirror'
  PROVE  SessionInv'
<1> DEFINE calls == [call EXCEPT ![k] = d]
<1>1. calls \in [Calls -> CallRecords] /\ installed' \in BOOLEAN
      /\ \A j \in Calls : CallInv(calls[j], installed, mirror)
  BY DEF SessionInv, SessionTypeOK, CallsInv
<1>2. call' \in [Calls -> CallRecords] /\ CallsInv'
  <2> HIDE DEF calls
  <2>1. Watch(calls)
    BY DEF calls
  <2> QED BY <1>1, <2>1, WatchKeeps
<1> QED BY <1>1, <1>2 DEF SessionInv, SessionTypeOK, SetupInv

LEMMA CheckTrustStep ==
  ASSUME GuardSessionAssumption, SessionInv, NEW k \in Calls, CheckTrust(k)
  PROVE  SessionInv'
<1> DEFINE c == call[k]
<1>1. /\ c \in CallRecords \ {Idle} /\ c.client \in Clients /\ c.command \in Commands
      /\ CallInv(c, installed, mirror) /\ c.at = "issued" /\ installed' = installed
      /\ UNCHANGED <<files, lock, edits, run, calm>> /\ mirror' \in {mirror, mirror \/ lock # NoLock}
  BY CallType DEF CheckTrust
<1>0. SetupInv' /\ (mirror => mirror')
  BY <1>1, HealKeeps DEF SessionInv
<1>2. ASSUME NEW action \in {"allow", "deny"}, Answer(k, action, None),
             action = "allow" <=> c.command = <<>>
      PROVE  SessionInv'
  <2> DEFINE R == Render(c.client, action, None)
             d == [c EXCEPT !.at = "answered", !.reply = R]
  <2>1. /\ R \in Replies /\ R.updated = None /\ R.suggested = None
        /\ action = "deny" => R.permission = "deny"
    BY <1>1, RenderType
  <2>2. Watch([call EXCEPT ![k] = d])
    BY <1>2 DEF Answer
  <2> HIDE DEF R
  <2>3. d \in CallRecords
    BY <1>1, <2>1 DEF CallRecords
  <2>4. /\ d.at = "answered" /\ d.command = c.command /\ d.reply = R /\ d.again = c.again
    BY <1>1 DEF CallRecords
  <2>5. CallInv(d, installed, mirror)
    BY <1>1, <1>2, <2>1, <2>4 DEF CallInv
  <2> HIDE DEF d
  <2> QED BY <1>0, <1>1, <2>2, <2>3, <2>5, AnswerStep
<1>3. ASSUME c.command # <<>>, ~Denies(c.command), Watch([call EXCEPT ![k].at = "checked"]),
             mirror' = (mirror \/ lock # NoLock)
      PROVE  SessionInv'
  <2> DEFINE calls == [call EXCEPT ![k].at = "checked"]
             d == call'[k]
  <2>1. lock' = lock /\ Drift' = Drift /\ installed' = installed /\ installed \in BOOLEAN
    BY <1>1 DEF files, Drift, SessionInv, SessionTypeOK
  <2>2. call \in [Calls -> CallRecords] /\ calls \in [Calls -> CallRecords]
        /\ calls[k] = [c EXCEPT !.at = "checked"] /\ \A j \in Calls \ {k} : calls[j] = call[j]
    BY <1>1 DEF SessionInv, SessionTypeOK, CallRecords
  <2> HIDE DEF calls
  <2>3. Watch(calls)
    BY <1>3 DEF calls
  <2>4. d = [calls[k] EXCEPT !.locked = @ /\ lock' # NoLock, !.drifted = @ \cap Drift',
                             !.settled = @ /\ installed' = installed]
    BY <1>1, <2>2, <2>3 DEF Watch, CallRecords
  <2>5. /\ d \in CallRecords \ {Idle}
        /\ d.at = "checked" /\ d.command = c.command /\ d.reply = c.reply /\ d.again = c.again
        /\ d.drifted \subseteq Drift /\ (d.locked => lock # NoLock)
    <3> DEFINE e == calls[k]
               l == e.locked /\ lock' # NoLock
               D == e.drifted \cap Drift'
               s == e.settled /\ installed' = installed
    <3>1. /\ e \in CallRecords \ {Idle} /\ e.at = "checked" /\ e.command = c.command
          /\ e.reply = c.reply /\ e.again = c.again
      BY <1>1, <2>2, IdleAt DEF CallRecords
    <3>2. l \in BOOLEAN /\ D \in SUBSET DriftKinds /\ s \in BOOLEAN
      BY <3>1 DEF CallRecords
    <3>3. (l => lock # NoLock) /\ D \subseteq Drift
      BY <2>1
    <3>4. d = [e EXCEPT !.locked = l, !.drifted = D, !.settled = s]
      BY <2>4
    <3> HIDE DEF d, e, l, D, s
    <3>5. d \in CallRecords \ {Idle}
      BY <3>1, <3>2, <3>4, IdleAt DEF CallRecords
    <3>6. d.at = e.at /\ d.command = e.command /\ d.reply = e.reply /\ d.again = e.again
          /\ d.drifted = D /\ d.locked = l
      BY <3>1, <3>4 DEF CallRecords
    <3> QED BY <3>1, <3>3, <3>5, <3>6 DEF d
  <2>6. Passed(d, mirror')
    BY <1>3, <2>5 DEF Passed, Denies
  <2>7. CallInv(d, installed', mirror')
    BY <1>1, <2>1, <1>3, <2>5, <2>6 DEF CallInv
  <2>8. \A j \in Calls \ {k} : call'[j] \in CallRecords /\ CallInv(call'[j], installed', mirror')
    BY <1>0, <2>1, <2>2, <2>3, WatchFades, FadedKeeps DEF SessionInv, CallsInv
  <2>9. call' \in [Calls -> CallRecords] /\ CallsInv'
    <3>1. call' = [j \in Calls |-> call'[j]]
      BY <2>3 DEF Watch
    <3>2. \A j \in Calls : call'[j] \in CallRecords /\ CallInv(call'[j], installed', mirror')
      BY <2>1, <2>5, <2>7, <2>8
    <3> QED BY <3>1, <3>2 DEF CallsInv
  <2> QED BY <1>0, <2>1, <2>9 DEF SessionInv, SessionTypeOK, SetupInv
<1> QED BY <1>2, <1>3 DEF CheckTrust

LEMMA DecideType ==
  ASSUME NEW cmd \in Commands
  PROVE  LET d == Decide(cmd) IN
         /\ d[1] \in {"allow", "deny", "ask"} /\ d[2] \in {None, Rewritten(cmd)}
         /\ d[2] # None => d[1] = "deny" /\ Unanalyzed(cmd) = {} /\ Runners(cmd) = {}
         /\ d[2] = None /\ d[1] # "deny" => Unanalyzed(cmd) = {} /\ Installs(cmd) = {}
         /\ d[1] = "allow" => \A j \in Runners(cmd) :
              ~FetchesRemote(cmd[j]) /\ cmd[j].arg = "bin" /\ installed
  BY DEF Decide, Local

LEMMA DecideStep ==
  ASSUME GuardSessionAssumption, SessionInv, NEW k \in Calls, DecideCommand(k)
  PROVE  SessionInv'
<1> DEFINE c == call[k]
           cmd == c.command
           a == Decide(cmd)[1]
           u == Decide(cmd)[2]
           R == Render(c.client, a, u)
           d == [c EXCEPT !.at = "answered", !.settled = TRUE, !.reply = R]
<1>1. /\ c \in CallRecords \ {Idle} /\ c.client \in Clients /\ cmd \in Commands
      /\ CallInv(c, installed, mirror) /\ c.at = "checked" /\ UNCHANGED <<vars, installed>>
  BY CallType DEF DecideCommand
<1>2. Watch([call EXCEPT ![k] = d])
  BY DEF DecideCommand
<1>3. Rewritten(cmd) \in Commands
  BY <1>1, RewrittenType
<1>4. /\ a \in {"allow", "deny", "ask"} /\ u \in {None, Rewritten(cmd)}
      /\ u # None => a = "deny" /\ Unanalyzed(cmd) = {} /\ Runners(cmd) = {}
      /\ u = None /\ a # "deny" => Unanalyzed(cmd) = {} /\ Installs(cmd) = {}
      /\ a = "allow" => \A j \in Runners(cmd) :
           ~FetchesRemote(cmd[j]) /\ cmd[j].arg = "bin" /\ installed
  BY <1>1, DecideType
<1>5. u # None => Clean(u)
  BY <1>1, <1>4, RewrittenIsClean
<1> HIDE DEF a, u
<1>6. /\ R \in Replies /\ R.updated \in {u, None} /\ R.suggested \in {u, None}
      /\ a = "deny" /\ R.permission # "deny" => u # None /\ R.updated = u
      /\ a = "ask" /\ u = None => R.permission \in {"ask", "deny"}
  BY <1>1, <1>3, <1>4, RenderType
<1> HIDE DEF R
<1>7. /\ d \in CallRecords /\ d.at = "answered" /\ d.command = cmd /\ d.reply = R /\ d.again = c.again
      /\ d.drifted = c.drifted /\ d.locked = c.locked
  BY <1>1, <1>6 DEF CallRecords
<1>8. c.reply.permission # "deny" /\ cmd # <<>> /\ (c.again => Clean(cmd))
  BY <1>1 DEF CallInv, NoReply
<1>9. Passed(d, mirror)
  BY <1>1, <1>7, <1>8 DEF CallInv, Passed
<1>10. R.permission # "deny" => Decided(d, installed)
  BY <1>4, <1>6, <1>7 DEF Decided
<1>11. CallInv(d, installed, mirror)
  BY <1>5, <1>6, <1>7, <1>8, <1>9, <1>10 DEF CallInv
<1>12. SetupInv' /\ mirror' = mirror
  BY <1>1 DEF SessionInv, SetupInv, TypeOK, OnceInv, MirrorInv, RunInv, Protects, Snapshot, AtMostOnce, vars, files, trust, run
<1> HIDE DEF d, c
<1> QED BY <1>1, <1>2, <1>7, <1>11, <1>12, AnswerStep

LEMMA RefuseStep ==
  ASSUME SessionInv, NEW k \in Calls, Refuse(k)
  PROVE  SessionInv'
<1> DEFINE c == call[k]
<1>1. c \in CallRecords \ {Idle} /\ CallInv(c, installed, mirror)
  BY CallType DEF Refuse, Ready
<1>2. CASE c.reply.suggested = None
  <2>1. Idle \in CallRecords /\ CallInv(Idle, installed, mirror)
    BY DEF CallRecords, CallInv
  <2> QED BY <1>2, <2>1, SetCall DEF Refuse
<1>3. CASE c.reply.suggested # None
  <2> DEFINE d == [c EXCEPT !.at = "refused"]
  <2>1. d \in CallRecords /\ d.at = "refused" /\ d.command = c.command /\ d.reply = c.reply /\ d.again = c.again
    BY <1>1 DEF CallRecords
  <2>2. CallInv(d, installed, mirror)
    BY <1>1, <1>3, <2>1 DEF CallInv
  <2>3. call' = [call EXCEPT ![k] = d] /\ UNCHANGED <<vars, installed>>
    BY <1>3 DEF Refuse
  <2> HIDE DEF d
  <2> QED BY <2>1, <2>2, <2>3, SetCall
<1> QED BY <1>2, <1>3

LEMMA RunStep ==
  ASSUME GuardSetupAssumption, SessionInv, NEW k \in Calls, Run(k)
  PROVE  SessionInv'
<1> USE DEF SetupInv, TypeOK, files, run
<1>1. /\ hooks' = [c \in Clients |-> IF c \in Touched(Effective(k)) THEN Damaged(hooks[c]) ELSE hooks[c]]
      /\ policy' \in {policy, "absent"} /\ tools' \in {tools, "other"}
      /\ lock' = lock \/ (lock # NoLock /\ lock' \in {BadLock, Gone})
      /\ calm' = IF UNCHANGED <<files, lock>> THEN calm ELSE [r \in Setups |-> calm[r] /\ pc[r] = "idle"]
      /\ UNCHANGED <<mirror, edits, pc, todo, seen, failed, installed>>
      /\ Watch([call EXCEPT ![k] = Idle])
  BY DEF Run
<1>2. SetupInv
  BY DEF SessionInv
<1>3. TypeOK'
  <2>1. hooks' \in [Clients -> HookFiles]
    BY <1>1, <1>2 DEF Damaged, HookFiles
  <2>2. policy' \in Policies /\ tools' \in Tools
    BY <1>1, <1>2 DEF Policies, Tools
  <2>3. calm' \in [Setups -> BOOLEAN]
    BY <1>1, <1>2
  <2>4. lock' \in Snapshots \cup {NoLock, BadLock}
    BY <1>1, <1>2 DEF Gone
  <2> QED BY <1>1, <1>2, <2>1, <2>2, <2>3, <2>4
<1>4. OnceInv' /\ MirrorInv'
  <2>1. OnceInv'
    BY <1>1, <1>2 DEF OnceInv, AtMostOnce, Damaged
  <2>2. MirrorInv'
    BY <1>1, <1>2 DEF MirrorInv, Gone, GuardSetupAssumption
  <2> QED BY <2>1, <2>2
<1>5. ASSUME NEW r \in Setups PROVE RunInv(r)'
  <2>1. (calm'[r] => calm[r]) /\ (calm'[r] /\ pc[r] # "idle" => UNCHANGED <<files, lock>>)
    BY <1>1, <1>2
  <2> QED BY <1>1, <1>2, <2>1, Bystander
<1>6. Idle \in CallRecords /\ CallInv(Idle, installed, mirror)
  BY DEF CallRecords, CallInv
<1> DEFINE calls == [call EXCEPT ![k] = Idle]
<1>7. calls \in [Calls -> CallRecords] /\ installed \in BOOLEAN /\ \A j \in Calls : CallInv(calls[j], installed, mirror)
  BY <1>6 DEF SessionInv, SessionTypeOK, CallsInv
<1>8. call' \in [Calls -> CallRecords] /\ CallsInv'
  <2>1. Watch(calls)
    BY <1>1
  <2> HIDE DEF calls
  <2> QED BY <1>1, <1>7, <2>1, WatchKeeps
<1> QED BY <1>1, <1>3, <1>4, <1>5, <1>7, <1>8 DEF SessionInv, SessionTypeOK

LEMMA SessionInvStep ==
  ASSUME GuardSetupAssumption, GuardSessionAssumption, SessionInv, [SessionNext]_sessionVars
  PROVE  SessionInv'
<1>1. call \in [Calls -> CallRecords] /\ installed \in BOOLEAN /\ SetupInv
      /\ \A k \in Calls : CallInv(call[k], installed, mirror)
  BY DEF SessionInv, SessionTypeOK, CallsInv
<1>2. CASE Project
  <2>1. SetupInv' /\ installed' \in BOOLEAN
    BY <1>1, <1>2, SetupInvStep DEF Project
  <2>2. mirror /\ lock' # NoLock => mirror'
    BY <1>1, <1>2, SetupsHoldLock DEF Project, Human, Approve, Unlock, SetupInv
  <2>3. call' \in [Calls -> CallRecords] /\ CallsInv'
    BY <1>1, <1>2, <2>1, <2>2, WatchKeeps DEF Project
  <2> QED BY <2>1, <2>3 DEF SessionInv, SessionTypeOK, SetupInv
<1>3. CASE Modules
  <2>1. SetupInv' /\ installed' \in BOOLEAN /\ mirror' = mirror
    BY <1>1, <1>3 DEF Modules, SetupInv, TypeOK, OnceInv, MirrorInv, RunInv, Protects, Snapshot, AtMostOnce, vars, files, trust, run
  <2>2. call' \in [Calls -> CallRecords] /\ CallsInv'
    BY <1>1, <1>3, <2>1, WatchKeeps DEF Modules
  <2> QED BY <2>1, <2>2 DEF SessionInv, SessionTypeOK, SetupInv
<1>4. ASSUME NEW k \in Calls, CallStep(k) PROVE SessionInv'
  <2>1. CASE Issue(k)
    BY <2>1, IssueStep DEF Issue, GuardSessionAssumption
  <2>2. CASE Reissue(k)
    <3> DEFINE c == call[k]
    <3>1. /\ c \in CallRecords \ {Idle} /\ c.client \in Clients /\ CallInv(c, installed, mirror)
          /\ c.at = "refused"
      BY <2>2, CallType DEF Reissue
    <3>2. Clean(c.reply.suggested)
      BY <3>1 DEF CallInv
    <3>3. c.reply.suggested \in Commands
      BY <3>2 DEF Clean
    <3> QED BY <2>2, <3>1, <3>2, <3>3, IssueStep DEF Reissue
  <2>3. CASE CheckTrust(k)     BY <2>3, CheckTrustStep
  <2>4. CASE DecideCommand(k)  BY <2>4, DecideStep
  <2>5. CASE Refuse(k)         BY <2>5, RefuseStep
  <2>6. CASE Run(k)            BY <2>6, RunStep
  <2> QED BY <1>4, <2>1, <2>2, <2>3, <2>4, <2>5, <2>6 DEF CallStep
<1>5. CASE UNCHANGED sessionVars
  BY <1>5 DEF sessionVars, SessionInv, SessionTypeOK, CallsInv, SetupInv, TypeOK, OnceInv, MirrorInv,
              RunInv, Protects, Snapshot, AtMostOnce, vars, files, trust, run
<1> QED BY <1>2, <1>3, <1>4, <1>5 DEF SessionNext

LEMMA SessionInvInit ==
  GuardSetupAssumption /\ SessionInit => SessionInv
  BY SetupInvInit DEF SessionInit, SessionInv, SessionTypeOK, SetupInv, CallsInv, CallInv, CallRecords
-----------------------------------------------------------------------------
(* Theorems *)

\* What a guarded run runs has passed the guard.
LEMMA GuardedRunPassed ==
  ASSUME SessionInv, NEW k \in Calls, GuardedRun(k)
  PROVE  /\ call[k].command \in Commands
         /\ call[k].command = <<>> => Effective(k) = <<>>
         /\ call[k].command # <<>> =>
              /\ Passed(call[k], mirror) /\ Decided(call[k], installed)
              /\ Effective(k) \in {call[k].command, Rewritten(call[k].command)}
              /\ call[k].reply.updated = None => Effective(k) = call[k].command
              /\ call[k].reply.updated # None => Effective(k) = Rewritten(call[k].command)
<1>1. call[k].at = "answered" /\ call[k].reply.permission # "deny"
  BY DEF GuardedRun, Ready, Run
<1>2. call[k] # Idle /\ call[k].command \in Commands /\ CallInv(call[k], installed, mirror)
  BY <1>1, CallType
<1> QED BY <1>1, <1>2 DEF CallInv, Decided, Effective

LEMMA SessionInvAlways == SessionSpec => []SessionInv
<1> USE GuardSetupAssumption, GuardSessionAssumption
<1>1. SessionInit => SessionInv
  BY SessionInvInit
<1>2. SessionInv /\ [SessionNext]_sessionVars => SessionInv'
  BY SessionInvStep
<1> QED BY <1>1, <1>2, PTL DEF SessionSpec

\* The project, the setups, the answers and what the calls remember are well
\* formed.
THEOREM SessionTypeCorrect == SessionSpec => []SessionTypeOK
<1>1. SessionInv => SessionTypeOK
  BY DEF SessionInv
<1> QED BY <1>1, SessionInvAlways, PTL

\* No hook file registers the guard twice, with any number of setups that
\* overlap each other, agents and people.
THEOREM RegisteredOnce == SessionSpec => []GuardedOnce
<1>1. SessionInv => GuardedOnce
  BY SetupInvProtects, GuardSetupAssumption DEF SessionInv
<1> QED BY <1>1, SessionInvAlways, PTL

\* An init that ends well and was left alone has guarded every client it was
\* asked for, and the lock covers what it wrote.
THEOREM InitIsProtection == SessionSpec => []InitProtects
<1>1. SessionInv => InitProtects
  BY SetupInvProtects, GuardSetupAssumption DEF SessionInv
<1> QED BY <1>1, SessionInvAlways, PTL

\* Once this machine has recorded the lock, neither a setup, an edit nor a
\* command puts another baseline in force: whatever is done to the lock first,
\* only a human does.
THEOREM OnlyHumansRebase == SessionSpec => LockHolds
<1>1. ASSUME SessionInv, [SessionNext]_sessionVars, mirror
      PROVE  (lock' \in {lock, BadLock} /\ mirror') \/ Human
  <2>1. CASE Project
    BY <1>1, <2>1, SetupsHoldLock DEF Project, SessionInv, SetupInv
  <2>2. ASSUME NEW k \in Calls, Run(k) PROVE lock' \in {lock, BadLock} /\ mirror'
    BY <1>1, <2>2 DEF Run, Gone
  <2>3. ASSUME NEW k \in Calls, CheckTrust(k) PROVE lock' = lock /\ mirror'
    BY <1>1, <2>3 DEF CheckTrust
  <2>4. ASSUME NEW k \in Calls, CallStep(k), ~Run(k), ~CheckTrust(k) PROVE lock' = lock /\ mirror'
    BY <1>1, <2>4 DEF CallStep, Issue, Reissue, IssueAs, DecideCommand, Refuse, vars, trust
  <2>5. CASE Modules \/ UNCHANGED sessionVars
    BY <1>1, <2>5 DEF Modules, sessionVars, vars, trust
  <2> QED BY <1>1, <2>1, <2>2, <2>3, <2>4, <2>5 DEF SessionNext
<1>2. SessionInv /\ [SessionNext]_sessionVars =>
        [mirror => (lock' \in {lock, BadLock} /\ mirror') \/ Human]_vars
  BY <1>1
<1> QED BY <1>2, SessionInvAlways, PTL DEF SessionSpec, LockHolds

\* An install that a guarded command runs by itself, whatever the command is and
\* however the guard replaces it, is of a form that the guard does not look for.
THEOREM RawInstallsStop == SessionSpec => NoRawInstall
<1>1. ASSUME SessionInv, NEW k \in Calls, GuardedRun(k), NEW j \in DOMAIN Effective(k),
             RunsRawInstall(Effective(k)[j])
      PROVE  Overlooked(Effective(k)[j])
  <2>1. call[k].command # <<>>
    <3>1. DOMAIN <<>> = {}
      OBVIOUS
    <3> QED BY <1>1, <3>1, GuardedRunPassed
  <2>2. call[k].command \in Commands /\ Unanalyzed(call[k].command) = {}
    BY <1>1, <2>1, GuardedRunPassed DEF Decided
  <2>3. CASE call[k].reply.updated = None
    <3>1. Effective(k) = call[k].command /\ Installs(call[k].command) = {}
      BY <1>1, <2>1, <2>3, GuardedRunPassed DEF Decided
    <3> QED BY <1>1, <2>2, <3>1, UnreplacedIsSafe
  <2>4. CASE call[k].reply.updated # None
    <3>1. Effective(k) = Rewritten(call[k].command)
      BY <1>1, <2>1, <2>4, GuardedRunPassed
    <3> QED BY <1>1, <2>2, <3>1, RewrittenIsClean
  <2> QED BY <2>3, <2>4
<1>2. SessionInv /\ [SessionNext]_sessionVars =>
        [\A k \in Calls : GuardedRun(k) =>
           \A j \in DOMAIN Effective(k) : RunsRawInstall(Effective(k)[j])
             => Overlooked(Effective(k)[j])]_sessionVars
  BY <1>1
<1> QED BY <1>2, SessionInvAlways, PTL DEF SessionSpec, NoRawInstall

\* A runner that downloads runs with the user's consent, or after node_modules
\* has changed.
THEOREM DownloadsAreAsked == SessionSpec => RemoteNeedsConsent
<1>1. ASSUME SessionInv, NEW k \in Calls, GuardedRun(k), NEW j \in DOMAIN Effective(k),
             Fetches(Effective(k)[j], installed), call[k].settled
      PROVE  call[k].reply.permission = "ask"
  <2>1. call[k].command # <<>>
    <3>1. DOMAIN <<>> = {}
      OBVIOUS
    <3> QED BY <1>1, <3>1, GuardedRunPassed
  <2>2. call[k].command \in Commands /\ Decided(call[k], installed)
    BY <1>1, <2>1, GuardedRunPassed
  <2>3. IsRunner(Effective(k)[j])
    BY <1>1 DEF Fetches
  <2>4. CASE call[k].reply.updated # None
    <3>1. Effective(k) = Rewritten(call[k].command) /\ Runners(call[k].command) = {}
          /\ Unanalyzed(call[k].command) = {}
      BY <1>1, <2>1, <2>2, <2>4, GuardedRunPassed DEF Decided
    <3>2. Runners(Effective(k)) = {}
      BY <2>2, <3>1, RewrittenIsClean
    <3> QED BY <1>1, <2>3, <3>2 DEF Runners
  <2>5. CASE call[k].reply.updated = None
    <3>1. Effective(k) = call[k].command
      BY <1>1, <2>1, <2>5, GuardedRunPassed
    <3>2. j \in Runners(call[k].command)
      BY <1>1, <2>3, <3>1 DEF Runners
    <3> QED BY <1>1, <2>2, <2>5, <3>1, <3>2 DEF Decided, Fetches
  <2> QED BY <2>4, <2>5
<1>2. SessionInv /\ [SessionNext]_sessionVars =>
        [\A k \in Calls :
           GuardedRun(k) /\ (\E j \in DOMAIN Effective(k) : Fetches(Effective(k)[j], installed))
             => call[k].reply.permission = "ask" \/ ~call[k].settled]_sessionVars
  BY <1>1
<1> QED BY <1>2, SessionInvAlways, PTL DEF SessionSpec, RemoteNeedsConsent

\* A drift that lasts from a command's issue to its run stops it.
THEOREM DriftIsEnforced == SessionSpec => DriftStops
<1>1. ASSUME SessionInv, NEW k \in Calls, GuardedRun(k), call[k].command # <<>>
      PROVE  /\ "lockdown" \notin call[k].drifted
             /\ "tool" \in call[k].drifted =>
                  Installs(call[k].command) \cup Runners(call[k].command) = {}
  BY <1>1, GuardedRunPassed DEF Passed
<1>2. SessionInv /\ [SessionNext]_sessionVars =>
        [\A k \in Calls : GuardedRun(k) /\ call[k].command # <<>> =>
           /\ "lockdown" \notin call[k].drifted
           /\ "tool" \in call[k].drifted =>
                Installs(call[k].command) \cup Runners(call[k].command) = {}]_sessionVars
  BY <1>1
<1> QED BY <1>2, SessionInvAlways, PTL DEF SessionSpec, DriftStops

\* While a lock is in force, a guarded command names no protected file as its
\* target, whether it runs as issued or as the guard has replaced it, and what it
\* changes of them otherwise shows as drift.
THEOREM WritesLeaveDrift == SessionSpec => NoQuietWrite
<1>1. ASSUME SessionInv, NEW k \in Calls, GuardedRun(k), call[k].locked
      PROVE  WriteTargets(Effective(k)) \cap Protected = {}
  <2>1. CASE call[k].command = <<>>
    <3>1. Effective(k) = <<>>
      BY <1>1, <2>1, GuardedRunPassed
    <3>2. WriteTargets(<<>>) = {}
      BY DEF WriteTargets
    <3> QED BY <3>1, <3>2
  <2>2. CASE call[k].command # <<>>
    <3>1. /\ call[k].command \in Commands /\ Unanalyzed(call[k].command) = {}
          /\ WriteTargets(call[k].command) \cap Protected = {}
          /\ Effective(k) \in {call[k].command, Rewritten(call[k].command)}
      BY <1>1, <2>2, GuardedRunPassed DEF Passed, Decided
    <3>2. WriteTargets(Rewritten(call[k].command)) = WriteTargets(call[k].command)
      BY <3>1, RewrittenIsClean
    <3> QED BY <3>1, <3>2
  <2> QED BY <2>1, <2>2
<1>2. ASSUME SessionInv, NEW k \in Calls, GuardedRun(k), call[k].locked,
             <<files, lock>>' # <<files, lock>>, Drift = {}
      PROVE  Drift' # {}
  <2>1. call[k].command # <<>>
    <3>1. Touched(<<>>) = {}
      BY DEF Touched
    <3>2. ASSUME Effective(k) = <<>> PROVE UNCHANGED <<files, lock>>
      <4>1. hooks \in [Clients -> HookFiles]
        BY <1>2 DEF SessionInv, SetupInv, TypeOK
      <4> QED BY <1>2, <3>1, <3>2, <4>1 DEF GuardedRun, Run, files
    <3> QED BY <1>2, <3>2, GuardedRunPassed
  <2>2. mirror
    BY <1>2, <2>1, GuardedRunPassed DEF Passed
  <2>3. lock # NoLock /\ lock # BadLock
    BY <1>2, <2>2 DEF SessionInv, SetupInv, MirrorInv, Drift
  <2>4. lock.hooks = hooks /\ lock.policy = policy /\ lock.tools = tools
    BY <1>2, <2>3 DEF Drift
  <2>5. lock' \in {lock, BadLock}
    BY <1>2, <2>2 DEF GuardedRun, Run, Gone
  <2>6. CASE lock' = lock
    BY <1>2, <2>3, <2>4, <2>6 DEF Drift, files
  <2>7. CASE lock' = BadLock
    BY <2>7, GuardSetupAssumption DEF Drift, GuardSetupAssumption
  <2> QED BY <2>5, <2>6, <2>7
<1>3. SessionInv /\ [SessionNext]_sessionVars =>
        [\A k \in Calls : GuardedRun(k) /\ call[k].locked =>
           /\ WriteTargets(Effective(k)) \cap Protected = {}
           /\ <<files, lock>>' # <<files, lock>> => Drift \cup Drift' # {}]_sessionVars
  BY <1>1, <1>2
<1> QED BY <1>3, SessionInvAlways, PTL DEF SessionSpec, NoQuietWrite

\* A suggestion of the guard, issued as a command, passes its analysis.
THEOREM SuggestionsPass == SessionSpec => []SuggestionAccepted
<1>1. ASSUME SessionInv, NEW k \in Calls, call[k].at = "checked", call[k].again
      PROVE  Decide(call[k].command)[1] = "allow"
  <2>1. Clean(call[k].command)
    BY <1>1, CallType DEF CallInv
  <2> QED BY <2>1 DEF Clean, Decide
<1>2. SessionInv => SuggestionAccepted
  BY <1>1 DEF SuggestionAccepted
<1> QED BY <1>2, SessionInvAlways, PTL
=============================================================================
