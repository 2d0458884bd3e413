---------------------------- MODULE GuardSession ----------------------------
(***************************************************************************)
(* `safeinstall guard <client>` (src/src/guard-flow.ts): an agent's client *)
(* runs the hook before each shell command, does what it answers, and      *)
(* meanwhile files are edited, setups run and the lock is approved.        *)
(*                                                                         *)
(* One step for each time the hook reads the project: checkTrustSurface,   *)
(* whose own steps are those of TrustSurface, then node_modules/.bin.      *)
(* A client runs the hooks that its file registers when it issues a        *)
(* command; asking its user and running the command are the client's.      *)
(***************************************************************************)
EXTENDS GuardSetup, GuardCommands

CONSTANTS
  Calls,   \* tool calls an agent makes, which may overlap
  Issued,  \* the commands it issues
  None     \* no command

\* The trust surface as a set of paths, the trust lock included: what the
\* guard protects.
Protected == Clients \cup {"policy", "tools", "lock"}

\* What the answer of the hook says, in the client's protocol.
Replies == [permission : {"none", "allow", "deny", "ask"},
            updated    : Commands \cup {None},
            suggested  : Commands \cup {None}]

NoReply == [permission |-> "none", updated |-> None, suggested |-> None]

Idle == [at |-> "idle"]

ASSUME GuardSessionAssumption ==
  /\ Protected \subseteq Paths
  /\ Issued \subseteq Commands /\ None \notin Commands

VARIABLES
  installed,  \* are the binaries the runners name in node_modules/.bin?
  call        \* each tool call: its client and command, whether the guard is
              \* asked and where it stands, the answer, and, as history:
              \*   locked   was a lock in force ever since it was issued?
              \*   drifted  the kinds of drift there were ever since
              \*   settled  is node_modules as it was when looked up?
              \*   again    is it what the guard suggested instead?

sessionVars == <<vars, installed, call>>

DriftKinds == {"lockdown", "tool"}

CallRecords ==
  {Idle} \cup
  [at : {"issued", "checked", "answered", "refused"},
   client : Clients, command : Commands, guarded : BOOLEAN, reply : Replies,
   locked : BOOLEAN, drifted : SUBSET DriftKinds, settled : BOOLEAN, again : BOOLEAN]

SessionTypeOK ==
  /\ TypeOK
  /\ installed \in BOOLEAN
  /\ call \in [Calls -> CallRecords]

SessionInit ==
  /\ Init
  /\ installed \in BOOLEAN
  /\ call = [k \in Calls |-> Idle]
-----------------------------------------------------------------------------
(* The trust surface, as checkTrustSurface and isTrustSurfacePath see it *)

\* partitionTrustFindings: enforcement files and the lock itself lock everything
\* down, the tool surface stops installs and runners.
Drift ==
  IF lock = NoLock THEN {}
  ELSE IF lock = BadLock THEN {"lockdown"}
  ELSE (IF lock.hooks # hooks \/ lock.policy # policy THEN {"lockdown"} ELSE {})
         \cup (IF lock.tools # tools THEN {"tool"} ELSE {})

\* What the calls in progress remember of a step: its last conjunct.
Watch(calls) ==
  call' = [k \in Calls |->
    IF calls[k].at \in {"idle", "refused"} THEN calls[k]
    ELSE [calls[k] EXCEPT !.locked = @ /\ lock' # NoLock, !.drifted = @ \cap Drift',
                          !.settled = @ /\ installed' = installed]]

\* Setups, edits and approvals go on.
Project == Next /\ UNCHANGED installed /\ Watch(call)

\* node_modules comes and goes.
Modules == installed' = ~installed /\ UNCHANGED vars /\ Watch(call)

\* The client issues a command; its file says whether the guard is asked.
\* The empty command is a tool that runs no shell command.
IssueAs(k, cl, cmd, again) ==
  /\ call' = [call EXCEPT ![k] =
       [at |-> "issued", client |-> cl, command |-> cmd, guarded |-> Guards(hooks[cl]),
        reply |-> NoReply, locked |-> lock # NoLock, drifted |-> Drift, settled |-> TRUE,
        again |-> again]]
  /\ UNCHANGED <<vars, installed>>

Issue(k) ==
  /\ call[k] = Idle
  /\ \E cl \in Clients, cmd \in Issued : IssueAs(k, cl, cmd, FALSE)

\* The agent does what it was told to do instead.
Reissue(k) ==
  /\ call[k].at = "refused"
  /\ IssueAs(k, call[k].client, call[k].reply.suggested, TRUE)
-----------------------------------------------------------------------------
(* runGuardHook *)

\* Fault: what Codex cannot ask it leaves to Codex.
Render_AskPasses(client, action, updated) ==
  IF client = "cursor" THEN [permission |-> action, updated |-> None, suggested |-> updated]
  ELSE IF updated # None
  THEN [NoReply EXCEPT !.permission = IF client = "codex" THEN "allow" ELSE "none", !.updated = updated]
  ELSE [NoReply EXCEPT !.permission =
          IF action = "allow" \/ (client = "codex" /\ action = "ask") THEN "none" ELSE action]

\* renderGuardResponse: Claude Code and Codex take the replacement at once,
\* Cursor's agent is told of it; Codex cannot ask, so it denies.
Render(client, action, updated) ==
  IF client = "cursor" THEN [permission |-> action, updated |-> None, suggested |-> updated]
  ELSE IF updated # None
  THEN [NoReply EXCEPT !.permission = IF client = "codex" THEN "allow" ELSE "none", !.updated = updated]
  ELSE [NoReply EXCEPT !.permission =
          IF action = "allow" THEN "none" ELSE IF client = "codex" THEN "deny" ELSE action]

Answer(k, action, updated) ==
  Watch([call EXCEPT ![k].at = "answered", ![k].reply = Render(call[k].client, action, updated)])

\* Fault: nothing but lockdown counts.
Denies_LockdownOnly(cmd) == "lockdown" \in Drift

\* decideTrustSurface, with a lock in force.
Denies(cmd) ==
  \/ "lockdown" \in Drift
  \/ lock # NoLock /\ WriteTargets(cmd) \cap Protected # {}
  \/ "tool" \in Drift /\ Installs(cmd) \cup Runners(cmd) \cup Unanalyzed(cmd) # {}

\* Fault: the head of a lock that came with a clone is never recorded.
CheckTrust_NoHeal(k) ==
  /\ call[k].at = "issued" /\ call[k].guarded
  /\ UNCHANGED <<vars, installed>>
  /\ \/ call[k].command = <<>> /\ Answer(k, "allow", None)
     \/ call[k].command # <<>> /\ Answer(k, "deny", None)
     \/ /\ call[k].command # <<>> /\ ~Denies(call[k].command)
        /\ Watch([call EXCEPT ![k].at = "checked"])

\* parseGuardEvent and the trust surface.  A reconciliation that fails denies;
\* one that finds the lock to fit its ledger records the ledger's head, if this
\* machine has not yet.
CheckTrust(k) ==
  /\ call[k].at = "issued" /\ call[k].guarded
  /\ UNCHANGED <<files, lock, edits, run, calm, installed>>
  /\ \/ call[k].command = <<>> /\ UNCHANGED mirror /\ Answer(k, "allow", None)
     \/ /\ call[k].command # <<>> /\ mirror' \in {mirror, mirror \/ lock # NoLock}
        /\ Answer(k, "deny", None)
     \/ /\ call[k].command # <<>> /\ ~Denies(call[k].command)
        /\ mirror' = (mirror \/ lock # NoLock)
        /\ Watch([call EXCEPT ![k].at = "checked"])

\* resolvesLocally
Local(s) == ~FetchesRemote(s) /\ s.arg = "bin" /\ installed

\* Fault: a command with an install is replaced, whatever else is in it.
Decide_MixedToo(cmd) ==
  IF Unanalyzed(cmd) # {} THEN <<"deny", None>>
  ELSE IF Installs(cmd) # {} THEN <<"deny", Rewritten(cmd)>>
  ELSE IF \E i \in Runners(cmd) : ~Local(cmd[i]) THEN <<"ask", None>> ELSE <<"allow", None>>

\* The rest of decideGuardCommand: the action and the replacement.
Decide(cmd) ==
  IF Unanalyzed(cmd) # {} THEN <<"deny", None>>
  ELSE IF Installs(cmd) # {} THEN <<"deny", IF Runners(cmd) = {} THEN Rewritten(cmd) ELSE None>>
  ELSE IF \E i \in Runners(cmd) : ~Local(cmd[i]) THEN <<"ask", None>> ELSE <<"allow", None>>

DecideCommand(k) ==
  /\ call[k].at = "checked"
  /\ UNCHANGED <<vars, installed>>
  /\ LET d == Decide(call[k].command)
     IN Watch([call EXCEPT ![k].at = "answered", ![k].settled = TRUE,
                           ![k].reply = Render(call[k].client, d[1], d[2])])
-----------------------------------------------------------------------------
(* The client *)

\* What a call runs, if it runs.
Effective(k) == IF call[k].reply.updated # None THEN call[k].reply.updated ELSE call[k].command

Ready(k) == call[k].at = "answered" \/ (call[k].at = "issued" /\ ~call[k].guarded)

Refuse(k) ==
  /\ Ready(k)
  /\ call' = [call EXCEPT ![k] = IF @.reply.suggested = None THEN Idle ELSE [@ EXCEPT !.at = "refused"]]
  /\ UNCHANGED <<vars, installed>>

Damaged(f) == IF f = Broken THEN Absent ELSE Broken

\* The command runs, with the permission of the guard, after the client's own
\* permission flow, or after the user has agreed.  What it writes is not what it
\* names; of the lock it leaves nothing that fits, or nothing.
Run(k) ==
  /\ Ready(k) /\ call[k].reply.permission # "deny"
  /\ LET cmd == Effective(k)
     IN /\ hooks' = [c \in Clients |-> IF c \in Touched(cmd) THEN Damaged(hooks[c]) ELSE hooks[c]]
        /\ policy' = IF "policy" \in Touched(cmd) THEN "absent" ELSE policy
        /\ tools' = IF "tools" \in Touched(cmd) THEN "other" ELSE tools
        /\ lock' \in IF "lock" \in Touched(cmd) /\ lock # NoLock THEN {BadLock, Gone} ELSE {lock}
        /\ calm' = IF UNCHANGED <<files, lock>> THEN calm ELSE [r \in Setups |-> calm[r] /\ pc[r] = "idle"]
  /\ UNCHANGED <<mirror, edits, run, installed>>
  /\ Watch([call EXCEPT ![k] = Idle])

CallStep(k) ==
  Issue(k) \/ Reissue(k) \/ CheckTrust(k) \/ DecideCommand(k) \/ Refuse(k) \/ Run(k)

SessionNext == Project \/ Modules \/ \E k \in Calls : CallStep(k)

SessionSpec == SessionInit /\ [][SessionNext]_sessionVars
-----------------------------------------------------------------------------
(* Properties *)

\* A command runs of which the guard was asked.
GuardedRun(k) == Ready(k) /\ call[k].guarded /\ Run(k)

\* A command that the guard lets through, as issued or as the guard replaced
\* it, installs by a package manager itself only where the guard's analysis is
\* blind (Overlooked): an install or an alias of it that names a package manager
\* as the segment's command, behind a wrapper the guard knows, in a nested shell
\* or in a substitution of a command it does not know is stopped or routed.
NoRawInstall ==
  [][\A k \in Calls : GuardedRun(k) =>
       \A j \in DOMAIN Effective(k) :
         RunsRawInstall(Effective(k)[j]) => Overlooked(Effective(k)[j])]_sessionVars

\* A runner downloads what it runs only after the user has agreed to it, or
\* when node_modules has changed since the guard found the binary there.
RemoteNeedsConsent ==
  [][\A k \in Calls :
       GuardedRun(k) /\ (\E j \in DOMAIN Effective(k) : Fetches(Effective(k)[j], installed))
         => call[k].reply.permission = "ask" \/ ~call[k].settled]_sessionVars

\* No command runs in a lockdown that has lasted since it was issued, and
\* none with an install, a routed one included, or a runner while the tool
\* surface has drifted.
DriftStops ==
  [][\A k \in Calls : GuardedRun(k) /\ call[k].command # <<>> =>
       /\ "lockdown" \notin call[k].drifted
       /\ "tool" \in call[k].drifted =>
            Installs(call[k].command) \cup Runners(call[k].command) = {}]_sessionVars

\* While a lock is in force, a guarded command names none of the protected files
\* as its target, and one that changes them all the same, or the lock itself,
\* leaves a drift behind, for the next command to be judged by (DriftStops).
NoQuietWrite ==
  [][\A k \in Calls : GuardedRun(k) /\ call[k].locked =>
       /\ WriteTargets(Effective(k)) \cap Protected = {}
       /\ <<files, lock>>' # <<files, lock>> => Drift \cup Drift' # {}]_sessionVars

\* The guard accepts what it suggests: an agent that does as it is told is
\* denied again only for what the trust surface is.
SuggestionAccepted ==
  \A k \in Calls : call[k].at = "checked" /\ call[k].again => Decide(call[k].command)[1] = "allow"
=============================================================================
