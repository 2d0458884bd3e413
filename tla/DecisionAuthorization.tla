----------------------- MODULE DecisionAuthorization -----------------------
(***************************************************************************)
(* `decisions authorize` in a working tree that may change under it        *)
(* (src/src/decision-authorize.ts), and the statement about its artifact   *)
(* (src/src/decision-attest.ts), in the repository of DecisionHistory.     *)
(*                                                                         *)
(* authorize is one step for each time it reads the repository.            *)
(***************************************************************************)
EXTENDS DecisionHistory

CONSTANT None  \* no artifact, no statement, no predicate

\* The artifact of `decisions authorize --output`.
Artifacts == [base : Trees, head : Trees, lockfiles : SUBSET Contents,
              policy : Settings, verdict : {"allow", "block"}]

\* The subject is the artifact's digest, and so stands for all of the artifact.
\* verify-attestation takes a statement that has no predicate.
Statements == [subject : Artifacts, predicate : Artifacts \cup {None}]

Idle == [at |-> "idle"]

\* What a run of authorize holds in its variables between its reads.
Authorizations ==
  {Idle} \cup [at : {"resolve", "pin", "load", "evaluate"}, base : Trees, head : Trees,
               delta : BOOLEAN, policy : Settings, disturbed : BOOLEAN]

ASSUME DecisionAuthorizationAssumption == None \notin Artifacts \cup Statements

VARIABLES
  auth,       \* the run of authorize
  artifact,   \* the authorization artifact on disk
  disturbed,  \* history: did the repository change while it was made?
  statement,  \* the statement on disk
  vouched     \* has verify-attestation accepted the two?

papers  == <<artifact, disturbed, statement, vouched>>
allVars == <<vars, auth, papers>>

AuthorizationTypeOK ==
  /\ TypeOK
  /\ auth \in Authorizations
  /\ artifact \in Artifacts \cup {None} /\ statement \in Statements \cup {None}
  /\ disturbed \in BOOLEAN /\ vouched \in BOOLEAN

AuthorizationInit ==
  /\ Init
  /\ auth = Idle
  /\ artifact = None /\ statement = None /\ disturbed = FALSE /\ vouched = FALSE

\* The repository changes, and with it a run of authorize in progress is disturbed.
Repository ==
  /\ Next
  /\ auth' = IF auth = Idle THEN Idle ELSE [auth EXCEPT !.disturbed = TRUE]
  /\ UNCHANGED papers
-----------------------------------------------------------------------------
(* authorizeDecisions, for the topic checked out against its fork point *)

Goto(l) == auth' = [auth EXCEPT !.at = l]

\* verifyDecisions, with refs of its own; findings end the run.
Verify ==
  /\ auth = Idle
  /\ VerifyFindings(fork[on], tip[on]) = {}
  /\ auth' = [at |-> "resolve", base |-> fork[on], head |-> tip[on],
              delta |-> fork[on].lock # tip[on].lock, policy |-> tip[on].settings,
              disturbed |-> FALSE]
  /\ UNCHANGED <<vars, papers>>

\* The refs are resolved a second time.
Resolve ==
  /\ auth.at = "resolve"
  /\ auth' = [auth EXCEPT !.at = "pin", !.base = fork[on], !.head = tip[on]]
  /\ UNCHANGED <<vars, papers>>

\* Fault: only the manifest and the configuration are pinned.
Pin_SettingsOnly ==
  /\ auth.at = "pin"
  /\ IF work.settings = auth.head.settings THEN Goto("load") ELSE auth' = Idle
  /\ UNCHANGED <<vars, papers>>

\* The working tree must be the head: its manifest, its configuration, and
\* the lockfiles verified for this delta.
Pin ==
  /\ auth.at = "pin"
  /\ IF /\ work.settings = auth.head.settings
        /\ auth.delta => work.lock = auth.head.lock
     THEN Goto("load") ELSE auth' = Idle
  /\ UNCHANGED <<vars, papers>>

\* loadConfig, from the working tree.
LoadPolicy ==
  /\ auth.at = "load"
  /\ auth' = [auth EXCEPT !.at = "evaluate", !.policy = work.settings]
  /\ UNCHANGED <<vars, papers>>

\* The lockfile of the working tree is evaluated and the artifact written.
Evaluate ==
  /\ auth.at = "evaluate"
  /\ artifact' = [base |-> auth.base, head |-> auth.head,
                  lockfiles |-> IF auth.delta THEN {auth.head.lock} ELSE {},
                  policy |-> auth.head.settings,
                  verdict |-> IF <<auth.policy, work.lock>> \in Rejected THEN "block" ELSE "allow"]
  /\ disturbed' = auth.disturbed
  /\ auth' = Idle /\ vouched' = FALSE
  /\ UNCHANGED <<vars, statement>>

Authorize == Verify \/ Resolve \/ Pin \/ LoadPolicy \/ Evaluate
-----------------------------------------------------------------------------
(* attest and verify-attestation *)

\* buildAuthorizationStatement
Attest ==
  /\ artifact # None
  /\ statement' = [subject |-> artifact, predicate |-> artifact]
  /\ vouched' = FALSE
  /\ UNCHANGED <<vars, auth, artifact, disturbed>>

\* Somebody edits the predicate of the statement that `attest` wrote about the
\* artifact, or swaps it for another authorization of this repository, and
\* leaves the subject alone.
EditStatement ==
  /\ statement # None /\ statement.predicate = artifact /\ statement.subject = artifact
  /\ \E p \in {None}
             \cup {[statement.subject EXCEPT !.verdict = v] : v \in {"allow", "block"}}
             \cup {[statement.subject EXCEPT !.base = fork[on]],
                   [statement.subject EXCEPT !.head = tip[on], !.policy = tip[on].settings]} :
       statement' = [statement EXCEPT !.predicate = p]
  /\ vouched' = FALSE
  /\ UNCHANGED <<vars, auth, artifact, disturbed>>

\* Fault: the verdicts are not compared.
Binds_AnyVerdict ==
  /\ statement.subject = artifact
  /\ statement.predicate # None => statement.predicate.head = artifact.head

\* verifyAuthorizationStatement, on a well-formed statement.
Binds ==
  /\ statement.subject = artifact
  /\ statement.predicate # None =>
       /\ statement.predicate.head = artifact.head
       /\ statement.predicate.verdict = artifact.verdict

VerifyAttestation ==
  /\ artifact # None /\ statement # None
  /\ vouched' = Binds
  /\ UNCHANGED <<vars, auth, artifact, disturbed, statement>>

AuthorizationNext == Repository \/ Authorize \/ Attest \/ EditStatement \/ VerifyAttestation

AuthorizationSpec == AuthorizationInit /\ [][AuthorizationNext]_allVars
-----------------------------------------------------------------------------
(* Properties *)

\* When nothing disturbs it, authorize allows a delta that changes the
\* lockfile only if that delta verifies and the lockfile at its head passes
\* the policy at its head: what lay in the working tree does not count.
AuthorizedIsAcceptable ==
  artifact # None =>
    (artifact.verdict = "allow" /\ ~disturbed /\ artifact.lockfiles # {}
       => Authorized(artifact.base, artifact.head))

\* An "allow" that a reader finds in a statement verify-attestation accepts is
\* backed by an authorization, whatever was done to the predicate: the delta
\* from the base in the statement's subject to the head in its predicate
\* verifies, and the lockfile of that head passes the policy of that head.
AcceptedAllowIsBacked ==
  vouched /\ statement.predicate # None =>
    (statement.predicate.verdict = "allow" /\ ~disturbed /\ statement.subject.lockfiles # {}
       => Authorized(statement.subject.base, statement.predicate.head))
=============================================================================
