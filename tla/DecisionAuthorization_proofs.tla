--------------------- MODULE DecisionAuthorization_proofs ---------------------
(***************************************************************************)
(* Proofs about DecisionAuthorization, for any repository.  What a run of  *)
(* authorize holds in its variables is what the repository has, as long as *)
(* nothing disturbs the run.                                               *)
(***************************************************************************)
EXTENDS DecisionAuthorization, DecisionHistory_proofs

\* What verifyDecisions established for the base and the head of the run.
Verified ==
  /\ VerifyFindings(auth.base, auth.head) = {}
  /\ auth.delta = (auth.base.lock # auth.head.lock)

\* What an undisturbed run has established when it stands at each step.
Established ==
  /\ auth.at = "resolve" => auth.base = fork[on] /\ auth.head = tip[on]
  /\ auth.at # "idle" => Verified
  /\ auth.at \in {"load", "evaluate"} =>
       work.settings = auth.head.settings /\ (auth.delta => work.lock = auth.head.lock)
  /\ auth.at = "evaluate" => auth.policy = work.settings

EInv == auth # Idle /\ ~auth.disturbed => Established

\* What was established for the statement that verify-attestation accepted.
SInv == vouched =>
  /\ artifact # None /\ statement # None /\ statement.subject = artifact
  /\ statement.predicate # None =>
       /\ statement.predicate.head = artifact.head
       /\ statement.predicate.verdict = artifact.verdict
-----------------------------------------------------------------------------
(* Types *)

LEMMA AuthType ==
  ASSUME auth \in Authorizations, auth # Idle
  PROVE  auth \in [at : {"resolve", "pin", "load", "evaluate"}, base : Trees, head : Trees,
                   delta : BOOLEAN, policy : Settings, disturbed : BOOLEAN]
  BY DEF Authorizations

LEMMA AuthorizationTypeStep ==
  ASSUME WInv, AuthorizationTypeOK, [AuthorizationNext]_allVars
  PROVE  (WInv /\ AuthorizationTypeOK)'
<1> USE DecisionHistoryAssumption, DecisionAuthorizationAssumption
<1> USE DEF AuthorizationTypeOK
<1>1. WInv'
  <2>1. [Next]_vars
    BY DEF AuthorizationNext, Repository, Authorize, Verify, Resolve, Pin, Goto, LoadPolicy, Evaluate,
           Attest, EditStatement, VerifyAttestation, allVars
  <2> QED BY <2>1, WInvStep
<1>2. TypeOK' /\ TypeOK
  BY <1>1 DEF WInv
<1>3. {tip[on], fork[on], work} \subseteq Trees
  BY <1>2 DEF TypeOK
<1>4. \A t \in Trees : t.settings \in Settings /\ t.lock \in Contents
  BY DEF Trees
<1>5. Idle.at = "idle"
  BY DEF Idle
<1>6. CASE Repository
  <2>1. auth' \in Authorizations
    <3>1. CASE auth = Idle
      BY <1>6, <3>1 DEF Repository, Authorizations
    <3>2. CASE auth # Idle
      BY <1>6, <3>2, AuthType DEF Repository, Authorizations
    <3> QED BY <3>1, <3>2
  <2> QED BY <1>1, <1>2, <1>6, <2>1 DEF Repository, papers
<1>7. CASE Verify
  BY <1>1, <1>2, <1>3, <1>4, <1>7 DEF Verify, papers, Authorizations
<1>8. CASE Resolve \/ Pin \/ LoadPolicy
  <2>1. auth # Idle
    BY <1>5, <1>8 DEF Resolve, Pin, LoadPolicy
  <2>2. auth' \in Authorizations
    BY <1>3, <1>4, <1>8, <2>1, AuthType DEF Resolve, Pin, LoadPolicy, Goto, Authorizations
  <2> QED BY <1>1, <1>2, <1>8, <2>2 DEF Resolve, Pin, LoadPolicy, papers
<1>9. CASE Evaluate
  <2>1. auth # Idle
    BY <1>5, <1>9 DEF Evaluate
  <2>2. artifact' \in Artifacts
    BY <1>4, <1>9, <2>1, AuthType DEF Evaluate, Artifacts
  <2>3. disturbed' \in BOOLEAN
    BY <1>9, <2>1, AuthType DEF Evaluate
  <2> QED BY <1>1, <1>2, <1>9, <2>2, <2>3 DEF Evaluate, Authorizations
<1>10. CASE Attest
  BY <1>1, <1>2, <1>10 DEF Attest, Statements
<1>11. CASE EditStatement
  <2>1. statement.subject \in Artifacts
    BY <1>2, <1>11 DEF EditStatement, Statements
  <2>2. PICK p : p \in {None}
             \cup {[statement.subject EXCEPT !.verdict = v] : v \in {"allow", "block"}}
             \cup {[statement.subject EXCEPT !.base = fork[on]],
                   [statement.subject EXCEPT !.head = tip[on], !.policy = tip[on].settings]}
             /\ statement' = [statement EXCEPT !.predicate = p]
    BY <1>11 DEF EditStatement
  <2>3. p \in Artifacts \cup {None}
    <3>1. \A v \in {"allow", "block"} : [statement.subject EXCEPT !.verdict = v] \in Artifacts
      BY <2>1 DEF Artifacts
    <3>2. /\ [statement.subject EXCEPT !.base = fork[on]] \in Artifacts
          /\ [statement.subject EXCEPT !.head = tip[on], !.policy = tip[on].settings] \in Artifacts
      BY <1>3, <1>4, <2>1 DEF Artifacts
    <3> QED BY <2>2, <3>1, <3>2
  <2>4. statement' \in Statements
    BY <1>2, <1>11, <2>2, <2>3 DEF EditStatement, Statements
  <2> QED BY <1>1, <1>2, <1>11, <2>4 DEF EditStatement
<1>12. CASE VerifyAttestation
  BY <1>1, <1>2, <1>12 DEF VerifyAttestation, Binds
<1>13. CASE UNCHANGED allVars
  BY <1>1, <1>2, <1>13 DEF allVars, papers
<1> QED
  BY <1>6, <1>7, <1>8, <1>9, <1>10, <1>11, <1>12, <1>13 DEF AuthorizationNext, Authorize

LEMMA AuthorizationTypeInit == AuthorizationInit => WInv /\ AuthorizationTypeOK
  BY WInvInit DEF AuthorizationInit, AuthorizationTypeOK, Authorizations, WInv

\* What authorize holds between its reads, the artifact and the statement are
\* well formed, whatever happens to the repository meanwhile.
THEOREM AuthorizationTypeCorrect == AuthorizationSpec => []AuthorizationTypeOK
  BY AuthorizationTypeInit, AuthorizationTypeStep, PTL DEF AuthorizationSpec
-----------------------------------------------------------------------------
(* Authorization *)

LEMMA EInvStep ==
  ASSUME AuthorizationTypeOK, EInv, [AuthorizationNext]_allVars
  PROVE  EInv'
<1> USE DEF AuthorizationTypeOK
<1>1. Idle.at = "idle"
  BY DEF Idle
<1>2. CASE Repository
  BY <1>2, AuthType DEF Repository, EInv
<1>3. CASE Verify
  BY <1>3 DEF Verify, EInv, Established, Verified, vars, git, place
<1>4. CASE Resolve
  <2>1. auth # Idle /\ UNCHANGED <<tip, fork, on, work>>
    BY <1>1, <1>4 DEF Resolve, vars, git, place
  <2>2. /\ auth'.at = "pin" /\ auth'.base = fork[on] /\ auth'.head = tip[on]
        /\ auth'.delta = auth.delta /\ auth'.disturbed = auth.disturbed
    BY <1>4, <2>1, AuthType DEF Resolve
  <2> QED BY <1>4, <2>1, <2>2 DEF Resolve, EInv, Established, Verified
<1>5. CASE Pin
  <2>1. auth # Idle /\ UNCHANGED <<tip, fork, on, work>>
    BY <1>1, <1>5 DEF Pin, vars, git, place
  <2>2. CASE auth' = Idle
    BY <2>2 DEF EInv
  <2>3. CASE /\ work.settings = auth.head.settings
             /\ auth.delta => work.lock = auth.head.lock
             /\ auth' = [auth EXCEPT !.at = "load"]
    <3>1. /\ auth'.at = "load" /\ auth'.base = auth.base /\ auth'.head = auth.head
          /\ auth'.delta = auth.delta /\ auth'.disturbed = auth.disturbed
      BY <2>1, <2>3, AuthType
    <3> QED BY <1>5, <2>1, <2>3, <3>1 DEF Pin, EInv, Established, Verified
  <2> QED BY <1>5, <2>2, <2>3 DEF Pin, Goto
<1>6. CASE LoadPolicy
  <2>1. auth # Idle /\ UNCHANGED <<tip, fork, on, work>>
    BY <1>1, <1>6 DEF LoadPolicy, vars, git, place
  <2>2. /\ auth'.at = "evaluate" /\ auth'.base = auth.base /\ auth'.head = auth.head
        /\ auth'.delta = auth.delta /\ auth'.disturbed = auth.disturbed
        /\ auth'.policy = work.settings
    BY <1>6, <2>1, AuthType DEF LoadPolicy
  <2> QED BY <1>6, <2>1, <2>2 DEF LoadPolicy, EInv, Established, Verified
<1>7. CASE Evaluate
  BY <1>7 DEF Evaluate, EInv
<1>8. CASE Attest \/ EditStatement \/ VerifyAttestation \/ UNCHANGED allVars
  <2>1. UNCHANGED <<auth, tip, fork, on, work>>
    BY <1>8 DEF Attest, EditStatement, VerifyAttestation, allVars, vars, git, place
  <2> QED BY <2>1 DEF EInv, Established, Verified
<1> QED BY <1>2, <1>3, <1>4, <1>5, <1>6, <1>7, <1>8 DEF AuthorizationNext, Authorize

LEMMA AcceptableStep ==
  ASSUME AuthorizationTypeOK, EInv, AuthorizedIsAcceptable, [AuthorizationNext]_allVars
  PROVE  AuthorizedIsAcceptable'
<1>1. CASE Evaluate
  <2>1. auth # Idle /\ auth.at = "evaluate"
    BY <1>1 DEF Evaluate, Idle
  <2>2. auth \in [at : {"resolve", "pin", "load", "evaluate"}, base : Trees, head : Trees,
                  delta : BOOLEAN, policy : Settings, disturbed : BOOLEAN]
    BY <2>1, AuthType DEF AuthorizationTypeOK
  <2>3. /\ artifact'.base = auth.base /\ artifact'.head = auth.head
        /\ disturbed' = auth.disturbed
        /\ artifact'.lockfiles # {} => auth.delta
        /\ artifact'.verdict = "allow" => <<auth.policy, work.lock>> \notin Rejected
    BY <1>1 DEF Evaluate
  <2>4. ASSUME artifact'.verdict = "allow", ~disturbed', artifact'.lockfiles # {}
        PROVE  Authorized(artifact'.base, artifact'.head)
    <3>1. Established
      BY <2>1, <2>3, <2>4 DEF EInv
    <3>2. VerifyFindings(auth.base, auth.head) = {}
      BY <2>1, <3>1 DEF Established, Verified
    <3>3. auth.policy = auth.head.settings /\ work.lock = auth.head.lock
      BY <2>1, <2>3, <2>4, <3>1 DEF Established
    <3> QED BY <2>3, <2>4, <3>2, <3>3 DEF Authorized
  <2> QED BY <2>4 DEF AuthorizedIsAcceptable
<1>2. CASE UNCHANGED <<artifact, disturbed>>
  BY <1>2 DEF AuthorizedIsAcceptable
<1> QED
  BY <1>1, <1>2 DEF AuthorizationNext, Repository, papers, Authorize, Verify, Resolve, Pin, LoadPolicy,
                    Attest, EditStatement, VerifyAttestation, allVars

LEMMA EInvInit == AuthorizationInit => EInv /\ AuthorizedIsAcceptable /\ SInv
  BY DEF AuthorizationInit, EInv, AuthorizedIsAcceptable, SInv

\* authorize vouches for commits and not for a working tree: when nothing
\* disturbs it, an allow for a delta with a lockfile means that the delta
\* verifies and that its lockfile passes the policy of its head.
THEOREM AllowIsAcceptable == AuthorizationSpec => []AuthorizedIsAcceptable
<1> DEFINE I == WInv /\ AuthorizationTypeOK /\ EInv /\ AuthorizedIsAcceptable
<1>1. AuthorizationInit => I
  BY AuthorizationTypeInit, EInvInit
<1>2. I /\ [AuthorizationNext]_allVars => I'
  BY AuthorizationTypeStep, EInvStep, AcceptableStep
<1>3. I => AuthorizedIsAcceptable
  OBVIOUS
<1> QED BY <1>1, <1>2, <1>3, PTL DEF AuthorizationSpec
-----------------------------------------------------------------------------
(* Attestation *)

LEMMA SInvStep ==
  ASSUME AuthorizationTypeOK, SInv, [AuthorizationNext]_allVars
  PROVE  SInv'
<1>1. CASE Attest \/ EditStatement \/ Evaluate
  BY <1>1 DEF Attest, EditStatement, Evaluate, SInv
<1>2. CASE VerifyAttestation
  BY <1>2 DEF VerifyAttestation, Binds, SInv
<1>3. CASE UNCHANGED papers
  BY <1>3 DEF papers, SInv
<1> QED
  BY <1>1, <1>2, <1>3
  DEF AuthorizationNext, Repository, papers, Authorize, Verify, Resolve, Pin, LoadPolicy, allVars

\* The "allow" in an accepted statement is backed by an authorization of the
\* delta from the base in its subject to the head in its predicate, whatever was
\* done to the predicate, and no later run of authorize or attest leaves an
\* acceptance behind for something else.
THEOREM AcceptedIsBacked == AuthorizationSpec => []AcceptedAllowIsBacked
<1> DEFINE I == WInv /\ AuthorizationTypeOK /\ EInv /\ AuthorizedIsAcceptable /\ SInv
<1>1. AuthorizationInit => I
  BY AuthorizationTypeInit, EInvInit
<1>2. I /\ [AuthorizationNext]_allVars => I'
  BY AuthorizationTypeStep, EInvStep, AcceptableStep, SInvStep
<1>3. I => AcceptedAllowIsBacked
  BY DEF AuthorizedIsAcceptable, SInv, AcceptedAllowIsBacked
<1> QED BY <1>1, <1>2, <1>3, PTL DEF AuthorizationSpec
=============================================================================
