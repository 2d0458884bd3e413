------------------------- MODULE PackageEvaluation -------------------------
(***************************************************************************)
(* The evaluation of the requested packages: the worker pool               *)
(* (src/src/async.ts, evaluations.ts), the registry client with its caches *)
(* (registry.ts, disk-cache.ts), provenance and continuity                 *)
(* (provenance.ts, continuity.ts), the policy (policy.ts), and what a      *)
(* shutdown signal makes of it (signals.ts, install-flow.ts, cli.ts).      *)
(*                                                                         *)
(* A step is one awaited request, or the run of a worker between two.  A   *)
(* hiccup is a request that fails although the registry has the answer: a  *)
(* refused connection, a 5xx, a timeout.                                   *)
(***************************************************************************)
EXTENDS Integers, Sequences, FiniteSets

CONSTANTS
  N,            \* the number of requested packages
  Concurrency,  \* REGISTRY_EVALUATION_CONCURRENCY
  Packages,     \* package versions, by name and version
  PackageOf,    \* the one each request resolves to
  KnownFacts,   \* for each, what the registry, the project and the
                \* configured lists may say about it
  Configs,      \* the configurations to consider
  Warm,         \* packages an earlier run, less than an hour ago, may have cached
  MaxHiccups    \* bound: requests that fail

WorkerCount == IF Concurrency < N THEN Concurrency ELSE N

Requests == 1..N
Pool     == 1..WorkerCount

Modes        == {"off", "warn", "block"}
Attestations == {"none", "forged", "unnamed", "own", "fork"}
Identities   == {"none", "unnamed", "own", "fork"}
Dates        == {"old", "new"}   \* before and after now - minimumReleaseAgeHours

Facts == [
  source      : {"registry", "git", "workspace"},   \* sourceType; "git" is any remote one
  declared    : BOOLEAN,    \* package.json declares it from the registry
  prior       : {"none", "plain", "scripted", "gone"},  \* the installed version
  exists      : BOOLEAN,    \* the registry has a manifest of that identity
  scripts     : {"none", "allowed", "unallowed"},   \* lifecycle scripts
  date        : Dates \cup {"unlisted", "invalid"}, \* in the time map
  header      : Dates \cup {"none"},                \* the tarball's, if it has a valid one
  attestation : Attestations,
  history     : Seq(Attestations),  \* of the versions before, latest first, as
                                    \* listed now or, in the disk cache, in the last hour
  allowlisted : BOOLEAN,
  squat       : BOOLEAN,    \* the name is close to a popular one
  required    : BOOLEAN,    \* provenance.requireFor matches
  pinned      : BOOLEAN,    \* trustedPublishers expects the own repository
  sigstore    : BOOLEAN]    \* the package is the verifier itself

ConfigSpace == [
  command      : {"install", "check"},
  sources      : SUBSET {"registry", "git"},        \* allowedSources
  typoSquat    : Modes,
  provenance   : {"off", "warn", "require"},
  offline      : {"fail-closed", "allow-cached"},
  tooling      : {"warn", "fail-closed"},
  verifier     : BOOLEAN,   \* the sigstore package is installed
  continuity   : Modes,
  baselineSize : Nat]

ASSUME EvaluationAssumption ==
  /\ {N, Concurrency} \subseteq Nat \ {0} /\ MaxHiccups \in Nat
  /\ PackageOf \in [Requests -> Packages]
  /\ \A p \in Packages : KnownFacts[p] \subseteq Facts
  /\ Configs \subseteq ConfigSpace /\ Warm \subseteq Packages

VARIABLES
  config, facts,   \* never change
  disk,            \* the publish time an earlier run left in the disk cache
  memory,          \* publishTimeCache
  documents,       \* fullMetadataCache
  attestations,    \* the disk cache's attestations of the requested versions
  next,            \* the shared iterator
  at,              \* where each worker stands
  item,            \* the request it has pulled
  view,            \* what it has learnt about it
  evaluated,       \* the requests that have a result
  results,         \* their blocked reasons
  cause,           \* why the pool was rejected, or "none"
  hiccups,         \* failed requests so far
  interrupted,     \* the shutdown signal
  outcome          \* of the command

input  == <<config, facts, disk>>
caches == <<memory, documents, attestations>>
worker == <<next, at, item, view>>
verdict == <<evaluated, results>>
vars == <<input, caches, worker, verdict, cause, hiccups, interrupted, outcome>>

Busy == {"prior", "manifest", "published", "timeMap", "tarball", "provenance",
         "history", "baseline", "target", "evaluate"}

Statuses == {"unchecked", "missing", "invalid", "tooling-unavailable", "unreachable",
             "own", "fork"}
Continuities == {"unevaluated", "no-baseline", "consistent", "provenance-downgrade",
                 "identity-discontinuity"}
Codes == {"typo-squat-suspected", "untrusted-source", "trust-level-dropped",
          "package-resolution-failed", "release-too-new", "install-script-present",
          "attestation-missing", "attestation-invalid", "attestation-tooling-unavailable",
          "attestation-unreachable", "publisher-mismatch", "provenance-downgrade",
          "identity-discontinuity"}

Views == [priorScripts : BOOLEAN, resolved : BOOLEAN, date : Dates,
          provenance : Statuses, baseline : Seq(Identities), continuity : Continuities]

Blank == [priorScripts |-> FALSE, resolved |-> FALSE, date |-> "new",
          provenance |-> "unchecked", baseline |-> <<>>, continuity |-> "unevaluated"]

\* What an earlier run can have left in the disk cache.
OnDisk(p) ==
  {"none"} \cup (IF p \in Warm /\ facts[p].date \in Dates THEN {"time"} ELSE {})
           \cup (IF p \in Warm /\ facts[p].header # "none" THEN {"fallback"} ELSE {})

TypeOK ==
  /\ config \in Configs /\ facts \in [Packages -> Facts]
  /\ disk \in [Packages -> {"none", "time", "fallback"}] /\ \A p \in Packages : disk[p] \in OnDisk(p)
  /\ memory \in [Packages -> Dates \cup {"none"}]
  /\ documents \subseteq Packages /\ attestations \subseteq Packages
  /\ next \in 1..N+1
  /\ at \in [Pool -> Busy \cup {"done", "failed"}]
  /\ item \in [Pool -> Requests]
  /\ view \in [Pool -> Views]
  /\ evaluated \subseteq Requests /\ results \in [Requests -> SUBSET Codes]
  /\ cause \in {"none", "error", "interrupted"}
  /\ hiccups \in 0..MaxHiccups /\ interrupted \in BOOLEAN
  /\ outcome \in {"none", "allow", "block", "error", "interrupted"}

\* Every worker has pulled its first request when the pool starts to wait.
Init ==
  /\ config \in Configs
  /\ facts \in {g \in [Packages -> UNION {KnownFacts[p] : p \in Packages}] :
                  \A p \in Packages : g[p] \in KnownFacts[p]}
  /\ disk \in {d \in [Packages -> {"none", "time", "fallback"}] :
                 \A p \in Packages : d[p] \in OnDisk(p)}
  /\ memory = [p \in Packages |-> "none"]
  /\ documents = {}
  /\ attestations \in SUBSET {p \in Warm : facts[p].attestation # "none"}
  /\ next = WorkerCount + 1
  /\ at = [w \in Pool |-> "prior"]
  /\ item = [w \in Pool |-> w]
  /\ view = [w \in Pool |-> Blank]
  /\ evaluated = {} /\ results = [i \in Requests |-> {}]
  /\ cause = "none" /\ hiccups = 0 /\ interrupted = FALSE /\ outcome = "none"

Goto(w, l) == at' = [at EXCEPT ![w] = l]
At(w, l) == at[w] = l
Pkg(w) == PackageOf[item[w]]
Fact(w) == facts[Pkg(w)]

Hiccup == hiccups < MaxHiccups /\ hiccups' = hiccups + 1

\* The mapper throws: Promise.all rejects with the first such error, and the
\* other workers go on.
Fail(w, why) ==
  /\ Goto(w, "failed")
  /\ cause' = IF cause = "none" THEN why ELSE cause
-----------------------------------------------------------------------------
(* The policy *)

When(condition, code) == IF condition THEN {code} ELSE {}

\* evaluatePackage: the reasons that need no registry data ...
NameAndSource(c, f) ==
  When(~f.allowlisted /\ c.typoSquat = "block" /\ f.squat, "typo-squat-suspected")
  \cup When(f.source \notin c.sources \cup {"workspace"}, "untrusted-source")
  \cup When(f.declared /\ f.source = "git", "trust-level-dropped")

\* ... the age and the scripts of the release ...
Release(f, v) ==
  When(~f.allowlisted /\ v.date = "new", "release-too-new")
  \cup When(~f.allowlisted /\ f.scripts = "unallowed", "install-script-present")
  \cup When(~v.priorScripts /\ f.scripts # "none" /\ f.prior # "none", "trust-level-dropped")

Required(c, f) == c.provenance = "require" \/ f.required

\* Fault: an attestation that cannot be fetched is only a warning.
Provenance_OfflineWarns(c, f, status) ==
  When(status = "missing" /\ Required(c, f), "attestation-missing")
  \cup When(status = "invalid", "attestation-invalid")
  \cup When(status = "tooling-unavailable" /\ c.tooling = "fail-closed" /\ ~f.sigstore,
            "attestation-tooling-unavailable")
  \cup When(status = "fork" /\ f.pinned, "publisher-mismatch")

\* ... applyProvenanceDecision ...
Provenance(c, f, status) ==
  When(status = "missing" /\ Required(c, f), "attestation-missing")
  \cup When(status = "invalid", "attestation-invalid")
  \cup When(status = "tooling-unavailable" /\ c.tooling = "fail-closed" /\ ~f.sigstore,
            "attestation-tooling-unavailable")
  \cup When(status = "unreachable" /\ c.offline = "fail-closed", "attestation-unreachable")
  \cup When(status = "fork" /\ f.pinned, "publisher-mismatch")

\* ... and applyContinuityDecision.
Continuity(c, v) ==
  IF c.continuity = "block"
  THEN {v.continuity} \cap {"provenance-downgrade", "identity-discontinuity"} ELSE {}

\* A resolution error counts only when nothing else blocks.
BlockedReasons(c, f, v) ==
  LET early == NameAndSource(c, f)
  IN IF v.resolved
     THEN early \cup Release(f, v) \cup Provenance(c, f, v.provenance) \cup Continuity(c, v)
     ELSE early \cup When(f.source = "registry" /\ early = {}, "package-resolution-failed")
-----------------------------------------------------------------------------
(* verifyProvenance once it has the response, and the identity that          *)
(* fetchAttestationIdentity takes from it without verifying it.              *)

Verify(c, attestation) ==
  IF attestation = "none" THEN "missing"
  ELSE IF ~c.verifier THEN "tooling-unavailable"
  ELSE IF attestation \in {"forged", "unnamed"} THEN "invalid" ELSE attestation

Identity(attestation) == IF attestation = "forged" THEN "own" ELSE attestation

(* selectBaseline, dominantRepository and the classification *)

Baseline(c, f) ==
  SubSeq(f.history, 1, IF Len(f.history) < c.baselineSize THEN Len(f.history) ELSE c.baselineSize)

Count(ids, S) == Cardinality({k \in DOMAIN ids : ids[k] \in S})

\* The most frequent repository, the first one counted among equals.
Dominant(ids) ==
  LET named == {k \in DOMAIN ids : ids[k] \in {"own", "fork"}}
      n(k) == Count(ids, {ids[k]})
  IN IF named = {} THEN "none"
     ELSE ids[CHOOSE k \in named : \A j \in named : n(j) < n(k) \/ (n(j) = n(k) /\ k <= j)]

\* The threshold: half of the baseline has provenance.
Classify(ids, target) ==
  IF 2 * Count(ids, {"unnamed", "own", "fork"}) < Len(ids) THEN "no-baseline"
  ELSE IF target = "none" THEN "provenance-downgrade"
  ELSE IF Dominant(ids) # "none" /\ target # "unnamed" /\ target # Dominant(ids)
       THEN "identity-discontinuity" ELSE "consistent"
-----------------------------------------------------------------------------
(* The mapper of evaluateRequestedPackages *)

\* loadProjectDependencyState, and getLifecycleScripts of the installed
\* version, whose failure is not caught; a 404 means no scripts.
ReadPrior(w) ==
  /\ At(w, "prior")
  /\ LET f == Fact(w)
         fetches == f.source = "registry" /\ f.prior # "none"
     IN \/ /\ ~fetches
           /\ Goto(w, IF f.source = "registry" THEN "manifest" ELSE "evaluate")
           /\ UNCHANGED <<view, cause, hiccups>>
        \/ /\ fetches /\ ~interrupted
           /\ view' = [view EXCEPT ![w].priorScripts = (f.prior = "scripted")]
           /\ Goto(w, "manifest")
           /\ UNCHANGED <<cause, hiccups>>
        \/ fetches /\ interrupted /\ Fail(w, "interrupted") /\ UNCHANGED <<view, hiccups>>
        \/ fetches /\ ~interrupted /\ Hiccup /\ Fail(w, "error") /\ UNCHANGED view
  /\ UNCHANGED <<input, caches, next, item, verdict, interrupted, outcome>>

\* resolvePackage throws, and the mapper keeps the error: there is nothing to
\* verify, and the policy decides.
Unresolved(w) == Goto(w, "evaluate") /\ UNCHANGED <<view, memory, documents>>

\* The version, and fetchVersionManifest.
FetchManifest(w) ==
  /\ At(w, "manifest")
  /\ \/ /\ ~interrupted /\ Fact(w).exists
        /\ Goto(w, "published")
        /\ UNCHANGED <<view, memory, documents, hiccups>>
     \/ (interrupted \/ ~Fact(w).exists) /\ Unresolved(w) /\ UNCHANGED hiccups
     \/ ~interrupted /\ Hiccup /\ Unresolved(w)
  /\ UNCHANGED <<input, attestations, next, item, verdict, cause, interrupted, outcome>>

\* rememberPublishedAt, and the end of resolvePackage.
Resolved(w, date) ==
  /\ memory' = [memory EXCEPT ![Pkg(w)] = date]
  /\ view' = [view EXCEPT ![w].resolved = TRUE, ![w].date = date]
  /\ Goto(w, "provenance")

\* The publish time in the memory or on the disk.
CachedDate(p) ==
  IF memory[p] # "none" THEN memory[p]
  ELSE IF disk[p] = "time" THEN facts[p].date
  ELSE IF disk[p] = "fallback" THEN facts[p].header ELSE "none"

\* fetchPublishedAt: the caches first.
ReadPublished(w) ==
  /\ At(w, "published")
  /\ LET date == CachedDate(Pkg(w))
     IN \/ interrupted /\ Unresolved(w)
        \/ ~interrupted /\ date # "none" /\ Resolved(w, date) /\ UNCHANGED documents
        \/ /\ ~interrupted /\ date = "none"
           /\ Goto(w, "timeMap")
           /\ UNCHANGED <<view, memory, documents>>
  /\ UNCHANGED <<input, attestations, next, item, verdict, cause, hiccups, interrupted, outcome>>

\* Fault: the time map's entry is used without a look at whether there is one.
TimeMap_Unchecked(w) ==
  /\ At(w, "timeMap")
  /\ documents' = documents \cup {Pkg(w)}
  /\ Resolved(w, Fact(w).date)
  /\ UNCHANGED <<input, attestations, next, item, verdict, cause, hiccups, interrupted, outcome>>

\* fetchPublishedAtFromTimeMap: a timeout, a shutdown and a time that is none end
\* the resolution, any other failure falls back to the tarball's header.
TimeMap(w) ==
  /\ At(w, "timeMap")
  /\ LET p == Pkg(w)
         date == Fact(w).date
     IN \/ /\ p \in documents \/ ~interrupted
           /\ documents' = documents \cup {p}
           /\ \/ date \in Dates /\ Resolved(w, date)
              \/ date = "invalid" /\ Goto(w, "evaluate") /\ UNCHANGED <<view, memory>>
              \/ date = "unlisted" /\ Goto(w, "tarball") /\ UNCHANGED <<view, memory>>
           /\ UNCHANGED hiccups
        \/ p \notin documents /\ interrupted /\ Unresolved(w) /\ UNCHANGED hiccups
        \/ /\ p \notin documents /\ ~interrupted /\ Hiccup
           /\ \/ Unresolved(w)
              \/ Goto(w, "tarball") /\ UNCHANGED <<view, memory, documents>>
  /\ UNCHANGED <<input, attestations, next, item, verdict, cause, interrupted, outcome>>

\* fetchTarballLastModified: no valid header, no publish time, no resolution.
Tarball(w) ==
  /\ At(w, "tarball")
  /\ LET header == Fact(w).header
     IN \/ ~interrupted /\ header # "none" /\ Resolved(w, header) /\ UNCHANGED <<documents, hiccups>>
        \/ (interrupted \/ header = "none") /\ Unresolved(w) /\ UNCHANGED hiccups
        \/ ~interrupted /\ Hiccup /\ Unresolved(w)
  /\ UNCHANGED <<input, attestations, next, item, verdict, cause, interrupted, outcome>>

\* The attestation is written to the disk cache, unless that fails.
CacheAttestation(w) ==
  \/ UNCHANGED attestations
  \/ Fact(w).attestation # "none" /\ attestations' = attestations \cup {Pkg(w)}

\* What a failed request leaves of verifyProvenance: no attestation but a
\* cached one, or, later, a verifier that throws.
Degraded(w) ==
  {IF config.offline = "allow-cached" /\ Pkg(w) \in attestations
   THEN Verify(config, Fact(w).attestation) ELSE "unreachable"}
  \cup (IF config.verifier /\ Fact(w).attestation # "none" THEN {"invalid"} ELSE {})

VerifyProvenance(w) ==
  /\ At(w, "provenance")
  /\ LET on == config.provenance # "off"
     IN \/ ~on /\ Goto(w, "history") /\ UNCHANGED <<attestations, view, cause, hiccups>>
        \/ on /\ interrupted /\ Fail(w, "interrupted") /\ UNCHANGED <<attestations, view, hiccups>>
        \/ /\ on /\ ~interrupted
           /\ view' = [view EXCEPT ![w].provenance = Verify(config, Fact(w).attestation)]
           /\ CacheAttestation(w)
           /\ Goto(w, "history")
           /\ UNCHANGED <<cause, hiccups>>
        \/ /\ on /\ ~interrupted /\ Hiccup
           /\ \E s \in Degraded(w) : view' = [view EXCEPT ![w].provenance = s]
           /\ Goto(w, "history")
           /\ UNCHANGED <<attestations, cause>>
  /\ UNCHANGED <<input, memory, documents, next, item, verdict, interrupted, outcome>>

\* evaluateContinuity: the version history, of the registry or the disk cache;
\* without it, no evaluation.
FetchHistory(w) ==
  /\ At(w, "history")
  /\ LET on == config.continuity # "off"
     IN \/ ~on /\ Goto(w, "evaluate") /\ UNCHANGED <<view, cause, hiccups>>
        \/ on /\ interrupted /\ Fail(w, "interrupted") /\ UNCHANGED <<view, hiccups>>
        \/ /\ on /\ ~interrupted
           /\ IF Baseline(config, Fact(w)) = <<>>
              THEN /\ view' = [view EXCEPT ![w].continuity = "no-baseline"]
                   /\ Goto(w, "evaluate")
              ELSE Goto(w, "baseline") /\ UNCHANGED view
           /\ UNCHANGED <<cause, hiccups>>
        \/ on /\ ~interrupted /\ Hiccup /\ Goto(w, "evaluate") /\ UNCHANGED <<view, cause>>
  /\ UNCHANGED <<input, caches, next, item, verdict, interrupted, outcome>>

\* The identities of the baseline: one that cannot be fetched has none.
FetchBaseline(w) ==
  /\ At(w, "baseline")
  /\ LET base == Baseline(config, Fact(w))
     IN \/ interrupted /\ Fail(w, "interrupted") /\ UNCHANGED <<view, hiccups>>
        \/ /\ ~interrupted
           /\ \E lost \in SUBSET DOMAIN base :
                /\ hiccups + Cardinality(lost) <= MaxHiccups
                /\ hiccups' = hiccups + Cardinality(lost)
                /\ view' = [view EXCEPT ![w].baseline =
                     [k \in DOMAIN base |-> IF k \in lost THEN "none" ELSE Identity(base[k])]]
           /\ Goto(w, "target")
           /\ UNCHANGED cause
  /\ UNCHANGED <<input, caches, next, item, verdict, interrupted, outcome>>

Classified(w, id) ==
  /\ view' = [view EXCEPT ![w].continuity = Classify(view[w].baseline, id)]
  /\ Goto(w, "evaluate")
  /\ UNCHANGED cause

\* The identity of the target version, from the cache or the registry.
FetchTarget(w) ==
  /\ At(w, "target")
  /\ \/ interrupted /\ Fail(w, "interrupted") /\ UNCHANGED <<attestations, view, hiccups>>
     \/ /\ ~interrupted /\ Classified(w, Identity(Fact(w).attestation))
        /\ CacheAttestation(w)
        /\ UNCHANGED hiccups
     \/ /\ ~interrupted /\ Pkg(w) \notin attestations /\ Hiccup
        /\ Classified(w, "none")
        /\ UNCHANGED attestations
  /\ UNCHANGED <<input, memory, documents, next, item, verdict, interrupted, outcome>>

\* Fault: the iterator ends one request early.
Pull_OffByOne(w) ==
  IF next < N
  THEN /\ next' = next + 1
       /\ item' = [item EXCEPT ![w] = next]
       /\ view' = [view EXCEPT ![w] = Blank]
       /\ Goto(w, "prior")
  ELSE Goto(w, "done") /\ UNCHANGED <<next, item, view>>

\* Fault: a worker keeps what it has learnt about its previous request.
Pull_KeepsView(w) ==
  IF next <= N
  THEN /\ next' = next + 1
       /\ item' = [item EXCEPT ![w] = next]
       /\ Goto(w, "prior")
       /\ UNCHANGED view
  ELSE Goto(w, "done") /\ UNCHANGED <<next, item, view>>

\* The worker's loop: the iterator's next request, or the end.
Pull(w) ==
  IF next <= N
  THEN /\ next' = next + 1
       /\ item' = [item EXCEPT ![w] = next]
       /\ view' = [view EXCEPT ![w] = Blank]
       /\ Goto(w, "prior")
  ELSE Goto(w, "done") /\ UNCHANGED <<next, item, view>>

\* evaluatePackage, and at once the next request.
Evaluate(w) ==
  /\ At(w, "evaluate")
  /\ results' = [results EXCEPT ![item[w]] = BlockedReasons(config, Fact(w), view[w])]
  /\ evaluated' = evaluated \cup {item[w]}
  /\ Pull(w)
  /\ UNCHANGED <<input, caches, cause, hiccups, interrupted, outcome>>

Proceed(w) ==
  ReadPrior(w) \/ FetchManifest(w) \/ ReadPublished(w) \/ TimeMap(w) \/ Tarball(w)
  \/ VerifyProvenance(w) \/ FetchHistory(w) \/ FetchBaseline(w) \/ FetchTarget(w)
  \/ Evaluate(w)
-----------------------------------------------------------------------------
(* The command *)

\* An error ends it; else blocked reasons do; and an install looks at the
\* signal before it goes on to the package manager.
Report ==
  /\ outcome = "none"
  /\ \/ cause # "none" /\ outcome' = cause
     \/ /\ cause = "none" /\ \A w \in Pool : At(w, "done")
        /\ outcome' = IF \E i \in Requests : results[i] # {} THEN "block"
                      ELSE IF interrupted /\ config.command = "install" THEN "interrupted"
                      ELSE "allow"
  /\ UNCHANGED <<input, caches, worker, verdict, cause, hiccups, interrupted>>

\* SIGINT or SIGTERM.
Interrupt ==
  /\ ~interrupted /\ outcome = "none"
  /\ interrupted' = TRUE
  /\ UNCHANGED <<input, caches, worker, verdict, cause, hiccups, outcome>>

Finished ==
  /\ outcome # "none" /\ \A w \in Pool : at[w] \in {"done", "failed"}
  /\ UNCHANGED vars

Next == (\E w \in Pool : Proceed(w)) \/ Report \/ Interrupt \/ Finished

Spec == Init /\ [][Next]_vars
-----------------------------------------------------------------------------
(* What the policy promises, in terms of the facts *)

\* The time map is not what counts: it does not list the version, could not be
\* fetched, or could not by an earlier run.
FellBack(p) == facts[p].date = "unlisted" \/ hiccups > 0 \/ disk[p] = "fallback"

\* The age rests on the time map, or else on the tarball's header.
OldEnough(p) == facts[p].date = "old" \/ (facts[p].header = "old" /\ FellBack(p))

\* Provenance as configured, given a verifier or none.
ProvenanceHolds(f) ==
  /\ Required(config, f) => f.attestation # "none"
  /\ config.verifier => f.attestation \notin {"forged", "unnamed"} /\ ~(f.pinned /\ f.attestation = "fork")
  /\ ~config.verifier /\ f.attestation # "none" => config.tooling = "warn" \/ f.sigstore

\* A fetch that fails under allow-cached is accepted by configuration.
Lenient == config.offline = "allow-cached" /\ hiccups > 0

\* The registry tells when it was published: an allowlisted package may be new,
\* and still is not resolved without.
Dated(p) == facts[p].date \in Dates \/ (facts[p].header # "none" /\ FellBack(p))

Acceptable(p) ==
  LET f == facts[p]
  IN /\ f.source \in config.sources \cup {"workspace"}
     /\ ~(f.declared /\ f.source = "git")
     /\ f.squat /\ config.typoSquat = "block" => f.allowlisted
     /\ f.source = "registry" =>
          /\ f.exists /\ Dated(p)
          /\ f.allowlisted \/ (OldEnough(p) /\ f.scripts # "unallowed")
          /\ f.scripts = "none" \/ f.prior \in {"none", "scripted"}
          /\ config.provenance = "off" \/ Lenient \/ ProvenanceHolds(f)

\* The identities of the baseline as the registry has them.
Unbroken(p) ==
  LET f == facts[p]
      base == Baseline(config, f)
      ids == [k \in DOMAIN base |-> Identity(base[k])]
  IN f.source = "registry" /\ config.continuity = "block" /\ base # <<>> =>
       Classify(ids, Identity(f.attestation)) \in {"no-baseline", "consistent"}

(* Properties *)

\* A command reaches a verdict only when every requested package has been
\* evaluated, whichever workers failed and in whatever order they finished.
PoolComplete == outcome \in {"allow", "block"} => evaluated = Requests

\* Fail closed: no failing request, cached answer, signal or interleaving of
\* the workers makes the policy accept a package that does not meet it.
AllowIsEarned == outcome = "allow" => \A i \in Requests : Acceptable(PackageOf[i])

Undisturbed == hiccups = 0 /\ \A p \in Packages : disk[p] # "fallback"

\* When nothing fails and nobody interrupts, the verdict depends on the facts
\* alone, and not on the order in which the workers learn them; a publish time
\* that an earlier run took from the header counts as a failure.
VerdictIsExact ==
  Undisturbed /\ ~interrupted /\ outcome # "none"
    => outcome = IF \A i \in Requests : Acceptable(PackageOf[i]) /\ Unbroken(PackageOf[i])
                 THEN "allow" ELSE "block"

\* A package is blocked for dropped provenance only if its version has none.
HiccupNeverDowngrades ==
  \A i \in Requests :
    "provenance-downgrade" \in results[i] => facts[PackageOf[i]].attestation = "none"
=============================================================================
