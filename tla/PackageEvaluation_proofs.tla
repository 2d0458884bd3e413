---------------------- MODULE PackageEvaluation_proofs ----------------------
(***************************************************************************)
(* Proofs about PackageEvaluation, for any number of requests, workers,    *)
(* failing requests and configurations.  The pool is complete because      *)
(* every request handed out is evaluated or still with a worker that has   *)
(* not finished.  An allow is earned because whatever a worker believes    *)
(* about a package, at any place of the mapper, is no better than the      *)
(* facts, and no failure makes it believe more.  Without a failure it is   *)
(* the facts, so that the verdict is theirs in every order.                *)
(***************************************************************************)
EXTENDS PackageEvaluation, FiniteSetTheorems, SequenceTheorems, TLAPS

\* A request handed out is evaluated, or its worker has it still.
HandedOut ==
  \A i \in Requests : i < next =>
    i \in evaluated \/ \E w \in Pool : item[w] = i /\ at[w] # "done"

\* A worker ends when nothing is left, and a failed one rejects the pool.
WorkersEnd ==
  \A w \in Pool : /\ at[w] = "done" => next = N + 1
                  /\ at[w] = "failed" => cause # "none"

PInv == HandedOut /\ WorkersEnd /\ PoolComplete

Resolving == {"prior", "manifest", "published", "timeMap", "tarball"}
Verified  == {"history", "baseline", "target", "evaluate"}

StatusSound(f, s) ==
  \/ s \in {Verify(config, f.attestation), "invalid"}
  \/ s = "unreachable" /\ hiccups > 0

\* What is known of a package at a place of the mapper is no better than the facts.
Sound(l, p, v) ==
  LET f == facts[p]
  IN l \in Busy =>
       /\ f.source # "registry" => l \in {"prior", "evaluate"} /\ ~v.resolved
       /\ l \in Resolving => ~v.resolved
       /\ l \in {"published", "timeMap", "tarball"} => f.exists
       /\ l = "tarball" => f.date = "unlisted" \/ hiccups > 0
       /\ v.priorScripts => f.prior = "scripted"
       /\ v.resolved => f.exists /\ Dated(p) /\ (v.date = "old" => OldEnough(p))
       /\ v.resolved /\ l \in Verified =>
            config.provenance = "off" \/ StatusSound(f, v.provenance)

Knows(w) == Sound(at[w], Pkg(w), view[w])

MemorySound  ==
  \A p \in Packages : /\ memory[p] # "none" => Dated(p)
                      /\ memory[p] = "old" => OldEnough(p)
ResultsSound == \A i \in evaluated : results[i] = {} => Acceptable(PackageOf[i])

AInv == MemorySound /\ (\A w \in Pool : Knows(w)) /\ ResultsSound /\ AllowIsEarned
-----------------------------------------------------------------------------
(* Types of the operators *)

LEMMA PoolFacts ==
  /\ WorkerCount \in Nat /\ 1 <= WorkerCount /\ WorkerCount <= N
  /\ Pool \subseteq Requests /\ Requests \subseteq Nat
  BY EvaluationAssumption DEF WorkerCount, Pool, Requests

LEMMA WhenType == ASSUME NEW c \in BOOLEAN, NEW k PROVE When(c, k) \subseteq {k}
  BY DEF When

LEMMA ReasonsType ==
  ASSUME NEW c, NEW f, NEW v
  PROVE  BlockedReasons(c, f, v) \in SUBSET Codes
<1>1. NameAndSource(c, f) \subseteq Codes
  BY DEF NameAndSource, When, Codes
<1>2. Release(f, v) \subseteq Codes
  BY DEF Release, When, Codes
<1>3. Provenance(c, f, v.provenance) \subseteq Codes
  BY DEF Provenance, When, Codes
<1>4. Continuity(c, v) \subseteq Codes
  BY DEF Continuity, Codes
<1>5. \A e : When(f.source = "registry" /\ e = {}, "package-resolution-failed") \subseteq Codes
  BY DEF When, Codes
<1> QED BY <1>1, <1>2, <1>3, <1>4, <1>5 DEF BlockedReasons

LEMMA VerifyType ==
  ASSUME NEW c, NEW a \in Attestations
  PROVE  Verify(c, a) \in Statuses
  BY DEF Verify, Attestations, Statuses

LEMMA ClassifyType ==
  ASSUME NEW ids, NEW t
  PROVE  Classify(ids, t) \in Continuities
  BY DEF Classify, Continuities

LEMMA BaselineType ==
  ASSUME NEW c \in ConfigSpace, NEW f \in Facts
  PROVE  Baseline(c, f) \in Seq(Attestations)
<1>1. f.history \in Seq(Attestations) /\ c.baselineSize \in Nat
  BY DEF Facts, ConfigSpace
<1> DEFINE n == IF Len(f.history) < c.baselineSize THEN Len(f.history) ELSE c.baselineSize
<1>2. n \in Int /\ n <= Len(f.history)
  BY <1>1
<1>3. \A i \in 1..n : f.history[i] \in Attestations
  BY <1>1, <1>2
<1>4. SubSeq(f.history, 1, n) \in Seq(Attestations)
  BY <1>2, <1>3, SubSeqProperties
<1> QED BY <1>4 DEF Baseline

\* The identities of a baseline, some of them lost.
LEMMA LearnedType ==
  ASSUME NEW base \in Seq(Attestations), NEW lost \in SUBSET DOMAIN base
  PROVE  /\ [k \in DOMAIN base |-> IF k \in lost THEN "none" ELSE Identity(base[k])] \in Seq(Identities)
         /\ Cardinality(lost) \in Nat /\ (Cardinality(lost) = 0 => lost = {})
<1>1. \A a \in Attestations : Identity(a) \in Identities
  BY DEF Identity, Attestations, Identities
<1>2. Len(base) \in Nat /\ DOMAIN base = 1..Len(base) /\ \A k \in DOMAIN base : base[k] \in Attestations
  OBVIOUS
<1>3. \A k \in 1..Len(base) : (IF k \in lost THEN "none" ELSE Identity(base[k])) \in Identities
  BY <1>1, <1>2 DEF Identities
<1>4. [k \in 1..Len(base) |-> IF k \in lost THEN "none" ELSE Identity(base[k])] \in Seq(Identities)
  BY <1>2, <1>3
<1>5. IsFiniteSet(lost)
  <2>1. IsFiniteSet(DOMAIN base)
    BY <1>2, FS_Interval, 1 \in Int, Len(base) \in Int
  <2> QED BY <2>1, FS_Subset
<1> QED BY <1>2, <1>4, <1>5, FS_CardinalityType, FS_EmptySet
-----------------------------------------------------------------------------
(* Types of the state *)

LEMMA BlankType == Blank \in Views
<1>1. <<>> \in Seq(Identities)
  OBVIOUS
<1> QED BY <1>1 DEF Blank, Views, Dates, Statuses, Continuities

\* What a step of a worker may do to the worker's own state.
LEMMA LearnType ==
  ASSUME TypeOK, NEW w \in Pool
  PROVE  /\ \A b \in BOOLEAN : [view EXCEPT ![w].priorScripts = b] \in [Pool -> Views]
         /\ \A d \in Dates : [view EXCEPT ![w].resolved = TRUE, ![w].date = d] \in [Pool -> Views]
         /\ \A s \in Statuses : [view EXCEPT ![w].provenance = s] \in [Pool -> Views]
         /\ \A ids \in Seq(Identities) : [view EXCEPT ![w].baseline = ids] \in [Pool -> Views]
         /\ \A c \in Continuities : [view EXCEPT ![w].continuity = c] \in [Pool -> Views]
<1>1. view[w] \in Views /\ view \in [Pool -> Views]
  BY DEF TypeOK
<1>2. \A b \in BOOLEAN : [view EXCEPT ![w].priorScripts = b] \in [Pool -> Views]
  <2> TAKE b \in BOOLEAN
  <2>1. [view[w] EXCEPT !.priorScripts = b] \in Views
    BY <1>1 DEF Views
  <2> QED BY <1>1, <2>1 DEF Views
<1>3. \A d \in Dates : [view EXCEPT ![w].resolved = TRUE, ![w].date = d] \in [Pool -> Views]
  <2> TAKE d \in Dates
  <2>1. [view[w] EXCEPT !.resolved = TRUE, !.date = d] \in Views
    BY <1>1 DEF Views
  <2> QED BY <1>1, <2>1 DEF Views
<1>4. \A s \in Statuses : [view EXCEPT ![w].provenance = s] \in [Pool -> Views]
  <2> TAKE s \in Statuses
  <2>1. [view[w] EXCEPT !.provenance = s] \in Views
    BY <1>1 DEF Views
  <2> QED BY <1>1, <2>1 DEF Views
<1>5. \A ids \in Seq(Identities) : [view EXCEPT ![w].baseline = ids] \in [Pool -> Views]
  <2> TAKE ids \in Seq(Identities)
  <2>1. [view[w] EXCEPT !.baseline = ids] \in Views
    BY <1>1 DEF Views
  <2> QED BY <1>1, <2>1 DEF Views
<1>6. \A c \in Continuities : [view EXCEPT ![w].continuity = c] \in [Pool -> Views]
  <2> TAKE c \in Continuities
  <2>1. [view[w] EXCEPT !.continuity = c] \in Views
    BY <1>1 DEF Views
  <2> QED BY <1>1, <2>1 DEF Views
<1> QED BY <1>2, <1>3, <1>4, <1>5, <1>6

LEMMA FactType ==
  ASSUME TypeOK, NEW w \in Pool
  PROVE  /\ Pkg(w) \in Packages /\ Fact(w) \in Facts /\ item[w] \in Requests
         /\ config \in ConfigSpace
         /\ Verify(config, Fact(w).attestation) \in Statuses
         /\ Fact(w).date \in Dates \cup {"unlisted", "invalid"} /\ Fact(w).header \in Dates \cup {"none"}
<1>1. Pkg(w) \in Packages /\ Fact(w) \in Facts /\ item[w] \in Requests /\ config \in ConfigSpace
  BY EvaluationAssumption DEF TypeOK, Pkg, Fact
<1>2. Fact(w).attestation \in Attestations
  BY <1>1 DEF Facts
<1>3. Verify(config, Fact(w).attestation) \in Statuses
  BY <1>2, VerifyType
<1>4. Fact(w).date \in Dates \cup {"unlisted", "invalid"} /\ Fact(w).header \in Dates \cup {"none"}
  BY <1>1 DEF Facts
<1> QED BY <1>1, <1>3, <1>4

LEMMA InitType == Init => TypeOK
<1> SUFFICES ASSUME Init PROVE TypeOK
  OBVIOUS
<1>1. facts \in [Packages -> Facts]
  BY EvaluationAssumption DEF Init
<1>2. /\ disk \in [Packages -> {"none", "time", "fallback"}] /\ \A p \in Packages : disk[p] \in OnDisk(p)
      /\ config \in Configs
  BY DEF Init
<1>3. attestations \subseteq Packages
  BY EvaluationAssumption DEF Init
<1>4. next \in 1..N+1 /\ hiccups \in 0..MaxHiccups
  BY EvaluationAssumption, PoolFacts DEF Init
<1>5. at \in [Pool -> Busy \cup {"done", "failed"}] /\ item \in [Pool -> Requests]
  BY PoolFacts DEF Init, Busy
<1>6. view \in [Pool -> Views]
  BY BlankType DEF Init
<1>7. memory \in [Packages -> Dates \cup {"none"}] /\ documents \subseteq Packages
  BY DEF Init
<1>8. /\ evaluated \subseteq Requests /\ results \in [Requests -> SUBSET Codes]
      /\ cause = "none" /\ interrupted = FALSE /\ outcome = "none"
  BY DEF Init
<1> QED BY <1>1, <1>2, <1>3, <1>4, <1>5, <1>6, <1>7, <1>8 DEF TypeOK

LEMMA HiccupType == TypeOK /\ Hiccup => hiccups' \in 0..MaxHiccups
  BY EvaluationAssumption DEF TypeOK, Hiccup

LEMMA PullType ==
  ASSUME TypeOK, NEW w \in Pool, Pull(w)
  PROVE  /\ next' \in 1..N+1 /\ at' \in [Pool -> Busy \cup {"done", "failed"}]
         /\ item' \in [Pool -> Requests] /\ view' \in [Pool -> Views]
<1>1. CASE next <= N
  <2>1. next \in Requests /\ next' = next + 1 /\ next' \in 1..N+1
    BY <1>1, EvaluationAssumption DEF Pull, TypeOK, Requests
  <2>2. view' = [view EXCEPT ![w] = Blank] /\ item' = [item EXCEPT ![w] = next]
        /\ at' = [at EXCEPT ![w] = "prior"]
    BY <1>1 DEF Pull, Goto
  <2> QED BY <2>1, <2>2, BlankType DEF TypeOK, Busy
<1>2. CASE ~(next <= N)
  BY <1>2 DEF Pull, Goto, TypeOK
<1> QED BY <1>1, <1>2

LEMMA CachedDateType ==
  ASSUME TypeOK, NEW p \in Packages
  PROVE  CachedDate(p) \in Dates \cup {"none"}
<1>1. facts[p].date \in Dates \cup {"unlisted", "invalid"} /\ facts[p].header \in Dates \cup {"none"}
  BY DEF TypeOK, Facts
<1>2. disk[p] \in OnDisk(p) /\ memory[p] \in Dates \cup {"none"}
  BY DEF TypeOK
<1> QED BY <1>1, <1>2 DEF CachedDate, OnDisk, Dates

LEMMA DegradedType ==
  ASSUME TypeOK, NEW w \in Pool PROVE Degraded(w) \subseteq Statuses
  BY FactType DEF Degraded, Statuses

\* What each step of a worker leaves alone.
LEMMA ProceedFrame ==
  ASSUME TypeOK, NEW w \in Pool, Proceed(w)
  PROVE  UNCHANGED <<input, interrupted, outcome>>
  BY DEF Proceed, ReadPrior, FetchManifest, ReadPublished, TimeMap, Tarball, VerifyProvenance,
         FetchHistory, FetchBaseline, FetchTarget, Evaluate, input

LEMMA ProceedPlace ==
  ASSUME TypeOK, NEW w \in Pool, Proceed(w)
  PROVE  \E l \in Busy \cup {"done", "failed"} : at' = [at EXCEPT ![w] = l]
  BY DEF Proceed, ReadPrior, FetchManifest, ReadPublished, TimeMap, Tarball, VerifyProvenance,
         FetchHistory, FetchBaseline, FetchTarget, Evaluate, Fail, Unresolved, Resolved, Classified,
         Pull, Goto, Busy

LEMMA ProceedHiccups ==
  ASSUME TypeOK, NEW w \in Pool, Proceed(w)
  PROVE  hiccups' \in 0..MaxHiccups /\ hiccups <= hiccups'
<1>1. hiccups \in 0..MaxHiccups /\ MaxHiccups \in Nat
  BY EvaluationAssumption DEF TypeOK
<1>2. CASE FetchBaseline(w)
  <2>1. CASE UNCHANGED hiccups
    BY <1>1, <2>1
  <2>2. CASE ~UNCHANGED hiccups
    <3> DEFINE base == Baseline(config, Fact(w))
    <3>1. PICK lost \in SUBSET DOMAIN base :
            /\ hiccups + Cardinality(lost) <= MaxHiccups
            /\ hiccups' = hiccups + Cardinality(lost)
      BY <1>2, <2>2 DEF FetchBaseline
    <3>2. Cardinality(lost) \in Nat
      BY <3>1, FactType, BaselineType, LearnedType
    <3> QED BY <1>1, <3>1, <3>2
  <2> QED BY <2>1, <2>2
<1>3. CASE Proceed(w) /\ ~FetchBaseline(w)
  <2>1. Hiccup \/ UNCHANGED hiccups
    BY <1>3 DEF Proceed, ReadPrior, FetchManifest, ReadPublished, TimeMap, Tarball, VerifyProvenance,
                FetchHistory, FetchTarget, Evaluate
  <2> QED BY <1>1, <2>1 DEF Hiccup
<1> QED BY <1>2, <1>3

LEMMA ProceedCaches ==
  ASSUME TypeOK, NEW w \in Pool, Proceed(w)
  PROVE  /\ memory' \in [Packages -> Dates \cup {"none"}]
         /\ documents' \subseteq Packages /\ attestations' \subseteq Packages
<1>1. /\ memory' = memory \/ \E d \in Dates : memory' = [memory EXCEPT ![Pkg(w)] = d]
      /\ documents' = documents \/ documents' = documents \cup {Pkg(w)}
      /\ attestations' = attestations \/ attestations' = attestations \cup {Pkg(w)}
  <2>1. Fact(w).date \in Dates \cup {"unlisted", "invalid"} /\ Fact(w).header \in Dates \cup {"none"}
        /\ CachedDate(Pkg(w)) \in Dates \cup {"none"}
    BY FactType, CachedDateType
  <2> QED BY <2>1 DEF Proceed, ReadPrior, FetchManifest, ReadPublished, TimeMap, Tarball,
         VerifyProvenance, FetchHistory, FetchBaseline, FetchTarget, Evaluate, Unresolved, Resolved,
         CacheAttestation, caches
<1> QED BY <1>1, FactType DEF TypeOK

LEMMA ProceedView ==
  ASSUME TypeOK, NEW w \in Pool, Proceed(w), ~Evaluate(w)
  PROVE  view' \in [Pool -> Views] /\ UNCHANGED <<next, item, verdict>>
<1>1. UNCHANGED <<next, item, verdict>>
  BY DEF Proceed, ReadPrior, FetchManifest, ReadPublished, TimeMap, Tarball, VerifyProvenance,
         FetchHistory, FetchBaseline, FetchTarget
<1>2. CASE UNCHANGED view
  BY <1>1, <1>2 DEF TypeOK
<1>3. CASE ReadPrior(w) /\ ~UNCHANGED view
  <2>1. view' = [view EXCEPT ![w].priorScripts = (Fact(w).prior = "scripted")]
    BY <1>3 DEF ReadPrior
  <2>2. (Fact(w).prior = "scripted") \in BOOLEAN
    OBVIOUS
  <2> QED BY <1>1, <2>1, <2>2, LearnType
<1>4. CASE (ReadPublished(w) \/ TimeMap(w) \/ Tarball(w)) /\ ~UNCHANGED view
  <2>1. PICK d \in Dates : view' = [view EXCEPT ![w].resolved = TRUE, ![w].date = d]
    BY <1>4, FactType, CachedDateType DEF ReadPublished, TimeMap, Tarball, Resolved, Unresolved
  <2>9. view' \in [Pool -> Views]
    BY <2>1, LearnType, Zenon
  <2> QED BY <1>1, <2>9
<1>5. CASE VerifyProvenance(w) /\ ~UNCHANGED view
  <2>1. PICK s \in Statuses : view' = [view EXCEPT ![w].provenance = s]
    BY <1>5, FactType, DegradedType DEF VerifyProvenance
  <2>9. view' \in [Pool -> Views]
    BY <2>1, LearnType, Zenon
  <2> QED BY <1>1, <2>9
<1>6. CASE FetchHistory(w) /\ ~UNCHANGED view
  <2>1. PICK c \in Continuities : view' = [view EXCEPT ![w].continuity = c]
    BY <1>6 DEF FetchHistory, Continuities
  <2>9. view' \in [Pool -> Views]
    BY <2>1, LearnType, Zenon
  <2> QED BY <1>1, <2>9
<1>7. CASE FetchBaseline(w) /\ ~UNCHANGED view
  <2>1. Baseline(config, Fact(w)) \in Seq(Attestations)
    BY FactType, BaselineType
  <2>2. PICK ids \in Seq(Identities) : view' = [view EXCEPT ![w].baseline = ids]
    BY <1>7, <2>1, LearnedType DEF FetchBaseline
  <2>9. view' \in [Pool -> Views]
    BY <2>2, LearnType, Zenon
  <2> QED BY <1>1, <2>9
<1>8. CASE FetchTarget(w) /\ ~UNCHANGED view
  <2>1. PICK c \in Continuities : view' = [view EXCEPT ![w].continuity = c]
    BY <1>8, ClassifyType DEF FetchTarget, Classified
  <2>9. view' \in [Pool -> Views]
    BY <2>1, LearnType, Zenon
  <2> QED BY <1>1, <2>9
<1>9. FetchManifest(w) => UNCHANGED view
  BY DEF FetchManifest, Unresolved
<1> QED BY <1>2, <1>3, <1>4, <1>5, <1>6, <1>7, <1>8, <1>9 DEF Proceed

LEMMA ProceedType ==
  ASSUME TypeOK, NEW w \in Pool, Proceed(w)
  PROVE  TypeOK'
<1>1. at' \in [Pool -> Busy \cup {"done", "failed"}]
  BY ProceedPlace DEF TypeOK
<1>2. /\ view' \in [Pool -> Views] /\ item' \in [Pool -> Requests] /\ next' \in 1..N+1
      /\ evaluated' \subseteq Requests /\ results' \in [Requests -> SUBSET Codes]
  <2>1. CASE Evaluate(w)
    BY <2>1, PullType, ReasonsType, FactType DEF Evaluate, TypeOK
  <2>2. CASE ~Evaluate(w)
    BY <2>2, ProceedView DEF TypeOK, verdict
  <2> QED BY <2>1, <2>2
<1>3. cause' \in {"none", "error", "interrupted"}
  BY DEF Proceed, ReadPrior, FetchManifest, ReadPublished, TimeMap, Tarball, VerifyProvenance,
         FetchHistory, FetchBaseline, FetchTarget, Evaluate, Fail, Classified, TypeOK
<1>4. /\ config' \in Configs /\ facts' \in [Packages -> Facts]
      /\ disk' \in [Packages -> {"none", "time", "fallback"}] /\ \A p \in Packages : disk'[p] \in OnDisk(p)'
      /\ interrupted' \in BOOLEAN /\ outcome' \in {"none", "allow", "block", "error", "interrupted"}
  BY ProceedFrame DEF TypeOK, input, OnDisk
<1> QED BY <1>1, <1>2, <1>3, <1>4, ProceedHiccups, ProceedCaches DEF TypeOK

LEMMA NextType == TypeOK /\ [Next]_vars => TypeOK'
<1> SUFFICES ASSUME TypeOK, [Next]_vars PROVE TypeOK'
  OBVIOUS
<1>1. ASSUME NEW w \in Pool, Proceed(w) PROVE TypeOK'
  BY <1>1, ProceedType
<1>2. CASE Report
  BY <1>2 DEF Report, TypeOK, input, caches, worker, verdict, OnDisk
<1>3. CASE Interrupt
  BY <1>3 DEF Interrupt, TypeOK, input, caches, worker, verdict, OnDisk
<1>4. CASE UNCHANGED vars
  BY <1>4 DEF TypeOK, vars, input, caches, worker, verdict, OnDisk
<1> QED BY <1>1, <1>2, <1>3, <1>4 DEF Next, Finished

\* Every state of the pool, the caches and the command is one the code can name.
THEOREM TypeCorrect == Spec => []TypeOK
  BY InitType, NextType, PTL DEF Spec
-----------------------------------------------------------------------------
(* The pool *)

\* A step of the mapper short of its end never ends the worker, and a failure
\* is remembered.
LEMMA MapperStep ==
  ASSUME TypeOK, NEW w \in Pool, Proceed(w), ~Evaluate(w)
  PROVE  /\ \E l \in Busy \cup {"failed"} :
              at' = [at EXCEPT ![w] = l] /\ (l = "failed" => cause' # "none")
         /\ cause # "none" => cause' # "none"
  BY DEF Proceed, ReadPrior, FetchManifest, ReadPublished, TimeMap, Tarball, VerifyProvenance,
         FetchHistory, FetchBaseline, FetchTarget, Fail, Unresolved, Resolved, Classified, Goto, Busy

LEMMA PInvInit == Init => PInv
<1> SUFFICES ASSUME Init PROVE PInv
  OBVIOUS
<1>1. \A i \in Requests : i < next => i \in Pool
  BY PoolFacts DEF Init, Requests, Pool
<1>2. HandedOut
  BY <1>1 DEF Init, HandedOut
<1> QED BY <1>2 DEF Init, PInv, WorkersEnd, PoolComplete

LEMMA PInvMapper ==
  ASSUME TypeOK, PInv, NEW w \in Pool, Proceed(w), ~Evaluate(w)
  PROVE  PInv'
<1>1. PICK l \in Busy \cup {"failed"} :
        at' = [at EXCEPT ![w] = l] /\ (l = "failed" => cause' # "none")
  BY MapperStep
<1>2. UNCHANGED <<next, item, evaluated, outcome>> /\ l # "done"
  BY ProceedView, ProceedFrame DEF verdict, Busy
<1>3. \A u \in Pool : at'[u] = IF u = w THEN l ELSE at[u]
  BY <1>1 DEF TypeOK
<1>4. HandedOut'
  BY <1>2, <1>3 DEF PInv, HandedOut
<1>5. WorkersEnd'
  BY <1>1, <1>2, <1>3, MapperStep DEF PInv, WorkersEnd
<1>6. PoolComplete'
  BY <1>2 DEF PInv, PoolComplete
<1> QED BY <1>4, <1>5, <1>6 DEF PInv

LEMMA PoolGrows ==
  ASSUME TypeOK, PoolComplete, NEW w \in Pool, evaluated' = evaluated \cup {item[w]}, UNCHANGED outcome
  PROVE  PoolComplete'
  BY DEF TypeOK, PoolComplete

LEMMA PInvEvaluate ==
  ASSUME TypeOK, PInv, NEW w \in Pool, Evaluate(w)
  PROVE  PInv'
<1>1. /\ evaluated' = evaluated \cup {item[w]} /\ UNCHANGED <<cause, outcome>>
      /\ at[w] = "evaluate" /\ Pull(w) /\ next \in 1..N+1 /\ N \in Nat
  BY EvaluationAssumption DEF Evaluate, At, TypeOK
<1>2. CASE next <= N
  <2>1. next' = next + 1 /\ item' = [item EXCEPT ![w] = next] /\ at' = [at EXCEPT ![w] = "prior"]
    BY <1>1, <1>2 DEF Pull, Goto
  <2>2. \A u \in Pool : /\ item'[u] = IF u = w THEN next ELSE item[u]
                        /\ at'[u] = IF u = w THEN "prior" ELSE at[u]
    BY <2>1 DEF TypeOK
  <2>3. HandedOut'
    <3> SUFFICES ASSUME NEW i \in Requests, i < next', i \notin evaluated'
                 PROVE  \E u \in Pool : item'[u] = i /\ at'[u] # "done"
      BY DEF HandedOut
    <3>1. CASE i = next
      BY <3>1, <2>2
    <3>2. CASE i # next
      <4>1. i < next
        BY <3>2, <2>1, <1>1 DEF Requests
      <4>2. PICK u \in Pool : item[u] = i /\ at[u] # "done"
        BY <4>1, <1>1 DEF PInv, HandedOut
      <4> QED BY <4>2, <2>2, <1>1
    <3> QED BY <3>1, <3>2
  <2>4. \A u \in Pool : at[u] # "done"
    BY <1>1, <1>2 DEF PInv, WorkersEnd
  <2>5. WorkersEnd'
    BY <1>1, <2>2, <2>4 DEF PInv, WorkersEnd
  <2> QED BY <1>1, <2>3, <2>5, PoolGrows DEF PInv, PoolComplete
<1>3. CASE ~(next <= N)
  <2>1. next' = next /\ item' = item /\ at' = [at EXCEPT ![w] = "done"] /\ next = N + 1
    BY <1>1, <1>3 DEF Pull, Goto
  <2>2. \A u \in Pool : at'[u] = IF u = w THEN "done" ELSE at[u]
    BY <2>1 DEF TypeOK
  <2>3. HandedOut'
    BY <1>1, <2>1, <2>2 DEF PInv, HandedOut
  <2>4. WorkersEnd'
    BY <1>1, <2>1, <2>2 DEF PInv, WorkersEnd
  <2> QED BY <1>1, <2>3, <2>4, PoolGrows DEF PInv, PoolComplete
<1> QED BY <1>2, <1>3

LEMMA PInvReport ==
  ASSUME TypeOK, PInv, Report PROVE PInv'
<1>1. HandedOut' /\ WorkersEnd'
  BY DEF Report, PInv, HandedOut, WorkersEnd, worker, verdict
<1>2. CASE \A w \in Pool : at[w] = "done"
  <2>1. 1 \in Pool /\ N \in Nat
    BY PoolFacts, EvaluationAssumption DEF Pool
  <2>2. next = N + 1
    BY <1>2, <2>1 DEF PInv, WorkersEnd
  <2>3. \A i \in Requests : i \in evaluated
    BY <1>2, <2>1, <2>2 DEF PInv, HandedOut, Requests
  <2> QED BY <1>1, <2>3 DEF PInv, PoolComplete, TypeOK, Report, verdict
<1>3. CASE ~(\A w \in Pool : at[w] = "done")
  BY <1>1, <1>3 DEF Report, At, PInv, PoolComplete, TypeOK
<1> QED BY <1>2, <1>3

LEMMA PInvNext == TypeOK /\ PInv /\ [Next]_vars => PInv'
<1> SUFFICES ASSUME TypeOK, PInv, [Next]_vars PROVE PInv'
  OBVIOUS
<1>1. ASSUME NEW w \in Pool, Proceed(w) PROVE PInv'
  BY <1>1, PInvMapper, PInvEvaluate
<1>2. CASE Report
  BY <1>2, PInvReport
<1>3. CASE Interrupt
  BY <1>3 DEF Interrupt, PInv, HandedOut, WorkersEnd, PoolComplete, worker, verdict
<1>4. CASE UNCHANGED vars
  BY <1>4 DEF PInv, HandedOut, WorkersEnd, PoolComplete, vars, worker, verdict
<1> QED BY <1>1, <1>2, <1>3, <1>4 DEF Next, Finished

\* The iterator is shared and Promise.all may reject early, and still no
\* command reaches a verdict before every package was evaluated.
THEOREM PoolIsComplete == Spec => []PoolComplete
<1>1. PInv => PoolComplete
  BY DEF PInv
<1> QED BY <1>1, PInvInit, PInvNext, TypeCorrect, PTL DEF Spec
-----------------------------------------------------------------------------
(* The verdict *)

\* Failures only widen what an allow may rest on.
LEMMA Monotone ==
  ASSUME TypeOK, UNCHANGED input, hiccups' \in Nat, hiccups <= hiccups'
  PROVE  /\ \A p \in Packages : (OldEnough(p) => OldEnough(p)') /\ (Dated(p) => Dated(p)')
         /\ \A p \in Packages : Acceptable(p) => Acceptable(p)'
         /\ \A f, s : StatusSound(f, s) => StatusSound(f, s)'
         /\ \A l, v : \A p \in Packages : Sound(l, p, v) => Sound(l, p, v)'
<1>1. hiccups > 0 => hiccups' > 0
  BY EvaluationAssumption DEF TypeOK
<1>2. config' = config /\ facts' = facts /\ disk' = disk
  BY DEF input
<1>3. \A p \in Packages : (OldEnough(p) => OldEnough(p)') /\ (Dated(p) => Dated(p)')
  BY <1>1, <1>2 DEF OldEnough, Dated, FellBack
<1>4. \A p \in Packages : Acceptable(p) => Acceptable(p)'
  BY <1>1, <1>2, <1>3 DEF Acceptable, Lenient, ProvenanceHolds, Required
<1>5. \A f, s : StatusSound(f, s) => StatusSound(f, s)'
  BY <1>1, <1>2 DEF StatusSound
<1>6. \A l, v : \A p \in Packages : Sound(l, p, v) => Sound(l, p, v)'
  BY <1>1, <1>2, <1>3, <1>5 DEF Sound
<1> QED BY <1>3, <1>4, <1>5, <1>6

\* A package without blocked reasons meets the policy.
LEMMA EmptyReasons ==
  ASSUME TypeOK, NEW w \in Pool, Knows(w), at[w] = "evaluate",
         BlockedReasons(config, Fact(w), view[w]) = {}
  PROVE  Acceptable(Pkg(w))
<1> DEFINE f == Fact(w)
           v == view[w]
<1>1. f \in Facts /\ config \in ConfigSpace /\ v \in Views
  BY FactType DEF TypeOK
<1>2. NameAndSource(config, f) = {}
  BY DEF BlockedReasons
<1>3. /\ f.source \in config.sources \cup {"workspace"}
      /\ ~(f.declared /\ f.source = "git")
      /\ f.squat /\ config.typoSquat = "block" => f.allowlisted
  BY <1>1, <1>2 DEF NameAndSource, When
<1>4. Sound("evaluate", Pkg(w), v)
  BY DEF Knows
<1>5. CASE ~v.resolved
  <2>1. f.source # "registry"
    BY <1>2, <1>5 DEF BlockedReasons, When
  <2> QED BY <1>3, <2>1 DEF Acceptable, Fact
<1>6. CASE v.resolved
  <2>1. /\ f.source = "registry" /\ f.exists /\ Dated(Pkg(w)) /\ (v.date = "old" => OldEnough(Pkg(w)))
        /\ v.priorScripts => f.prior = "scripted"
        /\ config.provenance = "off" \/ StatusSound(f, v.provenance)
    BY <1>4, <1>6 DEF Sound, Fact, Busy, Verified
  <2>2. Release(f, v) = {} /\ Provenance(config, f, v.provenance) = {}
    BY <1>6 DEF BlockedReasons
  <2>3. f.allowlisted \/ (OldEnough(Pkg(w)) /\ f.scripts # "unallowed")
    <3>1. f.allowlisted \/ (v.date # "new" /\ f.scripts # "unallowed")
      BY <2>2 DEF Release, When
    <3>2. v.date \in {"old", "new"}
      BY <1>1 DEF Views, Dates
    <3> QED BY <3>1, <3>2, <2>1
  <2>4. f.scripts = "none" \/ f.prior \in {"none", "scripted"}
    <3>1. v.priorScripts \/ f.scripts = "none" \/ f.prior = "none"
      BY <2>2 DEF Release, When
    <3> QED BY <3>1, <2>1
  <2>5. /\ v.provenance = "missing" => ~Required(config, f)
        /\ v.provenance # "invalid"
        /\ v.provenance = "tooling-unavailable" => config.tooling # "fail-closed" \/ f.sigstore
        /\ v.provenance = "unreachable" => config.offline # "fail-closed"
        /\ v.provenance = "fork" => ~f.pinned
    BY <2>2 DEF Provenance, When
  <2>6. config.tooling \in {"warn", "fail-closed"} /\ config.offline \in {"fail-closed", "allow-cached"}
        /\ f.attestation \in Attestations
    BY <1>1 DEF ConfigSpace, Facts
  <2>7. config.provenance = "off" \/ Lenient \/ ProvenanceHolds(f)
    <3>1. CASE v.provenance = Verify(config, f.attestation)
      BY <2>5, <2>6, <3>1 DEF Verify, ProvenanceHolds, Attestations
    <3>2. CASE v.provenance = "unreachable" /\ hiccups > 0
      BY <2>5, <2>6, <3>2 DEF Lenient
    <3> QED BY <2>1, <2>5, <3>1, <3>2 DEF StatusSound
  <2> QED BY <1>3, <2>1, <2>3, <2>4, <2>7 DEF Acceptable, Fact
<1> QED BY <1>5, <1>6

\* The worker whose step it is, and the memory.
LEMMA KnowsStep ==
  ASSUME TypeOK, AInv, NEW w \in Pool, Proceed(w), ~Evaluate(w),
         NEW p \in Packages, p = Pkg(w), NEW f, f = facts[p], NEW v, v = view[w]
  PROVE  Sound(at[w], p, view[w])' /\ MemorySound'
<1>1. /\ f = facts'[p] /\ f = Fact(w)
      /\ UNCHANGED <<config, facts, disk>>
  BY ProceedFrame DEF Pkg, Fact, input
<1>2. hiccups \in Nat /\ hiccups' \in Nat /\ hiccups <= hiccups'
  BY ProceedHiccups, EvaluationAssumption DEF TypeOK
<1>3. /\ \A q \in Packages : (OldEnough(q) => OldEnough(q)') /\ (Dated(q) => Dated(q)')
      /\ \A g, s : StatusSound(g, s) => StatusSound(g, s)'
  BY <1>2, Monotone, ProceedFrame
<1>4. Sound(at[w], p, v) /\ MemorySound /\ v \in Views /\ w \in DOMAIN at /\ w \in DOMAIN view
  BY DEF AInv, Knows, TypeOK
<1>5. Hiccup => hiccups' > 0
  BY <1>2 DEF Hiccup
<1>6. UNCHANGED memory => MemorySound'
  BY <1>1, <1>3 DEF MemorySound, AInv
<1>10. CASE ReadPrior(w)
  <2>1. at[w] = "prior" /\ UNCHANGED memory
    BY <1>10 DEF ReadPrior, At, caches
  <2>2. \/ at'[w] = "failed"
        \/ at'[w] \in {"manifest"} /\ f.source = "registry" /\ view'[w].resolved = v.resolved
             /\ (view'[w].priorScripts => v.priorScripts \/ f.prior = "scripted")
        \/ at'[w] = "evaluate" /\ f.source # "registry" /\ view'[w] = v
    BY <1>1, <1>4, <1>10 DEF ReadPrior, Fail, Goto, Views
  <2>3. Sound(at[w], p, view[w])'
    BY <1>1, <1>4, <2>1, <2>2 DEF Sound, Busy, Resolving, Verified
  <2> QED BY <1>6, <2>1, <2>3
<1>11. CASE FetchManifest(w)
  <2>1. at[w] = "manifest" /\ UNCHANGED <<memory, view>>
    BY <1>11 DEF FetchManifest, At, Unresolved
  <2>2. at'[w] = "evaluate" \/ (at'[w] = "published" /\ f.exists)
    BY <1>1, <1>4, <1>11 DEF FetchManifest, Goto, Unresolved
  <2>3. Sound(at[w], p, view[w])'
    BY <1>1, <1>4, <2>1, <2>2 DEF Sound, Busy, Resolving, Verified
  <2> QED BY <1>6, <2>1, <2>3
<1>12. ASSUME at[w] \in {"published", "timeMap", "tarball"}, NEW d \in Dates,
              Resolved(w, d), d = "old" => OldEnough(p)', Dated(p)'
       PROVE  Sound(at[w], p, view[w])' /\ MemorySound'
  <2>1. /\ at'[w] = "provenance" /\ view'[w].resolved = TRUE /\ view'[w].date = d
        /\ view'[w].priorScripts = v.priorScripts /\ memory' = [memory EXCEPT ![p] = d]
    BY <1>4, <1>12 DEF Resolved, Goto, Views
  <2>2. Sound(at[w], p, view[w])'
    BY <1>1, <1>4, <1>12, <2>1 DEF Sound, Busy, Resolving, Verified
  <2>3. MemorySound'
    BY <1>1, <1>3, <1>4, <1>12, <2>1 DEF MemorySound, TypeOK
  <2> QED BY <2>2, <2>3
<1>13. ASSUME at[w] \in {"published", "timeMap", "tarball"}, Goto(w, "evaluate"), UNCHANGED <<view, memory>>
       PROVE  Sound(at[w], p, view[w])' /\ MemorySound'
  <2>1. at'[w] = "evaluate" /\ UNCHANGED <<view, memory>>
    BY <1>4, <1>13 DEF Goto
  <2>2. Sound(at[w], p, view[w])'
    BY <1>1, <1>4, <1>13, <2>1 DEF Sound, Busy, Resolving, Verified
  <2> QED BY <1>6, <2>1, <2>2
<1>14. CASE ReadPublished(w)
  <2>1. at[w] = "published"
    BY <1>14 DEF ReadPublished, At
  <2>2. CASE at'[w] = "timeMap" /\ UNCHANGED <<view, memory>>
    <3>1. Sound(at[w], p, view[w])'
      BY <1>1, <1>4, <2>1, <2>2 DEF Sound, Busy, Resolving, Verified
    <3> QED BY <1>6, <2>2, <3>1
  <2>3. CASE Resolved(w, CachedDate(p)) /\ CachedDate(p) # "none"
    <3>1. CachedDate(p) = "old" => OldEnough(p)
      BY <1>1, <1>4 DEF CachedDate, MemorySound, OldEnough, FellBack
    <3>2. CachedDate(p) \in Dates
      BY <1>1, <2>3, CachedDateType
    <3>3. Dated(p)
      BY <1>1, <1>4, <2>3 DEF CachedDate, MemorySound, Dated, FellBack, TypeOK, OnDisk
    <3> QED BY <1>1, <1>3, <1>12, <2>1, <2>3, <3>1, <3>2, <3>3
  <2> QED BY <1>4, <1>13, <1>14, <2>1, <2>2, <2>3 DEF ReadPublished, Unresolved, Goto
<1>15. CASE TimeMap(w)
  <2>1. at[w] = "timeMap"
    BY <1>15 DEF TimeMap, At
  <2>2. CASE at'[w] = "tarball" /\ UNCHANGED <<view, memory>> /\ (f.date = "unlisted" \/ Hiccup)
    <3>1. Sound(at[w], p, view[w])'
      BY <1>1, <1>4, <1>5, <2>1, <2>2 DEF Sound, Busy, Resolving, Verified
    <3> QED BY <1>6, <2>2, <3>1
  <2>3. CASE Resolved(w, f.date) /\ f.date \in Dates
    <3>1. f.date \in Dates
      BY <1>1, <2>3, FactType
    <3>2. f.date = "old" => OldEnough(p)
      BY <1>1 DEF OldEnough
    <3>3. Dated(p)
      BY <1>1, <2>3 DEF Dated
    <3> QED BY <1>1, <1>3, <1>12, <2>1, <2>3, <3>1, <3>2, <3>3
  <2> QED BY <1>1, <1>4, <1>13, <1>15, <2>1, <2>2, <2>3 DEF TimeMap, Unresolved, Goto
<1>16. CASE Tarball(w)
  <2>1. at[w] = "tarball"
    BY <1>16 DEF Tarball, At
  <2>2. CASE Resolved(w, f.header) /\ f.header # "none"
    <3>1. f.header \in Dates
      BY <1>1, <2>2, FactType
    <3>2. f.header = "old" => OldEnough(p)
      BY <1>1, <1>4, <2>1 DEF OldEnough, FellBack, Sound, Busy
    <3>3. Dated(p)
      BY <1>1, <1>4, <2>1, <2>2 DEF Dated, FellBack, Sound, Busy
    <3> QED BY <1>1, <1>3, <1>12, <2>1, <2>2, <3>1, <3>2, <3>3
  <2> QED BY <1>1, <1>13, <1>16, <2>1, <2>2 DEF Tarball, Unresolved
<1>17. CASE VerifyProvenance(w)
  <2>1. at[w] = "provenance" /\ UNCHANGED memory
    BY <1>17 DEF VerifyProvenance, At
  <2>2. \/ at'[w] = "failed"
        \/ at'[w] = "history" /\ view'[w] = v /\ config.provenance = "off"
        \/ /\ at'[w] = "history" /\ StatusSound(f, view[w].provenance)'
           /\ view'[w].resolved = v.resolved /\ view'[w].date = v.date
           /\ view'[w].priorScripts = v.priorScripts
    <3>1. CASE config.provenance = "off"
      BY <1>4, <1>17, <3>1 DEF VerifyProvenance, Goto
    <3>2. CASE Fail(w, "interrupted")
      BY <1>4, <3>2 DEF Fail, Goto
    <3>3. ASSUME NEW s \in Statuses, view' = [view EXCEPT ![w].provenance = s], StatusSound(f, s)',
                 Goto(w, "history")
          PROVE  /\ at'[w] = "history" /\ StatusSound(f, view[w].provenance)'
                 /\ view'[w].resolved = v.resolved /\ view'[w].date = v.date
                 /\ view'[w].priorScripts = v.priorScripts
      BY <1>4, <3>3 DEF Views, Goto
    <3>4. StatusSound(f, Verify(config, f.attestation))'
      BY <1>1 DEF StatusSound
    <3>5. \A s \in Degraded(w) : Hiccup => StatusSound(f, s)'
      BY <1>1, <1>5 DEF Degraded, StatusSound
    <3>6. \/ config.provenance = "off" \/ Fail(w, "interrupted")
          \/ \E s \in Statuses : /\ view' = [view EXCEPT ![w].provenance = s] /\ StatusSound(f, s)'
                                 /\ Goto(w, "history")
      BY <1>1, <1>17, <3>4, <3>5, FactType, DegradedType DEF VerifyProvenance
    <3> QED BY <3>1, <3>2, <3>3, <3>6
  <2>3. Sound(at[w], p, view[w])'
    BY <1>1, <1>3, <1>4, <2>1, <2>2 DEF Sound, Busy, Resolving, Verified
  <2> QED BY <1>6, <2>1, <2>3
<1>18. CASE FetchHistory(w) \/ FetchBaseline(w) \/ FetchTarget(w)
  <2>1. at[w] \in {"history", "baseline", "target"} /\ UNCHANGED memory
    BY <1>18 DEF FetchHistory, FetchBaseline, FetchTarget, At, caches
  <2>2. at'[w] \in {"failed", "baseline", "target", "evaluate"}
    BY <1>4, <1>18 DEF FetchHistory, FetchBaseline, FetchTarget, Classified, Fail, Goto
  <2>3. /\ view'[w].resolved = v.resolved /\ view'[w].date = v.date
        /\ view'[w].priorScripts = v.priorScripts /\ view'[w].provenance = v.provenance
    BY <1>4, <1>18 DEF FetchHistory, FetchBaseline, FetchTarget, Classified, Fail, Views
  <2>4. Sound(at[w], p, view[w])'
    BY <1>1, <1>3, <1>4, <2>1, <2>2, <2>3 DEF Sound, Busy, Resolving, Verified
  <2> QED BY <1>6, <2>1, <2>4
<1> QED BY <1>10, <1>11, <1>14, <1>15, <1>16, <1>17, <1>18 DEF Proceed

LEMMA KnowsMapper ==
  ASSUME TypeOK, AInv, NEW w \in Pool, Proceed(w), ~Evaluate(w)
  PROVE  Knows(w)' /\ MemorySound'
<1>1. Pkg(w)' = Pkg(w) /\ Pkg(w) \in Packages
  BY ProceedView, FactType DEF Pkg
<1>2. PICK p \in Packages : p = Pkg(w)
  BY <1>1
<1>3. Sound(at[w], p, view[w])' /\ MemorySound'
  BY <1>2, KnowsStep
<1> QED BY <1>1, <1>2, <1>3 DEF Knows

LEMMA AInvInit == Init => AInv
  BY PoolFacts DEF Init, AInv, MemorySound, Knows, Sound, ResultsSound, AllowIsEarned, Blank, Busy,
                   Resolving, Verified

\* A step of one worker leaves the others where they are.
LEMMA OthersKept ==
  ASSUME TypeOK, NEW w \in Pool, Proceed(w), NEW u \in Pool \ {w}
  PROVE  at'[u] = at[u] /\ item'[u] = item[u] /\ view'[u] = view[u]
<1>1. at'[u] = at[u]
  BY ProceedPlace DEF TypeOK
<1>2. CASE Evaluate(w)
  BY <1>1, <1>2 DEF Evaluate, Pull, TypeOK
<1>3. CASE ~Evaluate(w)
  <2>1. item' = item
    BY <1>3, ProceedView
  <2>2. view'[u] = view[u]
    BY <1>3 DEF Proceed, ReadPrior, FetchManifest, ReadPublished, TimeMap, Tarball,
         VerifyProvenance, FetchHistory, FetchBaseline, FetchTarget, Unresolved, Resolved,
         Classified, TypeOK
  <2> QED BY <1>1, <2>1, <2>2
<1> QED BY <1>2, <1>3

\* Everything but the worker's own knowledge and the result it adds.
LEMMA AInvOthers ==
  ASSUME TypeOK, AInv, NEW w \in Pool, Proceed(w)
  PROVE  /\ \A u \in Pool \ {w} : Knows(u)'
         /\ AllowIsEarned'
         /\ \A i \in Requests : Acceptable(PackageOf[i]) => Acceptable(PackageOf[i])'
<1>1. hiccups' \in Nat /\ hiccups <= hiccups' /\ UNCHANGED <<input, outcome>>
  BY ProceedHiccups, ProceedFrame, EvaluationAssumption
<1>2. \A i \in Requests : PackageOf[i] \in Packages
  BY EvaluationAssumption
<1>3. \A i \in Requests : Acceptable(PackageOf[i]) => Acceptable(PackageOf[i])'
  BY <1>1, <1>2, Monotone
<1>4. AllowIsEarned'
  BY <1>1, <1>3 DEF AInv, AllowIsEarned
<1>5. ASSUME NEW u \in Pool \ {w} PROVE Knows(u)'
  <2>1. at'[u] = at[u] /\ item'[u] = item[u] /\ view'[u] = view[u]
    BY OthersKept
  <2>2. Pkg(u) \in Packages /\ Sound(at[u], Pkg(u), view[u])
    BY FactType DEF AInv, Knows
  <2>3. Sound(at[u], Pkg(u), view[u])'
    BY <1>1, <2>1, <2>2, Monotone DEF Pkg
  <2> QED BY <2>3 DEF Knows
<1> QED BY <1>3, <1>4, <1>5

LEMMA AInvMapper ==
  ASSUME TypeOK, AInv, NEW w \in Pool, Proceed(w), ~Evaluate(w)
  PROVE  AInv'
<1>1. ResultsSound'
  <2>1. evaluated' = evaluated /\ results' = results /\ evaluated \subseteq Requests
    BY ProceedView DEF verdict, TypeOK
  <2> QED BY <2>1, AInvOthers DEF AInv, ResultsSound
<1> QED BY <1>1, KnowsMapper, AInvOthers DEF AInv

LEMMA AInvEvaluate ==
  ASSUME TypeOK, AInv, NEW w \in Pool, Evaluate(w)
  PROVE  AInv'
<1>1. Proceed(w) /\ Knows(w) /\ at[w] = "evaluate" /\ UNCHANGED <<input, caches, hiccups>>
  BY DEF Proceed, Evaluate, AInv, At
<1>2. MemorySound'
  BY <1>1 DEF MemorySound, OldEnough, Dated, FellBack, AInv, input, caches
<1>3. ResultsSound'
  <2>1. item[w] \in Requests /\ evaluated \subseteq Requests /\ results \in [Requests -> SUBSET Codes]
    BY DEF TypeOK
  <2>2. /\ results' = [results EXCEPT ![item[w]] = BlockedReasons(config, Fact(w), view[w])]
        /\ evaluated' = evaluated \cup {item[w]}
    BY DEF Evaluate
  <2>3. BlockedReasons(config, Fact(w), view[w]) = {} => Acceptable(PackageOf[item[w]])
    BY <1>1, EmptyReasons DEF Pkg
  <2>4. \A i \in Requests : Acceptable(PackageOf[i]) => Acceptable(PackageOf[i])'
    BY <1>1, AInvOthers
  <2>5. ASSUME NEW i \in evaluated', results'[i] = {} PROVE Acceptable(PackageOf[i])'
    <3>1. CASE i = item[w]
      BY <3>1, <2>1, <2>2, <2>3, <2>4, <2>5
    <3>2. CASE i # item[w]
      BY <3>2, <2>1, <2>2, <2>4, <2>5 DEF AInv, ResultsSound
    <3> QED BY <3>1, <3>2
  <2> QED BY <2>5 DEF ResultsSound
<1>4. Knows(w)'
  <2>1. view[w] \in Views /\ w \in DOMAIN at /\ w \in DOMAIN view
    BY DEF TypeOK
  <2>2. at'[w] = "done" \/ (at'[w] = "prior" /\ view'[w] = Blank)
    BY <2>1 DEF Evaluate, Pull, Goto
  <2> QED BY <2>2 DEF Knows, Sound, Blank, Busy, Resolving, Verified
<1> QED BY <1>1, <1>2, <1>3, <1>4, AInvOthers DEF AInv

LEMMA AInvCommand ==
  ASSUME TypeOK, AInv, PoolComplete', Report \/ Interrupt \/ UNCHANGED vars
  PROVE  AInv'
<1>1. /\ UNCHANGED <<config, facts, disk, memory, at, item, view, evaluated, results, hiccups>>
      /\ \/ outcome' = outcome
         \/ outcome' = "allow" => \A i \in Requests : results[i] = {}
  BY DEF Report, Interrupt, vars, input, caches, worker, verdict, TypeOK
<1>2. \A p \in Packages : OldEnough(p)' = OldEnough(p) /\ Dated(p)' = Dated(p)
  BY <1>1 DEF OldEnough, Dated, FellBack
<1>3. \A i \in Requests : Acceptable(PackageOf[i])' = Acceptable(PackageOf[i])
  BY <1>1, <1>2, EvaluationAssumption DEF Acceptable, Lenient, ProvenanceHolds, Required
<1>4. MemorySound' /\ ResultsSound'
  BY <1>1, <1>2, <1>3 DEF AInv, MemorySound, ResultsSound, TypeOK
<1>5. \A w \in Pool : Knows(w)'
  <2>1. \A w \in Pool : Pkg(w) \in Packages
    BY FactType
  <2> QED BY <1>1, <1>2, <2>1 DEF AInv, Knows, Sound, StatusSound, Pkg
<1>6. AllowIsEarned'
  <2>1. CASE outcome' = outcome
    BY <1>3, <2>1 DEF AInv, AllowIsEarned
  <2>2. CASE outcome' = "allow" /\ \A i \in Requests : results[i] = {}
    BY <1>1, <1>3, <2>2 DEF AInv, AllowIsEarned, ResultsSound, PoolComplete
  <2>3. CASE outcome' # "allow"
    BY <2>3 DEF AllowIsEarned
  <2> QED BY <1>1, <2>1, <2>2, <2>3
<1> QED BY <1>4, <1>5, <1>6 DEF AInv

LEMMA AInvNext == TypeOK /\ AInv /\ PInv' /\ [Next]_vars => AInv'
<1> SUFFICES ASSUME TypeOK, AInv, PInv', [Next]_vars PROVE AInv'
  OBVIOUS
<1>1. ASSUME NEW w \in Pool, Proceed(w) PROVE AInv'
  BY <1>1, AInvMapper, AInvEvaluate
<1>2. CASE Report \/ Interrupt \/ UNCHANGED vars
  BY <1>2, AInvCommand DEF PInv
<1> QED BY <1>1, <1>2 DEF Next, Finished

\* Fail closed, for any number of requests, workers and failing requests, and
\* any facts: an allowed package meets the policy, its age rests on what a
\* cache or the registry said, and an attestation it needs was seen or waived.
THEOREM AllowIsSound == Spec => []AllowIsEarned
<1>1. AInv => AllowIsEarned
  BY DEF AInv
<1>2. TypeOK /\ PInv /\ [Next]_vars => PInv'
  BY PInvNext
<1>3. Spec => []PInv
  BY PInvInit, <1>2, TypeCorrect, PTL DEF Spec
<1> QED BY <1>1, <1>3, AInvInit, AInvNext, TypeCorrect, PTL DEF Spec
-----------------------------------------------------------------------------
(* The exact verdict *)

Quiet == Undisturbed /\ ~interrupted

\* What the registry has to say about a package.
TrueDate(f)   == IF f.date # "unlisted" THEN f.date ELSE f.header
TrueStatus(f) == IF config.provenance = "off" THEN "unchecked" ELSE Verify(config, f.attestation)
TrueIds(f)    == [k \in DOMAIN Baseline(config, f) |-> Identity(Baseline(config, f)[k])]
TrueContinuity(f) ==
  IF config.continuity = "off" THEN "unevaluated"
  ELSE IF Baseline(config, f) = <<>> THEN "no-baseline"
  ELSE Classify(TrueIds(f), Identity(f.attestation))

\* What is known of a package at a place of the mapper is what the facts are,
\* beyond Sound, which says that it is no better.
Exact(l, p, v) ==
  LET f == facts[p]
  IN /\ l # "failed"
     /\ l \in Busy =>
          /\ l = "prior" => ~v.priorScripts
          /\ l # "prior" /\ f.source = "registry" => v.priorScripts = (f.prior = "scripted")
          /\ l \in Resolving \cup {"provenance"} => v.provenance = "unchecked"
          /\ l \notin {"target", "evaluate"} => v.continuity = "unevaluated"
          /\ l \in {"provenance", "history", "baseline", "target"} => v.resolved
          /\ v.resolved => v.date = TrueDate(f)
          /\ l = "evaluate" /\ f.source = "registry" /\ ~v.resolved => ~f.exists \/ ~Dated(p)
          /\ l \in Verified /\ v.resolved => v.provenance = TrueStatus(f)
          /\ l \in {"baseline", "target"} => config.continuity # "off" /\ Baseline(config, f) # <<>>
          /\ l = "target" => v.baseline = TrueIds(f)
          /\ l = "evaluate" /\ v.resolved => v.continuity = TrueContinuity(f)

KnowsExactly(w) == Exact(at[w], Pkg(w), view[w])

MemoryExact == \A p \in Packages : memory[p] # "none" => memory[p] = TrueDate(facts[p])

Passes(i) == Acceptable(PackageOf[i]) /\ Unbroken(PackageOf[i])

ResultsExact == \A i \in evaluated : results[i] = {} <=> Passes(i)

EInv ==
  Quiet => /\ cause = "none" /\ MemoryExact /\ (\A w \in Pool : KnowsExactly(w))
           /\ ResultsExact /\ VerdictIsExact

\* A package that meets the policy has no blocked reasons, and the other way round.
LEMMA ExactReasons ==
  ASSUME TypeOK, Quiet, NEW w \in Pool, Knows(w), KnowsExactly(w), at[w] = "evaluate"
  PROVE  BlockedReasons(config, Fact(w), view[w]) = {} <=> Acceptable(Pkg(w)) /\ Unbroken(Pkg(w))
<1> DEFINE f == Fact(w)
           v == view[w]
<1>1. f \in Facts /\ config \in ConfigSpace /\ v \in Views /\ f = facts[Pkg(w)] /\ Pkg(w) \in Packages
  BY FactType DEF TypeOK, Fact
<1>2. Sound("evaluate", Pkg(w), v) /\ Exact("evaluate", Pkg(w), v)
  BY DEF Knows, KnowsExactly
<1>3. /\ f.source # "registry" => ~v.resolved
      /\ f.source = "registry" => v.priorScripts = (f.prior = "scripted")
      /\ v.resolved => /\ f.source = "registry" /\ f.exists /\ Dated(Pkg(w))
                       /\ v.date = TrueDate(f) /\ v.provenance = TrueStatus(f)
                       /\ v.continuity = TrueContinuity(f)
      /\ f.source = "registry" /\ ~v.resolved => ~f.exists \/ ~Dated(Pkg(w))
  BY <1>1, <1>2 DEF Sound, Exact, Busy, Verified
<1>4. v.resolved => Unbroken(Pkg(w)) <=> Continuity(config, v) = {}
  <2> SUFFICES ASSUME v.resolved PROVE Unbroken(Pkg(w)) <=> Continuity(config, v) = {}
    OBVIOUS
  <2>1. Classify(TrueIds(f), Identity(f.attestation)) \in Continuities
    BY ClassifyType
  <2>2. CASE config.continuity # "block"
    BY <1>1, <2>2 DEF Unbroken, Continuity
  <2>3. CASE config.continuity = "block" /\ Baseline(config, f) = <<>>
    BY <1>1, <1>3, <2>3 DEF Unbroken, Continuity, TrueContinuity
  <2>4. CASE config.continuity = "block" /\ Baseline(config, f) # <<>>
    <3>1. v.continuity = Classify(TrueIds(f), Identity(f.attestation))
      BY <1>3, <2>4 DEF TrueContinuity
    <3>2. Unbroken(Pkg(w)) <=> v.continuity \in {"no-baseline", "consistent"}
      BY <1>1, <1>3, <2>4, <3>1 DEF Unbroken, TrueIds
    <3>3. v.continuity \in {"no-baseline", "consistent", "provenance-downgrade", "identity-discontinuity"}
      BY <3>1 DEF Classify
    <3> QED BY <2>4, <3>2, <3>3 DEF Continuity
  <2> QED BY <2>2, <2>3, <2>4
<1>5. ASSUME BlockedReasons(config, f, v) = {} PROVE Acceptable(Pkg(w)) /\ Unbroken(Pkg(w))
  <2>1. Acceptable(Pkg(w))
    BY <1>5, EmptyReasons
  <2>2. CASE v.resolved
    BY <1>4, <1>5, <2>1, <2>2 DEF BlockedReasons
  <2>3. CASE ~v.resolved
    <3>1. f.source # "registry"
      BY <1>5, <2>3 DEF BlockedReasons, When
    <3> QED BY <1>1, <2>1, <3>1 DEF Unbroken
  <2> QED BY <2>2, <2>3
<1>6. ASSUME Acceptable(Pkg(w)), Unbroken(Pkg(w)) PROVE BlockedReasons(config, f, v) = {}
  <2>1. /\ f.source \in config.sources \cup {"workspace"}
        /\ ~(f.declared /\ f.source = "git")
        /\ f.squat /\ config.typoSquat = "block" => f.allowlisted
    BY <1>1, <1>6 DEF Acceptable
  <2>2. NameAndSource(config, f) = {}
    BY <2>1 DEF NameAndSource, When
  <2>3. CASE ~v.resolved
    <3>1. f.source # "registry"
      BY <1>1, <1>3, <1>6, <2>3 DEF Acceptable
    <3> QED BY <2>2, <2>3, <3>1 DEF BlockedReasons, When
  <2>4. CASE v.resolved
    <3>1. /\ f.allowlisted \/ (OldEnough(Pkg(w)) /\ f.scripts # "unallowed")
          /\ f.scripts = "none" \/ f.prior \in {"none", "scripted"}
          /\ config.provenance = "off" \/ Lenient \/ ProvenanceHolds(f)
      BY <1>1, <1>3, <1>6, <2>4 DEF Acceptable
    <3>2. hiccups = 0 /\ disk[Pkg(w)] # "fallback"
      BY <1>1 DEF Quiet, Undisturbed
    <3>3. OldEnough(Pkg(w)) => v.date = "old"
      BY <1>1, <1>3, <2>4, <3>2 DEF OldEnough, FellBack, TrueDate
    <3>4. Release(f, v) = {}
      BY <1>3, <2>4, <3>1, <3>3 DEF Release, When
    <3>5. Provenance(config, f, v.provenance) = {}
      <4>1. f.attestation \in Attestations /\ config.tooling \in {"warn", "fail-closed"}
        BY <1>1 DEF Facts, ConfigSpace
      <4>2. CASE config.provenance = "off"
        BY <1>3, <2>4, <4>2 DEF TrueStatus, Provenance, When
      <4>3. CASE config.provenance # "off"
        <5>1. ProvenanceHolds(f) /\ v.provenance = Verify(config, f.attestation)
          BY <1>3, <2>4, <3>1, <3>2, <4>3 DEF TrueStatus, Lenient
        <5> QED BY <4>1, <5>1 DEF Provenance, When, Verify, ProvenanceHolds, Attestations
      <4> QED BY <4>2, <4>3
    <3> QED BY <1>4, <1>6, <2>2, <2>4, <3>4, <3>5 DEF BlockedReasons
  <2> QED BY <2>3, <2>4
<1> QED BY <1>5, <1>6

\* Without a failure nothing that the policy promises changes.
LEMMA PassesKept ==
  ASSUME UNCHANGED <<config, facts, disk, hiccups>>
  PROVE  /\ \A p : Acceptable(p)' = Acceptable(p) /\ Unbroken(p)' = Unbroken(p)
         /\ \A i : Passes(i)' = Passes(i)
<1>1. \A p : OldEnough(p)' = OldEnough(p) /\ Dated(p)' = Dated(p)
  BY DEF OldEnough, Dated, FellBack
<1>2. \A p : Acceptable(p)' = Acceptable(p)
  BY <1>1 DEF Acceptable, Lenient, ProvenanceHolds, Required
<1>3. \A p : Unbroken(p)' = Unbroken(p)
  BY DEF Unbroken
<1> QED BY <1>2, <1>3 DEF Passes

\* A run that is quiet after a step was quiet before it, and nothing failed in it.
LEMMA QuietBack ==
  ASSUME TypeOK, NEW w \in Pool, Proceed(w), Quiet'
  PROVE  /\ Quiet /\ ~interrupted /\ hiccups = 0 /\ hiccups' = 0
         /\ UNCHANGED <<config, facts, disk, interrupted, outcome>>
         /\ \A p \in Packages : disk[p] # "fallback"
<1>1. hiccups' = 0 /\ ~interrupted' /\ \A p \in Packages : disk'[p] # "fallback"
  BY DEF Quiet, Undisturbed
<1>2. hiccups \in Nat /\ hiccups <= hiccups'
  BY ProceedHiccups, EvaluationAssumption DEF TypeOK
<1>3. UNCHANGED <<config, facts, disk, interrupted, outcome>>
  BY ProceedFrame DEF input
<1>4. hiccups = 0
  BY <1>1, <1>2
<1> QED BY <1>1, <1>3, <1>4 DEF Quiet, Undisturbed

\* The worker whose step it is, and the memory.
LEMMA ExactStep ==
  ASSUME TypeOK, AInv, EInv, NEW w \in Pool, Proceed(w), ~Evaluate(w), Quiet',
         NEW p \in Packages, p = Pkg(w), NEW f, f = facts[p], NEW v, v = view[w]
  PROVE  Exact(at[w], p, view[w])' /\ MemoryExact' /\ cause' = "none"
<1>1. /\ f = facts'[p] /\ f = Fact(w) /\ f \in Facts
      /\ UNCHANGED <<config, facts, disk>> /\ ~interrupted /\ hiccups = 0 /\ hiccups' = 0
      /\ disk[p] # "fallback" /\ disk[p] \in OnDisk(p)
  BY QuietBack, FactType DEF Pkg, Fact, TypeOK
<1>2. ~Hiccup
  BY <1>1 DEF Hiccup
<1>3. cause = "none" /\ MemoryExact /\ Exact(at[w], p, v)
  BY QuietBack DEF EInv, KnowsExactly
<1>4. Sound(at[w], p, v) /\ MemorySound /\ v \in Views /\ w \in DOMAIN at /\ w \in DOMAIN view
  BY DEF AInv, Knows, TypeOK
<1>5. /\ UNCHANGED memory => MemoryExact'
      /\ TrueStatus(f)' = TrueStatus(f) /\ TrueIds(f)' = TrueIds(f)
      /\ TrueContinuity(f)' = TrueContinuity(f)
  BY <1>1, <1>3 DEF MemoryExact, TrueStatus, TrueIds, TrueContinuity
<1>10. CASE ReadPrior(w)
  <2>1. at[w] = "prior" /\ UNCHANGED memory
    BY <1>10 DEF ReadPrior, At, caches
  <2>2. cause' = "none"
    BY <1>1, <1>2, <1>3, <1>10 DEF ReadPrior
  <2>3. \/ /\ f.source # "registry" /\ at'[w] = "evaluate" /\ view'[w] = v
        \/ /\ f.source = "registry" /\ f.prior = "none" /\ at'[w] = "manifest" /\ view'[w] = v
        \/ /\ f.source = "registry" /\ at'[w] = "manifest"
           /\ view'[w] = [v EXCEPT !.priorScripts = (f.prior = "scripted")]
    BY <1>1, <1>2, <1>4, <1>10 DEF ReadPrior, Goto
  <2>4. Exact(at[w], p, view[w])'
    BY <1>1, <1>3, <1>4, <2>1, <2>3 DEF Exact, Sound, Busy, Resolving, Verified, Views
  <2> QED BY <1>5, <2>1, <2>2, <2>4
<1>11. CASE FetchManifest(w)
  <2>1. at[w] = "manifest" /\ UNCHANGED <<memory, view, cause>>
    BY <1>11 DEF FetchManifest, At, Unresolved
  <2>2. \/ at'[w] = "published"
        \/ at'[w] = "evaluate" /\ ~f.exists
    BY <1>1, <1>2, <1>4, <1>11 DEF FetchManifest, Goto, Unresolved
  <2>3. Exact(at[w], p, view[w])'
    BY <1>1, <1>3, <1>4, <2>1, <2>2 DEF Exact, Sound, Busy, Resolving, Verified
  <2> QED BY <1>3, <1>5, <2>1, <2>3
<1>12. ASSUME at[w] \in {"published", "timeMap", "tarball"}, NEW d \in Dates,
              Resolved(w, d), d = TrueDate(f)
       PROVE  Exact(at[w], p, view[w])' /\ MemoryExact'
  <2>1. /\ at'[w] = "provenance" /\ view'[w] = [v EXCEPT !.resolved = TRUE, !.date = d]
        /\ memory' = [memory EXCEPT ![p] = d]
    BY <1>4, <1>12 DEF Resolved, Goto
  <2>2. f.source = "registry"
    BY <1>1, <1>4, <1>12 DEF Sound, Busy
  <2>3. Exact(at[w], p, view[w])'
    BY <1>1, <1>3, <1>4, <1>12, <2>1, <2>2 DEF Exact, Busy, Resolving, Verified, Views
  <2>4. MemoryExact'
    BY <1>1, <1>3, <1>12, <2>1 DEF MemoryExact, TypeOK
  <2> QED BY <2>3, <2>4
<1>14. CASE ReadPublished(w)
  <2>1. at[w] = "published" /\ UNCHANGED cause
    BY <1>14 DEF ReadPublished, At
  <2>2. CASE at'[w] = "timeMap" /\ UNCHANGED <<view, memory>>
    <3>1. Exact(at[w], p, view[w])'
      BY <1>1, <1>3, <1>4, <2>1, <2>2 DEF Exact, Busy, Resolving, Verified
    <3> QED BY <1>3, <1>5, <2>1, <2>2, <3>1
  <2>3. CASE Resolved(w, CachedDate(p)) /\ CachedDate(p) # "none"
    <3>1. CachedDate(p) = TrueDate(f)
      <4>1. memory[p] # "none" => memory[p] = TrueDate(f)
        BY <1>3 DEF MemoryExact
      <4>2. disk[p] = "time" => f.date = TrueDate(f)
        BY <1>1 DEF OnDisk, TrueDate, Dates
      <4> QED BY <1>1, <2>3, <4>1, <4>2 DEF CachedDate
    <3>2. CachedDate(p) \in Dates
      BY <1>1, <2>3, CachedDateType
    <3> QED BY <1>3, <1>12, <2>1, <2>3, <3>1, <3>2
  <2> QED BY <1>1, <1>4, <1>14, <2>2, <2>3 DEF ReadPublished, Goto
<1>15. CASE TimeMap(w)
  <2>1. at[w] = "timeMap" /\ UNCHANGED cause
    BY <1>15 DEF TimeMap, At
  <2>2. CASE at'[w] = "tarball" /\ UNCHANGED <<view, memory>>
    <3>1. Exact(at[w], p, view[w])'
      BY <1>1, <1>3, <1>4, <2>1, <2>2 DEF Exact, Busy, Resolving, Verified
    <3> QED BY <1>3, <1>5, <2>1, <2>2, <3>1
  <2>3. CASE Resolved(w, f.date) /\ f.date \in Dates
    <3>1. f.date \in Dates
      BY <1>1, <2>3, FactType
    <3>2. f.date = TrueDate(f)
      BY <2>3 DEF TrueDate, Dates
    <3> QED BY <1>3, <1>12, <2>1, <2>3, <3>1, <3>2
  <2>4. CASE at'[w] = "evaluate" /\ UNCHANGED <<view, memory>> /\ f.date = "invalid"
    <3>1. ~Dated(p)'
      BY <1>1, <2>4 DEF Dated, FellBack, Dates
    <3>2. Exact(at[w], p, view[w])'
      BY <1>1, <1>3, <1>4, <2>1, <2>4, <3>1 DEF Exact, Sound, Busy, Resolving, Verified
    <3> QED BY <1>3, <1>5, <2>1, <2>4, <3>2
  <2> QED BY <1>1, <1>2, <1>4, <1>15, <2>2, <2>3, <2>4 DEF TimeMap, Goto
<1>16. CASE Tarball(w)
  <2>1. at[w] = "tarball" /\ UNCHANGED cause /\ f.date = "unlisted"
    BY <1>1, <1>4, <1>16 DEF Tarball, At, Sound, Busy
  <2>2. CASE Resolved(w, f.header) /\ f.header # "none"
    <3>1. f.header \in Dates
      BY <1>1, <2>2, FactType
    <3>2. f.header = TrueDate(f)
      BY <2>1 DEF TrueDate
    <3> QED BY <1>3, <1>12, <2>1, <2>2, <3>1, <3>2
  <2>3. CASE at'[w] = "evaluate" /\ UNCHANGED <<view, memory>> /\ f.header = "none"
    <3>1. ~Dated(p)'
      BY <1>1, <2>1, <2>3 DEF Dated, Dates
    <3>2. Exact(at[w], p, view[w])'
      BY <1>1, <1>3, <1>4, <2>1, <2>3, <3>1 DEF Exact, Sound, Busy, Resolving, Verified
    <3> QED BY <1>3, <1>5, <2>1, <2>3, <3>2
  <2> QED BY <1>1, <1>2, <1>4, <1>16, <2>2, <2>3 DEF Tarball, Unresolved, Goto
<1>17. CASE VerifyProvenance(w)
  <2>1. at[w] = "provenance" /\ UNCHANGED memory /\ cause' = "none"
    BY <1>1, <1>2, <1>3, <1>17 DEF VerifyProvenance, At
  <2>2. /\ at'[w] = "history"
        /\ \/ view'[w] = v /\ config.provenance = "off"
           \/ /\ config.provenance # "off"
              /\ view'[w] = [v EXCEPT !.provenance = Verify(config, f.attestation)]
    BY <1>1, <1>2, <1>4, <1>17 DEF VerifyProvenance, Goto
  <2>3. view'[w].provenance = TrueStatus(f)
    BY <1>3, <1>4, <2>1, <2>2 DEF Exact, Busy, Resolving, TrueStatus, Views
  <2>4. Exact(at[w], p, view[w])'
    BY <1>1, <1>3, <1>4, <1>5, <2>1, <2>2, <2>3 DEF Exact, Busy, Resolving, Verified, Views
  <2> QED BY <1>5, <2>1, <2>4
<1>18. CASE FetchHistory(w)
  <2>1. at[w] = "history" /\ UNCHANGED memory /\ cause' = "none"
    BY <1>1, <1>2, <1>3, <1>18 DEF FetchHistory, At, caches
  <2>2. \/ config.continuity = "off" /\ at'[w] = "evaluate" /\ view'[w] = v
        \/ /\ config.continuity # "off" /\ Baseline(config, f) = <<>>
           /\ at'[w] = "evaluate" /\ view'[w] = [v EXCEPT !.continuity = "no-baseline"]
        \/ /\ config.continuity # "off" /\ Baseline(config, f) # <<>>
           /\ at'[w] = "baseline" /\ view'[w] = v
    BY <1>1, <1>2, <1>4, <1>18 DEF FetchHistory, Goto
  <2>3. at'[w] = "evaluate" => view'[w].continuity = TrueContinuity(f)
    BY <1>3, <1>4, <2>1, <2>2 DEF Exact, Busy, TrueContinuity, Views
  <2>4. Exact(at[w], p, view[w])'
    BY <1>1, <1>3, <1>4, <1>5, <2>1, <2>2, <2>3 DEF Exact, Busy, Resolving, Verified, Views
  <2> QED BY <1>5, <2>1, <2>4
<1>19. CASE FetchBaseline(w)
  <2> DEFINE base == Baseline(config, f)
             learned(lost) == [k \in DOMAIN base |-> IF k \in lost THEN "none" ELSE Identity(base[k])]
  <2>1. at[w] = "baseline" /\ UNCHANGED memory /\ cause' = "none" /\ at'[w] = "target"
    BY <1>1, <1>3, <1>4, <1>19 DEF FetchBaseline, At, Goto, caches
  <2>2. PICK lost \in SUBSET DOMAIN base :
          hiccups' = hiccups + Cardinality(lost) /\ view' = [view EXCEPT ![w].baseline = learned(lost)]
    BY <1>1, <1>19 DEF FetchBaseline
  <2>3. lost = {}
    <3>1. base \in Seq(Attestations)
      BY <1>1, FactType, BaselineType
    <3>2. Cardinality(lost) \in Nat /\ (Cardinality(lost) = 0 => lost = {})
      BY <3>1, LearnedType
    <3>3. Cardinality(lost) = 0
      BY <1>1, <2>2, <3>2
    <3> QED BY <3>2, <3>3
  <2>6. learned(lost) = TrueIds(f)
    BY <2>3 DEF TrueIds
  <2> HIDE DEF learned
  <2>4. view'[w] = [v EXCEPT !.baseline = learned(lost)]
    BY <1>4, <2>2
  <2>5. Exact(at[w], p, view[w])'
    BY <1>1, <1>3, <1>4, <1>5, <2>1, <2>4, <2>6 DEF Exact, Busy, Resolving, Verified, Views
  <2> QED BY <1>5, <2>1, <2>5
<1>20. CASE FetchTarget(w)
  <2>1. at[w] = "target" /\ UNCHANGED memory /\ cause' = "none" /\ at'[w] = "evaluate"
        /\ view'[w] = [v EXCEPT !.continuity = Classify(v.baseline, Identity(f.attestation))]
    BY <1>1, <1>2, <1>3, <1>4, <1>20 DEF FetchTarget, Classified, At, Goto
  <2>2. Classify(v.baseline, Identity(f.attestation)) = TrueContinuity(f)
    BY <1>1, <1>3, <2>1 DEF Exact, Busy, TrueContinuity
  <2>3. Exact(at[w], p, view[w])'
    BY <1>1, <1>3, <1>4, <1>5, <2>1, <2>2 DEF Exact, Busy, Resolving, Verified, Views
  <2> QED BY <1>5, <2>1, <2>3
<1> QED BY <1>10, <1>11, <1>14, <1>15, <1>16, <1>17, <1>18, <1>19, <1>20 DEF Proceed

LEMMA ExactInit == Init => EInv
<1> SUFFICES ASSUME Init PROVE EInv
  OBVIOUS
<1>1. MemoryExact /\ ResultsExact /\ VerdictIsExact /\ cause = "none"
  BY DEF Init, MemoryExact, ResultsExact, VerdictIsExact
<1>2. \A w \in Pool : at[w] = "prior" /\ view[w] = Blank
  BY DEF Init
<1>3. \A w \in Pool : KnowsExactly(w)
  BY <1>2 DEF KnowsExactly, Exact, Blank, Busy, Resolving, Verified
<1> QED BY <1>1, <1>3 DEF EInv

\* Everything but the worker's own knowledge and the result it adds.
LEMMA ExactOthers ==
  ASSUME TypeOK, EInv, NEW w \in Pool, Proceed(w), Quiet'
  PROVE  /\ \A u \in Pool \ {w} : KnowsExactly(u)'
         /\ VerdictIsExact'
         /\ \A i : Passes(i)' = Passes(i)
<1>1. /\ UNCHANGED <<config, facts, disk, interrupted, outcome>> /\ hiccups' = hiccups
      /\ (\A u \in Pool : KnowsExactly(u)) /\ VerdictIsExact
  BY QuietBack DEF EInv
<1>2. \A i : Passes(i)' = Passes(i)
  BY <1>1, PassesKept
<1>3. VerdictIsExact'
  BY <1>1, <1>2 DEF VerdictIsExact, Passes, Undisturbed
<1>4. ASSUME NEW u \in Pool \ {w} PROVE KnowsExactly(u)'
  <2>1. at'[u] = at[u] /\ item'[u] = item[u] /\ view'[u] = view[u]
    BY OthersKept
  <2> QED BY <1>1, <2>1 DEF KnowsExactly, Exact, Dated, FellBack, Pkg, TrueStatus, TrueIds,
         TrueContinuity
<1> QED BY <1>2, <1>3, <1>4

LEMMA ExactMapper ==
  ASSUME TypeOK, AInv, EInv, NEW w \in Pool, Proceed(w), ~Evaluate(w)
  PROVE  EInv'
<1> SUFFICES ASSUME Quiet' PROVE EInv'
  BY DEF EInv
<1>1. Pkg(w)' = Pkg(w) /\ Pkg(w) \in Packages /\ UNCHANGED <<evaluated, results>>
  BY ProceedView, FactType DEF Pkg, verdict
<1>2. PICK p \in Packages : p = Pkg(w)
  BY <1>1
<1>3. Exact(at[w], p, view[w])' /\ MemoryExact' /\ cause' = "none"
  BY <1>2, ExactStep
<1>4. KnowsExactly(w)'
  BY <1>1, <1>2, <1>3 DEF KnowsExactly
<1>5. ResultsExact'
  BY <1>1, ExactOthers, QuietBack DEF EInv, ResultsExact
<1> QED BY <1>3, <1>4, <1>5, ExactOthers DEF EInv

LEMMA ExactEvaluate ==
  ASSUME TypeOK, AInv, EInv, NEW w \in Pool, Evaluate(w)
  PROVE  EInv'
<1> SUFFICES ASSUME Quiet' PROVE EInv'
  BY DEF EInv
<1>1. Proceed(w) /\ at[w] = "evaluate" /\ UNCHANGED <<facts, memory, cause>>
  BY DEF Proceed, Evaluate, At, input, caches
<1>2. /\ Quiet /\ MemoryExact /\ ResultsExact /\ KnowsExactly(w) /\ cause = "none"
      /\ \A i : Passes(i)' = Passes(i)
  BY <1>1, QuietBack, ExactOthers DEF EInv
<1>3. MemoryExact'
  BY <1>1, <1>2 DEF MemoryExact
<1>4. ResultsExact'
  <2>1. item[w] \in Requests /\ evaluated \subseteq Requests /\ results \in [Requests -> SUBSET Codes]
    BY DEF TypeOK
  <2>2. /\ results' = [results EXCEPT ![item[w]] = BlockedReasons(config, Fact(w), view[w])]
        /\ evaluated' = evaluated \cup {item[w]}
    BY DEF Evaluate
  <2>3. BlockedReasons(config, Fact(w), view[w]) = {} <=> Passes(item[w])
    BY <1>1, <1>2, ExactReasons DEF AInv, Passes, Pkg
  <2>4. ASSUME NEW i \in evaluated' PROVE results'[i] = {} <=> Passes(i)
    <3>1. CASE i = item[w]
      BY <2>1, <2>2, <2>3, <3>1
    <3>2. CASE i # item[w]
      BY <1>2, <2>1, <2>2, <2>4, <3>2 DEF ResultsExact
    <3> QED BY <3>1, <3>2
  <2> QED BY <1>2, <2>4 DEF ResultsExact
<1>5. KnowsExactly(w)'
  <2>1. w \in DOMAIN at /\ w \in DOMAIN view
    BY DEF TypeOK
  <2>2. at'[w] = "done" \/ (at'[w] = "prior" /\ view'[w] = Blank)
    BY <2>1 DEF Evaluate, Pull, Goto
  <2> QED BY <2>2 DEF KnowsExactly, Exact, Blank, Busy, Resolving, Verified
<1> QED BY <1>1, <1>2, <1>3, <1>4, <1>5, ExactOthers DEF EInv

LEMMA ExactCommand ==
  ASSUME TypeOK, EInv, PoolComplete', Report \/ Interrupt \/ UNCHANGED vars
  PROVE  EInv'
<1> SUFFICES ASSUME Quiet' PROVE EInv'
  BY DEF EInv
<1>1. /\ UNCHANGED <<config, facts, disk, memory, at, item, view, evaluated, results, cause, hiccups,
                     interrupted>>
      /\ Report \/ outcome' = outcome
  BY DEF Report, Interrupt, Quiet, vars, input, caches, worker, verdict
<1>2. Quiet
  BY <1>1 DEF Quiet, Undisturbed
<1>3. cause = "none" /\ MemoryExact /\ (\A w \in Pool : KnowsExactly(w)) /\ ResultsExact /\ VerdictIsExact
  BY <1>2 DEF EInv
<1>4. \A i : Passes(i)' = Passes(i)
  BY <1>1, PassesKept
<1>5. MemoryExact' /\ ResultsExact'
  BY <1>1, <1>3, <1>4 DEF MemoryExact, ResultsExact
<1>6. \A w \in Pool : KnowsExactly(w)'
  BY <1>1, <1>3 DEF KnowsExactly, Exact, Dated, FellBack, Pkg, TrueStatus, TrueIds,
         TrueContinuity
<1>7. VerdictIsExact'
  <2>1. CASE outcome' = outcome
    BY <1>1, <1>2, <1>3, <1>4, <2>1 DEF VerdictIsExact, Passes, Quiet
  <2>2. CASE Report
    <3>1. outcome' = IF \E i \in Requests : results[i] # {} THEN "block" ELSE "allow"
      BY <1>2, <1>3, <2>2 DEF Report, Quiet
    <3>2. evaluated' = Requests
      BY <3>1 DEF PoolComplete
    <3>3. \A i \in Requests : results[i] = {} <=> Passes(i)
      BY <1>1, <1>3, <3>2 DEF ResultsExact
    <3>4. outcome' = IF \A i \in Requests : Passes(i) THEN "allow" ELSE "block"
      BY <3>1, <3>3
    <3>5. outcome' = IF \A i \in Requests : Passes(i)' THEN "allow" ELSE "block"
      BY <1>4, <3>4
    <3> QED BY <3>5 DEF VerdictIsExact, Passes
  <2> QED BY <1>1, <2>1, <2>2
<1> QED BY <1>1, <1>3, <1>5, <1>6, <1>7 DEF EInv

LEMMA ExactNext == TypeOK /\ AInv /\ EInv /\ PInv' /\ [Next]_vars => EInv'
<1> SUFFICES ASSUME TypeOK, AInv, EInv, PInv', [Next]_vars PROVE EInv'
  OBVIOUS
<1>1. ASSUME NEW w \in Pool, Proceed(w) PROVE EInv'
  BY <1>1, ExactMapper, ExactEvaluate
<1>2. CASE Report \/ Interrupt \/ UNCHANGED vars
  BY <1>2, ExactCommand DEF PInv
<1> QED BY <1>1, <1>2 DEF Next, Finished

\* When no request fails and nobody interrupts, the command allows what meets
\* the policy and blocks everything else, whatever the number of workers and
\* the order of their steps, whatever an earlier run left in the disk cache
\* but a date from a header, and whichever requests share a package.
THEOREM VerdictFollowsFacts == Spec => []VerdictIsExact
<1>1. EInv => VerdictIsExact
  BY DEF EInv, VerdictIsExact, Quiet
<1>2. TypeOK /\ PInv /\ [Next]_vars => PInv'
  BY PInvNext
<1>3. Spec => []PInv
  BY PInvInit, <1>2, TypeCorrect, PTL DEF Spec
<1>4. Spec => []AInv
  BY <1>3, AInvInit, AInvNext, TypeCorrect, PTL DEF Spec
<1> QED BY <1>1, <1>3, <1>4, ExactInit, ExactNext, TypeCorrect, PTL DEF Spec
=============================================================================
