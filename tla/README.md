# SafeInstall: a verification project

SafeInstall puts a policy in front of `npm`/`pnpm install`, guards the files that steer AI agents
against unreviewed changes, and leaves verifiable records of what it decided. These modules model
the parts of it where several processes, requests or crashes meet, check them with TLC on small
instances, and prove the central results with TLAPS for every value of the constants. All paths
below are relative to the repository; `file.ts` without a directory is `src/src/file.ts`.

    tlc -workers 2 -config filelock_punctual.cfg FileLock.tla
    tlapm FileLock_proofs.tla

## 1. Inventory

| Part | State it keeps | Operations | Interacts with | What is hard |
|---|---|---|---|---|
| **File lock** `file-lock.ts` | the lock file: creator, token, mtime | acquire (create, stat, steal, poll, time out), release | used by the ledger and the record store | races between stealers, a holder that outlives `staleMs`, death anywhere, two time limits that must fit |
| **Trust surface** `trust-surface.ts`, `trust-surface-check.ts`, `trust-flow.ts`, `trust-ledger.ts`, `trust-ci.ts` | trust lock, its temporary file, ledger, head mirror (outside the workspace), tracked files | `trust lock` (`--ci`, `--mode`), `status`, `approve`, `unlock`; the reconciliation before every install and check | file lock (ledger), install and check flow (precheck), guard | four files that must agree, written one after the other; readers take no lock and heal the mirror; a prompt held open while files change |
| **Artifact-bound install** `install-flow.ts`, `install-binding.ts` | none of its own: the lockfile, its digest, the evaluated targets | prepare, digest, load targets, evaluate, compare, frozen install, compare | evaluation, package manager, record store | another writer between any two reads of the lockfile |
| **Decision records** `decision-emit.ts`, `decision-store.ts`, `check-flow.ts` | record files of one chain per lockfile path, `decisions.lock` | capture the state before, bind the state after, append | file lock, install and check flow | overlapping runs, late reads, a crash between install and record |
| **Decision verification, authorization, attestation** `decision-verify.ts`, `decision-authorize.ts`, `decision-attest.ts`, `decision-flow.ts`, `git-blob.ts` | none of its own: commits, the working tree, the artifact and the statement on disk | `decisions verify`, `authorize`, `attest`, `verify-attestation` | git, the CI gate, evaluation | branches whose chains are merged, deleted records, a tree that changes between two reads |
| **Package evaluation** `evaluations.ts`, `async.ts`, `policy.ts` | the shared iterator, the results array | the worker pool, the mapper, the policy | registry, provenance, continuity | order of the workers, one throwing while others go on, errors that become verdicts |
| **Registry and disk cache** `registry.ts`, `disk-cache.ts` | publish times and documents in memory; publish times, version histories and attestations on disk for an hour | resolve, publish time (memory, disk, time map, tarball header) | npm registry | a request that fails, a fallback that is cached, two workers on one package |
| **Provenance and continuity** `provenance.ts`, `continuity.ts` | cached attestations | verify an attestation, baseline of earlier versions | registry, sigstore | a failed request must not look like an absent attestation |
| **Signals and processes** `signals.ts`, `package-managers.ts`, `win32-spawn.ts` | the abort signal | handlers, child process, exit code | everything that awaits | a signal between two awaits |
| **Guard and hook installation** `guard-setup.ts`, `init-flow.ts` | the hook file of each client, the configuration, the trust lock | `guard install`, `init`: write the policy, merge the hooks client by client, lock | trust commands, people who edit the same files | unlocked read and write of a file, partial failure, a re-run, a fresh baseline over a drift |
| **Agent guard** `guard-flow.ts`, `guard-commands.ts`, `guard-shell.ts` | none | decide on a tool call of an agent, render the answer per client | trust surface and `node_modules` (reads them), the client | order of the denials, installs that do not look like one, writes that are not named, replaced commands, a project that changes between check and run |
| **Transitive, typo-squat, lockfile readers** `transitive.ts`, `typo-squat*.ts`, `project-*.ts`, `specs.ts` | none | pure functions of files | evaluation, binding | none that interleaves |
| **CLI, configuration, output, MCP server** | none | parsing and rendering | all | exit codes |

What makes each part correct, in one line: the lock is exclusive, releases only its own file, and
recovers from a death; a trust verdict of "passed" rests on a reviewed baseline, no run of the
program locks the user out, and only a human replaces a baseline; what was installed was evaluated;
the records form one chain; what lands on the main branch was recorded, and what was recorded in good
order verifies; an authorization is about the commit it names; no package is allowed that the policy
does not accept, whatever fails; the guard is registered once, by whoever; and no guarded command
runs an install that the guard looks for, downloads without consent, runs in a drift, or changes the
trust surface without leaving one.

## 2. Modules

    Mutex                 what a lock promises: at most one holder
      ^ implemented by FileLock (refinement), taken as given by:
      |-- TrustSurface      instance LedgerLock, the ledger's critical section
      |-- DecisionRecords   instance StoreLock, decisions.lock
    FileLock              the lock file, operation by operation, with time
    TrustSurface          lock, ledger, mirror and the trust commands
    DecisionChain         positions, linkage, and what verify demands of a chain (operators)
      |-- DecisionStore     what the store promises: an append in one step
      |     ^ implemented by DecisionRecords (refinement)
      |-- DecisionRecords   bound install and emission, in one worktree
      |-- DecisionHistory   branches with records, updated, merged and landed
            |-- DecisionAuthorization   authorize and its artifact over that repository
    PackageEvaluation     worker pool, registry, caches, provenance, policy
    GuardSetup            guard install and init, edits, approvals
    GuardCommands         what the guard sees in a command, and what the shell does (operators)
      |-- GuardSession      setups and tool calls composed: the guard at work
    MC*                   instances for TLC
    *_proofs              the theorems of each

A step is always one awaited operation (or the synchronous code between two), so any other process,
worker or user can come between any two of them. A module's comments name the function each group of
actions belongs to, and PROJECT.json maps every definition to its lines. Definitions whose name has
a suffix after an underscore (`Chain_NeverFresh`) are faults: one plausible mistake each, in no
specification; replacing the original by one of them makes TLC find the property that guards it
violated.

### FileLock

One element of `Calls` is one call of `withFileLock`. `Create` is `open(path, "wx")`, `WriteToken`
the write through the handle (it reaches the creator's file even when a rename has moved it),
`Stat` the age test or the deadline, `Steal` the rename, `Return`, `ReadBack` and `Remove` the
release. `WriteFails` and `Crash` are the failures. `Tick` is the clock: a tick is about 5 s, so
that `staleMs` = 10 s and `waitMs` = 15 s are 2 and 3 ticks; `PromptPolls` says that a polling round
of 15-35 ms ends before the clock moves on. The file keeps its `creator` beside its `token`: the
code only has the token, the properties need to know whose file it is. On Windows EPERM and EBUSY
count as EEXIST.

### TrustSurface

One element of `Runs` is one run of the CLI. `Reconcile` is `checkTrustSurface` read by read with
the mirror's self-heal; `Lock`, `Approve`, `Unlock` are the flows of `trust-flow.ts`;
`WriteBaseline` is the append to the ledger under its lock, the mirror, the temporary file and the
rename. Findings are kept by kind (`Kinds`), those that only warn as `"warning"`. `reviewed` is a
history variable: what a human confirmed, or a first lock recorded. The tracked files are three
classes by what the code does with a change of them: enforcement and tool files (`content`),
instruction files (`text`, which may carry hidden Unicode), and the CI workflow (`ci`). `InitAny` is
what crashes, checkouts and hand edits leave: a lock, a ledger and a mirror that need not belong
together.

Abstractions: hashes are collision-free (a baseline hash is the baseline, an entry's hash a fresh
number); the snapshot of the tracked files is one read; the lock of a run that was killed is free at
once (FileLock shows the wait); the rename of the temporary file is atomic.

### DecisionRecords

One element of `Runs` is one install or `check --record`. `Prepare` to `RecheckAfter` are
`runBoundInstall`; `Capture`, `BindAfter`, `Acquire`, `ReadChain`, `Publish`, `EmitFails` the record;
`ImplementsStore` says that all of it is an append in one step (`DecisionStore`). `Edit` is anybody else who writes the lockfile; with `Undo` it may bring an old content
back. What the policy says of the packages is a free choice here (PackageEvaluation has it).
Abstracted: the manifests bound beside the lockfile, the case of a directory outside git, the
argument filter, the record's encoding.

### DecisionHistory

A commit is its tree: lockfile, settings (manifest and configuration) and record files. `Record` is a
recorded command, which is one step because `ImplementsStore` makes its record one and because
commands in one worktree are taken not to overlap (see section 4). `Unrecorded` is every way in which
the lockfile changes without a record: an edit, `git checkout` of the file, a command that died or
could not write its record. `Delete` removes record files. `Update` and `Land` are git's three-way
merge of the lockfile, the settings and the directory of records (files whose names carry their
digest never conflict). `Land` is open to a branch that passes `Authorized`, and with branch
protection (`upToDate`) only to one that contains main. `honest` and `honestMain` are history: was
everything on this branch recorded, and were only whole histories merged into it? Abstracted: one
lockfile path; a malformed, renamed or misfiled record is no more than a broken chain; the sha256
beside the blob id.

### DecisionAuthorization

`Verify`, `Resolve`, `Pin`, `LoadPolicy`, `Evaluate` are the reads of `authorizeDecisions` in their
order: the refs are resolved by `verifyDecisions` and once more, the pinned files are compared with
the head, then the configuration and the lockfile are read from the working tree. Between any two of
them the repository may take any step of DecisionHistory. `Rejected` is what a fresh evaluation
blocks. `disturbed` is history, of the run and then of its artifact. `Attest` and `VerifyAttestation`
work on the two files on disk. A statement's subject is the digest of its artifact and stands for all
of it; its predicate is the copy that readers look at, and `EditStatement` may change its verdict, put
another base or head of the repository in it, or take it away. `Binds` is what the code compares: the
subject, and of the predicate the head and the verdict. Abstracted: the signature (the code has none
either), canonical JSON.

### GuardSetup

One element of `Setups` is a run of `guard install` or `init`. `Config`, `ChooseClients`,
`ReadHooks`, `WriteHooks`, `TakeLock` are their steps, `Finish` what they make of a client that is done
or has failed; `Kill` may leave the file being written truncated. A hook file is absent, broken, or
holds how often it registers the guard and the other hooks. The trust lock is a snapshot that is
taken, approved or removed in one step: how it is written is TrustSurface's subject. It is a file of
the project like the others: `Edit` may damage or remove it, and what it leaves is `BadLock`, or, where
this machine has no record of the ledger's head (`mirror`), nothing that tells it from a project that
was never locked (`Gone`). The mirror lies in the user's state directory, which nobody but SafeInstall
touches in the model. A lock that is damaged or removed stays so until a human approves or unlocks:
that a checkout puts the old file back is left out, as is the human who runs `lock --ci` again, which
TrustSurface has. `calm` is history: was a run the only one to change files? Abstracted: the three formats (one `Merge`),
`--mode`, and the order of the names given to `--client`, of which `First` fixes one.

### GuardCommands

A command is a sequence of segments; a segment is what the tokenizer and the wrappers leave of it,
in seven fields. Some of them the guard can read off the text, others only the shell knows: a `carrier`
or an `opaque` word makes the shell run something else (`timeout 60 npm i x`, `if`, `{`, `eval`;
`$PM i x`, `make`), `inside = "hidden"` is an install that no text shows, `names` are the files that
the text names as targets, from the event's directory, and `writes` those that are written.
`Unanalyzable`, `IsInstall`, `IsRunner`, `WriteTargets` are the four things `analyzeShellCommand`
finds, `Rewritten` its replacement. `RunsRawInstall`, `Touched` and `Fetches` say what the shell and the
package managers do, and the properties compare the two sides. The analysis of text is blind in places,
as the program's README says (`README.md:306`, `README.md:345`); `Overlooked` names them, so that
NoRawInstall says both what is stopped and what is not, and for the files NoQuietWrite says what
becomes of a write that was not seen. Runners have no such other side: `Fetches` speaks of the ones
`IsRunner` resolves.

### GuardSession

Each element of `Calls` is a tool call. `Issue` notes whether the client's hook file registers the
guard; `CheckTrust` and `DecideCommand` are the hook's two reads of the project (the trust surface,
then `node_modules/.bin`); `Render` is each client's answer; `Run` is the client, which applies
`updatedInput` and runs the command, after its own permission flow or its user's consent; `Reissue` is
an agent that does what the answer suggests. A run writes the files its segments write, named or not, the trust lock among them.
The reconciliation of `CheckTrust` also records the ledger's head of a lock this machine has not seen
yet. While a call is open, every step of GuardSetup may happen. Outside the model: a hook that crashes or times out
(Cursor is told `failClosed`, the other clients decide for themselves), an event that is not JSON (no
opinion), tools other than the shell that write files (they are `Edit`).

### PackageEvaluation

`Pool` is the workers of `mapConcurrent`, `next` its iterator; a worker goes through the mapper of
`evaluateRequestedPackages` place by place: the installed version's scripts, manifest, publish time
(memory, disk, time map, tarball header), provenance, version history, baseline, target, policy. Each
request can succeed, fail (`Hiccup`, at most `MaxHiccups` in a run) or be cut off by the signal
(`Interrupt`); each alternative is what the code's catch clauses make of it. `facts` is what the
registry, the project and the configured lists say of a package; `BlockedReasons` is
`evaluatePackage`; `Report` the end of the command. The disk cache starts with whatever an earlier
run within the hour can have left (`Warm`, `OnDisk`): expiry is the absence of an entry. Of the version
histories on disk the same holds by the reading of `facts`: the history of a package is what the
registry lists, or listed when it was cached less than an hour ago, and no rule compares it with
anything that changes in between. A publish time that the registry gives but that is no date fails the
resolution, from whichever source it comes (`date = "invalid"`, and a header only counts if it has a
valid one).
Abstracted: the requests for the baseline are one step; manifests are immutable and their cache is
not tracked (an immutable answer, whose request need not fail); git, url, tarball and unknown sources
are one class; sigstore's own network failure counts as an invalid signature, as the code has it; the
transitive check, warnings and infos are left out; attestations published during a run are ignored.

## 3. Runs

| Run | Instance | Shows |
|---|---|---|
| `filelock_punctual` | 3 calls, nobody dies, an action may take exactly `staleMs` | exclusion, releases remove one's own file, refinement of Mutex |
| `filelock_crash` | 3 calls, one may die or fail its write anywhere | no lock leaks, one death makes nobody time out, every call ends |
| `filelock_steal_race` | one dies, two steal | **violated**: two holders |
| `trust_one_writer` | a human's and an agent's approval beside a reconciliation, 2 edits; then an agent's `lock --mode strict` and `unlock` | the books agree when all have ended, no entry is lost, only reviewed and never hidden baselines, a pass rests on a review, only a human's run replaces or removes a lock in force |
| `trust_recovery` | two lockers, one of them with `--ci`, and an unlocker, two at a time, of which the `--ci` locker and the unlocker may be killed, from any disk; then an approval and an unlock | a human's approval and unlock repair whatever was left |
| `trust_two_writers` | two approvals | **violated**: false lockdown |
| `decisions_install` | an addition, a project install (both may be killed or fail anywhere) and a check, two at a time, an edit | one chain, appended to in single steps (`ImplementsStore`); what was installed was evaluated and is what the record binds |
| `decisions_history` | 2 branches, 2 recorded commands, 2 changes by other hands, 3 lockfiles, settings that the evaluation rejects or whose registry is foreign, with and without branch protection | what lands was recorded (`LandedWasRecorded`); what was recorded in good order verifies (`RecordedVerifies`) |
| `decisions_authorize` | one branch with one recorded command and one change, edits of the statement, one run of authorize at a time | an undisturbed allow is about the head; the allow that an accepted statement shows is backed by an authorization of the head it names |
| `evaluation` | 3 requests (one package twice), 2 workers, 17 kinds of package, 4 configurations, one failure, a signal | no verdict before all are evaluated, fail closed, a verdict that does not depend on the order |
| `evaluation_hiccup` | one failure | **violated**: a failed request reads as dropped provenance |
| `guard` | a `guard install` that may be killed, an `init`, 2 edits or approvals; one tool call at a time out of 17 commands, for 3 clients | the guard is registered once, an init that ends well protects, only a human puts another baseline in force, whatever is done to the lock; no raw install in a form the guard looks for, no download without consent, no run in a drift that lasted, no change of the surface without a drift, and the guard accepts what it suggests |

Why the bounds are enough. *FileLock*: three calls are one that dies, one that steals and one that
steals too late; `LastStart` and `MaxTime` leave room for each to wait its limit out after the last
start. *TrustSurface*: two contents tell "changed" from "unchanged" (and changing back is two
edits); two or three runs give every pairing of a writer with a reader, a writer or a killed one; in
`trust_recovery` two run at a time and what drifts is the workflow that `--ci` adds.
*DecisionRecords*: a content before, one for the command and none; runs of the three kinds, two at a time (`AtMostTwo`), give
every overlap of two and chains of three records. *DecisionHistory*: two branches that each record, or one
that records twice, and a change by hand or a deletion before and after; three records and two changes
were tried (3.5 million states) with the same result.
*DecisionAuthorization*: one change puts a foreign state in the tree, before or during a run, and an
update gives a second base; a second change, which takes the state away again, was tried with the same
result in some minutes.
*Guard*: the commands are one of each kind the analysis tells apart and the mixtures that matter (two
installs, an install with a runner, an install with a write), one line of installs the guard is blind
to, and writes that are named, named elsewhere and not named. `MCGuardSession` cuts the product down:
the project begins either before its set-up or after it, the two setups and the edits run before the
agent begins, and then the init or the edits run beside its calls, one call at a time (`Phases`); beside an init
and after an edit the commands are five that the project's state makes a difference to (`Beside`); no
hooks of others. The theorems below have none of these restrictions. *PackageEvaluation*: three requests and two workers
make a worker pull a second request while the other is still busy, and let two workers resolve the
same package at once; the kinds of package differ from a sound one in one rule each, so each rule
decides on its own; one failed request reaches each catch clause from each place.

Deadlock is checked for the programs that end: their modules have a `Finished` step for the states in
which all runs have ended, so that any other state without a step is reported. A repository and an
agent's session may stop anywhere, and their edits are bounded (`MaxEdits`, `MaxRecords`): the three
runs `decisions_history`, `decisions_authorize` and `guard` do not check it.

**Fairness.** Only `Termination` needs it. `FairSpec` of FileLock assumes that a live process is
scheduled (weak fairness on the steps of each call) and that the clock runs; it assumes nothing of a
process that may die, and nothing of who wins a race. PackageEvaluation needs none: its steps are
finitely many in every behaviour, since each moves a worker on in the mapper or the iterator on, so
that freedom from deadlock already says that every command ends.

## 4. What the runs disagree with

- `file-lock.ts:89`: of two stealers the second can move the file the first has just created, against
  the comment at `file-lock.ts:17-20` (`filelock_steal_race`).
- `trust-flow.ts:229`: two approvals append in turn, but the older lock may be renamed into place
  last: every later command reports `ledger-mismatch`, which CHANGELOG.md:146 excludes
  (`trust_two_writers`).
- `provenance.ts:303`: a failed request for the target's attestation blocks as
  `provenance-downgrade`, against `continuity.ts:170-172` (`evaluation_hiccup`).

Assumptions of the passing runs that mark further limits of the code. `OnlyReviewed` needs that no
`trust lock --ci` runs beside an edit: it snapshots again after the scaffolding
(`trust-flow.ts:266`). `OnlyHumansRebase` excludes the same lockers. `NoEntryLost` needs one writer:
whether to start a fresh chain is decided before the ledger lock is taken (`trust-flow.ts:606`).
`UnlockClears` needs that no reconciliation overlaps: its self-heal can write the mirror back
(`trust-surface-check.ts:208`). `ReleaseOnlyOwn` needs actions no longer than `staleMs`: the token is
read back and the file removed in two operations (`file-lock.ts:131`). `RecordedVerifies` needs
recorded commands that do not overlap in one worktree: two that do bind the same state before
(`install-flow.ts:309`) and the chain then fails verification. `RecordBindsInstalled` needs that
nobody edits the lockfile between the last comparison and the emission (`decision-emit.ts:255`), and
`InstalledWasEvaluated` that no lockfile is changed and changed back between the comparisons
(`install-binding.ts:247`; the README of the program excludes that writer). In strict mode an
unpinned MCP server stays a finding after any approval (`trust-surface-check.ts:143`), so the runs
have none.

What the modelling of the records showed, none of it against a property that holds:

- A failed or missing emission cannot be made good: a second run finds the lockfile as it is and
  records no change of it, so the chain does not join (`decision-verify.ts:190`) until the lockfile is
  taken back to a recorded state.
- A record that starts from the base's lockfile anchors the chain wherever it stands
  (`decision-verify.ts:353`), so a record of an earlier pass through the same content may do;
  and when a hand change leads to the very content a record has bound, that record covers it.
- `docs/rfcs/rfc-001-verifiable-dependency-decisions.md:370` says that deleting records breaks the
  chain check. It does for some of them; when all are deleted, one new record from the base is a
  whole chain. `LandedWasRecorded` holds because what lands is still recorded.
- Two branches that append under one sequence number and land without up-to-date protection leave
  main a chain that can be neither read nor extended: `RecordedVerifies` is stated with protection.
- `authorize` pins the lockfiles of the delta (`decision-authorize.ts:94`); a lockfile that the delta
  leaves alone is evaluated from the working tree. `AuthorizedIsAcceptable` is about deltas that
  change the lockfile and runs that nothing disturbs, as no reading of a working tree can promise more.
- Of a statement's predicate `verify-attestation` compares the head commit and the verdict with the
  artifact (`decision-attest.ts:179`). One whose base, lockfiles or policy are those of another
  authorization of that head is accepted, and so is a statement without a predicate, although the
  comment at `decision-attest.ts:170-171` speaks of any predicate that was swapped: with
  `vouched /\ statement.predicate # None => statement.predicate = artifact` as an invariant TLC finds
  one under `decisions_authorize.cfg`. `AcceptedAllowIsBacked` is what the comparison does give: the head
  and the verdict that a reader finds in the predicate are the artifact's, for the base in its subject.
- A signal during a resolution is captured as a resolution error and ends as a policy block
  (`evaluations.ts:53`); `Interrupt` in PackageEvaluation has the step.

And of the guard, whose analysis of text is not exhaustive (`README.md:306`, `README.md:345`):

- An install passes behind a word the guard does not know (`timeout`, `xargs`, `nice`, `eval`, the
  shell's keywords and braces), through a variable or a script that names no package manager, and under
  a subcommand that is known as no install and installs (`update`, `dedupe`, `link`, `rebuild`):
  `guard-commands.ts:315-324` answers nothing for the first two and `guard-commands.ts:45-97` lists the
  third. It does not look into the substitutions of a segment whose own command it knows not to install
  (`npm run $(...)`). All of these are in the model and in the run, and `Overlooked` is their list.
- `INSTALL_HINT_PATTERN` names package managers and no runner, so a runner in a nested shell or behind an
  unknown word is not asked about; RemoteNeedsConsent speaks of the runners the guard resolves.
- A protected file is recognised as a target when the text names it from the event's directory
  (`guard-flow.ts:162-164`, `trust-surface.ts:359-379`). After a `cd`, as part of a directory, by a
  variable, in a nested shell or by another program it is written unseen; what remains is the drift the
  write leaves (`NoQuietWrite`), which stops every later command (`DriftStops`) if the file is a hook
  file, the configuration or the lock, and installs and runners if it is a tool file. Instruction files
  drift too, and only warn in warn mode; the session has none of them.
- The lock is one of these files. That its removal is noticed, and blesses nothing, rests on the mirror
  in the user's state directory (`LockHolds`): on a machine that has not recorded the head yet, the
  removal of the lock and of its ledger leaves an unlocked project, and nothing stops an agent that
  writes into that directory.
- A verdict is about the project at the time of its two reads, and `drifted`, `locked`, `settled` say so
  in the properties.
- What is written to a hook file between a setup's read and its write is lost (`guard-setup.ts:204`), so
  `InitProtects` asks for `calm`; and a hook file truncated by a kill is reported, never repaired.

## 5. Proofs

Every invariant and every action property of the passing runs is also a theorem, under the
assumptions below; a run's instance meets the assumptions of the theorems about its properties.

| Theorem | Assumptions beyond the module's | Argument |
|---|---|---|
| `FileLock_proofs!TypeCorrect` | | |
| `ExclusionUntilFault`, `Exclusion`, `ReleasesOwn`, `Refinement` | `Punctual` (`Slow = {}`, `HoldMax <= StaleMs`); the last three: `Faulty = {}` | `IInv`: while nobody has died, the file belongs to its holder, is no older than its action may take, and holds its token; so nobody ever sees a stale lock, and nobody steals |
| `LeavesNoLock` | | `LInv`: the file's creator is dead or holds the lock, and a holder that reads its own file back finds its token |
| `DeathsDelayNobody` | `Patient`: actions end within a tick, polls are prompt, and `Cost(Calls) <= WaitMs + 2`, a faulty call costing `StaleMs + 1` and any other one tick | `QInv`, a counting argument: a waiter sees a series of files, each of a call that has not created one before; it waits for each as long as it costs, and what it has waited is at most what the calls in the past have cost |
| `TrustSurface_proofs!TypeCorrect` | | `ChainRead`: a run that reads the mirror has read a non-empty chain |
| `LedgerSound`, `LedgerClean`, `PassSound` | `Steady` (`CiRuns = {}` or `MaxEdits = 0`) | `RInv`: every baseline that is on disk, in flight, or held by a run was reviewed; `DInv`: the drift of what a run compared is among its findings until it reports, so a lock taken again is for files that equal its baseline |
| `HumansRebase` | only humans ask for `--ci`; an agent that locks is a late run | `Alone`: a late run has the project to itself; `AgentWrites`: an agent that has come as far as a write is a locker that found no lock, and nobody has written one since |
| `ApprovalRepairs` | no late run is killed | `FInv`: a late approval is alone, so what it writes, file by file, is what it has read and recorded (`LateOutlines`); later runs that are alone find books that agree and leave them so |
| `UnlockIsClean` | the same; no late locker | `UInv`: an unlock that is alone leaves neither file, and the runs after it, one by one, find nothing and write nothing |
| `BooksEndAgreeing` | `OneWriter`: besides late runs one run may write; no writer is killed; no human unlocks beside it; the project begins locked or unlocked | `WInv`: how far the books differ says at which place the writer stands; a heal that overtakes it can only write what the ledger held or holds |
| `EntriesSurvive` | `OneWriter`, the project begins locked, no human unlocks | `EntriesKept`: an entry is in the ledger from its append on, as no writer finds a reason for a fresh chain |
| `DecisionRecords_proofs!TypeCorrect`, `ChainIsLinear` | | `SInv`: a run between reading the chain and publishing holds the store's lock, and its position is the next one |
| `AppendIsAtomic` | | `SInv` again: every step but `Publish` is a stutter of the abstract store, and `Publish` its append |
| `InstallIsBound` | `Undo = FALSE` | `BInv`: a lockfile that equals the digest has not changed since it was taken, as no content comes back |
| `RecordIsBound`, `LoneInstallIsBound` | | `UInv`: while nobody edits and no other addition has begun, the lockfile is what the run evaluated, from its load to its record; the second is `InstalledWasEvaluated` for such a run, with `Undo` |
| `PackageEvaluation_proofs!TypeCorrect` | | what an earlier run left on disk is something a source gave |
| `PoolIsComplete` | | `PInv`: a request handed out is evaluated or with a worker that has not ended; a worker ends only when the iterator has, and one that failed has rejected the pool |
| `AllowIsSound` | | `AInv`: what is known of a package at any place of the mapper (`Sound`) is no better than the facts; failures only weaken what an allow may rest on (`Monotone`); an empty list of reasons makes a sound view acceptable (`EmptyReasons`) |
| `VerdictFollowsFacts` | | `EInv`, the converse: while nothing fails, every worker knows exactly the facts (`Exact`), and so do the caches and the results; then the reasons are empty just for what is acceptable (`ExactReasons`) |
| `DecisionHistory_proofs!TypeCorrect` | | `WInv`: every set of written records has a first and a last one, and every tree's records were written, so a next position exists |
| `RecordedIsVerified` | | `HInv`: under protection an honest branch extends both its fork point and main, record by record; a record, an update and a landing keep that |
| `LandedIsRecorded` | | a verified chain that is anchored at the base leads, record by record, from the base's lockfile to the head's: a closed set of lockfiles with the first one in it has the last one too (`ChainLeads`, by the first record that would leave the set) |
| `DecisionAuthorization_proofs!AuthorizationTypeCorrect` | | `WInv` |
| `AllowIsAcceptable` | | `EInv`: what an undisturbed run has established up to each of its reads; a step of the repository disturbs it |
| `AcceptedIsBacked` | | `SInv`: an accepted statement's subject is the artifact, and its predicate, if it has one, has the artifact's head and verdict; with those the claim is that of `AuthorizedIsAcceptable` for the artifact, whatever the other fields of the predicate are |
| `GuardSession_proofs!SessionTypeCorrect`, `RegisteredOnce`, `InitIsProtection` | | `SetupInv` (in GuardSetup_proofs): a run holds no hook file with two guards; the clients a calm run has finished are guarded, or it has failed; other runs, edits and calls either leave that or end the calm |
| `OnlyHumansRebase` | | `MirrorInv`, a part of `SetupInv`: where the ledger's head is recorded the project counts as locked, so a lock that is removed there is missing and not absent, and the only branch that takes a new baseline is closed; a reconciliation records the head of a lock in force only |
| `RawInstallsStop`, `DownloadsAreAsked`, `DriftIsEnforced`, `WritesLeaveDrift`, `SuggestionsPass` | | `CallInv`: what an answered call's reply was decided from, kept by every other step as far as `drifted`, `locked` and `settled` still vouch for it; for `WritesLeaveDrift` also that a guarded call that was let through under a lock has recorded its head, so that a command that removes the lock leaves `BadLock` |

The assumptions of constants in the modules are few. `RunsAssumption` of TrustSurface says that a run
is of one kind only: the four sets of runs are names for what the process was started as. `Undo`,
`Steady` and `OneWriter` exclude what section 4 lists as a limit of the code; without them TLC finds
the property violated. The bound of `Patient` cannot be raised: `filelock_crash` meets it with
equality (2 + 3 against 3 + 2), and with a fourth call TLC finds a waiter that times out although
nothing but one death has happened.

The guard's theorems quantify over every sequence of segments, every set of clients' setups and every
number of overlapping calls. The proof of `RawInstallsStop` corrected the model once: the script of a
nested shell that is only looked up (`command -v sh ...`) does not run. The proof of
`VerdictFollowsFacts` corrected a property: an allowlisted package whose publish time neither the time
map nor the tarball header tells does not resolve (`registry.ts`), and is blocked, although
`Acceptable` let it pass; `Dated` is now part of `Acceptable`, for `AllowIsEarned` too, and `Vouched` is such a package in the run. A publish time that is no date is the
same case, except that the header is not asked instead; `Garbled` is one.

`AllowIsEarned` is not inductive: that an allow is earned rests on each result, a result on what its
worker had learnt, and that on the caches, which another worker may have filled; `AInv` names all
four, and `PInv` adds that there is a result for every request. `LandedWasRecorded` says that a
lockfile is reached by recorded changes with closed sets instead of a recursion over the records, and
is thereby in the prover's reach without an induction.

The proofs of FileLock and the composition meet in `Mutex`: TrustSurface and DecisionRecords take the
lock's contract as given, even for runs that are killed; `Refinement` proves it for calls that do
not die and are punctual, and `filelock_steal_race` shows that it fails after a death. Properties of
the two modules under killed runs therefore hold up to that race.

Only model-checked: `Termination`, as liveness and ENABLED are outside the prover.

## 6. Not modelled, and the plan

Not modelled: parsers of lockfiles and specs, the shell tokenizer, typo-squat distances, the transitive
check, hidden-Unicode and MCP scanners, canonical JSON and the record schema, configuration, rendering,
the MCP server's request loop, the attack demonstration: pure functions and I/O whose results are data
in the models. The child process of an install and its abort listener (`package-managers.ts`,
`win32-spawn.ts`) are one step that succeeds, fails or is killed. What could be added, in order:

1. **Process control**: the child process, its abort listener, the exit code, and the outcome of an
   install that is interrupted at every point.
2. **Readers during writes**: what a reconciliation may report while the ledger is rewritten; then
   the precheck composed with the install it precedes.
3. **Cache clock**: the time to live of the disk cache, expiry between two reads of one run.
4. **Transitive check** as a function of a lockfile, against a reference definition.
