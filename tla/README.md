# PKR: models, checks and proofs

This directory holds a TLA+ development of the PKR reference runtime (`src/src/`):
modules translated from its TypeScript, TLC configurations that check them on small
instances, and theorems that TLAPS checks for every value of the constants.
`PROJECT.json` gives, for each definition, the lines it models, and lists the
runs, the mutants that show that each property can fail, the hazards and the findings.

## 1. The system

PKR keeps a software project's Tasks, Assignments, evidence and decisions in one SQLite
database per project (`.pkr/runtime.sqlite`). There is no server. Every CLI invocation,
a Supervisor (`pkr supervisor watch`) and any embedding program opens the database
itself, so that the concurrency of the system is that of operating-system processes
that share a file. Three habits of the code decide what can go wrong:

* an operation of `PkrRuntime` reads records and checks its guards with autocommit
  queries, then opens one `BEGIN IMMEDIATE` transaction (`PkrStore.execute`) in which
  every write compares the revision it read (`putRecord`);
* some operations (`compact`, `createSnapshot`, `beginExternalEffect`) decide on what
  they read outside their transaction and compare nothing when they write;
* a process may be killed anywhere, and the next one to open the project recovers.

### Components

| component | state it keeps | operations | interacts with | what is hard | correct when |
| --- | --- | --- | --- | --- | --- |
| **governed execution** `runtime.ts` 857-2236, 5164-5284, `objects.ts` | records Task, Assignment, Lease, AgentSession, WorkflowRun, Verification; effect journal | dispatch, callback, recordProviderFailure, verify, heartbeat, cancelAssignment, expireLease, recoverInterruptedSessions, beginExternalEffect, beginVerificationEffect, completeExternalEffect | store (transactions), LPS and Supervisor (callers) | processes race on one Task; kill between effect and journal; expiry against heartbeat and late reports | one live lane per Task; five records agree; done only when accepted, once; ended stays; an effect is started at most once |
| **store** `store.ts` | tables records, events, event_archives, commands, metadata, external_effects, repository_evidence; snapshot files | execute, replay, putRecord, appendEvent, listEvents, compact, createSnapshot, readSnapshot, restoreSnapshot, prepareStore, exportPublicAlpha | everything | maintenance beside commands; retried commands; loss and restoration | history is 1..n for ever; a command is applied once; records, events and results of an accepted snapshot agree |
| **LPS orchestrator** `lps.ts` | none of its own | runReadyTasks, executeLane | execution, Providers, Verifier | order of reserve, run, complete, report | never runs an effect without its pending entry |
| **Supervisor** `supervisor.ts`, `cli.ts` 916-942 | none of its own: looks at the records each round | reconcile, dispatch, reconcileRunning, reconcileVerification, recoverExpired, prerequisiteAttention; the watch loop | execution, LPS, clarification | acting on an observation that another Supervisor made stale; progress | no step from a stale observation is harmful; eligible work finishes or asks for attention |
| **clarification** `clarification.ts`, `question-sheet.ts`, `runtime.ts` 2988-3153 | Workflow and WorkflowRun of the clarification state machine | assess, respond | runtime (start, transition) | one call is many commits; the guard is evaluated on a second reading; kill between two commits; two assessments at once | runs follow the Workflow; nothing is made of a protected question without approval; an assessment that was begun can be ended |
| **Steward** `steward.ts` | Decision, Goal and Task of a proposal | prepare, apply | clarification, runtime | several callers apply with different responses; kill between Decision, Goal and Task | what was made has the one outcome that was resolved |
| **portable Workflow** `workflow.ts`, `runtime.ts` 2934-2986, 3155-3206 | WorkflowRun records of a definition that a Package brought | start, transition | runtime, packages, memory (a run may be a source) | a command sent again after the run went round a cycle; two callers at once | a run takes each declared edge once for each command |
| **memory** `memory.ts`, `runtime.ts` 2243-2402 | MemoryEntry and Knowledge records | derive, reconcile, retrieve, promote | any record may be a source | the reconciliation is several reads and commits; sources are superseded between them | nothing is served that was stale when it was asked for |
| **Prompt, Policy and Adapter versions** `runtime.ts` 2404-2932 | version records and their phases | register, activate, rollback | governed evolution | registration, rollback and promotion at once | one version of a line in force |
| **packages** `packages.ts`, `runtime.ts` 3208-3485 | PackageInstallation records | install, uninstall, rollback | portable Workflow, governed evolution | an installation prepared while another one commits | at most one active installation of a Package |
| **governed evolution** `evolution.ts`, `evolution-model.ts`, `runtime.ts` 3487-4932 | EvolutionCandidate, Verification, Decision, EvolutionActivation, Metric | propose, revise, evaluate, approve, promote, monitor, status | versions, packages | a long protocol of several principals, each step read and committed by itself | what is in force was evaluated and approved, by others; what a promotion, rollback or upgrade puts in force takes the place of another version; a candidate is activated once |
| **project directory and projections** `projection.ts`, `store.ts` 491-640, 1471-1540, `runtime.ts` 416-623, 5227-5268 | the database file and its schema, `.pkr/projections`, an alpha export | init, open, migrate, upgrade, rebuildProjections, exportPublicAlpha | everything | two inits of one directory; kills between the statements of a migration; rebuilds that remove each other's files | the schema is one release's; an opening is refused only because of others; an accepted export is of one moment |
| **project manager** `project-manager.ts`, `cli.ts` 432-444 | a new project directory, its plan Tasks, `plan.json` | project bootstrap, project plan, project status | git, init, Goals and Tasks | failure and kill between twelve steps; a plan read in pieces beside a bootstrap | success is whole and stays; failure leaves nothing; the Tasks of a plan are never newer than the sequence it names |
| Repository Verifier and evidence `verifier.ts`, `repository-evidence.ts`, `workspace.ts` | none | verify, hash | git, commands | external | - |
| Providers `provider*.ts`, `process.ts` | child processes | run, stop | operating system | external | - |
| contracts, security and paths, profiles, preflight, question-sheet renderer, CLI parsing | none | pure functions | - | - | - |

## 2. Plan

Done, most important first: `PkrExecution` with its abstract specification
`TaskGovernance`; `PkrStore`; `PkrClarification`; `PkrSupervisor`, composed with
`PkrExecution`; `PkrEvolution` with its abstract specification `VersionLine`;
`PkrProject`; `PkrProjectManager`; `PkrWorkflow` and, on top of it, `PkrMemory`.

Every safety property that a passing run checks, the three refinements included, is now
also a theorem. What is left for TLC alone are the two liveness properties (section 7).

## 3. The modules

### PkrExecution

One element of `Assignments` names an Assignment with its Session, Lease, WorkflowRun and
dispatch command: dispatch derives all those ids from its command id. A record is its
state and its revision. A process `p \in Procs` is idle or holds in `pend[p]` what its
operation has read; `XRead` is the code of operation X up to its transaction (reads and
early returns; a refused call is no step), `XCommit` the transaction, enabled when every
record it writes still has the revision that was read (`CasHolds`), `Conflict` its
rollback otherwise and `Crash` a kill. The transaction writes values computed from what
was *read*, so a missing comparison shows up as a lost update.

| code | definitions |
| --- | --- |
| dispatch | `DispatchRead` (with `Recoverable`, `Absorbed`), `DispatchCommit` |
| callback, recordProviderFailure | `ReportRead`, `CallbackCommit`, `FailureCommit` |
| verify | `VerifyRead`, `VerifyCommit` |
| heartbeat, cancelAssignment | `HeartbeatRead`/`Commit`, `CancelRead`/`Commit` |
| expireLease, recoverInterruptedSessions | `Elapse` (the clock), `ObserveElapsed`, `ExpireRead`, `ExpireRefused`, `ExpireCommit` |
| begin- and completeExternalEffect, executeLane | `EffectCheck`, `EffectReserve`, `EffectDone`, `EffectReconcile` |

The reads of one operation are one step. This loses nothing for the records: an
Assignment, Lease or Session that an operation writes is compared when it is written,
and no Assignment of a Task changes state without the Task's revision moving. The check of
an effect and its reservation, where nothing is compared, are two steps.

`MixedVerify` says whether `verify` may be called with a Task and an Assignment of
different Tasks. `verify` does not forbid it (section 5); its callers in the code (LPS
and Supervisor) never do it, the CLI's user can. What holds of any pair is proved
without an assumption: the lane is single (`OneLiveLane`), and no Task is done without
an acceptance, of a result that is closed, nor is a Task or a result accepted twice
(`DoneIsAccepted`). What a wrong pair breaks assumes `MixedVerify = FALSE`: the
agreement of the five records, that what has ended stays, and the refinement; nor need
the Assignment then be one of the Task, so that an Agent may accept its own work. A
wrong pair takes two Tasks, and the runs have one: what holds of it is proved and not
run. `EffectRunsOnce` says that the external process of an effect is started only by the
step that finds no entry for it in the journal; an entry whose process was killed stays
pending and is never run again.

### TaskGovernance

What execution promises with processes, revisions and Leases taken away: `phase`,
`lane` and `used` per Task. `PkrExecution!ImplementsGovernance` is its specification under
the mapping at the end of `PkrExecution`: a Task that is blocked by an expired Lease is
`interrupted` (it may be opened again), any other blocked one is not.

### PkrStore

A transaction is one step; queries outside transactions are steps of their own. A command
(`CommandRead`, `CommandCommit`, `CommandRollback`) revises the one record and appends one
to `MaxEvents` events. `CompactCount`, `CompactRows` and `CompactCommit` are the two
queries of `compact` and its transaction. A snapshot is nine queries (`SnapshotBegin` to
`SnapshotRecords`; the retention policy is read with the commands) and `SnapshotPublish`;
`SnapshotArchives` and `SnapshotLive` are the two halves of `listEvents`. `Lose`,
`Create`, `RestoreCheck` and `RestoreRename` are the loss of the file, a process that
creates a new one, and `restoreSnapshot`. `Opens` is `validateStore`, the guard of
whatever a process does first.

`Alone` names the maintenance operations that the operator does not overlap: two
compactions, a snapshot with any commit, a restore with any other use of the path. The
code does not enforce it. Each property is checked with the least of these that it needs:
with one of them taken out of the run's `Alone` it fails (section 5). Of a snapshot that commands
overlap, `AcceptedIsACut` says what is true of it: its events explain the revision of its
record and contain those of its commands. It need not be a state the store was in, as it
may have the events of a command and not its result.

### PkrClarification

A context is one assessment input and names its run, as the run id is a digest of the
input; contexts in `Proposals` are Steward proposals, each a subject of its own, all
others are about one common subject. What an assessment finds is a constant (`Asked`,
`Protected`, `Direction`), and so is which responses approve and direct (`Explicit`).

A call of the service is cut at every reading and every transaction, because nothing
else keeps two processes apart: `AssessNew` (first list), `PriorRead` (second list),
`StartRead` and `StartCommit` (`startClarificationRun`), `MoveRead` and `MoveCommit`
(`transitionClarificationRun`, whose guard reads the run again while the command id
and the content are of the session read before), `Moved` and `Started` (the session is
read back). A command that was committed before is replayed (`StartReplay`,
`MoveReplay`); one with the same id and other content, or an older revision, fails
(`MoveFailed`, `StartFailed`). `pend[p]` holds what the call has read.

`apply` runs the same steps, then `ApplyAccept`, `ApplyRespond` or `ApplyRefused`, and
`Make` once for each of Decision, Goal and Task. `Kill` ends a call anywhere: a killed
process, and also a call that fails after its commit because `rebuildProjections`
fails. A call that ends without having changed anything (a refused `respond`, an
`assess` of what is assessed) is no step.

`CommandRead`, `CommandCommit` and `CommandFailed` are `pkr workflow transition` on a
clarification run (`transitionPortableWorkflow`): it takes any edge of the Workflow for a
caller who authorizes himself and leaves the content of the session, so that a protected
run becomes `resolved` with no response in it. `steward.ts` looks at the response again
before it makes anything, which is what `NothingUnapproved` is about. That the run itself
stays `blocked` without an approval is not so (section 5). `MaxMoves` bounds these commands.

### PkrSupervisor

EXTENDS `PkrExecution`: every operation a Supervisor calls is an action of that module,
conjoined with where the Supervisor goes next (`Go`), and `ImplementsExecution` says that
whatever Supervisors do together is an execution of `PkrExecution`. `Observe` to
`Accept` are the parts of `reconcile` and of `executeLane`, each reading the records
again; `Commit` and `Loses` end the operation that was prepared, `Reserve`, `Complete` and
`Throw` are the fence around an external process, `Killed` is a kill. The operator cancels
and reconciles effects; `Tick` lets a Lease elapse.

Ids are derived in the code and so they are here: Assignment 1 is the first dispatch, an
expired `e` is recovered by `2e`, or by `2e + 1` out of an execution lane. A command that
was committed before is replayed (`IsReplayed`). Some behaviour of the code is worth
knowing: two Supervisors that race stop one of them with attention (`Lost`); a round
that lists Assignments after it read the Task may find a harmless race inconsistent
(`"alarm"`, `RuntimeInvariantViolation`); `beginVerificationEffect` is called outside of
any `try`, so that a lost race there ends the loop with an exception (`"error"`); a
Provider reservation names its time, so that the second of two is a digest conflict
and not a replay.

Any round of a Task that has not ended may find a clarification of it open, or its Agent,
Provider, Verification or skills wanting, and ends its loop with attention (`"asks"`):
others write these, so that `Observe` is free to find them. A heartbeat comes before the
lane whenever one is due (`DueAt`). With `LongInterval`, rounds of 30 s and more apart, it is
due in every round; otherwise only in rounds that were delayed, which is bounded by
`MaxLeaseRev`.

### VersionLine and PkrEvolution

`VersionLine` is what governed evolution promises of anything it manages: a line of
versions has at most one content in force, and it changes only by a promotion (`Replace`)
of an approved change that was made for exactly the content it replaces, or back to an
earlier content. Only a Package line is `open`: its owner installs and uninstalls directly,
and a promotion of it (`Overtake`) replaces whatever is in force when it happens, because
the code binds it to no revision; what is left of the promise is that the content was
approved for one the line has had.

`PkrEvolution` has the records behind it. `kind` chooses what a behaviour follows
(Prompt, Policy, Adapter, Package or a candidate for the runtime itself). An operation is two
steps: its reads and refusals end in `Prepare`, which keeps in `pend[p]` what was read and
with which revision; then the transaction, or `Abandon` (a kill, a replay or a conflict). A
candidate's content is a member of `Contents`, an evaluation is a choice of passed or
failed. `OneRegistrar` says that two registrations, or two installations, that found
nothing active do not overlap: the code looks for an active version before its
transaction and compares nothing in it, so that two at once leave two in force, after which
rollback and promotion of that line fail. `TakesThePlace` is what holds without any such
assumption, for which it is proved: only a registration or installation that found nothing
puts a version in force beside another one. `Proposers` and `Serial` are bounds of the
run: who proposes, and which operations no other overlaps; in `evolution` registration,
proposal, revision, evaluation, approval and monitoring are kept apart, so that what
overlaps there is promotion, installation, removal and rollback, each with each.

### PkrProject

The directory of one project, its database (`db`: which tables, marker, version, how far
it got), one file that stands for all projections and one export. `init` and
`open` are cut at every statement that another process can come between: `MakeDir`,
`Connect`, `Inspect`, `ReadMarker`, `ReadVersion`, `ReadSequence`, `Validate`, then
`CreateSchema`, `Migrate` or `Upgrade` (transactions), `Find`, `Bootstrap`. A commit is
followed by the rebuild of the projections (`Clear`, `Read`, `Draft`, `Rename`).
`ExportJournal` to `FinishExport` are the reads and writes of `exportPublicAlpha`.
`InitFails` and `RemoveState` are the clean-up of an init that failed. A process that has
the store open at that time is `lost`: its commits go on in a file that nobody finds again
(`Orphan`), but it clears and rewrites `.pkr/projections` by path, over those of the
project that has the directory next (`Shown` is the sequence such a rebuild shows of the
present project: none). An alpha store without a Project is refused before its migration
(place `bare`). A recursive removal is one step, and so are the eight events of a
bootstrap.

### PkrProjectManager

`BootstrapOrder` is the order of `bootstrapProject`, one action for each step (one for
each Task); `Fails` is its `catch`, which removes what `mkdir` created, and `Kill` a kill, which
removes nothing. `PlanOrder` is that of `writeProjectPlanProjection`, which a
bootstrap ends with and which `pkr project plan` and `status` call: it lists the Tasks, reads
the phase of each again, needs the approval, the Goal and `verification.json`, then reads
the sequence, and after it, by queries of its own, the state digest (`ReadDigest`). `Work`
is a command of any other process. A plan whose project is removed under it reads on in
the store it has open, which nobody changes any more (`Leftover`), and is written at its
path, where another project may be by then (`Orphan`).

### PkrWorkflow and PkrMemory

A portable Workflow has its last revision from the moment it is active, so that a run
never loses its definition; what can go wrong is the order of callers. `TransitionRead`
takes the run and the first edge that fits, `TransitionCommit` compares the revision and
the command id, `TransitionEnds` is a replay or a conflict. The Package may be
deactivated at any time (`PackageChanges`); `start` looks at that before its transaction
only. `PkrMemory` EXTENDS it: a source may be any record, and the ones here are the runs,
which transitions supersede. `DeriveCheck` looks at each source by itself; `Ask` is the
listing of all records, with which retrieval and promotion begin, `ListEntries` the
listing of the entries after that, `Invalidate` one command each, under an id that two
processes share.

## 4. Runs

| run | instance | shows |
| --- | --- | --- |
| `exec_lane` | 1 Task, 3 Assignments (a recovery of a recovery), 2 processes, 1 heartbeat | single lane, agreement of five records, faithful snapshots, one acceptance of what is done, effects started once, ended stays, and the refinement of `TaskGovernance` |
| `supervisor` | 2 Supervisors of 1 Task, an operator, Assignments 1 to 3, 1 expiry, delayed heartbeats, rounds that ask for attention | no exit 0 without an end, no Task left behind, every watch loop ends, and the refinement of `PkrExecution` |
| `store_history` | 2 commands of 1-2 events, history of 4, 2 processes; compactions and restores not overlapped, snapshots at any time | contiguous history, recent events kept, an accepted snapshot is a cut |
| `store_commands` | 2 commands with 2 contents, 3 processes; compactions overlap, snapshots and restores do not | a command is applied once through races, loss and restore; no event and no archive is lost |
| `clarif_apply` | 2 proposals, one protected that needs a direction and one without a question, 2 approving responses and one that is none, 2 processes, 1 `pkr workflow transition`, 1 kill | nothing is made without the user's own response, also where the command has resolved the run; Decision, Goal and Task have the outcome that was resolved |
| `clarif_supersede` | 2 contexts of one subject, one asked and protected, 2 processes, 1 transition command, 1 kill | runs follow the Workflow; a begun assessment that is repeated ends, unless a call is killed before |
| `evolution` | any of the 5 kinds, 3 versions, 2 candidates and contents, 3 principals and the owner, 2 processes | one version in force, in the place of what goes out of force, promoted as approved, activated once, and the refinement of `VersionLine` |
| `project` | 2 processes with 2 requests, a directory that starts empty or in any of three formats, with a Project or without, sequence up to 2 | the schema is whole, refusals are due to others, an accepted export is of one moment, a lone rebuild shows its commit |
| `bootstrap` | 2 processes, 2 months and 3 days, 2 commits of others | a bootstrap that succeeded is whole and stays, one that failed leaves nothing; plans have every month, Tasks and phases not newer than their sequence, and a digest not older |
| `memory` | 2 processes, 2 runs of a two-state cycle up to revision 4, 2 command ids, 2 entries | each edge once for each command; what is served was current when asked for; invalidated once and for a reason |
| `exec_duplicate_provider`, `project_two_inits` | as small as shows it | the two findings below |

**Why these bounds.** Every hazard of execution is a race of two operations on one Task,
with the Assignment before and the one after a recovery: two processes and two
Assignments give all of them, and the third a recovery that is itself recovered. That
operations on one Task leave another alone, and what `verify` with a pair of two does, is in
the theorems, which hold for any number of Tasks. One heartbeat is enough for a renewed Lease. The symmetry of `exec_lane` permutes
processes and Assignments: the code compares ids for equality only. In `supervisor` the ids are numbers, because recoveries are derived from
them, and one expiry is what `1`, `2` and `3` leave room for. In the store an archive, an
event archived later and one left live need a history of three or four; two processes
give a writer beside a maintainer, three the compaction that finds nothing left. A
clarification run is assessed at revision 3; `MaxRev` 5 leaves room for a response that
blocks it and one that resolves it, or one that skips a protected question and the command
that then resolves it, and one kill hits each place between two commits. A proposal is by
itself, so that one with a question is enough, and it has both kinds of them.
In `evolution` the second candidate is made for a version that the first replaces. In
`project` a sequence of 2 tells a commit from the one before, and the two requests an init
that is repeated from one that is not. In `bootstrap` three days against two months
tell the order of the Tasks. In `memory` revision 4 is a run that went round its
cycle once. What the theorems cover does not depend on bounds. Deadlock is not checked in
most runs: identifiers are used up, and a system in which every Task is finished stops.

**Fairness.** The safety runs assume none: a CLI user need not come back and a killed
process does nothing. `AssessmentEnds` is stated under `FairSpec`: a call that is not
killed goes on (weak fairness of `Working(p)`: its steps wait for nobody), and callers
repeat their `assess` and give a response whenever that is possible (strong fairness, as
a process must be idle for it). The second is an assumption about users, not about the
code; it is what `src/README.md:163` promises to a user who comes back after a restart.
`AssessmentEnds` is weaker than that promise: it lets one more kill end it, as a process
killed between drafting the questions and putting them leaves a run that nobody can take
further (section 5).
`WatchEnds` is stated under `FairSupSpec`: each Supervisor that runs is scheduled (weak
fairness of `SupStep(p)`: a watch loop waits only for time to pass); Lease clock,
operator and kills owe nothing. It needs an interval below 30 s, with which a heartbeat is
due in finitely many rounds of a Lease; with a longer one it fails (section 5).

## 5. Findings

Two have a `violation` run, and are quoted with the sentence they contradict in
`PROJECT.json`.

* `exec_duplicate_provider`: the guard of an external effect is evaluated outside the
  transaction that reserves it.
* `project_two_inits`: an init that fails removes the state directory, with the project that
  another init has committed in it.

The others were met while modelling; the models have them, and each is the note of its
hazard. Of these, some are the conditions under which a property is stated, and changing a
constant of its run shows what happens without:

* Two compactions that overlap may archive the same events under different keys, after
  which the store does not open (`HistoryContiguous`, `store_history` without `"compact"` in
  `Alone`).
* A snapshot that a commit overlaps may be accepted without the result of that command,
  whose retry after a restore is run a second time (`AppliedOnce`, `store_commands`
  without `"snapshot"`).
* A store created between the check and the rename of a restoration is replaced with all
  that was committed in it (`HistoryKept`, `store_commands` without `"restore"`).
* Two registrations that both found no active version leave two (`OneInForce`, `evolution`
  with `OneRegistrar = FALSE` and without `"register"` in `Serial`).
* With an interval of 30 s or more a watch loop gives heartbeats for ever and never starts
  the Provider (`WatchEnds`, `supervisor` with `LongInterval = TRUE`).

And these are what no property promises:

* `verify` relates Task and Assignment only by their states, so that the Agent which
  performed the work of a Task may accept it through another's result
  (`src/specs/0016-pkr-v1.0-stable-contract.md:22`), or a Task stay `verifying` with no
  submitted Assignment.
* `pkr workflow transition` resolves a protected question with no response
  (`src/README.md:200`: "Protected decisions remain blocked when skipped"); nothing is made
  of it without one.
* A clarification run whose process was killed after it drafted its question
  (`src/src/clarification.ts:383`) is never put to the user, by any later `assess` or
  `respond` (`src/README.md:163`).
* A Package's promotion may replace another version than the one it was made for, or none
  (`src/specs/0009-pkr-package-evolution-v0.3.md:98`).
* Cancelling a submitted Assignment leaves its Session `closing` for ever.
* Of two identical `assess` calls one may supersede the run of the other; two of different
  contexts may both go on; a superseded run loses a response that was recorded after it was
  listed.
* After a breach the proposer may revise the candidate: the old one is then superseded and
  reported as needing no rollback, with the breached version in force
  (`src/specs/0014-pkr-v0.8-governed-evolution.md:28`: "a threshold breach requires rollback and preserves all failure
  evidence"). Two approvals at once leave two Decisions, and monitoring may be
  refused for ever; monitors at once exceed the budget; a Package version that was ever
  installed is not installed again.
* `init` refuses a repeated identical request, where `src/specs/0003-pkr-manifest-bootstrap-v0.2.md:289`
  says that it returns the existing Manifest. An export copies the commands last and
  may leave out an effect reserved meanwhile. Overlapping rebuilds may leave projections of an
  older state.
  A process whose directory was removed rebuilds the projections, and an init rewrites
  `config.json`, of whatever project is at the path by then.
* A bootstrap that was killed leaves a directory that every later bootstrap refuses; a
  plan read beside a bootstrap may be accepted with days missing, and be written after
  the bootstrap succeeded, or in the project that came after the one it read; the state
  digest in a plan may be of a later state than the sequence beside it; a bootstrap that fails removes what others have committed
  in the new project meanwhile.
* A reconciliation invalidates an entry that was derived from a newer revision than the one
  it listed, although its source is current (`src/README.md:437` says that entries
  become invalid when their sources change); an entry may be stale when it is committed. A
  transition that is sent again under its command id is refused and not replayed, as
  its edge is looked up from the state the run has by then.

## 6. What is proved

The inductive invariants (`ReadInv`, `LaneInv`, `StoreInv` and so on) stand at the end of
the modules they are about; TLC checked each of them on the instance of a run before it
was proved, and a mistake in one showed there first.

* `PkrExecution_proofs`, for any sets of Tasks, Assignments, Agents, Verifiers and
  processes: `TypeCorrect`, `SnapshotSafe`, `FenceSafe`. The invariant is
  `ReadInv`: types; `Fresh` (what was not dispatched has no record, at revision 0) and
  `Existing` (a prepared dispatch read a new Assignment, any other operation one that
  exists) are needed because a created record has revision 3 and not one more than it
  had; with them `SnapshotFaithful` is inductive: every write raises the revision, so an
  equal revision means an equal record. `FenceSafe` rests on `RunsUnderEntry`: whoever
  runs an effect has its pending entry in the journal, alone.
  `LaneIsSingle` and `DoneWasAccepted` hold of any pairs that `verify` is given: `MixedInv`
  is what survives a wrong pair, in which phases a live Assignment may find its Task
  (`LivePhase`) and what the guards have established (`Checked`).
  Assuming `MixedVerify = FALSE`, also `RecordsAgree`, `EndedIsFinal` and `Implements`. The
  invariant is `LaneInv`: `ReadInv`, what each prepared operation's guard has established
  of what it *read* (`Guarded`), and `OneLiveLane` and `PhaseAgreement` themselves. The
  step is always the same: at commit the revisions are
  unchanged, so by `SnapshotFaithful` what was read is what is stored, so `Guarded` speaks
  of the present, and the records written agree again. `Implements`, that every commit is
  one step of `TaskGovernance` or shows nothing of it, needs no more than `LaneInv`, as
  `Guarded` says of a prepared dispatch that it read a Task in backlog or blocked *with the
  reason `LeaseExpired`*: without the reason a dispatch could open a Task that
  `TaskGovernance` has as blocked for good.

* `PkrSupervisor_proofs`, under the same assumption and for any number of Supervisors:
  `SupImplements`, that what they do together with the operator and the clock is an
  execution of `PkrExecution` (so that all of the above holds of them);
  `ExitWasTrue`; and, if there is at least one Supervisor, `NobodyAbandons`. The first
  rests on `SupInv`: the ids that a round derives exist (`RecoveryInv`), and only where a
  command is given is one prepared (`PlaceInv`). The second
  on `ExitInv`: a verdict is made once, with its effect (`RunsUnderEntry`), so the verdict
  that decides between exit 0 and attention is the one that was committed, by whoever
  committed it (`AcceptInv`); and a Task that has ended stays so.

  `NobodyAbandons` is that no Task is left as if somebody worked on it: once all loops have
  ended and none was killed, it has ended, is blocked, or waits for something the owner is
  shown, or one of the loops has asked for a clarification or for what its configuration
  lacks. That needs the reason why a loop may end with attention. What
  a Supervisor loses, it lost to something that is still there: `HeartbeatInv` says that
  only heartbeats raise the revision of a live Lease and of its Session, together, and
  that each left its command, so that who finds the revision raised replays the command
  instead of failing; `ProviderInv`, that nothing is reported or submitted without the
  pending entry of its Provider, which is what the owner sees; `BacklogInv`, that before
  the first dispatch nothing could refuse one. With `GivenInv` (all commands are about
  the Task, and the operator only cancels) these give `CareInv`: a Task that is worked on
  and that nothing holds up has a Supervisor whose round leads to its live
  Assignment, and every step that takes one such Supervisor away either brings another to
  that place or has just met what holds the Task up.

* `PkrStore_proofs`, for any commands, contents, processes, retentions and bounds:
  `StoreTypeCorrect`, `NothingIsLost` (assuming `"restore" \in Alone`),
  `HistoryIsWhole`, `RecentIsKept` and `AcceptedSnapshotsAreCuts` (assuming
  `"compact" \in Alone`), and `CommandsAppliedOnce`
  (assuming `"snapshot" \in Alone`). `StoreInv` holds however operations
  overlap: no two live events have one sequence, and the rows that a compaction has
  chosen contain every live event older than one of them, because nothing is ever
  appended below the project sequence (`PendingSound`). So what `DELETE ... BETWEEN`
  removes is always in the archive of the same transaction, which is why nothing is lost
  even by overlapping compactions; the restoration must find the path as it left it
  (`OneRestore`). That nothing is archived *twice* needs the rows to be live still, which
  is `OneCompaction`; with it `HistoryContiguous` is inductive. That results and events
  agree does not need it: an overlapping compaction archives events of the history again,
  and adds none. `AppliedInv` says so of the store, of the snapshot file and of what every
  process is about to write; a snapshot that no commit overlaps has read, after each of
  its nine queries, what is still there (`ReadsTrue`), and one that a commit overlaps
  may lack a result (section 5).

  `RecentIsKept` (`KeptInv`) is about a count that `compact` takes outside its transaction.
  It holds because live events are only added meanwhile, and no other compaction takes any
  away: what the count promised to leave (`LeavesEnough`) can only grow. The policy may
  come from a snapshot, which may have read it beside any commits; it is
  never above the sequence that the same snapshot ends at (`ReadsKept`).
  `AcceptedSnapshotsAreCuts` (`CutInv`) lets every command commit between the nine queries.
  Revisions only grow, so a snapshot whose record has one revision before and after its
  events were read has read events that explain it; and a result it has read is final,
  so that a contiguous history up to that revision contains its events (`ReadsCut`). This
  holds while the store is the one the snapshot was begun in (`Intact`), and an accepted
  snapshot keeps being one after the store is lost.

* `PkrClarification_proofs`, for any contexts, responses, processes and bounds:
  `ClarificationTypeCorrect`, `ApprovalNeeded`, `AppliedAsResolved` and
  `RunsFollowWorkflow`. The invariant is `RunInv`. `Sound` says what a call may hold:
  at its commit a run that had the edge and, as long as the revision is the same, *is*
  the run, so that the comparison of revisions makes the old guard speak of the present;
  and a call that makes something of a protected proposal holds an approving response,
  which `steward.ts` asks of the session again, whoever resolved it. `Bound` says that a call that makes things holds the resolution the run has now; it
  stays true because no edge leaves `resolved` (`GoodKept`), and that is why two callers
  with different responses cannot make two outcomes. `Unasked` is needed for proposals
  without a question, whose outcome is that of no response.

* `PkrMemory_proofs`, for any definition, runs, commands, entries and processes:
  `MemoryTypeCorrect`, `RunsTakeEdgesOnce` (as `RunsTakeEdges`), `ServedCurrent` and
  `InvalidatedOnlyOnce`. `WorkflowInv` says that a revision read is never ahead of the
  run, and equal revisions mean the same state, so that the edge taken at commit leaves
  the state the run is in. `MemoryInv` adds that entries are bound to sources that
  exist (`SourcesExist`) and what an asking process has seen (`Asked`): every
  entry that was there is bound to at most the revisions it saw, so a binding that
  differs from what was seen is one that was superseded.

* `PkrEvolution_proofs`, for each of the five kinds and any versions, candidates, contents,
  principals and processes: `EvolutionTypeCorrect`, `OnlyTheApprovedIsPromoted`,
  `ACandidateIsActivatedOnce`, `AVersionTakesThePlace`; and, assuming `OneRegistrar`, `OneVersionIsInForce` and
  `VersionsAreALine`. `EvolutionInv` says what a prepared operation holds (`OpSound`): an
  unchanged revision means that what it replaces is still active, and a promotion carries
  the Decision, the passing Verification and the three different principals, none of
  which is ever undone. It holds however operations overlap, the ones that `Serial` keeps
  apart in the run included. `ActivationInv` adds why a candidate that two processes promote is
  activated once: the first replaces the version it was made for, so the second has
  a stale revision of it (`LatePromotion`). `ForceInv` adds that who activates
  where nothing was active is alone (`FirstRegistration`), which is exactly what the
  code does not compare and `OneRegistrar` assumes. From `ForceInv` before and after
  a step, each commit is an `Adopt`, `Replace`, `Overtake`, `Restore`, `Withdraw` or
  `Approve` of `VersionLine`, or shows nothing of it. `AVersionTakesThePlace` needs
  `EvolutionInv` alone: the version that goes out of force is written by the transaction
  that brings in the other, with the revision that was read.

* `PkrProject_proofs`, for any processes, requests and bounds: `ProjectTypeCorrect`,
  `TheSchemaIsWhole`, `OnlyOthersRefuse`, `AcceptedExportsAreCuts`, `ALoneRebuildIsFresh`.
  One invariant, `ProjectInv`, carries all five. `SchemaLearnt` says that what an opening
  has seen of the schema stays true, because a schema only moves on and the users of a removed
  file are lost; `QuietReads`, that a process which nobody disturbed has
  read what is there; `ExportInOrder`, that each part of an export is no older than the
  one before, so that the sequence and the last event can be equal only if the
  records between them are of the same moment; `AloneRebuilds`, that nobody else
  touches the projections of a lone rebuild, a lost process included (`Bereft`).

* `PkrProjectManager_proofs`, for any processes, Tasks, months and commits of others:
  `ManagerTypeCorrect`, `FailedLeavesNothing`, `PlansHaveTheMonths`,
  `PlansAreOfTheirSequence`, `DoneProjectsStay`, from `ManagerInv`. `OneMaker` says that
  a directory has one maker, the only one that builds in it or removes it;
  `Progress`, that what a bootstrap has passed is done; `PlanReads`, that what a plan
  has read is still so and was so when it read the sequence, and that the sequence has
  not gone back when it reads the digest, because Tasks, their phases and the sequence
  only grow, and the months come before the days (`MonthsFirst`); the plan of a removed
  project has read one that no longer changes.

The assumptions are those of the modules' `ASSUME`s and those named above:
`MixedVerify = FALSE`, that there is a Supervisor, the membership in `Alone`, and
`OneRegistrar`. No module assumes these; each theorem that needs one names it, and
sections 3 and 5 say what happens without `MixedVerify = FALSE`, a member of `Alone` or
`OneRegistrar`.

## 7. What is only checked, and what is not modelled

Model-checked only: `AssessmentEnds` and `WatchEnds`, liveness under fairness. They
would need ENABLED of the steps that fairness is stated of, which is out of the
prover's reach, as are induction over data and recursive operators; no module that has
theorems uses a recursive operator, and no property needs such an induction. The
numeric bounds of the models (`MaxSeq`, `MaxRev` and so on) remain in the theorems as
arbitrary constants.

Abstracted: the JSON content of records and its schema validation, repository evidence,
event types, digests (content compared by identity), time (one bit per Lease), the text of
intents and answers (what an assessment finds and what a response approves are
constants), the filter of who may see a Memory entry, the counts and the readiness of a
plan. Not modelled: `config.json`, the use of an alpha export after its project was
removed, and `SQLITE_BUSY` before `busy_timeout` is set, which ends an open with an error
and changes nothing; the pull lane's look-ups and the board of LPS; the intake, question
sheets and proposal validation of the project manager, and preflight, which are functions of their
input or probe the environment; the Repository Verifier and the Providers, which are
external processes and appear as the choice of their outcome; contracts, paths,
profiles, rendering and argument parsing, which keep no state.
