# A TLA+ model of the RealSaS Platform

RealSaS compiles the views of a drawn character into a puppet.  Three programs
do it: the Go **Platform** (`platform/`: Postgres tables, Temporal workflows, a
transactional outbox), the Python **Engine** (`compiler/`: one stage at a time,
called as a Temporal activity) and a C++ **runtime** that plays the finished
package.  Beside them the model that finds the puppet's geometry is trained for
days on rented machines.  What the system promises (what is reused, what counts
as qualified, what happens after a crash) is decided by the Platform, by the
Engine's own scheduler and caches and by the trainer's checkpoints, so that is
what these modules model.  Paths below are relative to the repository.

## Inventory

| Part | State it keeps | Operations | What is hard |
|---|---|---|---|
| Transactional outbox (`internal/outbox`, `internal/dispatch/outbox.go`, `temporal.go`) | `outbox_events`: delivered, available, claim token, claim time | claim a batch, publish, acknowledge, fail, take a stale claim over | several workers, crashes between steps, claims that outlive their limit, lost answers, rows that can never be delivered |
| Compile workflow (`internal/orchestration/workflows.go`) | position, plan, buffered signals (Temporal) | resolve, reuse / prepare, execute, commit, wait, resume, finalize | activities run at least once; the plan is replaced in mid-run; signals race with the wait |
| Control activities (`internal/control`) | `executions`, `execution_artifacts`, `attempt_artifacts`, `artifacts`, `qualifications`, `attempts.final_state` | one transaction each | repeats after a lost answer; two attempts committing one identity |
| Resolver, stage graph, registry catalog (`internal/resolver`, `stagegraph`, `registry`) | released graph (sealed) | identities, cache lookup | what an identity covers; which lane may hit what |
| External evidence (`internal/externalstage`, `internal/command/external_stage.go`) | `external_stage_evidence`, EXTERNAL_STAGE_READY commands | bind, then look at the status and submit a command | two steps that race with the wait and the plan |
| Command acceptance (`internal/command`) | `commands` (idempotency key), `compiler_run_bindings` | submit compile, render, capability, external-ready | repeated and concurrent submissions |
| Attempt reconciliation (`internal/dispatch/reconcile.go`) | `attempts.final_state` | close the attempts of failed workflows | stale candidates, attempts with several commands, head-of-line errors |
| Campaign cancellation (`internal/dispatch/cancel_campaign.go`) | `research_campaigns`, attempts | terminate workflows, close attempts | partial failure while workflows still move |
| Campaigns, attempts, interventions (`internal/campaign`, `attempt`) | campaigns, members, frozen stages | start, run, get | several transactions per call |
| Product closure and promotion (`internal/control/product_render.go`, `internal/product`) | `product_revisions`, the current revision | seal, promote | revision numbers, closure against cancellation |
| Render and capability workflows (`workflows.go`, `capability_workflow.go`) | render requests, capability attempts | resolve, execute, commit, finalize | as the compile workflow |
| Releases, models and channels (`internal/release`, `modelrelease`, `modelselection`) | sealed releases, channel heads, snapshots | seal, move, select | a snapshot taken while a channel moves |
| Failure diagnostics (`internal/diagnostic`) | failure signatures, directives | record | deduplication by repeated activities |
| Agent sessions, experiments (`internal/agentsession`, `experiment`) | sessions, links | open, close, link | lifecycle |
| Engine worker (`compiler/realsas_compiler_services/platform_worker`) | none | execute one stage for the Platform | what it may answer to which request |
| Engine orchestrator (`orchestrator/mainline.py`, `status_semantics.py`) | the run ledger, a file | verify, invalidate, run what is ready, seal | adapters and manifests that change between and during runs, a process that dies at any write, demo-only results |
| Render cache (`cache/content_addressed.py`, `reference_render.py`) | a directory per node | restore, store, render | processes without a lock, damaged files |
| Tool cache of a runner (`tools/platform_cache_lock.py`, `platform_ci_bootstrap.py`, `platform_cache_gc.py`) | environments, temporary directories, lock files | wrap a job, ensure an environment, collect | a collector beside jobs, processes that die with half the work done |
| Cohort training (`models/iris/training/cohort_v1.py`) | the trainer's fields, a directory of checkpoints with two pointers, the results and their mirror | resume, train, evaluate, end a stage, save, export | a process or its machine dies between any two files; what a resumed run must know |
| HTTP API, registry API, operational views, stores | content-addressed rows | insert, read | none of their own |
| Compiler core, runtime, other models and tools | numeric data | – | numeric, not modelled |

What should hold of them, in a sentence each: the outbox delivers every accepted
command at least once and starts one workflow per command; a compile binds one
artifact per stage, each made from what its identity says; a stage that waits
goes on when its evidence is there; research results made for a demo never reach
a product; a failed workflow leaves no attempt open and a completed attempt is
whole; a sealed revision's attempt is qualified; a confirmed cancellation leaves
nothing running, and a cancellation comes to an end unless a workflow it has to stop
waits for evidence; the run ledger holds what the code, the manifest and the files on
disk give; a cache never hands out half an entry; a training run that is killed and
resumed ends with the model of one that was not.

`PROJECT.json` lists the components with their status, and under `hazards` the
places where this can go wrong and a test would hardly show it.

## Modules

| Module | Models | Used by |
|---|---|---|
| `Delivery` | what the outbox promises: accepted, then applied, then delivered; one run per start event | `Outbox` (refinement) |
| `Outbox` | `ClaimBatch`, `Publish`, `Ack`, `Fail` of any number of workers, their crashes, Temporal's side of a publication | `MCOutbox`, `OutboxProofs` |
| `StageIdentity` | stage graph, semantic identities | `CompileAttempt` |
| `Compilation` | what compiling promises: stages bound in order, from a registry that only grows | `CompileAttempt` (refinement) |
| `CompileAttempt` | `CompileWorkflow`, its activities, `Bind` and the tables they share, for any number of attempts | `MCCompile`, `MCDisciplined`, `CompileProofs`, `EvidenceProofs` |
| `EvidenceRace` | `CompileAttempt` with a history variable for one race | `MCEvidenceRace` |
| `Closure` | what reconciliation and cancellation promise: an attempt is closed, a cancellation confirmed on a ground that holds at that moment | `AttemptLifecycle` (refinement) |
| `AttemptLifecycle` | who closes an attempt: its closure, `reconcileFailedAttempts` of loops and operators, `CancelResearchCampaign`, `campaign.Run` | `MCLifecycle`, `LifecycleProofs` |
| `Build` | what the Engine's scheduler promises: an incremental build | `EngineLedger` (refinement) |
| `EngineLedger` | `execute` over one run ledger, with edits, damage and crashes around it | `MCLedger`, `MCLedgerLive`, `LedgerProofs` |
| `RenderCache` | one entry of the render cache and the processes that look up, store and replace it | `MCRenderCache`, `RenderCacheProofs` |
| `ToolCache` | a runner's environments, wrapped jobs and collectors | `MCToolCache`, `ToolCacheProofs` |
| `Training` | what training promises: one run, one checkpoint replaced at once, one result | `CohortTraining` (refinement) |
| `CohortTraining` | `SharedIrisTrainer`, its checkpoint store and its export, through deaths and resumptions | `MCCohort`, `CohortProofs` |

### Outbox

`row`, `ready`, `claim`, `expired` are the columns `delivered_at`,
`available_at <= now()`, `claim_token` and `claimed_at < now() - 5 min` of a row;
time appears only in those two comparisons.  `held[w]` is the batch in the memory
of worker `w`, with the tokens it was given; `phase[w]` is the position of its
loop.  `workflow`, `runs`, `signals` are Temporal: a workflow id is started once
(`REJECT_DUPLICATE`, and "already started" counts as success) and a signal needs a
running workflow.  Every SQL statement of the code is its own serializable
transaction and is one action.  `PublishError` is a call that fails before or
after it took effect, `Crash` a process that dies or a database that refuses an
`Ack` or `Fail`; either way the rest of the batch stays claimed until its claims
go stale, as in the code.  A run that Temporal has purged after its retention would
let a publication delayed for longer start a second one; the model has no retention.
A row that is no command (`OtherEvent`; product
promotion writes such rows) is rejected and retried.

### StageIdentity and CompileAttempt

The resolver hashes a chain of descriptors.  Up to collisions the hash of a stage
says which root it started from (subject input, release, models) and which
evidence the stage and its ancestors had, so an identity is that record, and
`Lineage` is the ancestor closure.

Per attempt: `pc`, `index`, `snapshot`, `reuse`, `result`, `channel` are the
workflow (`snapshot` is the evidence its current plan was computed from, `reuse`
the stages the plan marks REUSE); `final`, `execution`, `copied`, `evidence`,
`bound`, `failures` are rows.  `artifacts`, `qualified` are the registry all
attempts share; `ready`, `sent` the EXTERNAL_STAGE_READY commands, whose delivery
is `Outbox`'s: at least once, to a workflow that has not closed.  `binding` holds
the `Bind` calls between their transaction and their status read, `abandoned`
those that died there.

One action is one activity: its reads and its transaction.  That is sound because
the only tables others write meanwhile, the evidence and the registry, grow only,
and the transactions are serializable.  `Answer` is the end of an activity: its
answer arrives or is lost, and then it runs again; `ActivityExhausted` is the last
retry.  `EngineAnswers` are the answers the Engine may give to its request: it
waits iff a required role is missing, gives PASS_DEMO_ONLY in the research lane
only, never PASS from a demo-only dependency, and errs (no answer) for a product
with a demo-only input.  The content of an artifact stands for the Engine's
outputs and is a function of the status and the inputs (`Produced`): the Engine is
deterministic, which the Platform also checks (ARTIFACT_NONDETERMINISM).  The check
compares manifests, which name the status and the outputs; so inputs that differ from
those of the artifact found may be refused or pass unseen (`Committable`, `Reproduced`).

### AttemptLifecycle

`final`, `commands`, `delivered`, `campaign`, `confirmed`, `revisions` are columns
or rows; `workflow`, `purged`, `canceled`, `closing`, `waiting` are Temporal, with
`closing` for a `FinalizeCompile` that may still commit after its workflow ended and
`waiting` for a workflow that stands in `signalChannel.Receive`, which a request to
cancel does not wake (`WaitStarts`, `SignalArrives`).  A loop, an
operator and a run of a campaign each have a `pc` and a list `todo` of attempts
still to look at, in order of `created_at`; what they do for one attempt are the
steps of the code: the query, the description by Temporal, the transaction that
reads the row again.  `commands` counts to two because the code only asks for
"exactly one": an EXTERNAL_STAGE_READY command is the second.  What starts and
delivers the commands is `Outbox`'s, what the workflow does is `CompileAttempt`'s;
here it is reduced to running, waiting, ended well and ended badly.  `Abort` is an error, a
timeout or a crash of any of the three callers.

### EngineLedger

`disk` is the ledger file and `mem` the copy of a running process; the places of
`pc` are the phases of `execute`: the scan of old passes, the loop that resets
stale failures, `--no-resume`, the batches of ready stages, and in a batch each
stage before, in and after its adapter.  Every `write_ledger` is the action that
makes `disk'` equal `mem'`, so `Crash` may strike between any two of them.  A
fingerprint names the version of the adapter's import closure, the manifest values
and the outputs of the dependencies' rows; the hash of a file is the file.  `Edit`
changes one of adapter, manifest or output file at any time, also while a process
runs.  An adapter writes what it likes and reports what it likes.
Not in the model: two processes that execute one run overwrite each other's ledger
(nothing locks it; the Platform's worker runs one at a time), and a file edited under a
running process is hashed although the process executes what it imported before.

### RenderCache

One entry, `NoFile` or a manifest with an artifact, each whole, damaged or absent,
and per process its place in `render`: the lookup reads the manifest, then the
artifact, then copies, then hashes the copy; the store reads the manifest, then the
artifact, of the entry there is, renames the old entry away, wipes it if that fails,
and renames its own in.  Each is a step of its own, since no lock is held.  The rename
may fail for any reason, and the wipe leaves what it cannot remove, for `rmtree`
ignores errors.  `damage` bounds damaged files; `alone[p]` says that nobody touched the
entry since `p` began and that the disk kept every file and let go of those `p` removed.

### ToolCache

An environment's directory is what is there of it: the interpreter and the stamp
that `ensure_venv` checks, and the packages, which it does not.  The root lease is
the wrapper's (`leased`) and `ensure_venv`'s own (`Bootstrapping`), the lock of an
environment is held from `check` to `drop` or by the collector that removes it.
The kernel drops the locks of a process that dies, so `JobDies`, `WrapperDies` and
`CollectorStops` only move `pc` and `leased`.  `Legacy` jobs hold a shared lock of
their environment, as the collector's tests have them.

### CohortTraining

`mem` is the trainer's fields, `None` where no process runs; `files`, `latest`,
`previous` the directory of checkpoints, `out` and `kept` the results on the
machine and their mirror.  A model is the sequence of updates it went through, and
an update names all it depends on: the place in the schedule, the optimizer's age,
the replay bank and the generators.  So two models are the same exactly when they
were made in the same way, and `score`, what evaluating a model finds, may be any
function.  Nothing is written between an update and the save after it, hence
`Train`, `EvaluateStep` and `CloseStage` are steps in memory, and `AfterStep` lists
the writes that follow, one action for each file written, renamed or removed:
`Copy`, `SetPrevious`, `Publish`, `Unlink`, `WriteSelected`, `WriteResult`,
`Mirror`.  `Crash` strikes between any two of them, `Gone(TRUE)` takes the
machine's local output along, `Damaged` is a payload that arrives broken.
`Accepted` is what `validate_shared_iris_payload` of the Engine asks of a result.

The checkpoint's name is new at each save (a uuid); staged files nobody reads are left
out, as is the trace file.  Training is taken to be deterministic, as the code
configures it (`cudnn.deterministic`), and equal models to be written as equal
bytes.  Two trainers on one directory, which nothing in the code excludes, are not
modelled; and `PREVIOUS.json` is kept but never read by `load`.  `ResumeIsReplay` is
the promise of `docs/corpus/IRIS_SHARED_COHORT_RUNNER_V1.md`: "Interrupted and
uninterrupted training are tested to produce byte-equal model state".

### Delivery, Compilation, Closure, Build and Training

What a component promises to whoever only sees its tables or files, without the
processes, places and retries by which it keeps the promise.

- `Delivery`: a row of the outbox is accepted, takes its effect, and is settled after
  that.  Claims, tokens and batches are gone.
- `Compilation`: an artifact enters the registry once for its identity and stays; an
  attempt binds its stages in order, each in one step that takes an artifact or adds
  one whose inputs are what the attempt has bound and evidence it has, at least the
  evidence its identity names (`Honest`).  The plan, executions, signals and waits are
  gone.  `outcome` is read off `final` and the place of the workflow.
- `Closure`: an attempt becomes FAILED, a cancellation confirmed and a campaign RUNNING
  in one step, in a state where the ground for it holds; there are no lists, scans and
  processes.  All its variables are those of `AttemptLifecycle`.
- `Build`: results are made one at a time out of the results in the ledger and thrown
  away with all that was made of them.  `result` is a function on the stages that pass
  on disk: their outputs, their taint, and the outputs their fingerprint names.
- `Training`: a trainer walks along a fixed run, a single checkpoint is replaced at
  once, the result of the whole run is handed over.  `checkpoint` is what the payload
  named by the pointer restores to; `memory` is the trainer between two updates, so the
  steps of one update map to one step of the run.

### Slips

Operators whose comment starts with "Slip:" are not part of a specification.
Each is a plausible mistake in the operator after it; `PROJECT.json` names the
property that notices it.

## Runs

| Run | Instance | Shows |
|---|---|---|
| `outbox` | 2 workers, a command, a signal to its workflow, a row that is no command, batches of 2, 2 faults | a live claim is respected, a fault orphans a batch of rows at most, delivery follows the effect and is final, one run per command, duplicates only after faults, `Outbox` implements `Delivery`; every accepted command is acknowledged although the undeliverable row is retried for ever |
| `compile` | one research attempt, 2 stages (roles p, q and role p), evidence at any moment, 1 fault | no lost wakeup, every activity is admitted, a completed attempt is whole; a blocked workflow whose evidence is complete goes on |
| `disciplined` | a research and a product attempt with one root, 3 stages that each depend on all before them, the second with a required and an optional role, 3 faults | provenance equals identity, also for what is reused, if clients bind a stage's evidence at once and while it waits; demo-only results stay in the research lane; `CompileAttempt` implements `Compilation` |
| `lifecycle` | a product attempt and a campaign's member, a loop that takes one candidate, an operator, a run of the campaign, 1 fault | who closes an attempt and on what witness, what a sealed revision, a confirmation and a RUNNING campaign mean; `AttemptLifecycle` implements `Closure`; failed workflows' attempts close, a cancellation ends unless a canceled member waits for evidence |
| `ledger` | a demo run of a chain of 3 stages, the first imported, 2 contents, 1 edit, 1 crash | the ledger on disk loads, lineage is current, failures stay sealed, success is complete unless a process died, and `EngineLedger` implements `Build`, where the taint of a demo reaches what is made from it; in the end passes are those of code, manifest and files |
| `render_cache` | 3 processes, one damaged file | reports are exact, entries whole, nobody fails without a rival or a disk that refuses |
| `tool_cache` | 3 wrapped jobs of 2 environments, a legacy job, 2 collectors, 2 faults | what a job uses is whole unless a collector died in it, builds are undisturbed, everyone ends |
| `cohort` | 3 stages of 2, 1 and 2 steps that evaluate, save and rank replay differently, stops after 1, 4 or 5 steps, 4 score functions, 6 names, 2 faults | the pointer names a whole checkpoint, resumed runs are the uninterrupted one, stages hand on their best model, an accepted result stays in the mirror, `CohortTraining` implements `Training`; in the end there is a result |
| `evidence_race` | one attempt, 2 stages of a role each, no fault | violation: see below |
| `provenance` | as `compile`, no fault | violation: see below |
| `ledger_reuse` | 2 independent stages and one on both, 2 edits | violation: see below |
| `ledger_crash` | the same, 1 crash, no edit | violation: see below |

**Bounds.** Two workers and three tokens: a row's claim and the other worker hold
at most two.  Two faults let a claim be taken over and an answer be lost in one
behaviour.  Two stages are enough for a signal of one stage to meet the wait of
another, and for a reused stage to stand on a parent the attempt made itself;
three for a demo-only result to reach a product through one that passed.  Two role
sets of one stage give two commands, two signals and two identities for it.  `MaxFaults` bounds
lost answers, exhausted activities, dead `Bind` calls and repeated signals
together; everything else is finite by itself (evidence and registry are subsets
of finite sets, a stage is executed again only after its evidence or its signals
grew).  In `lifecycle` one product attempt older than one member lets the first
starve, or close under, the reconciler that is after the second.  The chain of three stages of the
ledger has batches of one, larger ones rest on the theorems.  Three stages of a
ledger put a stage between the one that is reopened and the one that must be
reopened with it; two contents let an adapter answer differently the second time.
Three renders let one publish between the check and the rename of two others.  Two
faults of the tool cache let a collector die in an environment and the wrapper of
its next user die, too.  The stages of `cohort` save at every step or only at their
end, start with a candidate or without, and refresh, freeze or keep the replay bank;
the scores let the first, the last, the inherited or every evaluated model of a stage
be the best.  Six names never run out: two checkpoints are kept, one is being
written, and each of two faults may leave one more behind.  The proofs need none of these bounds.

**Deadlock** is not checked for `Outbox`, `CompileAttempt`, `AttemptLifecycle` and
`ToolCache`: a workflow that completed or failed, a stage whose
evidence nobody binds, an empty outbox, a cancelled campaign and a cache whose
processes are done are ends or waits the system may have.  It is checked for
`EngineLedger`, `RenderCache` and `CohortTraining`, where somebody may always call
again.

**Fairness.** `Outbox`: dispatch loops poll every 500 ms and a worker that does not
fault finishes its batch (weak fairness of its steps); claims taking a row are
strongly fair, because a failed row waits at least 2 s, which is four polls, and so
cannot fill every batch; time passes. That is an argument about few such rows: with
so many of them that a hundred are due at every poll, older ones would crowd out the
others, and a row would be neither claimed nor delivered.  `CompileAttempt`:
Temporal runs an activity until it answers or is exhausted, the process that bound
evidence goes on to its status read, the outbox publishes each command
(`CommandsAreDelivered`), and a client whose `Bind` call failed repeats it. No
fairness is assumed of the clients' first call.  `AttemptLifecycle`: commands are
delivered (again `Outbox`'s promise), a workflow asked to cancel ends unless it
stands in `Receive`, loops poll, and an operator's call runs until it returns; no
workflow is assumed to end by itself. Neither the deadline of an operator's call (90
s, `cmd/realsas-control-worker/main.go`) nor the execution timeout of a workflow (7
days, `dispatch/temporal.go`) is relied on: both end what already hangs.
`EngineLedger`: a process that runs goes on, adapters return, and execute is called
again after it returned; the edits, the failures and what adapters report are not.
`ToolCache`: processes go on and each runs once, so a lock is asked for finitely
often and weak fairness is enough, whatever order the kernel grants it in; that
collectors start is not assumed.  `CohortTraining`: a trainer goes on, somebody
starts one where none runs, and, again and again, somebody runs it without an early
stop (strong fairness, for others may stop and quit it in between).

### Disagreements with the text of the repository

`evidence_race`: the workflow's comment on its lost-wakeup guard says that, for
evidence arriving before the wait is committed, "the binder intentionally sends no
signal".  `Bind` reads the status outside its transaction, so it may send one.
Nothing is lost by it, but the signal stays in the channel and ends a later
stage's wait as `ExternalEvidenceSignalViolation`.

`provenance`: `PrepareStageExecution` gives the Engine the evidence bound by then,
while the result is registered under the identity computed when the plan was
resolved.  Evidence that arrives in between (for a stage with optional roles, or
before the stage first runs) is an input of the artifact that its identity does
not name.  `disciplined` shows what clients may do so that this never happens.

`ledger_reuse`: the plan's resume contract has a pass reused only if its input
fingerprint and its outputs verify.  `_verify_existing_passes` invalidates the first
stale pass with its dependents and returns; another stale pass beside it is kept, and
what runs in this `execute` is built on it.  `EventuallyFresh` shows that calling
execute again and again catches up.

`ledger_crash`: a process that dies inside an adapter leaves its row RUNNING, which
is neither ready nor failed: a later `execute` that resumes skips the stage and what
depends on it and returns 0, for as long as nothing that the stage stands on is
reopened.  (A stale pass among its ancestors, or `--no-resume`, reopens the row with
its ancestors.)  `SuccessUnlessCrashed` is what is left of the promise.

Some properties that hold name an exception that a reader should know of, since it is
what the code does.

- `CancellationEnds`: a canceled member whose workflow stands in
  `signalChannel.Receive` stays running.  The cancellation polls it until its 90
  seconds are over and reports CAMPAIGN_CANCELLATION_NOT_TERMINAL, and so does every
  repetition, until the evidence arrives or the workflow's seven days are over.
- `ConfirmedIsClosed` and `FailuresClose`: the reconciler passes over attempts with a
  second command, which is every attempt that was ever signalled, and over those behind
  older candidates (`Starved`): one whose workflow cannot be described, or a batch full
  of running ones.
- `ImplementsClosure`: a closure in flight turns an attempt that a reconciler failed
  into a qualified one.
- `UsedIsWhole`: a collector that dies, or cannot remove a file, inside an environment
  may leave the interpreter and the stamp, and `ensure_venv` then reports CACHE_HIT on
  the rest, although `docs/platform/PLATFORM_THROUGHPUT_HYDRATION_GC_PLAN_20261008.md`
  has it that "Arbitrary files are never pruned from inside a reusable environment".
  And a job whose wrapper died goes on without a lease, for which nothing is promised.

## Proofs

Checked by TLAPS for every value of the constants that satisfies the named
assumptions (`OutboxAssumption`, `GraphAssumption`, `AttemptAssumption`,
`LifecycleAssumption`, `LedgerAssumption`, `CacheAssumption`,
`ToolCacheAssumption`, `CohortAssumption`, `UninterruptedAssumption`,
`NoneAssumption`); TLC evaluates them in every run.  Every safety and action
property that a passing run checks has a theorem.  That every reachable state has its
type (`TypeOK`) is proved and not run, and so are `CoherentLineage` and `TaintVisible`
(the latter follows from `ImplementsBuild`, too, which is run).

- `OutboxProofs`: `TypeCorrect`, `DeliveryFollowsEffect`, `AtMostOneRun`,
  `LiveClaimsHold`, `DeliveryIsFinal`, `DuplicatesArePaid`, `OrphansArePaid` and
  `OutboxImplementsDelivery`.  The invariant is `IInv`: the exclusion of tokens
  alone is not inductive without "batches are rows of the table" and "only pending
  rows are claimed", and "delivered was applied" needs that a worker in `ack` has
  seen the effect of its current row.  The refinement maps each step to `Accept`,
  `Apply`, `Settle` or a stutter from the same invariant.  Duplicates are counted
  with a potential, `Paid`: the signals Temporal accepted, the workers that hold the
  row and may still publish it, and one more while the row may be claimed, never
  exceed one plus the faults.  `OrphansArePaid` counts rows: those claimed that no
  worker holds, and a whole batch for each worker that is overdue, never exceed the
  faults times the batch size.  A crash orphans what is left of a batch (`BatchesStep`: no
  more than the batch size, for a claim takes the lowest rows up to that number,
  `LowestIsBounded`); a worker that gives up because it was overtaken was overdue, so the
  batch it leaves is paid for since its claims expired (`ExpiryIsPaid`).
- `CompileProofs`: `TypeCorrect`, `StagesAdmitted`, `CompletionIsWhole`,
  `LanesAreSeparate`.  `Control(a)` says what the loop has done and not done at
  each place: all stages behind the index are bound, nothing ahead of it is bound
  or passed, and the stage at hand is bound or passed only when an answer was
  lost, under its expected identity.  Without the last clause a refreshed plan
  could turn a bound stage into a drift.  `RegistryIsSound` says that an identity
  has one artifact, that a qualification is the lane of its artifact's status and
  that inputs are registered; with `AnswerInLane` it carries the separation of the
  lanes through reuse.  A step of one attempt leaves another's `Control` alone
  because the registry only grows (`ControlFrame`).
- `EvidenceProofs`: `WakeupsAreKept`.  `WakeupInv` adds that a waiting workflow's
  execution says so, that plans know no evidence that is not bound, and that a
  published signal is buffered, or has just ended the wait, or is older than the
  plan.  The argument is the code's own: a workflow only blocks if its identity is
  unchanged, so its own stage has no newer evidence at that moment
  (`OwnEvidenceChanges`), and evidence bound later finds the status waiting.
  In the same module `ProvenanceKept` and `LineageCoheres`, for clients that bind a
  stage's evidence in one request and while it waits (`~BindsFreely`; without it
  `MCProvenance` and `MCEvidenceRace` show the properties false).  `ProvenanceInv` says
  of each attempt that only the stage at hand may have evidence its plan does not
  know, and only while it is blocked or about to plan again (`PlanIsCurrent`); that
  the Engine is given all the evidence the stage has (`InputsAreWhole`); that what is
  bound has the identity the plan in force gives it, which new plans leave alone
  behind the loop (`BoundAsPlanned`, `ExpectedStays`); and that who signals a stage has
  bound evidence for it.  A request binds at least one role, as `Bind` demands.
  `CompileImplementsCompilation` needs none of that discipline.  Its own strengthening
  is `InputsInv`: what the Engine was given is evidence the attempt has, no less than
  the plan in force knows of it, and complete when the result passed.  Every step of a
  workflow is a stutter of `Compilation` except the reuse of a stage (`ReuseRefines`,
  which after a lost answer is a stutter, too), the commit of a result
  (`CommitRefines`: `Take` if the manifest is there already, `Make` otherwise, honest by
  `ProducedIsHonest`) and the ends.
  `IdentityIsChain` is about `StageIdentity`: the record that stands for a hash changes
  exactly when the chain of hashes does, for the ancestors of a stage are its direct
  dependencies and theirs (`LineageUnfolds`).
- `LifecycleProofs`: `LifecycleTypeCorrect`, `FailuresHaveWitness`,
  `RevisionsStayQualified`, `ConfirmationIsClosure`, `RunningCampaignIsWhole`,
  `ClosedStaysClosed`, `LifecycleImplementsClosure`.  The invariant says of each process what it knows of the
  attempts it has dealt with (`Reconciling`, `Canceling`, `Submitting`).  That
  knowledge survives what all others do because tables and Temporal only move one
  way (`Grows`), so each step is looked at for its own process only.  The refinement rests
  on the same knowledge: what a process is about to write has its ground still when it
  writes it, so its transaction is one step of `Closure` and all it read before are
  stutters.
- `LedgerProofs`: `LedgerTypeCorrect`, `LedgerLoads`, `LineageCurrent`,
  `TaintReachesDownstream`, `FailureStaysSealed`, `SuccessComplete`,
  `ReuseVerifiedUpToFirstStale`, `LedgerImplementsBuild`.  The invariant
  is about the rows in memory and on disk alike (`Sound`): what ran names the
  outputs its dependencies have, which is kept because `Dependents` is closed under
  "depends on" (`DependentsClosed`, `InvalidateKeepsSound`).  What is visible downstream
  follows from direct dependencies, again by closure.  `SuccessComplete` takes the
  least target that does not pass: nothing before it failed, so it is ready, and
  `execute` would not have returned.  `ReuseVerifiedUpToFirstStale` is what is left of
  the resume contract that `ledger_reuse` refutes: a pass the scan keeps is verified, or
  comes after a stage that this scan reopens; so a scan that finds nothing stale has
  verified everything.  For the refinement, what passes in memory is on disk, and while
  an adapter runs the two agree (`MemoryIsKept`): then every write either makes no row
  pass, and what is left stands on what is left (`WriteReopens`), or is the end of one
  stage that names its dependencies' present outputs (`FinishMakes`).
- `RenderCacheProofs`: `CacheTypeCorrect`, `ReportExact`, `EntryWhole`,
  `RaiseIsRivalry`.  `Knows(p)` is what a process has established at its place,
  whatever happened since; `Undisturbed(p)` what holds while nobody else touched the
  entry.
- `ToolCacheProofs`: `ToolCacheTypeCorrect`, `EnvironmentsWhole`, `BuildsKept`, `WaitingEnds`.  The
  root lease excludes collectors from everything else (`RootExcludes`), an
  environment's lock excludes its users from each other (`LocksExclude`,
  `RemovalIsLocked`); hence what a job learned of its environment stays true
  (`JobsKnow`), and only a collector leaves half of one (`HalfIsTorn`).
  `WaitingEnds` is the part of `JobsEnd` that is safety: who cannot go on waits for a
  lock whose holder can, so there is no cycle of waits and no lock without a process
  behind it, and a job whose wrapper holds the root lease does not wait for it again
  (`WaitsAreShort`, with the guards of the steps written out, for `ENABLED` cannot be
  proved about).
- `CohortProofs`: `CohortTypeCorrect`, `LatestAlwaysLoads`, `ResumeAlwaysReplays`,
  `SelectionIsBest`, `ReturnedStaysAccepted`, `CommitsNeverRegress`,
  `CohortImplementsTraining`.  `MemoryInv`
  follows an update through its three steps: between updates the fields, and every
  whole payload, are those of the uninterrupted run, `Advance` of the step before.
  `SaveInv` and `ExportInv` say which files a save or an export that has come to a
  given write has dealt with; `CommitInv` that the pointer is not ahead of the trainer and that
  the results of the last step are written after its checkpoint; `ReturnInv` that the final checkpoint is committed once a
  complete result was returned, so every later export can only write the same
  pair.  No recursion is needed: that `Uninterrupted` is the run is an assumption on a
  constant (`UninterruptedAssumption`), which TLC evaluates.  In the refinement only
  `Publish` moves the checkpoint, to what the trainer has in memory, and every other
  file written, lost or removed is a stutter (`FileRefines`); a result is handed over
  when a run returns, with the last checkpoint committed by `ReturnInv`.

Five of the theorems are refinements: the promise of `Outbox`, `CompileAttempt`,
`AttemptLifecycle`, `EngineLedger` and `CohortTraining` is a module, and each initial
state and each step of the component is one of the promise or a stutter, for every
value of the constants.

Model-checked only: liveness (`CommandsAreDelivered`, `WaitingResumes`,
`FailuresClose`, `CancellationEnds`, `EventuallyFresh`, `JobsEnd`, `TrainingEnds`),
which is out of the prover's reach, as is every statement with `ENABLED`, and what the
functions of the run (`Uninterrupted`) compute step after step, which would be an
induction over data.

## Not modelled, and the plan

Done, in the order of the plan: `Delivery` and `Outbox`; `StageIdentity`,
`Compilation`, `CompileAttempt`, `EvidenceRace`; `Closure` and `AttemptLifecycle`, with
the closure of a product attempt, cancellation and the run of a campaign; `Build` and
`EngineLedger`; `RenderCache`; `ToolCache`; `Training` and `CohortTraining`.  What the code still has to model, most important first:

1. `RenderWorkflow` and `CapabilityWorkflow` over the registry of `CompileAttempt`.
   They have the loop of the compile workflow without its waits.
2. The Engine's own transactions: the compile transaction (`CompileTransaction`), and
   the durable checkpoints of the older training runs
   (`models/training_runtime/durable_state_v1.py`); the runtime preflight around
   the cohort's trainer.
3. Campaign start and interventions with frozen stages; the model snapshot of a
   compile against a channel that moves.
4. Command idempotency (`SubmitCompile` and its concurrent repeats), diagnostics and
   their deduplication, agent sessions: one serializable transaction each, so what
   could go wrong is in the data more than in the order of steps.  The same holds of
   product promotion, one transaction that locks the subject's row.
5. Pure algorithms against reference definitions: `ParsePlan`, ancestor and
   descendant closures, release impact, the promotion contract.
6. `CompileAttempt`'s signals as an instance of `Outbox`'s.

Left out for good: the contents of artifacts, schemas and JSON, the HTTP layer,
read-only views, the compiler's geometry, the runtime, what a model computes and how
well it learns, and tools other than the cache. Most of the repository's lines are
of these kinds: numeric code, whose correctness is not a matter of states and steps.
In the modules above the rows written only for people (`attempt_events`,
`audit_events`) and attempts with a frozen intervention are left out, too.
