# TLA+ models of AgentLab

AgentLab runs long-lived, audited work by language-model agents. This directory
models the parts of it that carry state other parts trust, checks them with TLC
on small instances, and proves the central invariants with TLAPS for every
instance. File names below are relative to the repository.

## 1. Inventory

### Task Runtime (`agent_runtime/task_runtime_v2/`)

One business goal is one Task; a Task has Jobs, Jobs have WorkItems, WorkItems
have Attempts, and Attempts produce ArtifactVersions with EvidenceBindings
(`docs/TASK_RUNTIME.md`). The only authority is an append-only, hash-chained
ledger `events.jsonl` per Task.

| part | state | operations | interaction |
| --- | --- | --- | --- |
| ledger (`runtime.py` 3515-3661) | lines of `events.jsonl`, flock, projection files | `_append_event`, `_append_ledger_line`, `_load_events`, `rebuild_task` | called by every command; processes share the files |
| lifecycle (`runtime.py`, all commands and `_project`) | status of Task, WorkItems, Attempts; leases; versions, evidence, selection, dispositions; gates; trace records | about twenty commands, each one event | validated against the projection under the ledger lock |
| admission (`runtime.py` 2896-2924, 907-1046) | set of Tasks, goal fingerprints, project index | `create_task`, `rebuild_project` | admission lock, then each Task's ledger lock |
| input tiers (`input_tiers.py`) | none | `classify` | verdict stored by `create_task`, enforced by `schedule_attempt` and completion |
| role, deterministic and projection executors | Attempt logs and receipts | schedule, start, run, validate, finish | several commands per Attempt, in one process that may die |
| log retention (`retention.py`) | attempt logs, receipts | `plan`, `apply` | by hand, beside running Attempts |
| migration (`migration.py`) | legacy task directories | inventory, import, old status | several commands per run, and a rebuild at the end |

Hard here: commands of several processes interleave at the ledger lock; one
command reads before it locks; requests are retried; processes die between
write, flush, fsync and the nine projection files; validation is written twice
(in the command and in the reducer); WorkItems are unlocked as a side effect of
another WorkItem's event; accepted work can be reopened.

Correct means: an idempotency key is spent once and success is durable; one
active Attempt per WorkItem; dependents start after their dependencies and are
never forgotten; what is selected is evidenced and not retired; a completed
Task has, and keeps, what its tier or protocol demands; no command appends an
event that replay refuses.

### Background jobs (`background_job_controller.py`, `background_job_worker.py`)

A job is a YAML state advanced by controller cycles under a non-blocking file
lock; each action is run by a detached worker that writes a receipt, which a
later cycle consumes. State: status, active attempt with lease and pid, retry
counts, pause flags, processed receipt keys; beside it the completion receipt
and the operator's feedback file. Operations: the six steps of a cycle (recover
an orphan, consume a receipt, completion receipt, feedback, schedule, launch),
`pause_job`, `resume_job`, `retry_blocked_job`. Hard: controllers and workers
die independently, receipts race lease expiry and orphan recovery, pause races
everything. Correct means: an action is not run twice at once, a receipt is
applied once, batches finish in order and on evidence about their present text,
rewriting ends, and a job that is not terminal can always be moved on.

### Project truth and project agents (`project_truth/store.py`, `project_agents/`)

Immutable snapshots, receipts, an event log and one pointer file, under a lock,
with compare-and-swap commits, idempotent retries, recovery of interrupted
commits, and rollback. Agents are manifests kept as resources of that store;
collaboration plans bind WorkItems to a snapshot under a lease on the lock, and
the Task Runtime validates a binding later without it. Hard: a death between
snapshot, receipt, event and pointer; reads before the lock; commits between
the two reads of a validation. Correct means: history is one chain without
gaps, each change set takes effect once and on the state it was made for,
success is reported only for one in force, an agent writes within its scope.

### Others

Production protocols compile documents to a task graph; the canary and the
front ends issue runtime commands; model capacity, approvals, goals and
recovery keep small policy files; the legacy pipeline, CLI executor, narrative
rules, knowledge system and synchronisation are I/O or text processing.
`PROJECT.json` lists each with its status.

## 2. Modules

| module | models |
| --- | --- |
| `TaskRuntime` | every command on one Task, over the projection that `_project` computes |
| `MCTaskRuntime` | instances: small graphs, tiers, symmetry |
| `TaskRuntimeProofs` | the inductive invariants and theorems of `TaskRuntime` |
| `TaskLedger` | the append path: flock, idempotency, write, fsync, rebuild, crashes |
| `CommandLog` | the abstract exactly-once log that `TaskLedger` implements |
| `TaskLedgerProofs` | theorems about the append path, and the refinement |
| `MCTaskLedger` | instances: four requests, two of them with one key |
| `BackgroundJob` | one background job: cycles, workers, receipts, leases, pausing, retries, deaths |
| `BackgroundJobProofs` | theorems about `BackgroundJob` |
| `MCBackgroundJob` | instances: an audit job with deaths, a generation job with rewrites |
| `ProjectTruth` | the canonical store, its agents and the bindings to them |
| `TruthRegister` | the compare-and-swap register that `ProjectTruth` implements |
| `ProjectTruthProofs` | theorems about `ProjectTruth`, and the refinement of `TruthRegister` |
| `MCProjectTruth` | instances: four change sets, two of them with one key |
| `ProjectTasks` | the Tasks of a project: admission, rebuild, legacy import |
| `ProjectTasksProofs` | theorems about `ProjectTasks` |
| `MCProjectTasks` | instances: three Tasks with one goal, one of them a legacy run |

The modules meet at narrow points. `ProjectTasks` takes one append to a ledger
as atomic, which is what `TaskLedger` is shown to implement (`CommandLog`);
`TaskRuntime` does the same for every command. `ProjectTruth` includes the two
reads of `TaskRuntime`'s validation of a binding, because the hazard lies
between them and the store. Background jobs share no state with the others.

### TaskRuntime and the code

A variable is a field of the projection (`wiStatus` is
`work_items[w]["status"]`, `lease` is `active_attempt_id`, and so on, commented
at each declaration); `"absent"` and `None` stand for a missing entry. A command
loads the ledger, validates and appends under one lock, so it is one action: the
guard is the conjunction of the checks in its `validate` callback and before it,
the primed variables are what the reducer does with the event, including the
unlocking of dependents (`Unlock`) and the release of leases (`LeaseAfter`).
`change_artifact_disposition` reads first and locks later, so it is
`BeginDisposition` followed by `CommitDisposition` or `RejectDisposition`.

`Appends(check)` is the end of `_append_event`. Its argument repeats the checks
of the reducer branch for that event, separately from the guard; `replayable`
becomes false when an event is appended that the reducer would refuse, and then
no command loads the Task any more. That makes the duplicated validation of the
code a property (`LedgerReplays`) instead of an assumption.

Data is abstracted as follows. A (worker, provider) pair is one identity. A
feedback document is its digest; `Quotes` says which versions' digests its text
contains. A role is `intake` (a Supervisor contract with purpose
`input_classification`), `supervisor`, `worker`, `reviewer` or `tool` (executor
type `deterministic_tool`). An artifact is one version with a type. A tier is
the record of the policy fields that guards read. The compiled protocol is the
constant `Graph`. A trace record is its type with the references its contract
demands. Idempotent repetition of a command is a stuttering step here and is
modelled in `TaskLedger`. `sealed` holds what an executor may seal into the
Attempt; the model seals all of it. `overtaken` is a history variable: the
Attempts that existed when a WorkItem was last reopened.

### TaskLedger and the code

`Acquire` takes the flock; `LoadError`, `Refuse`, `Conflict` and `Reuse` are the
ways `_append_event` ends without writing; `Write` is `write` and `flush`,
`Sync` is `fsync` and the release of the lock; `AcquireAgain`, `WriteView` and
`Return` are `rebuild_task`. A line of the file is whole, without newline, or
unreadable. What a validate callback decides is not known here: `Refuse` is
possible whenever the key is new. `Crash`, `CrashInWrite` and `PowerFailure`
are the environment.

### BackgroundJob and the code

All cycles and operator commands run under one lock, so there is one program
counter, `pc`. Each file that is replaced is one step: `FindOrphan` and
`RecoverOrphan` are `recover_orphaned_attempt` with the receipt it writes,
`Consume` (or `RefuseLateReceipt`) is `consume_process_receipt`,
`EnsureCompletionReceipt` and `EnsureTerminalFeedback` write their files,
`Schedule` is `schedule_next_attempt`, `Launch` is `Popen` in
`launch_active_attempt` and `MarkStarted` is `mark_attempt_started`. The reducer
is a set of operators on the job record (`SuccessfulTransition`, `AfterOutcome`,
`HoldIfPaused`, `Applied`).

A cycle belongs to the command line (`Tick`: `background-job tick`) or to the
service, a process in `run_controller_loop` (`LoopCycle`). `loop` says whether
the service is there. It is started by an operator (`StartLoop`:
`launch_controller_service`, or `background-job run` in the foreground), and
ends for good when a cycle raises or finds the job terminal or stopped
(`CycleOver`), when it finds the lock taken (`BackgroundJobBusy`), is stopped
(`LoopEnds`) or dies; nothing in the repository starts it again. One service is
modelled: the cycles of a second one are those of `Tick`. `ControllerDies` may
happen where `CrashPoints` says, `WorkerDies` anywhere. `PidIsAlive` models
what `os.kill(pid, 0)` sees: a dead worker whose parent, the service, never
waited for it still looks alive, and `parentLives` says that the service which
launched it is there. `fresh` and `told` are history variables, `told` about the
present terminal status: reported, not yet, or no longer possible. Time is two flags, `expired` and `due`. A worker's results are those
its actions can return (`ResultsOf`): a successful result always has the status
`pass`, so the reducer's branches for `decision_required` and `blocked` results
are not reached. `failed` also stands for
`failed_recoverable`. Heartbeat and event files, which nothing reads back, are
left out.

### ProjectTruth and the code

`Commit`, `ChangeAgent`, `Rollback` and `RollbackAgain` are the callers, with
what they read before the lock; `Acquire`, `Recover`, `Refuse`,
`WriteSnapshot`, `WriteReceipt`, `AppendEvent`, `MovePointer` and `Return` are
`commit` with its recovery of an earlier one, in the order of the writes; `Bind` is
the scheduler under the lease; `StartValidation` and `FinishValidation` are the
two reads of the runtime. A snapshot is its position, its `line` the chain of
parents. A change set is who asks, what it does to each fact (a value, keep or
remove) and at most one manifest. Hash checks of files are left out: no file is
damaged here.

### ProjectTasks and the code

`Create`, `Admit`, `Scan`, `Append1` and `AppendFirstEvent` are `create_task`
with `_assert_unique_business_goal` and the making of the directory before the
first event; `Rebuild`, `Visit`, `PublishIndex` and `PublishManifest` are
`rebuild_project`, one Task at a time; `Apply`, `Import`, `Restore` and
`EndApply` are `LegacyRunMigrator.apply` with `_restore_terminal_status`.
`Operate` stands for every other command that adds an event to a Task. A ledger
is the creating command and a status per event. What the index and the manifest
show of a Task is the length of the ledger they were made from.

## 3. Runs

No run of `TaskRuntime` assumes fairness: all commands come from operators and
driver programs that may stop at any time. `CHECK_DEADLOCK FALSE` is set there
because a Task may come to rest: cancelled, or every bounded name used.

| run | instance | shows |
| --- | --- | --- |
| `lifecycle` | 3 WorkItems with all dependency sets, 2 Attempts | typing; leases follow Attempts; no lost wake-up; order; completed Tasks stay quiet |
| `governed` | governed tier, 2 Attempts, 1 version, 2 concurrent callers | plan before workers; evidence at and after completion; the selection is sound; every event replays |
| `protocol` | author and review node, 2 Attempts, 2 versions, 1 gate | independent review, and afresh after reopening |
| `compilation` | two nodes, generic WorkItems, Jobs, instructions | a materialized graph is fixed |
| `ledger` | 2 processes, 4 requests, crashes | exactly-once log (refinement), visibility, no stale projection, fail closed, every command ends |
| `ledger_durability` | as above, power failures | acknowledged commands survive |
| `jobs` | audit job: 2 attempts, 2 deaths; generation job: 2 batches, 13 attempts | receipts applied once; batches in order and on fresh evidence; rewriting ends; one worker; a service that stays resolves attempts; terminal states reported |
| `truth` | 2 processes, 4 change sets, rollback, agent, 1 death | the register (refinement); history without gaps; rollbacks restore; agents governed; bindings hold; calls end |
| `admission` | 2 processes, 3 Tasks, 1 legacy run, 2 rebuilds, 1 death | unique goals; published files no older than the rebuild |

The bounds. Three WorkItems are the least with a WorkItem that has two
dependencies and with a chain; two Attempts give a retry, and leases on two
WorkItems at once. Two callers on one version give every overlap of a
disposition with another, with a selection and with completion.
The `protocol` run starts from the state in which the graph has just been
materialized (`MaterializedInit`); the way there is the `compilation` run's. Its
two Attempts are an author and a reviewer that is still running when the author's
node is reopened and a second version is selected; that a further author and
reviewer may follow is left to the theorem. Two
processes and a key shared by two requests give every race of a retry with its
original and with a conflicting command; a third process only waits.

`jobs`: 13 attempts carry a generation job through both batches with the two
rewrites that are allowed and their reaudits; one retry (`MaxRetries`) reaches
the blocked status and `retry_blocked_job`. Deaths multiply the states, and the
controller treats both kinds of job alike, so they are given to the audit job,
where two attempts and two deaths put a death of a controller and one of a
worker in any order around every file; it has no automatic retry, so that two
attempts suffice for a block, an operator's retry and a second block. `truth`: four snapshots, the empty one
among them, hold a change with a rollback of it, or two revisions of the agent,
and one more change before, between or behind them; a second revision of the manifest (`MaxRevision`) is the least that a
binding can miss. Updates give the status `active` (`GivenStatuses`), because
the store only compares with it; the change set `raw` pauses the agent.
`admission`: three Tasks with one goal give the race of two requests, the
declared independent boundary and the import; two rebuilds overlap; a ledger of
two events (`MaxEvents`) is the least with which a reading can be old.

Fairness of `ledger`: strong fairness of a process's next step. A
process that is alive is scheduled, and flock wakes its waiters in turn, so one
that finds the lock free again and again gets it. Crashes are never forced.

Fairness of `truth`: a call that holds the lock goes on (weak), and flock is
granted to one that waits (strong). Fairness of `jobs` is weak only: a service
that is there sleeps for a bounded time and then gets the lock or ends with
`BackgroundJobBusy` (`LoopCycle \/ LoopBusy`); the lock holder and the workers
are running processes, and every model call has a timeout. Nobody has to start
a service, so `AttemptsResolved` speaks of a service that stays, and
`TerminalReported` is not a liveness property but says that a cycle which ends
has reported. Operators, leases and deaths are never forced. `CHECK_DEADLOCK FALSE` in `jobs` and `job_resume`: a
job that is finished or paused, or has used its attempts, may rest. `admission`
states no liveness: its callers raise and are not repeated.

Mutants: each property is paired in `PROJECT.json` with a plausible mistake
(`...Mutant of` operators in the modules) that TLC finds through it.

### Disagreements found

| run | what TLC shows |
| --- | --- |
| `disposition_race` | a Task completes between the read and the lock of `change_artifact_disposition`, and stays completed without a result |
| `ledger_separator` | a Unicode line separator in a text makes the ledger unreadable |
| `job_resume` | a job that blocks while its pause is pending, is retried and then resumed, resumes into the status of an attempt that is gone; no cycle moves it on, against "Resume a user-paused job from its exact reducer state" |

The models also reach states that no run is spent on.

- Ledger: with `CrashOutcomes = {"unterminated"}` an append after an event that
  lost its newline makes both unreadable (`LedgerReadable`); with process deaths
  and power failures together a retry acknowledges an event that was never
  fsynced (`AckedDurable`); with `Late # {}` the retry of a reopen is refused as
  another command (`ConflictIsReal`).
- Lifecycle: the gate under a completed Task can be revoked, and then the doctor
  reports the Task; an Attempt stays active on outputs of a node that has been
  reopened; after deterministic-tool Attempts under two identities a
  single-worker tier admits both as Workers (`DelegatedWorkers`).
- Jobs: a worker that is killed while the service that launched it is there
  stays a zombie, and the service waits for it for ever, against "Convert a dead
  receipt-less worker into a normal recoverable receipt."
  (`background_job_controller.py:1162`); `AttemptsResolved` excepts it by name
  (`Unreaped`) and fails without the exception. A death between the two files of
  `retry_blocked_job` leaves feedback that says the blocked status was reported,
  and if the job blocks again nothing is sent; `TerminalReported` excepts it
  (`told = "lost"`) and fails without the exception. A receipt written after its
  lease makes every later cycle raise, which ends the service, as do a pause and
  a command that holds the lock when it wakes; `resume_job` does not start it
  again. A death between `Popen` and the state file lets a second worker start,
  which is why `OneWorker` speaks of histories without deaths.
- Truth: a rollback repeated after a death between its receipt and the pointer
  raises "rollback receipt is not on the canonical chain" although `commit`
  would have completed it; a commit that was interrupted after its receipt and
  overtaken by another conflicts for ever.
- Project: a Task directory without events makes every other `create_task` and
  every rebuild raise until that very Task is created; an import interrupted
  before its status was restored counts as imported and keeps the status it
  has; of two rebuilds at once the older may publish last, which is why
  `PublishedIsRecent` speaks of the rebuild's own start.

## 4. Proofs

`TaskRuntimeProofs` proves, for any sets of WorkItems, Attempts, versions,
gates, callers, any graph, tier and quotation relation that satisfy
`ConstantsAssumption` and `NoneAssumption` (and, where cardinalities enter,
`FiniteAssumption`):

- `TypeCorrect`: `[]TypeOK`. One lemma per group of commands. The conjunct "an
  Attempt has a WorkItem exactly when it exists" is needed later: without it
  `LeaseAfter` could write outside the domain of `lease`.
- `LeaseIntegrityHolds`, `SettledHoldsNoLeaseHolds`: from `LeaseInv`, their
  conjunction. Neither is inductive alone: scheduling looks at the WorkItem's
  status, settling looks at the lease.
- `CompletedIsQuietHolds`: the invariant at the completing step, and
  `LeaseInv` to know that finished WorkItems have no active Attempt.
- `NoLostWakeupHolds`, `DependencyOrderHolds`: by induction, the second needing
  that nothing is reopened before a protocol is bound and that a binding stays.
- `SelectionSoundHolds`: with the auxiliary invariant that producers of recorded
  versions have succeeded.
- `LedgerReplaysHolds`: every guard implies the reducer's check, for
  dispositions through the re-validation under the lock.
- `WorkersFollowPlanHolds`, `CompletedHasEvidenceHolds`: the code asks for the
  plan at `schedule_attempt` and for the evidence at completion, and never
  again. That both hold in every later state rests on what only grows
  (`TaskKept`, `AttemptsKept`, `VersionsKept`: records, evidence, successes, and
  the classification once the Task exists) and on `TieredInv`: a Task without a
  `protocol_ref` is never compiled, and a Task that does not exist yet has no
  Attempts. From the count that completion compares, `SubsetOfSize` gives the
  delegated Attempts themselves, which then stay. The proof needs that no trace
  record is of the type `evidence_binding` (now in `ConstantsAssumption`):
  completion looks for that name among record types and bindings alike, and only
  `config/task_input_tiers.yml`, which has no contract for such a record, keeps
  them apart.
- `CompiledGraphFixedHolds`: WorkItem events keep every WorkItem in existence
  (`EventKeepsItems`), the two creating commands are disabled.
- `ResultsAreReviewed` (`IndependentlyReviewed`): completion only compares the
  selected version with the subjects of recorded gates. `GatesSound` carries
  what `record_protocol_gate` checked to that moment; it needs that recorded
  versions keep their producers, and Attempts their roles and workers.
- `ReopenedIsReviewedAfresh` (`ReviewedAfresh`): no guard compares a review with
  a reopening. What keeps them apart is spread over three commands:
  `transition_work_item` reopens only a WorkItem without an eligible version,
  retirement is final, and a gate judges only what was sealed into its Attempt
  when that was scheduled. `AfreshInv` joins them: what an overtaken Attempt has
  seen of the WorkItem is retired (`SeenIsRetired`), so the eligible result was
  sealed into a later Attempt (`SubjectsSealed`).

`TaskLedgerProofs` proves, for any numbers of processes, requests and projection
files that satisfy `LedgerAssumption`:

- `LedgerTypesCorrect`, `LockExcludes`, `RecordedAtMostOnce`: without further
  assumptions, power failures and every torn write included. A step is of one of
  three kinds (`StepCases`): it leaves the file alone, writes one line
  (`WritesOneLine`: the line is added, or spoils an unterminated one, and its
  key was unused), or is a power failure, which leaves a prefix.
- `SuccessIsVisible`, `ProjectionsMoveForward`, `UnreadableStaysUntouched`:
  while the power holds. They need `VisibleInv`: a command that has written is
  in the ledger or the ledger is unreadable, and the process that rebuilds,
  because it holds the lock (`LockedSteps`), has loaded all of a readable file.
  None of the three is inductive alone. With power failures all three are false:
  a line that was projected but not fsynced may vanish.
- `LedgerImplementsLog`: the refinement of `CommandLog`, while the power holds
  and no process dies between an event and its newline. It adds `OnlyLastTorn`;
  with an unterminated event the next append takes back a command in force.
- `ConflictsAreReal`: while the power holds and for commands whose validate
  callback adds nothing to the payload (`Late = {}`; for the others it is
  false).
- `SuccessIsDurable` (`AckedDurable`): with power failures anywhere, but no
  process that dies alone. From `DurableInv`: unless some process is between
  `flush` and `fsync`, the whole file is on the disk, and that process holds the
  lock. A process that died there is exactly what breaks it: its line stays
  unsynced, the lock is free, and a retry reuses the line.

`ProjectTasksProofs` proves, for any numbers of processes, Tasks, requests,
legacy runs and deaths that satisfy `ProjectAssumption`:

- `UniqueGoalsHolds`: from `Inv`. The heart of it is the last part of `CallOk`:
  while a call holds the admission lock, every other Task with its goal is one
  that it has still to look at. That is kept by the others because a Task comes
  to exist by its first event only (`NewTask`), and that is written under the
  lock (`CallOkKept`). `UniqueGoals` alone is not inductive: it says nothing of
  what a scan has passed.
- `PublishedIsRecentHolds`: from `ReadInv`: a Task that the pass started from is
  still to be visited or was read no earlier than it began, and nothing read is
  ahead of its ledger, because ledgers only grow (`LedgersGrow`).
- `ProjectTypesCorrect`: from both; among its parts, the lock is held exactly in
  the guarded part of `create_task`, whoever raises or dies.

`ProjectTruthProofs` proves, for any numbers of processes, facts, requests,
snapshots, revisions and deaths that satisfy `TruthAssumption`:

- `TruthTypes`, `TruthHistory` (`HistoryComplete`), `RollbacksRestore`
  (`RollbackRestores`), `AgentIsGoverned` (`AgentGoverned`), `BindingsAreValid`
  (`BindingsHold`): all from one inductive invariant, `Inv`. The properties speak
  of the history in force, but a snapshot comes into force long after it was
  written, possibly by the hand of another process; so `Inv` says of every
  snapshot on disk, in force or abandoned, that its line leads to it
  (`LineOk`), how it was made from its parent (`MadeOk`) and that the manifest's
  revision grows along its line (`AgentLine`). `ReceiptOk`, `UniqueReceipts` and
  `PointerOk` tie receipts, events and pointer to the snapshots; `Knows` says
  what each point of a call may count on: under the lock, that the pointer is
  still the one it compared with; before it, only facts about snapshots, which
  never change (`Grows`). A rollback's unlocked reads are of that second kind.
- `StoreImplementsRegister`: `ChangesOf` maps the pointer's line to the history
  of `TruthRegister`. `MovePointer` is its `Apply` (that the key is new is
  `UniqueReceipts`), `Return` and `RollbackAgain` are its `Tell` (the receipt
  returned is for a change set on the pointer's line), every other step is a
  stutter.

`BackgroundJobProofs` proves, for any chapter range, batch size, cadence, retry
limit, number of attempts, workers and deaths that satisfy `JobAssumption` and
`NoneAssumption`:

- `JobTypes`, `ReceiptsApplied` (`ReceiptsAppliedOnce`), `BatchesFinishInOrder`
  (`BatchesInOrder`), `RewritingEnds` (`RewritesEnd`). The properties name single
  fields of the job; the invariant has to say where the job stands. `Standing`
  is the status, or for a paused job the status it returns to; `Facing(j, s, a)`
  says that action `a` is active, to be retried or next there; `Ready` what must
  hold of the batch then, and `Sound` collects it for a status. `PauseOk` admits
  the stale memory of a pause that the end of its attempt overtook, the state
  behind the `job_resume` disagreement: safety survives it, progress does not.
  `AttemptsOk` numbers the attempts, `PlaceOk` says what the lock holder has in
  hand, `CompletionOk` ties the completion receipt to the status.
- `WorkersAreSingle` (`OneWorker`): `WorkersOk`, that without deaths a live
  worker is the one the state file names or, between `Popen` and
  `mark_attempt_started`, is about to name, and that a receipt means it is gone.
- `SealsRestOnEvidence` (`SealedOnFreshEvidence`), an action property: `Ready`
  for the sealing actions.
- `TerminalIsReported` (`TerminalReported`), an action property, for deaths at
  any points: `ReportOk` says that feedback which stands as sent is about the
  present status or cannot be corrected any more, and that a cycle gets to
  scheduling only with a job that has not ended; the cycles that end elsewhere
  have an active attempt, and such a job is not terminal (`ActiveNotTerminal`).

The inductive invariants `TieredInv`, `GateInv`, `DurableInv` and both `Inv` also
hold on the runs' instances when they are given to TLC.

Not proved, only model-checked: liveness (`EveryCommandEnds`,
`AttemptsResolved`, `EveryCallEnds`), which is beyond the
prover. Every safety and action property of a passing run has a theorem.

## 5. Plan

1. Proofs: the facts behind the liveness properties that are safety (an action
   of the lock holder is always possible), and shorter proofs where lemmas
   repeat.
2. `AttemptExecutor`: the executors' steps with deaths and operator commands,
   composed with `TaskRuntime`.
3. `InputTiers`, `LogRetention`: the classifier as a function against a
   reference definition; compaction with deaths.
4. The user-acceptance gate in `TaskRuntime`.

## 6. Not modelled

File contents (hashes, receipts' schemas, prose), wording of errors, symlink
and path checks, time stamps other than their order, the idempotent early
return of `change_artifact_disposition`, the plan hash and provenance copies of
the migration, and the components that `PROJECT.json` lists as `not_modelled`.

Most of the repository's lines are in the latter: the legacy pipeline and task
runner, the command-line executor, the acceptance and visual rules of narrative
production, media adapters and the knowledge system. They are sequences of
subprocess calls, prompts, text analysis and database queries that keep no
state another part depends on beyond files they write once; a model of them
would be a copy of their text rules, about which TLC could say nothing that the
repository's tests do not. What is modelled are the parts whose state is shared
by processes and survives them.
