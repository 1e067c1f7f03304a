---------------------------- MODULE BackgroundJob ----------------------------
(***************************************************************************)
(* One durable narrative job (agent_runtime/background_job_controller.py): *)
(* a state file that controller cycles and operator commands replace, one  *)
(* detached worker process per attempt (background_job_worker.py) that     *)
(* leaves a receipt file, and the completion and feedback files.           *)
(*                                                                         *)
(* Cycles and commands run under one non-blocking file lock, so there is   *)
(* one program counter, pc, for all of them.  Every write of a file is a   *)
(* step of its own, and the process may die between any two.  Workers run  *)
(* beside the lock.  Cycles are run by the command line, one at a time, or *)
(* by the service, a detached process in run_controller_loop that ends     *)
(* with the first exception and that nobody starts again but an operator.  *)
(***************************************************************************)
EXTENDS Integers, Sequences, FiniteSets

CONSTANTS
  None,
  Pids,               \* worker processes that can exist at once
  JobKinds,           \* kinds of job the run starts from
  StartChapter, EndChapter, BatchSize, HeavyCadence,
  KnowledgeRequired,  \* config.knowledge_contract_required
  MaxRetries,         \* config.max_retries_per_action, for each kind of job
  MaxAttempts,        \* bound on attempts, for each kind of job
  MaxCrashes,         \* bound on deaths of processes, for each kind of job
  CrashPoints,        \* values of pc at which such a process may die
  LeasesExpire        \* whether a worker may outlive its lease

MAX_AUTOMATIC_REWRITES == 2

Completed == {"completed", "completed_clean", "completed_with_findings"}
TERMINAL_STATES == Completed \cup {"blocked"}
CONTROLLER_STOP_STATES == {"paused", "decision_required"}
WaitStates == {"capacity_wait", "retry_wait"}

Actions == {"preflight", "generate_batch", "deterministic_check",
            "continuity_checkpoint", "heavy_audit", "revision_support_scribe",
            "revision_support_verifier", "rewrite_batch",
            "deterministic_reaudit", "final_acceptance"}

\* The status of a job while an action is active.
ACTION_RUNNING_STATE ==
  [a \in Actions |->
     CASE a = "generate_batch" -> "generating_batch"
       [] a = "heavy_audit"    -> "heavy_auditing"
       [] a = "rewrite_batch"  -> "rewriting"
       [] OTHER                -> a]

Statuses ==
  TERMINAL_STATES \cup CONTROLLER_STOP_STATES \cup WaitStates
    \cup {ACTION_RUNNING_STATE[a] : a \in Actions}
    \cup {"queued", "awaiting_continuity_checkpoint", "awaiting_heavy_audit",
          "awaiting_revision_scribe", "awaiting_revision_verifier",
          "rewrite_required", "batch_sealed", "failed_recoverable"}

ASSUME JobAssumption ==
  /\ None \notin Pids
  /\ JobKinds \subseteq {"narrative_generation", "narrative_audit"}
  /\ StartChapter \in Nat \ {0} /\ EndChapter \in Nat /\ StartChapter <= EndChapter
  /\ BatchSize \in Nat \ {0} /\ HeavyCadence \in Nat \ {0}
  /\ KnowledgeRequired \in BOOLEAN /\ LeasesExpire \in BOOLEAN
  /\ MaxRetries \in [JobKinds -> Nat]
  /\ MaxAttempts \in [JobKinds -> Nat] /\ MaxCrashes \in [JobKinds -> Nat]

VARIABLES
  job,         \* job_state.yml
  receipt,     \* process_receipt.yml of the active attempt, or None
  completion,  \* status in completion_receipt.yml, or None
  feedback,    \* status in operator_feedback.yml; "sent" is pass or warn
  pc,          \* where the holder of the controller lock is; "idle": lock free
  spawned,     \* the process a cycle has started and not yet recorded
  worker,      \* the worker processes that are running
  loop,        \* the service: not there, between two cycles, or in one
  parentLives, \* the last worker is a child of the service that is there now
  expired,     \* the lease of the active attempt has run out
  due,         \* capacity_reset_at or retry_at has passed
  fresh,       \* history: actions that succeeded on the present text of the batch
  told,        \* history: whether the present terminal status was reported,
               \* or cannot be any more
  crashes      \* deaths so far

vars == <<job, receipt, completion, feedback, pc, spawned, worker, loop,
          parentLives, expired, due, fresh, told, crashes>>

----------------------------------------------------------------------------
(* Batches of chapters *)

\* Last chapter of batch n: every batch starts after the one before it.
BatchEnd(n) ==
  LET end == StartChapter + n * BatchSize - 1
  IN  IF EndChapter < end THEN EndChapter ELSE end

IsLast(n) == BatchEnd(n) >= EndChapter

\* A batch that gets a continuity checkpoint instead of a heavy audit.
CheckpointOnly(n) ==
  KnowledgeRequired /\ ~IsLast(n) /\ BatchEnd(n) % HeavyCadence # 0

----------------------------------------------------------------------------
(* Types *)

\* What a worker's receipt says: the outcome and, for a heavy audit, what
\* evaluate_narrative_seal makes of its documents, whether they list findings
\* and whether a rewrite proposal lies in the run directory.
\* "failed" stands for failed_recoverable too: both take the same branch.
Outcomes == {"success", "failed", "capacity_wait", "retry_wait"}
Decisions == {"pass", "revision_required", "blocked"}
Results == [outcome : Outcomes, decision : Decisions,
            findings : BOOLEAN, proposal : BOOLEAN]

\* The results without an audit decision carry this one.
Plain(outcome) ==
  [outcome |-> outcome, decision |-> "pass", findings |-> FALSE, proposal |-> FALSE]

Receipts == [result : Results, late : BOOLEAN]

Attempt == [id : Nat, action : Actions, pid : Pids \cup {None}]

Job == [kind : {"narrative_generation", "narrative_audit"},
        status : Statuses, preflightPassed : BOOLEAN,
        batch : Nat, sealed : Seq(Nat), audited : Seq(Nat), hasFindings : BOOLEAN,
        active : Attempt \cup {None}, sequence : Nat, processed : SUBSET Nat,
        retries : [Actions -> Nat], retryAction : Actions \cup {None},
        rewrites : Nat, exhausted : BOOLEAN, reaudit : BOOLEAN,
        pauseRequested : BOOLEAN,
        pausedFrom : (Statuses \ (TERMINAL_STATES \cup {"paused"})) \cup {None}]

Worker == [attempt : Nat, action : Actions,
           phase : {"started", "executing", "writing"}, late : BOOLEAN]

ASSUME NoneAssumption ==
  None \notin Actions \cup Statuses \cup Attempt \cup Receipts \cup Worker

CyclePoints == {"recover", "orphaned", "consume", "completion", "feedback",
                "dispatch", "schedule", "launch", "mark"}

TypeOK ==
  /\ job \in Job
  /\ receipt \in Receipts \cup {None}
  /\ completion \in Completed \cup {None}
  /\ feedback \in {"none", "pending", "sent", "superseded"}
  /\ pc \in CyclePoints \cup {"idle", "supersede"}
  /\ spawned \in Pids \cup {None}
  /\ worker \in [Pids -> Worker \cup {None}]
  /\ loop \in {"none", "asleep", "cycle"}
  /\ parentLives \in BOOLEAN /\ expired \in BOOLEAN /\ due \in BOOLEAN
  /\ fresh \subseteq Actions
  /\ told \in {"no", "yes", "lost"}
  /\ crashes \in Nat

----------------------------------------------------------------------------
(* Creation *)

\* create_crown_delivery_job and _create_narrative_audit_state.
NewJob(kind) ==
  [kind |-> kind,
   status |-> IF kind = "narrative_audit" THEN "awaiting_heavy_audit" ELSE "queued",
   preflightPassed |-> kind = "narrative_audit",
   batch |-> 1, sealed |-> <<>>, audited |-> <<>>, hasFindings |-> FALSE,
   active |-> None, sequence |-> 0, processed |-> {},
   retries |-> [a \in Actions |-> 0], retryAction |-> None,
   rewrites |-> 0, exhausted |-> FALSE, reaudit |-> FALSE,
   pauseRequested |-> FALSE, pausedFrom |-> None]

Init ==
  /\ \E kind \in JobKinds : job = NewJob(kind)
  /\ receipt = None /\ completion = None
  /\ feedback = "none"
  /\ pc = "idle" /\ spawned = None
  /\ worker = [p \in Pids |-> None]
  /\ loop = "none" /\ parentLives = FALSE /\ expired = FALSE /\ due = FALSE
  /\ fresh = {} /\ told = "no" /\ crashes = 0

----------------------------------------------------------------------------
(* What a receipt does to the job *)

\* _seal_current_batch.
Seal(j) ==
  [j EXCEPT !.status = "batch_sealed",
            !.sealed = IF \E i \in DOMAIN @ : @[i] = j.batch THEN @
                       ELSE Append(@, j.batch)]

\* Mutant of AfterGenerationAudit: one rewrite too many.
RewriteOnceMore(j, r) ==
  CASE r.decision = "pass" -> [Seal(j) EXCEPT !.reaudit = FALSE, !.exhausted = FALSE]
    [] r.decision = "revision_required" ->
         IF j.rewrites > MAX_AUTOMATIC_REWRITES
         THEN [j EXCEPT !.status = "decision_required", !.exhausted = TRUE]
         ELSE [j EXCEPT !.status = "rewrite_required", !.exhausted = FALSE]
    [] OTHER -> [j EXCEPT !.status = "blocked", !.exhausted = FALSE]

\* next_after_heavy_audit for a generation job.
AfterGenerationAudit(j, r) ==
  CASE r.decision = "pass" -> [Seal(j) EXCEPT !.reaudit = FALSE, !.exhausted = FALSE]
    [] r.decision = "revision_required" /\ j.rewrites >= MAX_AUTOMATIC_REWRITES ->
         [j EXCEPT !.status = "decision_required", !.exhausted = TRUE]
    [] r.decision = "revision_required" /\ j.rewrites < MAX_AUTOMATIC_REWRITES ->
         [j EXCEPT !.status = IF r.proposal THEN "rewrite_required"
                              ELSE "awaiting_revision_scribe",
                   !.exhausted = FALSE]
    [] OTHER -> [j EXCEPT !.status = "blocked", !.exhausted = FALSE]

\* record_audit_batch_result for an audit job.
AfterAuditOnly(j, r) ==
  LET found == j.hasFindings \/ r.decision = "revision_required" \/ r.findings
      done  == [j EXCEPT !.hasFindings = found, !.audited = Append(@, j.batch)]
  IN  CASE r.decision = "blocked" -> [j EXCEPT !.status = "blocked"]
        [] r.decision # "blocked" /\ IsLast(j.batch) ->
             [done EXCEPT !.status = IF found THEN "completed_with_findings"
                                     ELSE "completed_clean"]
        [] OTHER -> [done EXCEPT !.batch = @ + 1, !.status = "awaiting_heavy_audit"]

\* Mutant of AfterRewrite: the rewritten text goes to the audit unchecked.
SkipReaudit(j) ==
  [j EXCEPT !.rewrites = @ + 1, !.status = "awaiting_heavy_audit"]

AfterRewrite(j) ==
  [j EXCEPT !.rewrites = @ + 1, !.status = "deterministic_reaudit"]

\* _successful_transition.
SuccessfulTransition(j, action, r) ==
  CASE action = "preflight" -> [j EXCEPT !.preflightPassed = TRUE, !.status = "queued"]
    [] action = "generate_batch" -> [j EXCEPT !.status = "deterministic_check"]
    [] action = "deterministic_check" ->
         [j EXCEPT !.status = IF CheckpointOnly(j.batch)
                              THEN "awaiting_continuity_checkpoint"
                              ELSE "awaiting_heavy_audit"]
    [] action = "continuity_checkpoint" -> Seal(j)
    [] action = "heavy_audit" ->
         IF j.kind = "narrative_audit" THEN AfterAuditOnly(j, r)
         ELSE AfterGenerationAudit(j, r)
    [] action = "revision_support_scribe" -> [j EXCEPT !.status = "awaiting_revision_verifier"]
    [] action = "revision_support_verifier" -> [j EXCEPT !.status = "rewrite_required"]
    [] action = "rewrite_batch" -> AfterRewrite(j)
    [] action = "deterministic_reaudit" ->
         [j EXCEPT !.reaudit = TRUE, !.status = "awaiting_heavy_audit"]
    [] action = "final_acceptance" -> [j EXCEPT !.status = "completed"]

\* A failure that counts against the retries of the action, and the status
\* of the job while they last.
CountFailure(j, action, while) ==
  [j EXCEPT !.retries[action] = @ + 1, !.retryAction = action,
            !.status = IF j.retries[action] + 1 > MaxRetries[j.kind] THEN "blocked" ELSE while]

\* The job once consume_process_receipt has applied result r, before pausing.
AfterOutcome(j, action, r) ==
  CASE r.outcome = "success" ->
         SuccessfulTransition([j EXCEPT !.retries[action] = 0, !.retryAction = None],
                              action, r)
    [] r.outcome = "capacity_wait" ->
         [j EXCEPT !.status = "capacity_wait", !.retryAction = action]
    [] r.outcome = "retry_wait" -> CountFailure(j, action, "retry_wait")
    [] OTHER -> CountFailure(j, action, "failed_recoverable")

\* A pause requested while the attempt ran takes hold now, except in a
\* terminal state.
HoldIfPaused(j) ==
  IF j.pauseRequested /\ j.status \notin TERMINAL_STATES
  THEN [j EXCEPT !.pausedFrom = j.status, !.status = "paused"]
  ELSE j

\* Mutant of Applied: a failed attempt stays active.
AppliedKeepsFailed(j, r) ==
  HoldIfPaused(
    AfterOutcome([j EXCEPT !.active = IF r.outcome = "failed" THEN @ ELSE None,
                           !.processed = @ \cup {j.active.id}],
                 j.active.action, r))

\* consume_process_receipt.
Applied(j, r) ==
  HoldIfPaused(
    AfterOutcome([j EXCEPT !.active = None, !.processed = @ \cup {j.active.id}],
                 j.active.action, r))

\* History: which successes speak about the text the batch has now.
FreshAfter(action, r) ==
  CASE r.outcome # "success" -> fresh
    [] r.outcome = "success" /\ action \in {"generate_batch", "rewrite_batch"} -> {action}
    [] OTHER -> fresh \cup {action}

----------------------------------------------------------------------------
(* The controller: one cycle *)

\* The fields that a step of the lock holder leaves alone unless it says
\* otherwise.
Outside == UNCHANGED <<spawned, worker, expired, told, crashes>>
Files == UNCHANGED <<receipt, completion, feedback>>

GoesOn(point) == pc' = point /\ UNCHANGED <<loop, parentLives>>

\* The service is gone, and its workers are init's to reap.
LoopGone == loop' = "none" /\ parentLives' = FALSE

\* The cycle is over and the lock is free.  The service goes on unless the
\* cycle raised or found the job terminal or stopped.
CycleOver(raised) ==
  /\ pc' = "idle"
  /\ CASE loop # "cycle" -> UNCHANGED <<loop, parentLives>>
       [] loop = "cycle" /\ (raised \/ job.status \in TERMINAL_STATES \cup CONTROLLER_STOP_STATES) ->
            LoopGone
       [] OTHER -> loop' = "asleep" /\ UNCHANGED parentLives

Raises == CycleOver(TRUE) /\ UNCHANGED <<job, receipt, completion, feedback, fresh, due>>

\* controller_cycle takes the lock: for the command line ...
StartCycle ==
  /\ pc = "idle"
  /\ pc' = "recover"
  /\ Files /\ Outside /\ UNCHANGED <<job, parentLives, due, fresh>>

Tick == StartCycle /\ UNCHANGED loop

\* ... or for the service, when it wakes up.
LoopCycle == loop = "asleep" /\ StartCycle /\ loop' = "cycle"

Live(p) == worker[p] # None

\* Mutant of PidIsAlive: every answer of kill(pid, 0) means alive.
PidAssumedAlive(p) == p \in Pids

\* _default_pid_is_alive: kill(pid, 0) also finds a child that has ended and
\* that its parent, the service that launched it, never waits for.
PidIsAlive(p) == Live(p) \/ parentLives

\* The recorded worker of the active attempt is gone.
Orphaned ==
  job.active # None /\ job.active.pid # None /\ ~PidIsAlive(job.active.pid)

\* recover_orphaned_attempt finds that, and no receipt.
FindOrphan ==
  /\ pc = "recover"
  /\ receipt = None /\ Orphaned
  /\ GoesOn("orphaned")
  /\ Files /\ Outside /\ UNCHANGED <<job, due, fresh>>

\* It writes the receipt that the worker did not leave.  A second worker of
\* the attempt may have left one meanwhile: it is overwritten, or
\* write_process_receipt sees it and raises.
RecoverOrphan ==
  /\ pc = "orphaned"
  /\ receipt' = [result |-> Plain("failed"), late |-> expired]
  /\ GoesOn("recover")
  /\ Outside /\ UNCHANGED <<job, completion, feedback, due, fresh>>

RecoveryConflict ==
  /\ pc = "orphaned" /\ receipt # None
  /\ Raises /\ Outside

\* Nothing to recover: the cycle goes on to consume_process_receipt.
NothingToRecover ==
  /\ pc = "recover" /\ receipt = None /\ ~Orphaned
  /\ GoesOn("consume")
  /\ Files /\ Outside /\ UNCHANGED <<job, due, fresh>>

\* consume_process_receipt applies the receipt and saves the job.
Consume ==
  /\ pc \in {"recover", "consume"}
  /\ job.active # None /\ receipt # None
  /\ ~receipt.late
  /\ job' = Applied(job, receipt.result)
  /\ fresh' = FreshAfter(job.active.action, receipt.result)
  /\ due' = FALSE
  /\ receipt' = None  \* the file stays, and nobody reads it again
  /\ GoesOn(IF job'.status \in TERMINAL_STATES THEN "completion"
            ELSE IF pc = "recover" THEN "consume" ELSE "schedule")
  /\ Outside /\ UNCHANGED <<completion, feedback>>

\* "receipt arrived after attempt lease expired": the cycle ends here.
RefuseLateReceipt ==
  /\ pc \in {"recover", "consume"}
  /\ job.active # None /\ receipt # None
  /\ receipt.late
  /\ Raises /\ Outside

\* consume_process_receipt without a receipt to apply.
NothingToConsume ==
  /\ pc = "consume"
  /\ job.active = None \/ receipt = None
  /\ GoesOn(CASE job.active # None -> "launch"
              [] job.active = None /\ job.status \in TERMINAL_STATES -> "completion"
              [] OTHER -> "schedule")
  /\ Files /\ Outside /\ UNCHANGED <<job, due, fresh>>

\* _ensure_completion_receipt.
EnsureCompletionReceipt ==
  /\ pc = "completion"
  /\ completion' = IF job.status \in Completed /\ completion = None
                   THEN job.status ELSE completion
  /\ GoesOn("feedback")
  /\ Outside /\ UNCHANGED <<job, receipt, feedback, due, fresh>>

\* Mutant of EnsureTerminalFeedback: a pending feedback counts as dispatched.
FeedbackPendingIsEnough ==
  /\ pc = "feedback"
  /\ IF feedback \in {"pending", "sent"}
     THEN CycleOver(FALSE) /\ UNCHANGED feedback
     ELSE GoesOn("dispatch") /\ feedback' = "pending"
  /\ Outside /\ UNCHANGED <<job, receipt, completion, due, fresh>>

\* _ensure_terminal_feedback: a feedback that was dispatched is left alone;
\* otherwise it is written as pending, dispatched and written again.
EnsureTerminalFeedback ==
  /\ pc = "feedback"
  /\ IF feedback = "sent"
     THEN CycleOver(FALSE) /\ UNCHANGED feedback
     ELSE GoesOn("dispatch") /\ feedback' = "pending"
  /\ Outside /\ UNCHANGED <<job, receipt, completion, due, fresh>>

Dispatch ==
  /\ pc = "dispatch"
  /\ feedback' = "sent" /\ told' = "yes"
  /\ CycleOver(FALSE)
  /\ UNCHANGED <<job, receipt, completion, spawned, worker, expired, due, fresh, crashes>>

\* _wake_capacity_if_due, _wake_retry_if_due.
Woken(j) ==
  IF j.status \in WaitStates /\ due THEN [j EXCEPT !.status = "failed_recoverable"] ELSE j

\* Mutant of Advanced: the last batch is missed by one chapter.
AdvancedOffByOne(j) ==
  IF j.status # "batch_sealed" THEN j
  ELSE IF BatchEnd(j.batch) + 1 >= EndChapter THEN [j EXCEPT !.status = "final_acceptance"]
  ELSE [j EXCEPT !.batch = @ + 1, !.rewrites = 0, !.exhausted = FALSE,
                 !.reaudit = FALSE, !.status = "queued"]

\* _advance_sealed_batch.
Advanced(j) ==
  IF j.status # "batch_sealed" THEN j
  ELSE IF IsLast(j.batch) THEN [j EXCEPT !.status = "final_acceptance"]
  ELSE [j EXCEPT !.batch = @ + 1, !.rewrites = 0, !.exhausted = FALSE,
                 !.reaudit = FALSE, !.status = "queued"]

\* _action_for_state.
ActionFor(j) ==
  CASE j.status = "queued" -> IF j.preflightPassed THEN "generate_batch" ELSE "preflight"
    [] j.status \in {"deterministic_check", "deterministic_reaudit", "final_acceptance"} ->
         j.status
    [] j.status = "awaiting_continuity_checkpoint" -> "continuity_checkpoint"
    [] j.status = "awaiting_heavy_audit" -> "heavy_audit"
    [] j.status = "awaiting_revision_scribe" -> "revision_support_scribe"
    [] j.status = "awaiting_revision_verifier" -> "revision_support_verifier"
    [] j.status = "rewrite_required" -> "rewrite_batch"
    [] j.status = "failed_recoverable" -> j.retryAction
    [] OTHER -> None

MaySchedule(j) == ~j.pauseRequested /\ j.status \notin CONTROLLER_STOP_STATES

\* schedule_next_attempt persists the next attempt.  (A request file that a
\* death leaves without the attempt is written over by the next cycle.)
Schedule ==
  /\ pc = "schedule"
  /\ MaySchedule(job)
  /\ job.sequence < MaxAttempts[job.kind]
  /\ LET j == Advanced(Woken(job))
     IN  /\ ActionFor(j) # None
         /\ job' = [j EXCEPT !.sequence = @ + 1,
                             !.active = [id |-> job.sequence + 1, action |-> ActionFor(j),
                                         pid |-> None],
                             !.status = ACTION_RUNNING_STATE[ActionFor(j)]]
  /\ expired' = FALSE
  /\ GoesOn("launch")
  /\ Files /\ UNCHANGED <<spawned, worker, told, crashes, due, fresh>>

\* Paused, waiting, or no action for the status: the cycle ends.
NothingToSchedule ==
  /\ pc = "schedule"
  /\ ~MaySchedule(job) \/ ActionFor(Advanced(Woken(job))) = None
  /\ CycleOver(FALSE)
  /\ Files /\ Outside /\ UNCHANGED <<job, due, fresh>>

\* Mutant of MayLaunch: a recorded pid does not keep it from launching.
LaunchAgain == job.active # None /\ ~job.pauseRequested

MayLaunch ==
  job.active # None /\ job.active.pid = None /\ ~job.pauseRequested

\* The process id that the system gives out: any one that is free.
NewPid == CHOOSE p \in Pids : ~Live(p)

\* launch_active_attempt starts the worker ...
Launch ==
  /\ pc = "launch" /\ MayLaunch
  /\ \E p \in Pids : ~Live(p)
  /\ worker' = [worker EXCEPT ![NewPid] =
                  [attempt |-> job.active.id, action |-> job.active.action,
                   phase |-> "started", late |-> FALSE]]
  /\ spawned' = NewPid /\ parentLives' = (loop = "cycle")
  /\ pc' = "mark"
  /\ Files /\ UNCHANGED <<job, loop, expired, due, fresh, told, crashes>>

\* ... and mark_attempt_started records its pid.
MarkStarted ==
  /\ pc = "mark"
  /\ job' = [job EXCEPT !.active = [@ EXCEPT !.pid = spawned]]
  /\ spawned' = None
  /\ CycleOver(FALSE)
  /\ Files /\ UNCHANGED <<worker, expired, due, fresh, told, crashes>>

\* No attempt to launch, or a command's cycle that was asked only to
\* schedule (execute = FALSE); the service's cycles all launch.
NothingToLaunch ==
  /\ pc = "launch"
  /\ ~MayLaunch \/ loop # "cycle"
  /\ CycleOver(FALSE)
  /\ Files /\ Outside /\ UNCHANGED <<job, due, fresh>>

CycleStep ==
  \/ FindOrphan \/ RecoverOrphan \/ RecoveryConflict \/ NothingToRecover
  \/ Consume \/ RefuseLateReceipt \/ NothingToConsume
  \/ EnsureCompletionReceipt \/ EnsureTerminalFeedback \/ Dispatch
  \/ Schedule \/ NothingToSchedule
  \/ Launch \/ MarkStarted \/ NothingToLaunch

----------------------------------------------------------------------------
(* Operator commands *)

\* Mutant of Pause: a second pause overwrites where the first one stopped.
PauseTwice ==
  /\ pc = "idle"
  /\ job.status \notin TERMINAL_STATES
  /\ job' = [job EXCEPT !.pausedFrom = job.status, !.pauseRequested = TRUE,
                        !.status = "paused"]
  /\ Files /\ Outside /\ UNCHANGED <<pc, loop, parentLives, due, fresh>>

\* pause_job.
Pause ==
  /\ pc = "idle"
  /\ job.status \notin TERMINAL_STATES \cup {"paused"}
  /\ job' = [job EXCEPT !.pausedFrom = job.status, !.pauseRequested = TRUE,
                        !.status = "paused"]
  /\ Files /\ Outside /\ UNCHANGED <<pc, loop, parentLives, due, fresh>>

\* resume_job.
Resume ==
  /\ pc = "idle"
  /\ job.status \notin TERMINAL_STATES
  /\ job.pauseRequested \/ job.status = "paused"
  /\ job' = [job EXCEPT !.status = IF job.pausedFrom = None THEN "queued" ELSE job.pausedFrom,
                        !.pauseRequested = FALSE, !.pausedFrom = None]
  /\ Files /\ Outside /\ UNCHANGED <<pc, loop, parentLives, due, fresh>>

\* retry_blocked_job saves the job and then replaces the feedback.
RetryBlocked ==
  /\ pc = "idle"
  /\ job.status = "blocked" /\ job.active = None /\ job.retryAction # None
  /\ job' = [job EXCEPT !.retries[job.retryAction] = 0, !.status = "failed_recoverable"]
  /\ GoesOn("supersede")
  /\ told' = "no"
  /\ Files /\ UNCHANGED <<spawned, worker, expired, due, fresh, crashes>>

SupersedeFeedback ==
  /\ pc = "supersede"
  /\ feedback' = IF feedback = "none" THEN "none" ELSE "superseded"
  /\ GoesOn("idle")
  /\ Outside /\ UNCHANGED <<job, receipt, completion, due, fresh>>

\* "background-job run": launch_controller_service detaches a service, or
\* the command runs the loop itself.
StartLoop ==
  /\ loop = "none"
  /\ loop' = "asleep"
  /\ Files /\ Outside /\ UNCHANGED <<job, pc, parentLives, due, fresh>>

----------------------------------------------------------------------------
(* Workers *)

\* The results that each action of the worker can return, an exception included.
ResultsOf(action) ==
  LET audits == [outcome : {"success"}, decision : {"pass"},
                 findings : BOOLEAN, proposal : {FALSE}]
                \cup [outcome : {"success"}, decision : {"revision_required"},
                      findings : {TRUE}, proposal : BOOLEAN]
                \cup [outcome : {"success"}, decision : {"blocked"},
                      findings : {FALSE}, proposal : {FALSE}]
  IN  CASE action = "heavy_audit" ->
             audits \cup {Plain(o) : o \in Outcomes \ {"success"}}
        [] action = "generate_batch" -> {Plain(o) : o \in Outcomes}
        [] action \in {"revision_support_scribe", "revision_support_verifier"} ->
             {Plain(o) : o \in Outcomes \ {"capacity_wait"}}
        [] OTHER -> {Plain("success"), Plain("failed")}

Others == UNCHANGED <<job, completion, feedback, pc, spawned, loop, parentLives,
                      expired, due, fresh, told, crashes>>

\* The path of a receipt holds the attempt's id: only that of the active
\* attempt is read by anybody but the attempt's own workers.
HasReceipt(p) ==
  \/ job.active # None /\ job.active.id = worker[p].attempt /\ receipt # None
  \/ worker[p].attempt \in job.processed

\* run_attempt returns at once when there is a receipt, and otherwise executes.
WorkerBegins(p) ==
  /\ Live(p) /\ worker[p].phase = "started"
  /\ worker' = [worker EXCEPT ![p] = IF HasReceipt(p) THEN None
                                     ELSE [@ EXCEPT !.phase = "executing"]]
  /\ UNCHANGED receipt /\ Others

\* execute_action returns or raises; write_process_receipt notes the time
\* and looks for a receipt, which it refuses to replace.
WorkerReturns(p) ==
  /\ Live(p) /\ worker[p].phase = "executing"
  /\ worker' = [worker EXCEPT ![p] = IF HasReceipt(p) THEN None
                                     ELSE [@ EXCEPT !.phase = "writing", !.late = expired]]
  /\ UNCHANGED receipt /\ Others

\* It writes without a lock: what it did not see may be there now.
WorkerWrites(p) ==
  /\ Live(p) /\ worker[p].phase = "writing"
  /\ worker' = [worker EXCEPT ![p] = None]
  /\ IF job.active # None /\ job.active.id = worker[p].attempt
     THEN \E r \in ResultsOf(worker[p].action) :
            receipt' = [result |-> r, late |-> worker[p].late]
     ELSE UNCHANGED receipt
  /\ Others

\* The worker is killed.
WorkerDies(p) ==
  /\ Live(p) /\ crashes < MaxCrashes[job.kind]
  /\ worker' = [worker EXCEPT ![p] = None]
  /\ crashes' = crashes + 1
  /\ UNCHANGED <<job, receipt, completion, feedback, pc, spawned, loop, parentLives,
                 expired, due, fresh, told>>

----------------------------------------------------------------------------
(* Environment *)

\* The holder of the lock dies.  A retry_blocked_job that dies before its
\* second write leaves the report of the old block standing as sent.
ControllerDies ==
  /\ pc \in CrashPoints /\ crashes < MaxCrashes[job.kind]
  /\ pc' = "idle" /\ spawned' = None
  /\ IF loop = "cycle" THEN LoopGone ELSE UNCHANGED <<loop, parentLives>>
  /\ told' = IF pc = "supersede" /\ feedback = "sent" THEN "lost" ELSE told
  /\ crashes' = crashes + 1
  /\ Files /\ UNCHANGED <<job, worker, expired, due, fresh>>

\* The service ends between two cycles: it is stopped, or finds the lock
\* taken, by a cycle or by a command that holds it for one step here.
LoopEnds ==
  /\ loop = "asleep"
  /\ LoopGone
  /\ Files /\ Outside /\ UNCHANGED <<job, pc, due, fresh>>

\* BackgroundJobBusy.
LoopBusy == pc # "idle" /\ LoopEnds

LeaseExpires ==
  /\ LeasesExpire /\ job.active # None /\ ~expired
  /\ expired' = TRUE
  /\ Files /\ UNCHANGED <<job, pc, spawned, worker, loop, parentLives, due, fresh, told,
                          crashes>>

\* The time a waiting job waits for comes.
WaitEnds ==
  /\ ~due /\ (job.status \in WaitStates \/ job.pausedFrom \in WaitStates)
  /\ due' = TRUE
  /\ Files /\ Outside /\ UNCHANGED <<job, pc, loop, parentLives, fresh>>

Next ==
  \/ Tick \/ LoopCycle \/ CycleStep
  \/ Pause \/ Resume \/ RetryBlocked \/ SupersedeFeedback \/ StartLoop
  \/ \E p \in Pids :
       WorkerBegins(p) \/ WorkerReturns(p) \/ WorkerWrites(p) \/ WorkerDies(p)
  \/ ControllerDies \/ LoopEnds \/ LeaseExpires \/ WaitEnds

Spec == Init /\ [][Next]_vars

\* A service that is there sleeps for a bounded time, and then gets the lock
\* or ends; the lock holder and the workers are running processes, and every
\* action of a worker ends, because each model call has a timeout.  Nobody has
\* to start a service, to tick or to give a command.
FairSpec ==
  /\ Spec
  /\ WF_vars(LoopCycle \/ LoopBusy)
  /\ WF_vars(CycleStep \/ SupersedeFeedback)
  /\ \A p \in Pids : WF_vars(WorkerBegins(p) \/ WorkerReturns(p) \/ WorkerWrites(p))

----------------------------------------------------------------------------
(* Properties *)

\* Every attempt's receipt is applied once and none is skipped, whatever
\* dies between the receipt, the state file and the next attempt.
ReceiptsAppliedOnce ==
  job.processed = (1 .. job.sequence) \
                    (IF job.active = None THEN {} ELSE {job.active.id})

\* The finished batches are 1, 2, ... without gap or repetition up to the
\* current one, and a job is completed only when the last one is finished.
BatchesInOrder ==
  LET done == IF job.kind = "narrative_audit" THEN job.audited ELSE job.sealed
  IN  /\ done = [i \in 1 .. Len(done) |-> i]
      /\ Len(done) \in {job.batch - 1, job.batch}
      /\ job.status \in Completed => Len(done) = job.batch /\ IsLast(job.batch)
      /\ completion # None => completion = job.status

\* A batch is sealed on evidence about the text it has then: the checks were
\* repeated after the last rewrite, and the audit after that was an
\* independent one.
SealedOnFreshEvidence ==
  [][job'.sealed # job.sealed =>
       /\ fresh \cap {"deterministic_check", "deterministic_reaudit"} # {}
       /\ CheckpointOnly(job.batch) \/ "heavy_audit" \in fresh'
       /\ job.rewrites > 0 =>
            /\ "deterministic_reaudit" \in fresh /\ "heavy_audit" \in fresh'
            /\ job.reaudit]_vars

\* The statuses of a batch on its way to a rewrite.
Rewriting == {"awaiting_revision_scribe", "revision_support_scribe",
              "awaiting_revision_verifier", "revision_support_verifier",
              "rewrite_required", "rewriting"}

\* Automatic rewriting of one batch stops at the limit, also for a job that
\* was paused, blocked and retried on the way: nothing leads to a further
\* rewrite, and only then is a decision asked for.
RewritesEnd ==
  /\ job.rewrites <= MAX_AUTOMATIC_REWRITES
  /\ job.rewrites = MAX_AUTOMATIC_REWRITES =>
       /\ {job.status, job.pausedFrom} \cap Rewriting = {}
       /\ job.retryAction # "rewrite_batch"
  /\ job.exhausted => job.rewrites = MAX_AUTOMATIC_REWRITES /\ job.active = None

\* As long as no process has died, one worker runs at a time, and it runs
\* the active attempt.
OneWorker ==
  crashes = 0 =>
    /\ \A p, q \in Pids : Live(p) /\ Live(q) => p = q
    /\ \A p \in Pids : Live(p) => job.active # None /\ job.active.id = worker[p].attempt

\* The worker died without a receipt as a child of the service that is still
\* there: recover_orphaned_attempt takes it for alive.
Unreaped ==
  /\ job.active # None /\ receipt = None
  /\ job.active.pid # None /\ ~Live(job.active.pid) /\ parentLives

\* A service that stays resolves the active attempt, whoever launched its
\* worker, however the worker ended and however cycles of commands come in
\* between; the one exception is a worker that the service itself launched
\* and that was killed.
AttemptsResolved ==
  job.active # None /\ loop # "none"
    ~> (job.active = None \/ loop = "none" \/ Unreaped)

\* No cycle runs to its end and leaves a terminal status unreported, whatever
\* died between the state, the completion receipt and the feedback before it.
\* Only a death of retry_blocked_job can take the report away (told = "lost").
TerminalReported ==
  [][/\ pc \in CyclePoints /\ pc' = "idle" /\ crashes' = crashes
     /\ job.status \in TERMINAL_STATES
     => told' # "no"]_vars

\* "Resume a user-paused job from its exact reducer state": a job that is
\* neither stopped nor waiting nor terminal and has no active attempt has a
\* next action.
NeverStranded ==
  pc = "idle" /\ job.active = None
    /\ job.status \notin TERMINAL_STATES \cup CONTROLLER_STOP_STATES \cup WaitStates
  => ActionFor(Advanced(job)) # None

=============================================================================
