------------------------- MODULE BackgroundJobProofs -------------------------
(***************************************************************************)
(* Theorems about BackgroundJob, for every range of chapters, every batch  *)
(* size and cadence, and any number of worker processes, attempts and      *)
(* deaths.                                                                 *)
(***************************************************************************)
EXTENDS BackgroundJob, SequenceTheorems, TLAPS

(* The invariant: what the job is about to do. *)

\* Where the job stands, whether or not it is paused.
Standing(j) == IF j.status = "paused" THEN j.pausedFrom ELSE j.status

RetryStates == WaitStates \cup {"failed_recoverable", "blocked"}

\* The statuses from which the controller schedules an action, or in which
\* it is active.
Leads(a) ==
  {ACTION_RUNNING_STATE[a]} \cup
    CASE a \in {"preflight", "generate_batch"} -> {"queued"}
      [] a = "continuity_checkpoint" -> {"awaiting_continuity_checkpoint"}
      [] a = "heavy_audit" -> {"awaiting_heavy_audit"}
      [] a = "revision_support_scribe" -> {"awaiting_revision_scribe"}
      [] a = "revision_support_verifier" -> {"awaiting_revision_verifier"}
      [] a = "rewrite_batch" -> {"rewrite_required"}
      [] OTHER -> {}

\* Action a is active, to be retried, or next for a job that stands at s.
Facing(j, s, a) ==
  \/ j.active # None /\ j.active.action = a
  \/ j.active = None /\ s \in RetryStates /\ j.retryAction = a
  \/ j.active = None /\ s \in Leads(a)

Checked(f) == f \cap {"deterministic_check", "deterministic_reaudit"} # {}

\* The batches finished so far.
Done(j) == IF j.kind = "narrative_audit" THEN j.audited ELSE j.sealed
Counts(s) == s = [i \in 1 .. Len(s) |-> i]

\* What holds of the current batch when action a is ahead or active; f are
\* the actions that succeeded on its present text.
Ready(j, a, f) ==
  /\ j.kind = "narrative_audit" => a = "heavy_audit"
  /\ Len(Done(j)) = IF a = "final_acceptance" THEN j.batch ELSE j.batch - 1
  /\ a = "final_acceptance" => IsLast(j.batch)
  /\ a \in {"revision_support_scribe", "revision_support_verifier", "rewrite_batch"} =>
       j.rewrites < MAX_AUTOMATIC_REWRITES
  /\ a \in {"preflight", "generate_batch", "deterministic_check", "continuity_checkpoint"} =>
       j.rewrites = 0
  /\ a = "continuity_checkpoint" => CheckpointOnly(j.batch)
  /\ j.kind # "narrative_audit" /\ a \in {"continuity_checkpoint", "heavy_audit"} =>
       /\ Checked(f)
       /\ j.rewrites > 0 => "deterministic_reaudit" \in f /\ j.reaudit

\* What holds of a job that stands at s.
Sound(j, s, f) ==
  /\ \A a \in Actions : Facing(j, s, a) => Ready(j, a, f)
  /\ j.active # None => s = ACTION_RUNNING_STATE[j.active.action]
  /\ j.retryAction # None =>
       IF j.active # None THEN j.retryAction = j.active.action
       ELSE s \in RetryStates \cup {ACTION_RUNNING_STATE[j.retryAction]}
  /\ j.active = None /\ s \in RetryStates \ {"blocked"} => j.retryAction # None
  /\ s = "blocked" => j.active = None /\ (j.retryAction = None => Len(Done(j)) = j.batch - 1)
  /\ s = "batch_sealed" => j.kind # "narrative_audit" /\ Len(j.sealed) = j.batch
  /\ s = "decision_required" => Len(Done(j)) = j.batch - 1
  /\ s \in Completed => Len(Done(j)) = j.batch /\ IsLast(j.batch) /\ j.active = None
  /\ j.exhausted => s = "decision_required" /\ j.rewrites = MAX_AUTOMATIC_REWRITES
  /\ j.rewrites <= MAX_AUTOMATIC_REWRITES
  /\ Counts(Done(j)) /\ j.batch >= 1
  /\ j.kind = "narrative_audit" => j.sealed = <<>>

\* A pause remembers where the job stood.  A pause that the end of the
\* attempt overtook remembers the attempt instead.
PauseOk(j) ==
  /\ j.pauseRequested <=> j.pausedFrom # None
  /\ j.status = "paused" => j.pauseRequested
  /\ j.pauseRequested /\ j.status # "paused" =>
       /\ j.status \in TERMINAL_STATES \cup {"failed_recoverable"} /\ j.active = None
       /\ IF j.retryAction # None THEN j.pausedFrom = ACTION_RUNNING_STATE[j.retryAction]
          ELSE j.pausedFrom \in {"heavy_auditing", "final_acceptance"}

JobOk(j, f) == Sound(j, Standing(j), f) /\ PauseOk(j)

\* Attempts are numbered, and all but the active one were processed.
AttemptsOk ==
  /\ job.active # None => job.active.id = job.sequence /\ job.sequence >= 1
  /\ ReceiptsAppliedOnce

\* Where the lock holder is.
PlaceOk ==
  /\ pc \in {"schedule", "completion", "feedback", "dispatch"} => job.active = None
  /\ pc \in {"completion", "feedback", "dispatch"} => job.status \in TERMINAL_STATES
  /\ pc = "mark" => job.active # None
  /\ spawned # None <=> pc = "mark"
  /\ pc = "orphaned" => job.active # None /\ job.active.pid # None

CompletionOk == completion # None => job.status = completion

\* Without deaths the one worker is the one that the state file names, or is
\* about to name, and it is gone once there is a receipt.
WorkersOk ==
  crashes = 0 =>
    /\ \A p \in Pids : Live(p) =>
         /\ job.active # None /\ job.active.id = worker[p].attempt
         /\ job.active.pid = p \/ spawned = p
         /\ receipt = None /\ pc # "orphaned"
    /\ receipt # None => job.active # None /\ (job.active.pid # None \/ pc = "mark")
    /\ pc = "mark" => job.active.pid = None

Inv == TypeOK /\ JobOk(job, fresh) /\ AttemptsOk /\ PlaceOk /\ CompletionOk /\ WorkersOk

----------------------------------------------------------------------------
(* Statuses and actions. *)

\* Every action has its running state, which is not shared.
LEMMA RunningStates ==
  /\ \A a \in Actions :
       /\ ACTION_RUNNING_STATE[a] \in Statuses
       /\ ACTION_RUNNING_STATE[a] \notin
            TERMINAL_STATES \cup CONTROLLER_STOP_STATES \cup RetryStates
              \cup {"queued", "batch_sealed"}
       /\ ACTION_RUNNING_STATE[a] =
            CASE a = "generate_batch" -> "generating_batch"
              [] a = "heavy_audit"    -> "heavy_auditing"
              [] a = "rewrite_batch"  -> "rewriting"
              [] OTHER                -> a
<1>1. \A a \in Actions :
        ACTION_RUNNING_STATE[a] =
            CASE a = "generate_batch" -> "generating_batch"
              [] a = "heavy_audit"    -> "heavy_auditing"
              [] a = "rewrite_batch"  -> "rewriting"
              [] OTHER                -> a
  BY DEF ACTION_RUNNING_STATE
<1>2. ASSUME NEW a \in Actions
      PROVE  ACTION_RUNNING_STATE[a] \notin
               TERMINAL_STATES \cup CONTROLLER_STOP_STATES \cup RetryStates
                 \cup {"queued", "batch_sealed"}
  BY <1>1 DEF Actions, TERMINAL_STATES, Completed, CONTROLLER_STOP_STATES, RetryStates, WaitStates
<1>3. \A a \in Actions : ACTION_RUNNING_STATE[a] \in Statuses
  BY DEF Statuses
<1> QED
  BY <1>1, <1>2, <1>3

\* Statuses that are written down as such.
LEMMA NamedStatuses ==
  /\ {"queued", "deterministic_check", "awaiting_continuity_checkpoint", "awaiting_heavy_audit",
      "awaiting_revision_scribe", "awaiting_revision_verifier", "rewrite_required",
      "deterministic_reaudit", "batch_sealed", "failed_recoverable", "capacity_wait",
      "retry_wait", "decision_required", "blocked", "final_acceptance"} \cup Completed
       \subseteq Statuses \ {"paused"}
  /\ "paused" \in Statuses
<1>1. /\ ACTION_RUNNING_STATE["deterministic_check"] = "deterministic_check"
      /\ ACTION_RUNNING_STATE["deterministic_reaudit"] = "deterministic_reaudit"
      /\ ACTION_RUNNING_STATE["final_acceptance"] = "final_acceptance"
      /\ {"deterministic_check", "deterministic_reaudit", "final_acceptance"} \subseteq Actions
  BY DEF ACTION_RUNNING_STATE, Actions
<1>2. {"deterministic_check", "deterministic_reaudit", "final_acceptance"} \subseteq Statuses
  BY <1>1, RunningStates
<1> QED
  BY <1>2 DEF Statuses, TERMINAL_STATES, Completed, CONTROLLER_STOP_STATES, WaitStates

\* What is between the job and the attempts it consumes.
Kept(j, k) ==
  /\ k.kind = j.kind /\ k.active = j.active /\ k.sequence = j.sequence
  /\ k.processed = j.processed /\ k.retryAction = j.retryAction
  /\ k.pauseRequested = j.pauseRequested /\ k.pausedFrom = j.pausedFrom

\* A batch is sealed.
LEMMA SealFacts ==
  ASSUME NEW j \in Job
  PROVE  /\ Seal(j) \in Job /\ Kept(j, Seal(j)) /\ Seal(j).status = "batch_sealed"
         /\ Seal(j).sealed = IF \E i \in DOMAIN j.sealed : j.sealed[i] = j.batch THEN j.sealed
                             ELSE Append(j.sealed, j.batch)
         /\ Seal(j).batch = j.batch /\ Seal(j).audited = j.audited
         /\ Seal(j).rewrites = j.rewrites /\ Seal(j).exhausted = j.exhausted
         /\ Seal(j).reaudit = j.reaudit
<1>1. PICK s : s = IF \E i \in DOMAIN j.sealed : j.sealed[i] = j.batch THEN j.sealed
                   ELSE Append(j.sealed, j.batch)
  OBVIOUS
<1>2. s \in Seq(Nat)
  <2>1. j.sealed \in Seq(Nat) /\ j.batch \in Nat
    BY DEF Job
  <2> QED
    BY <1>1, <2>1, AppendProperties
<1>3. Seal(j) = [j EXCEPT !.status = "batch_sealed", !.sealed = s]
  BY <1>1 DEF Seal
<1>4. "batch_sealed" \in Statuses
  BY NamedStatuses
<1>5. [j EXCEPT !.status = "batch_sealed", !.sealed = s] \in Job
  BY <1>2, <1>4, Zenon DEF Job
<1>6. LET k == [j EXCEPT !.status = "batch_sealed", !.sealed = s]
      IN  /\ k.status = "batch_sealed" /\ k.sealed = s /\ k.batch = j.batch
          /\ k.audited = j.audited /\ k.rewrites = j.rewrites /\ k.exhausted = j.exhausted
          /\ k.reaudit = j.reaudit /\ Kept(j, k)
  BY DEF Job, Kept
<1> QED
  BY <1>1, <1>3, <1>5, <1>6

Same(j, k) ==
  /\ k.batch = j.batch /\ k.sealed = j.sealed /\ k.audited = j.audited
  /\ k.rewrites = j.rewrites /\ k.exhausted = j.exhausted /\ k.reaudit = j.reaudit

\* Only the status is replaced.
LEMMA StatusOnly ==
  ASSUME NEW j \in Job, NEW s \in Statuses
  PROVE  LET k == [j EXCEPT !.status = s]
         IN  k \in Job /\ Kept(j, k) /\ Same(j, k) /\ k.status = s
<1>1. [j EXCEPT !.status = s] \in Job
  BY Zenon DEF Job
<1>2. LET k == [j EXCEPT !.status = s] IN Kept(j, k) /\ Same(j, k) /\ k.status = s
  BY DEF Job, Kept, Same
<1> QED
  BY <1>1, <1>2

Decided(j, k, s, e) == k = [j EXCEPT !.status = s, !.exhausted = e]

\* The status and the exhaustion of the rewrites are replaced.
LEMMA DecidedFacts ==
  ASSUME NEW j \in Job, NEW k, NEW s \in Statuses, NEW e \in BOOLEAN, Decided(j, k, s, e)
  PROVE  /\ k \in Job /\ Kept(j, k)
         /\ k.batch = j.batch /\ k.audited = j.audited /\ k.rewrites = j.rewrites
         /\ k.status = s /\ k.sealed = j.sealed /\ k.exhausted = e
<1>1. [j EXCEPT !.status = s, !.exhausted = e] \in Job
  BY Zenon DEF Job
<1>2. /\ Kept(j, k)
      /\ k.batch = j.batch /\ k.audited = j.audited /\ k.rewrites = j.rewrites
      /\ k.status = s /\ k.sealed = j.sealed /\ k.exhausted = e
  BY DEF Job, Kept, Decided
<1> QED
  BY <1>1, <1>2 DEF Decided

\* What a generation job does after its heavy audit.
LEMMA AuditFacts ==
  ASSUME NEW j \in Job, NEW r \in Results, NEW k, k = AfterGenerationAudit(j, r)
  PROVE  /\ k \in Job /\ Kept(j, k)
         /\ k.batch = j.batch /\ k.audited = j.audited /\ k.rewrites = j.rewrites
         /\ \/ /\ k.status = "batch_sealed" /\ k.sealed = Seal(j).sealed /\ ~k.exhausted
            \/ /\ k.status = "decision_required" /\ k.sealed = j.sealed /\ k.exhausted
               /\ j.rewrites >= MAX_AUTOMATIC_REWRITES
            \/ /\ k.status \in {"rewrite_required", "awaiting_revision_scribe"}
               /\ k.sealed = j.sealed /\ ~k.exhausted
               /\ j.rewrites < MAX_AUTOMATIC_REWRITES
            \/ k.status = "blocked" /\ k.sealed = j.sealed /\ ~k.exhausted
<1>1. j.rewrites \in Nat /\ r.decision \in Decisions
  BY DEF Job, Results
<1>2. CASE r.decision = "pass"
  <2>1. PICK s : s = Seal(j)
    OBVIOUS
  <2>2. /\ s \in Job /\ Kept(j, s) /\ s.status = "batch_sealed" /\ s.batch = j.batch
        /\ s.audited = j.audited /\ s.rewrites = j.rewrites
    BY <2>1, SealFacts
  <2>3. k = [s EXCEPT !.reaudit = FALSE, !.exhausted = FALSE]
    BY <1>2, <2>1 DEF AfterGenerationAudit
  <2>4. [s EXCEPT !.reaudit = FALSE, !.exhausted = FALSE] \in Job
    BY <2>2, Zenon DEF Job
  <2>5. /\ k.status = s.status /\ k.sealed = s.sealed /\ k.exhausted = FALSE
        /\ k.batch = s.batch /\ k.audited = s.audited /\ k.rewrites = s.rewrites /\ Kept(s, k)
    BY <2>2, <2>3 DEF Job, Kept
  <2>6. k \in Job
    BY <2>3, <2>4
  <2>7. Kept(j, k)
    BY <2>2, <2>5 DEF Kept
  <2> QED
    BY <2>1, <2>2, <2>5, <2>6, <2>7
<1>4. CASE r.decision = "revision_required" /\ j.rewrites >= MAX_AUTOMATIC_REWRITES
  <2>1. Decided(j, k, "decision_required", TRUE)
    BY <1>1, <1>4 DEF AfterGenerationAudit, Decided, MAX_AUTOMATIC_REWRITES
  <2> QED
    BY <1>4, <2>1, DecidedFacts, NamedStatuses
<1>5. CASE r.decision = "revision_required" /\ j.rewrites < MAX_AUTOMATIC_REWRITES
  <2>1. PICK s \in {"rewrite_required", "awaiting_revision_scribe"} :
          s = IF r.proposal THEN "rewrite_required" ELSE "awaiting_revision_scribe"
    OBVIOUS
  <2>2. ~(j.rewrites >= MAX_AUTOMATIC_REWRITES)
    BY <1>1, <1>5 DEF MAX_AUTOMATIC_REWRITES
  <2>3. Decided(j, k, s, FALSE)
    BY <1>5, <2>1, <2>2 DEF AfterGenerationAudit, Decided
  <2>4. s \in Statuses
    BY <2>1, NamedStatuses
  <2>5. /\ k \in Job /\ Kept(j, k)
        /\ k.batch = j.batch /\ k.audited = j.audited /\ k.rewrites = j.rewrites
        /\ k.status = s /\ k.sealed = j.sealed /\ k.exhausted = FALSE
    BY <2>3, <2>4, DecidedFacts
  <2> QED
    BY <1>5, <2>1, <2>5
<1>6. CASE r.decision = "blocked"
  <2>1. Decided(j, k, "blocked", FALSE)
    BY <1>6 DEF AfterGenerationAudit, Decided
  <2> QED
    BY <1>6, <2>1, DecidedFacts, NamedStatuses
<1>7. \/ r.decision = "pass" \/ r.decision = "blocked"
      \/ r.decision = "revision_required" /\ j.rewrites >= MAX_AUTOMATIC_REWRITES
      \/ r.decision = "revision_required" /\ j.rewrites < MAX_AUTOMATIC_REWRITES
  BY <1>1 DEF Decisions, MAX_AUTOMATIC_REWRITES
<1> QED
  BY <1>2, <1>4, <1>5, <1>6, <1>7

\* What an audit job does after its heavy audit.
LEMMA AuditOnlyFacts ==
  ASSUME NEW j \in Job, NEW r \in Results, NEW k, k = AfterAuditOnly(j, r)
  PROVE  /\ k \in Job /\ Kept(j, k)
         /\ k.sealed = j.sealed /\ k.rewrites = j.rewrites /\ k.exhausted = j.exhausted
         /\ \/ k.status = "blocked" /\ k.audited = j.audited /\ k.batch = j.batch
            \/ /\ k.status \in Completed /\ IsLast(j.batch)
               /\ k.audited = Append(j.audited, j.batch) /\ k.batch = j.batch
            \/ /\ k.status = "awaiting_heavy_audit"
               /\ k.audited = Append(j.audited, j.batch) /\ k.batch = j.batch + 1
<1>1. j.audited \in Seq(Nat) /\ j.batch \in Nat /\ j.hasFindings \in BOOLEAN
      /\ r.findings \in BOOLEAN
  BY DEF Job, Results
<1>2. PICK found : found = (j.hasFindings \/ r.decision = "revision_required" \/ r.findings)
  OBVIOUS
<1>3. found \in BOOLEAN
  BY <1>2, Zenon
<1>4. PICK more : more = Append(j.audited, j.batch)
  OBVIOUS
<1>5. more \in Seq(Nat)
  BY <1>1, <1>4, AppendProperties
<1>6. PICK done : done = [j EXCEPT !.hasFindings = found, !.audited = more]
  OBVIOUS
<1>7. done \in Job
  <2>1. [j EXCEPT !.hasFindings = found, !.audited = more] \in Job
    BY <1>3, <1>5, Zenon DEF Job
  <2> QED
    BY <1>6, <2>1
<1>8. /\ Kept(j, done) /\ done.sealed = j.sealed /\ done.rewrites = j.rewrites
      /\ done.exhausted = j.exhausted /\ done.audited = more /\ done.batch = j.batch
  BY <1>6 DEF Job, Kept
<1>9. k = CASE r.decision = "blocked" -> [j EXCEPT !.status = "blocked"]
        [] r.decision # "blocked" /\ IsLast(j.batch) ->
             [done EXCEPT !.status = IF found THEN "completed_with_findings"
                                     ELSE "completed_clean"]
        [] OTHER -> [done EXCEPT !.batch = @ + 1, !.status = "awaiting_heavy_audit"]
  BY <1>2, <1>4, <1>6 DEF AfterAuditOnly
<1>10. CASE r.decision = "blocked"
  <2>1. k = [j EXCEPT !.status = "blocked"]
    BY <1>9, <1>10
  <2>2. k \in Job /\ Kept(j, k) /\ Same(j, k) /\ k.status = "blocked"
    BY <2>1, StatusOnly, NamedStatuses
  <2> QED
    BY <2>2 DEF Same
<1>11. CASE r.decision # "blocked" /\ IsLast(j.batch)
  <2>1. PICK s \in Completed : s = IF found THEN "completed_with_findings" ELSE "completed_clean"
    BY DEF Completed
  <2>2. k = [done EXCEPT !.status = s]
    BY <1>9, <1>11, <2>1
  <2>3. k \in Job /\ Kept(done, k) /\ Same(done, k) /\ k.status = s
    BY <1>7, <2>1, <2>2, StatusOnly, NamedStatuses
  <2> QED
    BY <1>4, <1>8, <1>11, <2>1, <2>3 DEF Same, Kept
<1>12. CASE r.decision # "blocked" /\ ~IsLast(j.batch)
  <2>1. PICK n \in Nat : n = j.batch + 1
    BY <1>1
  <2>2. k = [done EXCEPT !.batch = n, !.status = "awaiting_heavy_audit"]
    BY <1>8, <1>9, <1>12, <2>1
  <2>3. "awaiting_heavy_audit" \in Statuses
    BY NamedStatuses
  <2>4. [done EXCEPT !.batch = n, !.status = "awaiting_heavy_audit"] \in Job
    BY <1>7, <2>3, Zenon DEF Job
  <2>5. /\ Kept(done, k) /\ k.batch = n /\ k.status = "awaiting_heavy_audit"
        /\ k.audited = done.audited /\ k.sealed = done.sealed /\ k.rewrites = done.rewrites
        /\ k.exhausted = done.exhausted
    BY <1>7, <2>2 DEF Job, Kept
  <2> QED
    BY <1>4, <1>8, <2>1, <2>2, <2>4, <2>5 DEF Kept
<1> QED
  BY <1>10, <1>11, <1>12

----------------------------------------------------------------------------
(* What a success makes of a sound job. *)

\* The actions that a status leads to.
LEMMA LeadsFacts ==
  ASSUME NEW b \in Actions
  PROVE  /\ "queued" \in Leads(b) => b \in {"preflight", "generate_batch"}
         /\ "deterministic_check" \in Leads(b) => b = "deterministic_check"
         /\ "deterministic_reaudit" \in Leads(b) => b = "deterministic_reaudit"
         /\ "final_acceptance" \in Leads(b) => b = "final_acceptance"
         /\ "awaiting_continuity_checkpoint" \in Leads(b) => b = "continuity_checkpoint"
         /\ "awaiting_heavy_audit" \in Leads(b) => b = "heavy_audit"
         /\ "awaiting_revision_scribe" \in Leads(b) => b = "revision_support_scribe"
         /\ "awaiting_revision_verifier" \in Leads(b) => b = "revision_support_verifier"
         /\ "rewrite_required" \in Leads(b) => b = "rewrite_batch"
         /\ \A s \in RetryStates \cup TERMINAL_STATES \cup CONTROLLER_STOP_STATES
                       \cup {"batch_sealed"} : s \notin Leads(b)
         /\ \A c \in Actions : ACTION_RUNNING_STATE[c] \in Leads(b) => c = b
<1>1. ACTION_RUNNING_STATE[b] =
            CASE b = "generate_batch" -> "generating_batch"
              [] b = "heavy_audit"    -> "heavy_auditing"
              [] b = "rewrite_batch"  -> "rewriting"
              [] OTHER                -> b
  BY RunningStates
<1> QED
  BY <1>1, RunningStates
     DEF Leads, Actions, RetryStates, WaitStates, TERMINAL_STATES, Completed, CONTROLLER_STOP_STATES

\* What holds of the batch beside the action that is next.
Base(j) ==
  /\ j.rewrites <= MAX_AUTOMATIC_REWRITES
  /\ Counts(Done(j)) /\ j.batch >= 1
  /\ j.kind = "narrative_audit" => j.sealed = <<>>

\* A job with nothing active or to be retried is sound when it is ready for
\* the action its status leads to.
LEMMA NextSound ==
  ASSUME NEW k \in Job, NEW s, NEW f, k.active = None, k.retryAction = None, Base(k), ~k.exhausted,
         s \notin RetryStates \cup TERMINAL_STATES \cup {"batch_sealed", "decision_required"},
         \A b \in Actions : s \in Leads(b) => Ready(k, b, f)
  PROVE  Sound(k, s, f)
<1>1. \A a \in Actions : Facing(k, s, a) => Ready(k, a, f)
  BY DEF Facing
<1>2. s \notin Completed /\ s # "blocked"
  BY DEF TERMINAL_STATES
<1> QED
  BY <1>1, <1>2 DEF Sound, Base

\* A count that is continued.
LEMMA CountsOn ==
  ASSUME NEW s \in Seq(Nat), Counts(s), NEW n, n = Len(s) + 1
  PROVE  /\ Counts(Append(s, n)) /\ Len(Append(s, n)) = n
         /\ \A i \in DOMAIN s : s[i] # n
<1>1. Len(s) \in Nat /\ DOMAIN s = 1 .. Len(s) /\ n \in Nat
  BY LenProperties
<1>2. \A i \in 1 .. Len(s) : s[i] = i
  BY DEF Counts
<1>3. PICK t : t = Append(s, n)
  OBVIOUS
<1>4. t \in Seq(Nat) /\ Len(t) = n /\ (\A i \in 1 .. Len(s) : t[i] = s[i]) /\ t[n] = n
  BY <1>1, <1>3, AppendProperties
<1>5. \A i \in 1 .. n : t[i] = i
  BY <1>1, <1>2, <1>4
<1>6. t = [i \in 1 .. n |-> i]
  <2>1. DOMAIN t = 1 .. n /\ t = [i \in 1 .. n |-> t[i]]
    BY <1>4, LenProperties
  <2> QED
    BY <1>5, <2>1
<1>7. \A i \in 1 .. Len(s) : s[i] # n
  BY <1>1, <1>2
<1> QED
  BY <1>1, <1>3, <1>4, <1>6, <1>7 DEF Counts

\* FreshAfter, of a success on text with the successes f.
FreshOn(a, f) == IF a \in {"generate_batch", "rewrite_batch"} THEN {a} ELSE f \cup {a}

\* Facts about the batch that a new status leaves alone.
LEMMA SameBase ==
  ASSUME NEW j, NEW k, Base(j), Same(j, k), k.kind = j.kind
  PROVE  /\ Base(k) /\ Done(k) = Done(j) /\ k.exhausted = j.exhausted
         /\ k.batch = j.batch /\ k.rewrites = j.rewrites /\ k.reaudit = j.reaudit
BY DEF Base, Same, Done

\* A sealed batch.
LEMMA SealSound ==
  ASSUME NEW j \in Job, Base(j), NEW k \in Job, NEW f,
         j.kind # "narrative_audit", Len(Done(j)) = j.batch - 1,
         k.kind = j.kind, k.batch = j.batch, k.rewrites = j.rewrites, k.sealed = Seal(j).sealed,
         k.active = None, k.retryAction = None, ~k.exhausted
  PROVE  Sound(k, "batch_sealed", f)
<1>1. j.sealed \in Seq(Nat) /\ Counts(j.sealed) /\ j.batch \in Nat /\ Len(j.sealed) = j.batch - 1
  BY DEF Base, Done, Job
<1>2. Len(j.sealed) \in Nat /\ j.batch = Len(j.sealed) + 1
  BY <1>1, LenProperties
<1>3. /\ Counts(Append(j.sealed, j.batch)) /\ Len(Append(j.sealed, j.batch)) = j.batch
      /\ \A i \in DOMAIN j.sealed : j.sealed[i] # j.batch
  BY <1>1, <1>2, CountsOn
<1>4. k.sealed = Append(j.sealed, j.batch)
  BY <1>3, SealFacts
<1>5. Done(k) = k.sealed /\ Counts(Done(k)) /\ Len(Done(k)) = k.batch
  BY <1>3, <1>4 DEF Done
<1>6. \A a \in Actions : ~Facing(k, "batch_sealed", a)
  BY LeadsFacts DEF Facing, RetryStates, WaitStates
<1> QED
  BY <1>5, <1>6 DEF Sound, Base, Completed, RetryStates, WaitStates

\* A job that the reviewer blocked.
LEMMA BlockedSound ==
  ASSUME NEW k \in Job, Base(k), NEW f, Len(Done(k)) = k.batch - 1,
         k.active = None, k.retryAction = None, ~k.exhausted
  PROVE  Sound(k, "blocked", f)
<1>1. \A a \in Actions : ~Facing(k, "blocked", a)
  <2> SUFFICES ASSUME NEW a \in Actions PROVE ~Facing(k, "blocked", a)
    OBVIOUS
  <2>1. a # None
    BY NoneAssumption
  <2> QED
    BY <2>1, LeadsFacts DEF Facing, RetryStates
<1> QED
  BY <1>1 DEF Sound, Base, Completed, RetryStates, WaitStates

\* A success leaves a job at a status that is sound for it.
LEMMA SuccessSound ==
  ASSUME NEW j \in Job, Base(j), j.active = None, j.retryAction = None, ~j.exhausted,
         NEW a \in Actions, NEW r \in Results, NEW f, Ready(j, a, f),
         NEW k, k = SuccessfulTransition(j, a, r)
  PROVE  /\ k \in Job /\ Kept(j, k) /\ k.status # "paused"
         /\ Sound(k, k.status, FreshOn(a, f))
<1> DEFINE g == FreshOn(a, f)
<1>0. j.rewrites \in Nat /\ j.batch \in Nat /\ None \notin Actions
  BY NoneAssumption DEF Job
<1>1. ASSUME NEW s \in Statuses, k = [j EXCEPT !.status = s]
      PROVE  /\ k \in Job /\ Kept(j, k) /\ Same(j, k) /\ k.status = s
  BY <1>1, StatusOnly
<1>2. ASSUME k \in Job, Kept(j, k), Same(j, k),
             k.status \in {"queued", "deterministic_check", "awaiting_continuity_checkpoint",
                           "awaiting_heavy_audit", "awaiting_revision_verifier", "rewrite_required"},
             \A b \in Actions : k.status \in Leads(b) => Ready(k, b, g)
      PROVE  k.status # "paused" /\ Sound(k, k.status, g)
  <2>1. Base(k) /\ ~k.exhausted /\ k.active = None /\ k.retryAction = None
    BY <1>2, SameBase DEF Kept
  <2>2. k.status \notin RetryStates \cup TERMINAL_STATES \cup {"batch_sealed", "decision_required"}
    BY <1>2 DEF RetryStates, WaitStates, TERMINAL_STATES, Completed
  <2>3. Sound(k, k.status, g)
    BY <1>2, <2>1, <2>2, NextSound
  <2> QED
    BY <1>2, <2>3
<1>3. CASE a = "preflight"
  <2>1. k = [j EXCEPT !.preflightPassed = TRUE, !.status = "queued"]
    BY <1>3 DEF SuccessfulTransition
  <2>2. "queued" \in Statuses
    BY NamedStatuses
  <2>3. [j EXCEPT !.preflightPassed = TRUE, !.status = "queued"] \in Job
    BY <2>2, Zenon DEF Job
  <2>4. k \in Job /\ Kept(j, k) /\ Same(j, k) /\ k.status = "queued"
    BY <2>1, <2>3 DEF Job, Kept, Same
  <2>5. j.kind # "narrative_audit" /\ Len(Done(j)) = j.batch - 1 /\ j.rewrites = 0
    BY <1>3 DEF Ready
  <2>6. \A b \in {"preflight", "generate_batch"} : Ready(k, b, g)
    BY <1>0, <2>4, <2>5, SameBase DEF Ready, Kept, MAX_AUTOMATIC_REWRITES
  <2>7. \A b \in Actions : k.status \in Leads(b) => Ready(k, b, g)
    BY <2>4, <2>6, LeadsFacts
  <2> QED
    BY <1>2, <2>4, <2>7
<1>4. CASE a = "generate_batch"
  <2>1. k = [j EXCEPT !.status = "deterministic_check"]
    BY <1>4 DEF SuccessfulTransition
  <2>2. k \in Job /\ Kept(j, k) /\ Same(j, k) /\ k.status = "deterministic_check"
    BY <1>1, <2>1, NamedStatuses
  <2>3. j.kind # "narrative_audit" /\ Len(Done(j)) = j.batch - 1 /\ j.rewrites = 0
    BY <1>4 DEF Ready
  <2>4. Ready(k, "deterministic_check", g)
    BY <2>2, <2>3, SameBase DEF Ready, Kept
  <2>5. \A b \in Actions : k.status \in Leads(b) => Ready(k, b, g)
    BY <2>2, <2>4, LeadsFacts
  <2> QED
    BY <1>2, <2>2, <2>5
<1>5. CASE a = "deterministic_check"
  <2>1. PICK s \in {"awaiting_continuity_checkpoint", "awaiting_heavy_audit"} :
          /\ k = [j EXCEPT !.status = s]
          /\ s = "awaiting_continuity_checkpoint" => CheckpointOnly(j.batch)
    BY <1>5 DEF SuccessfulTransition
  <2>2. s \in Statuses
    BY <2>1, NamedStatuses
  <2>3. k \in Job /\ Kept(j, k) /\ Same(j, k) /\ k.status = s
    BY <1>1, <2>1, <2>2
  <2>4. j.kind # "narrative_audit" /\ Len(Done(j)) = j.batch - 1 /\ j.rewrites = 0
    BY <1>5 DEF Ready
  <2>5. Checked(g)
    BY <1>5 DEF FreshOn, Checked
  <2>6. /\ Done(k) = Done(j) /\ k.batch = j.batch /\ k.rewrites = 0 /\ k.kind = j.kind
    BY <2>3, <2>4, SameBase DEF Kept
  <2>7. s = "awaiting_continuity_checkpoint" => Ready(k, "continuity_checkpoint", g)
    BY <2>1, <2>4, <2>5, <2>6 DEF Ready
  <2>8. Ready(k, "heavy_audit", g)
    BY <2>4, <2>5, <2>6 DEF Ready
  <2>9. \A b \in Actions : k.status \in Leads(b) => Ready(k, b, g)
    BY <2>1, <2>3, <2>7, <2>8, LeadsFacts
  <2> QED
    BY <1>2, <2>1, <2>3, <2>9
<1>6. CASE a = "continuity_checkpoint"
  <2>1. k = Seal(j)
    BY <1>6 DEF SuccessfulTransition
  <2>2. j.kind # "narrative_audit" /\ Len(Done(j)) = j.batch - 1
    BY <1>6 DEF Ready
  <2>3. /\ k \in Job /\ Kept(j, k) /\ k.status = "batch_sealed" /\ k.batch = j.batch
        /\ k.rewrites = j.rewrites /\ k.exhausted = j.exhausted /\ k.sealed = Seal(j).sealed
    BY <2>1, SealFacts
  <2>4. Sound(k, "batch_sealed", g)
    BY <2>2, <2>3, SealSound DEF Kept
  <2> QED
    BY <2>3, <2>4
<1>7. CASE a = "heavy_audit" /\ j.kind = "narrative_audit"
  <2>1. k = AfterAuditOnly(j, r)
    BY <1>7 DEF SuccessfulTransition
  <2>2. /\ k \in Job /\ Kept(j, k)
        /\ k.sealed = j.sealed /\ k.rewrites = j.rewrites /\ k.exhausted = j.exhausted
        /\ \/ k.status = "blocked" /\ k.audited = j.audited /\ k.batch = j.batch
           \/ /\ k.status \in Completed /\ IsLast(j.batch)
              /\ k.audited = Append(j.audited, j.batch) /\ k.batch = j.batch
           \/ /\ k.status = "awaiting_heavy_audit"
              /\ k.audited = Append(j.audited, j.batch) /\ k.batch = j.batch + 1
    BY <2>1, AuditOnlyFacts
  <2>3. /\ Len(j.audited) = j.batch - 1 /\ Counts(j.audited) /\ j.audited \in Seq(Nat)
    BY <1>7 DEF Ready, Base, Done, Job
  <2>4. j.batch = Len(j.audited) + 1
    BY <1>0, <2>3, LenProperties
  <2>5. Counts(Append(j.audited, j.batch)) /\ Len(Append(j.audited, j.batch)) = j.batch
    BY <2>3, <2>4, CountsOn
  <2>6. /\ k.kind = "narrative_audit" /\ k.active = None /\ k.retryAction = None /\ ~k.exhausted
        /\ Done(k) = k.audited /\ k.sealed = <<>> /\ k.rewrites <= MAX_AUTOMATIC_REWRITES
    BY <1>7, <2>2 DEF Kept, Done, Base
  <2>7. CASE k.status = "blocked" /\ k.audited = j.audited /\ k.batch = j.batch
    <3>1. Base(k) /\ Len(Done(k)) = k.batch - 1
      BY <2>3, <2>6, <2>7 DEF Base
    <3>2. Sound(k, "blocked", g)
      BY <2>2, <2>6, <3>1, BlockedSound
    <3> QED
      BY <2>2, <2>7, <3>2
  <2>8. CASE /\ k.status \in Completed /\ IsLast(j.batch)
             /\ k.audited = Append(j.audited, j.batch) /\ k.batch = j.batch
    <3>1. \A b \in Actions : ~Facing(k, k.status, b)
      BY <2>6, <2>8, LeadsFacts DEF Facing, RetryStates, WaitStates, Completed, TERMINAL_STATES
    <3>2. k.status \notin RetryStates \cup {"batch_sealed", "decision_required", "paused"}
      BY <2>8 DEF Completed, RetryStates, WaitStates
    <3>3. Sound(k, k.status, g)
      BY <2>5, <2>6, <2>8, <3>1, <3>2 DEF Sound, Base, RetryStates
    <3> QED
      BY <2>2, <3>2, <3>3
  <2>9. CASE /\ k.status = "awaiting_heavy_audit"
             /\ k.audited = Append(j.audited, j.batch) /\ k.batch = j.batch + 1
    <3>1. Base(k) /\ Len(Done(k)) = k.batch - 1
      BY <1>0, <2>5, <2>6, <2>9 DEF Base
    <3>2. Ready(k, "heavy_audit", g)
      BY <2>6, <3>1 DEF Ready
    <3>3. \A b \in Actions : k.status \in Leads(b) => Ready(k, b, g)
      BY <2>9, <3>2, LeadsFacts
    <3>4. k.status \notin RetryStates \cup TERMINAL_STATES \cup {"batch_sealed", "decision_required"}
      BY <2>9 DEF RetryStates, WaitStates, TERMINAL_STATES, Completed
    <3>5. Sound(k, k.status, g)
      BY <2>2, <2>6, <3>1, <3>3, <3>4, NextSound
    <3> QED
      BY <2>2, <2>9, <3>5
  <2> QED
    BY <2>2, <2>7, <2>8, <2>9
<1>8. CASE a = "heavy_audit" /\ j.kind # "narrative_audit"
  <2>1. k = AfterGenerationAudit(j, r)
    BY <1>8 DEF SuccessfulTransition
  <2>2. /\ k \in Job /\ Kept(j, k)
        /\ k.batch = j.batch /\ k.audited = j.audited /\ k.rewrites = j.rewrites
        /\ \/ /\ k.status = "batch_sealed" /\ k.sealed = Seal(j).sealed /\ ~k.exhausted
           \/ /\ k.status = "decision_required" /\ k.sealed = j.sealed /\ k.exhausted
              /\ j.rewrites >= MAX_AUTOMATIC_REWRITES
           \/ /\ k.status \in {"rewrite_required", "awaiting_revision_scribe"}
              /\ k.sealed = j.sealed /\ ~k.exhausted
              /\ j.rewrites < MAX_AUTOMATIC_REWRITES
           \/ k.status = "blocked" /\ k.sealed = j.sealed /\ ~k.exhausted
    BY <2>1, AuditFacts
  <2>3. Len(Done(j)) = j.batch - 1 /\ Done(j) = j.sealed
    BY <1>8 DEF Ready, Done
  <2>4. /\ k.kind = j.kind /\ k.active = None /\ k.retryAction = None
        /\ (k.sealed = j.sealed => Done(k) = Done(j) /\ Base(k))
    BY <1>8, <2>2 DEF Kept, Done, Base
  <2>5. CASE k.status = "batch_sealed" /\ k.sealed = Seal(j).sealed /\ ~k.exhausted
    <3>1. Sound(k, "batch_sealed", g)
      BY <1>8, <2>2, <2>3, <2>4, <2>5, SealSound
    <3> QED
      BY <2>2, <2>5, <3>1
  <2>6. CASE /\ k.status = "decision_required" /\ k.sealed = j.sealed /\ k.exhausted
             /\ j.rewrites >= MAX_AUTOMATIC_REWRITES
    <3>1. \A b \in Actions : ~Facing(k, "decision_required", b)
      BY <2>4, LeadsFacts DEF Facing, RetryStates, WaitStates, CONTROLLER_STOP_STATES
    <3>2. k.rewrites = MAX_AUTOMATIC_REWRITES
      BY <1>0, <2>2, <2>6 DEF Base, MAX_AUTOMATIC_REWRITES
    <3>3. Sound(k, "decision_required", g)
      BY <2>2, <2>3, <2>4, <2>6, <3>1, <3>2 DEF Sound, Base, Completed, RetryStates, WaitStates
    <3> QED
      BY <2>2, <2>6, <3>3
  <2>7. CASE /\ k.status \in {"rewrite_required", "awaiting_revision_scribe"}
             /\ k.sealed = j.sealed /\ ~k.exhausted
             /\ j.rewrites < MAX_AUTOMATIC_REWRITES
    <3>1. \A b \in {"rewrite_batch", "revision_support_scribe"} : Ready(k, b, g)
      BY <1>8, <2>2, <2>3, <2>4, <2>7 DEF Ready
    <3>2. \A b \in Actions : k.status \in Leads(b) => Ready(k, b, g)
      BY <2>7, <3>1, LeadsFacts
    <3>3. k.status \notin RetryStates \cup TERMINAL_STATES \cup {"batch_sealed", "decision_required"}
      BY <2>7 DEF RetryStates, WaitStates, TERMINAL_STATES, Completed
    <3>4. Sound(k, k.status, g)
      BY <2>2, <2>4, <2>7, <3>2, <3>3, NextSound
    <3> QED
      BY <2>2, <2>7, <3>4
  <2>8. CASE k.status = "blocked" /\ k.sealed = j.sealed /\ ~k.exhausted
    <3>1. Sound(k, "blocked", g)
      BY <2>2, <2>3, <2>4, <2>8, BlockedSound
    <3> QED
      BY <2>2, <2>8, <3>1
  <2> QED
    BY <2>2, <2>5, <2>6, <2>7, <2>8
<1>9. CASE a \in {"revision_support_scribe", "revision_support_verifier"}
  <2>1. PICK s \in {"awaiting_revision_verifier", "rewrite_required"} : k = [j EXCEPT !.status = s]
    BY <1>9 DEF SuccessfulTransition
  <2>2. s \in Statuses
    BY <2>1, NamedStatuses
  <2>3. k \in Job /\ Kept(j, k) /\ Same(j, k) /\ k.status = s
    BY <1>1, <2>1, <2>2
  <2>4. /\ j.kind # "narrative_audit" /\ Len(Done(j)) = j.batch - 1
        /\ j.rewrites < MAX_AUTOMATIC_REWRITES
    BY <1>9 DEF Ready
  <2>5. \A b \in {"revision_support_verifier", "rewrite_batch"} : Ready(k, b, g)
    BY <2>3, <2>4, SameBase DEF Ready, Kept
  <2>6. \A b \in Actions : k.status \in Leads(b) => Ready(k, b, g)
    BY <2>1, <2>3, <2>5, LeadsFacts
  <2> QED
    BY <1>2, <2>1, <2>3, <2>6
<1>10. CASE a = "rewrite_batch"
  <2>1. PICK n \in Nat : n = j.rewrites + 1
    BY <1>0
  <2>2. k = [j EXCEPT !.rewrites = n, !.status = "deterministic_reaudit"]
    BY <1>10, <2>1 DEF SuccessfulTransition, AfterRewrite
  <2>3. "deterministic_reaudit" \in Statuses
    BY NamedStatuses
  <2>4. [j EXCEPT !.rewrites = n, !.status = "deterministic_reaudit"] \in Job
    BY <2>3, Zenon DEF Job
  <2>5. /\ k \in Job /\ Kept(j, k) /\ k.status = "deterministic_reaudit" /\ k.rewrites = n
        /\ k.batch = j.batch /\ k.sealed = j.sealed /\ k.audited = j.audited
        /\ k.exhausted = j.exhausted
    BY <2>2, <2>4 DEF Job, Kept
  <2>6. /\ j.kind # "narrative_audit" /\ Len(Done(j)) = j.batch - 1
        /\ j.rewrites < MAX_AUTOMATIC_REWRITES
    BY <1>10 DEF Ready
  <2>7. n <= MAX_AUTOMATIC_REWRITES
    BY <1>0, <2>1, <2>6 DEF MAX_AUTOMATIC_REWRITES
  <2>8. /\ Base(k) /\ Done(k) = Done(j) /\ k.active = None /\ k.retryAction = None
        /\ k.kind = j.kind
    BY <2>5, <2>7 DEF Base, Done, Kept
  <2>9. Ready(k, "deterministic_reaudit", g)
    BY <2>5, <2>6, <2>8 DEF Ready
  <2>10. \A b \in Actions : k.status \in Leads(b) => Ready(k, b, g)
    BY <2>5, <2>9, LeadsFacts
  <2>11. k.status \notin RetryStates \cup TERMINAL_STATES \cup {"batch_sealed", "decision_required"}
    BY <2>5 DEF RetryStates, WaitStates, TERMINAL_STATES, Completed
  <2>12. Sound(k, k.status, g)
    BY <2>5, <2>8, <2>10, <2>11, NextSound
  <2> QED
    BY <2>5, <2>12
<1>11. CASE a = "deterministic_reaudit"
  <2>1. k = [j EXCEPT !.reaudit = TRUE, !.status = "awaiting_heavy_audit"]
    BY <1>11 DEF SuccessfulTransition
  <2>2. "awaiting_heavy_audit" \in Statuses
    BY NamedStatuses
  <2>3. [j EXCEPT !.reaudit = TRUE, !.status = "awaiting_heavy_audit"] \in Job
    BY <2>2, Zenon DEF Job
  <2>4. /\ k \in Job /\ Kept(j, k) /\ k.status = "awaiting_heavy_audit" /\ k.reaudit = TRUE
        /\ k.batch = j.batch /\ k.sealed = j.sealed /\ k.audited = j.audited
        /\ k.exhausted = j.exhausted /\ k.rewrites = j.rewrites
    BY <2>1, <2>3 DEF Job, Kept
  <2>5. j.kind # "narrative_audit" /\ Len(Done(j)) = j.batch - 1
    BY <1>11 DEF Ready
  <2>6. /\ Base(k) /\ Done(k) = Done(j) /\ k.active = None /\ k.retryAction = None
        /\ k.kind = j.kind
    BY <2>4 DEF Base, Done, Kept
  <2>7. Checked(g) /\ "deterministic_reaudit" \in g
    BY <1>11 DEF FreshOn, Checked
  <2>8. Ready(k, "heavy_audit", g)
    BY <2>4, <2>5, <2>6, <2>7 DEF Ready
  <2>9. \A b \in Actions : k.status \in Leads(b) => Ready(k, b, g)
    BY <2>4, <2>8, LeadsFacts
  <2>10. k.status \notin RetryStates \cup TERMINAL_STATES \cup {"batch_sealed", "decision_required"}
    BY <2>4 DEF RetryStates, WaitStates, TERMINAL_STATES, Completed
  <2>11. Sound(k, k.status, g)
    BY <2>4, <2>6, <2>9, <2>10, NextSound
  <2> QED
    BY <2>4, <2>11
<1>12. CASE a = "final_acceptance"
  <2>1. k = [j EXCEPT !.status = "completed"]
    BY <1>12 DEF SuccessfulTransition
  <2>2. "completed" \in Statuses /\ "completed" \in Completed
    BY NamedStatuses DEF Completed
  <2>3. k \in Job /\ Kept(j, k) /\ Same(j, k) /\ k.status = "completed"
    BY <1>1, <2>1, <2>2
  <2>4. Len(Done(j)) = j.batch /\ IsLast(j.batch)
    BY <1>12 DEF Ready
  <2>5. /\ Base(k) /\ Done(k) = Done(j) /\ k.batch = j.batch /\ ~k.exhausted
        /\ k.active = None /\ k.retryAction = None
    BY <2>3, SameBase DEF Kept
  <2>6. \A b \in Actions : ~Facing(k, "completed", b)
    BY <2>2, <2>5, LeadsFacts DEF Facing, RetryStates, WaitStates, TERMINAL_STATES
  <2>7. Sound(k, "completed", g)
    BY <2>4, <2>5, <2>6 DEF Sound, Base, RetryStates, WaitStates
  <2> QED
    BY <2>3, <2>7
<1> QED
  BY <1>3, <1>4, <1>5, <1>6, <1>7, <1>8, <1>9, <1>10, <1>11, <1>12 DEF Actions

----------------------------------------------------------------------------
(* What a receipt makes of a sound job. *)

\* Which successes end the job or seal a batch.
LEMMA SuccessEnds ==
  ASSUME NEW j \in Job, NEW a \in Actions, NEW r \in Results,
         NEW k, k = SuccessfulTransition(j, a, r)
  PROVE  /\ k.status \in TERMINAL_STATES => a \in {"heavy_audit", "final_acceptance"}
         /\ k.sealed # j.sealed =>
              a = "continuity_checkpoint" \/ (a = "heavy_audit" /\ j.kind # "narrative_audit")
<1>1. CASE a \in {"preflight", "deterministic_reaudit", "rewrite_batch"}
  <2>1. k.sealed = j.sealed
        /\ k.status \in {"queued", "deterministic_reaudit", "awaiting_heavy_audit"}
    BY <1>1 DEF SuccessfulTransition, AfterRewrite, Job
  <2> QED
    BY <2>1 DEF TERMINAL_STATES, Completed
<1>2. CASE a \in {"generate_batch", "deterministic_check", "revision_support_scribe",
                  "revision_support_verifier"}
  <2>1. PICK s \in {"deterministic_check", "awaiting_continuity_checkpoint",
                    "awaiting_heavy_audit", "awaiting_revision_verifier", "rewrite_required"} :
          k = [j EXCEPT !.status = s]
    BY <1>2 DEF SuccessfulTransition
  <2>2. s \in Statuses
    BY <2>1, NamedStatuses
  <2>3. k.sealed = j.sealed /\ k.status = s
    BY <2>1, <2>2, StatusOnly DEF Same
  <2> QED
    BY <2>1, <2>3 DEF TERMINAL_STATES, Completed
<1>3. CASE a = "continuity_checkpoint"
  <2>1. k.status = "batch_sealed"
    BY <1>3, SealFacts DEF SuccessfulTransition
  <2>2. k.status \notin TERMINAL_STATES
    BY <2>1 DEF TERMINAL_STATES, Completed
  <2> QED
    BY <1>3, <2>2
<1>4. CASE a = "heavy_audit"
  <2>1. CASE j.kind = "narrative_audit"
    BY <1>4, <2>1, AuditOnlyFacts DEF SuccessfulTransition
  <2> QED
    BY <1>4, <2>1
<1>5. CASE a = "final_acceptance"
  <2>1. k.sealed = j.sealed
    BY <1>5 DEF SuccessfulTransition, Job
  <2> QED
    BY <1>5, <2>1
<1> QED
  BY <1>1, <1>2, <1>3, <1>4, <1>5 DEF Actions

\* A job that failed in an action it was ready for.
LEMMA FailureSound ==
  ASSUME NEW j \in Job, Base(j), ~j.exhausted, NEW a \in Actions, NEW f, Ready(j, a, f),
         NEW k \in Job, Same(j, k), k.kind = j.kind, k.active = None, k.retryAction = a,
         NEW s \in RetryStates
  PROVE  Sound(k, s, f)
<1>1. /\ Base(k) /\ Done(k) = Done(j) /\ ~k.exhausted /\ a # None
      /\ k.batch = j.batch /\ k.rewrites = j.rewrites /\ k.reaudit = j.reaudit
  BY SameBase, NoneAssumption
<1>2. Ready(k, a, f)
  BY <1>1 DEF Ready
<1>3. \A b \in Actions : Facing(k, s, b) => b = a
  BY LeadsFacts DEF Facing
<1>4. s \notin Completed \cup {"batch_sealed", "decision_required"}
  BY DEF RetryStates, WaitStates, Completed
<1> QED
  BY <1>1, <1>2, <1>3, <1>4 DEF Sound, Base

Failed(j, k, rt, a, s) == k = [j EXCEPT !.retries = rt, !.retryAction = a, !.status = s]

\* A failure keeps everything but the status and the action to retry.
LEMMA FailureFacts ==
  ASSUME NEW j \in Job, NEW a \in Actions, NEW s \in Statuses, NEW rt \in [Actions -> Nat],
         NEW k, Failed(j, k, rt, a, s)
  PROVE  /\ k \in Job /\ Same(j, k) /\ k.status = s /\ k.retryAction = a
         /\ k.kind = j.kind /\ k.active = j.active /\ k.sequence = j.sequence
         /\ k.processed = j.processed
         /\ k.pauseRequested = j.pauseRequested /\ k.pausedFrom = j.pausedFrom
<1>1. [j EXCEPT !.retries = rt, !.retryAction = a, !.status = s] \in Job
  BY Zenon DEF Job
<1>2. /\ Same(j, k) /\ k.status = s /\ k.retryAction = a
      /\ k.kind = j.kind /\ k.active = j.active /\ k.sequence = j.sequence
      /\ k.processed = j.processed
      /\ k.pauseRequested = j.pauseRequested /\ k.pausedFrom = j.pausedFrom
  BY DEF Job, Same, Failed
<1> QED
  BY <1>1, <1>2 DEF Failed

\* What a counted failure leaves.
LEMMA CountFailureFacts ==
  ASSUME NEW j \in Job, NEW a \in Actions, NEW w \in RetryStates,
         NEW k, k = CountFailure(j, a, w)
  PROVE  /\ k \in Job /\ Same(j, k) /\ k.status \in RetryStates /\ k.retryAction = a
         /\ k.kind = j.kind /\ k.active = j.active /\ k.sequence = j.sequence
         /\ k.processed = j.processed
         /\ k.pauseRequested = j.pauseRequested /\ k.pausedFrom = j.pausedFrom
<1>1. j.retries \in [Actions -> Nat]
  BY DEF Job
<1>2. PICK rt : rt = [j.retries EXCEPT ![a] = @ + 1]
  OBVIOUS
<1>3. rt \in [Actions -> Nat]
  BY <1>1, <1>2
<1>4. PICK s \in RetryStates : s = IF j.retries[a] + 1 > MaxRetries[j.kind] THEN "blocked" ELSE w
  BY DEF RetryStates
<1>5. Failed(j, k, rt, a, s)
  <2>1. PICK n : n = j.retries[a] + 1
    OBVIOUS
  <2>2. rt = [j.retries EXCEPT ![a] = n]
    BY <1>2, <2>1
  <2>3. k = [j EXCEPT !.retries[a] = n, !.retryAction = a, !.status = s]
    BY <1>4, <2>1 DEF CountFailure
  <2> QED
    BY <2>2, <2>3 DEF Failed
<1>6. s \in Statuses
  BY <1>4, NamedStatuses DEF RetryStates, WaitStates
<1> QED
  BY <1>3, <1>4, <1>5, <1>6, FailureFacts

\* History after result r of action a, on text with the successes f.
FreshFrom(a, r, f) == IF r.outcome = "success" THEN FreshOn(a, f) ELSE f

\* What a result makes of a job that was ready for its action.
LEMMA OutcomeSound ==
  ASSUME NEW j \in Job, Base(j), j.active = None, ~j.exhausted,
         NEW a \in Actions, NEW r \in Results, NEW f, Ready(j, a, f),
         NEW k, k = AfterOutcome(j, a, r)
  PROVE  /\ k \in Job /\ k.kind = j.kind /\ k.active = None /\ k.sequence = j.sequence
         /\ k.processed = j.processed
         /\ k.pauseRequested = j.pauseRequested /\ k.pausedFrom = j.pausedFrom
         /\ k.status # "paused" /\ Sound(k, k.status, FreshFrom(a, r, f))
         /\ k.retryAction = IF r.outcome = "success" THEN None ELSE a
         /\ r.outcome = "success" /\ k.status \in TERMINAL_STATES =>
              a \in {"heavy_audit", "final_acceptance"}
         /\ k.sealed # j.sealed =>
              /\ r.outcome = "success"
              /\ a = "continuity_checkpoint" \/ (a = "heavy_audit" /\ j.kind # "narrative_audit")
<1>0. j.retries \in [Actions -> Nat] /\ r.outcome \in Outcomes
  BY DEF Job, Results
<1>1. CASE r.outcome = "success"
  <2>1. PICK rt : rt = [j.retries EXCEPT ![a] = 0]
    OBVIOUS
  <2>2. rt \in [Actions -> Nat]
    BY <1>0, <2>1
  <2>3. PICK i : i = [j EXCEPT !.retries = rt, !.retryAction = None]
    OBVIOUS
  <2>4. k = SuccessfulTransition(i, a, r)
    <3>1. k = SuccessfulTransition([j EXCEPT !.retries[a] = 0, !.retryAction = None], a, r)
      BY <1>1 DEF AfterOutcome
    <3>2. [j EXCEPT !.retries[a] = 0, !.retryAction = None]
            = [j EXCEPT !.retries = rt, !.retryAction = None]
      BY <2>1
    <3> QED
      BY <2>3, <3>1, <3>2
  <2>5. i \in Job
    <3>1. [j EXCEPT !.retries = rt, !.retryAction = None] \in Job
      BY <2>2, ZenonT(40) DEF Job
    <3> QED
      BY <2>3, <3>1
  <2>6. /\ Same(j, i) /\ i.kind = j.kind /\ i.active = None /\ i.retryAction = None
        /\ i.sequence = j.sequence /\ i.processed = j.processed
        /\ i.pauseRequested = j.pauseRequested /\ i.pausedFrom = j.pausedFrom
    BY <2>3 DEF Job, Same
  <2>7. /\ Base(i) /\ ~i.exhausted /\ Done(i) = Done(j) /\ i.sealed = j.sealed
        /\ i.batch = j.batch /\ i.rewrites = j.rewrites /\ i.reaudit = j.reaudit
    BY <2>6, SameBase DEF Same
  <2>8. Ready(i, a, f)
    BY <2>6, <2>7 DEF Ready
  <2>9. /\ k \in Job /\ Kept(i, k) /\ k.status # "paused"
        /\ Sound(k, k.status, FreshOn(a, f))
    BY <2>4, <2>5, <2>6, <2>7, <2>8, SuccessSound
  <2>10. /\ k.status \in TERMINAL_STATES => a \in {"heavy_audit", "final_acceptance"}
         /\ k.sealed # i.sealed =>
              a = "continuity_checkpoint" \/ (a = "heavy_audit" /\ i.kind # "narrative_audit")
    BY <2>4, <2>5, SuccessEnds
  <2>11. FreshFrom(a, r, f) = FreshOn(a, f)
    BY <1>1 DEF FreshFrom
  <2> QED
    BY <1>1, <2>6, <2>7, <2>9, <2>10, <2>11 DEF Kept
<1>2. CASE r.outcome # "success"
  <2>1. /\ k \in Job /\ Same(j, k) /\ k.status \in RetryStates /\ k.retryAction = a
        /\ k.kind = j.kind /\ k.active = j.active /\ k.sequence = j.sequence
        /\ k.processed = j.processed
        /\ k.pauseRequested = j.pauseRequested /\ k.pausedFrom = j.pausedFrom
    <3>1. CASE r.outcome = "capacity_wait"
      <4>1. "capacity_wait" \in Statuses /\ "capacity_wait" \in RetryStates
        BY NamedStatuses DEF RetryStates, WaitStates
      <4>2. k = [j EXCEPT !.status = "capacity_wait", !.retryAction = a]
        BY <3>1 DEF AfterOutcome
      <4>3. [j EXCEPT !.status = "capacity_wait", !.retryAction = a] \in Job
        BY <4>1, Zenon DEF Job
      <4>4. /\ Same(j, k) /\ k.status = "capacity_wait" /\ k.retryAction = a
            /\ k.kind = j.kind /\ k.active = j.active /\ k.sequence = j.sequence
            /\ k.processed = j.processed
            /\ k.pauseRequested = j.pauseRequested /\ k.pausedFrom = j.pausedFrom
        BY <4>2 DEF Job, Same
      <4> QED
        BY <4>1, <4>2, <4>3, <4>4
    <3>2. CASE r.outcome = "retry_wait"
      <4>1. k = CountFailure(j, a, "retry_wait") /\ "retry_wait" \in RetryStates
        BY <3>2 DEF AfterOutcome, RetryStates, WaitStates
      <4> QED
        BY <4>1, CountFailureFacts
    <3>3. CASE r.outcome = "failed"
      <4>1. /\ k = CountFailure(j, a, "failed_recoverable")
            /\ "failed_recoverable" \in RetryStates
        BY <3>3 DEF AfterOutcome, RetryStates, WaitStates
      <4> QED
        BY <4>1, CountFailureFacts
    <3> QED
      BY <1>0, <1>2, <3>1, <3>2, <3>3 DEF Outcomes
  <2>2. Sound(k, k.status, f)
    BY <2>1, FailureSound
  <2>3. FreshFrom(a, r, f) = f /\ k.sealed = j.sealed /\ k.status # "paused"
    BY <1>2, <2>1 DEF FreshFrom, Same, RetryStates, WaitStates
  <2> QED
    BY <1>2, <2>1, <2>2, <2>3
<1> QED
  BY <1>1, <1>2

Alike(j, k) ==
  /\ Same(j, k) /\ k.kind = j.kind /\ k.retryAction = j.retryAction
  /\ k.active = None <=> j.active = None
  /\ j.active # None => k.active.action = j.active.action

\* Where a job stands is not what the soundness of its batch depends on.
LEMMA SoundAlike ==
  ASSUME NEW j, NEW k, Alike(j, k), NEW f
  PROVE  /\ \A s : Sound(j, s, f) => Sound(k, s, f)
         /\ \A a : Ready(j, a, f) => Ready(k, a, f)
<1>1. Done(k) = Done(j)
  BY DEF Alike, Same, Done
<1>2. \A a : Ready(j, a, f) <=> Ready(k, a, f)
  BY <1>1 DEF Alike, Same, Ready
<1>3. \A a, s : Facing(j, s, a) <=> Facing(k, s, a)
  BY DEF Alike, Facing
<1>4. ASSUME NEW s, Sound(j, s, f) PROVE Sound(k, s, f)
  <2>1. \A a \in Actions : Facing(k, s, a) => Ready(k, a, f)
    BY <1>2, <1>3, <1>4 DEF Sound
  <2> QED
    BY <1>1, <1>4, <2>1 DEF Sound, Alike, Same
<1> QED
  BY <1>2, <1>4

\* A job with an active attempt is ready for its action.
LEMMA ActiveFacts ==
  ASSUME NEW j \in Job, NEW f, JobOk(j, f), j.active # None
  PROVE  /\ j.active \in Attempt /\ j.active.action \in Actions /\ j.active.id \in Nat
         /\ Base(j) /\ ~j.exhausted /\ Ready(j, j.active.action, f)
         /\ Standing(j) = ACTION_RUNNING_STATE[j.active.action]
         /\ j.pauseRequested => j.pausedFrom = ACTION_RUNNING_STATE[j.active.action]
<1>1. j.active \in Attempt
  BY DEF Job
<1>2. j.active.action \in Actions /\ j.active.id \in Nat
  BY <1>1 DEF Attempt
<1>3. Standing(j) = ACTION_RUNNING_STATE[j.active.action] /\ Base(j)
  BY DEF JobOk, Sound, Base
<1>4. ~j.exhausted
  <2>1. Standing(j) # "decision_required"
    BY <1>2, <1>3, RunningStates DEF CONTROLLER_STOP_STATES
  <2> QED
    BY <2>1 DEF JobOk, Sound
<1>5. Ready(j, j.active.action, f)
  BY <1>2 DEF JobOk, Sound, Facing
<1>6. j.pauseRequested => j.pausedFrom = ACTION_RUNNING_STATE[j.active.action]
  BY <1>3 DEF JobOk, PauseOk, Standing
<1> QED
  BY <1>1, <1>2, <1>3, <1>4, <1>5, <1>6

\* A pause that takes hold, or was overtaken.
LEMMA HoldSound ==
  ASSUME NEW j \in Job, NEW f, Sound(j, j.status, f), j.active = None, j.status # "paused",
         j.pauseRequested <=> j.pausedFrom # None,
         j.pauseRequested /\ j.status \in TERMINAL_STATES =>
           IF j.retryAction # None THEN j.pausedFrom = ACTION_RUNNING_STATE[j.retryAction]
           ELSE j.pausedFrom \in {"heavy_auditing", "final_acceptance"},
         NEW k, k = HoldIfPaused(j)
  PROVE  /\ k \in Job /\ JobOk(k, f) /\ Alike(j, k)
         /\ k.sequence = j.sequence /\ k.processed = j.processed
<1>1. CASE j.pauseRequested /\ j.status \notin TERMINAL_STATES
  <2>1. PICK s : s = j.status
    OBVIOUS
  <2>2. s \in Statuses \ (TERMINAL_STATES \cup {"paused"})
    BY <1>1, <2>1 DEF Job
  <2>3. k = [j EXCEPT !.pausedFrom = s, !.status = "paused"]
    BY <1>1, <2>1 DEF HoldIfPaused
  <2>4. "paused" \in Statuses
    BY NamedStatuses
  <2>5. [j EXCEPT !.pausedFrom = s, !.status = "paused"] \in Job
    BY <2>2, <2>4, Zenon DEF Job
  <2>6. /\ Alike(j, k) /\ k.status = "paused" /\ k.pausedFrom = s
        /\ k.pauseRequested = j.pauseRequested
        /\ k.sequence = j.sequence /\ k.processed = j.processed
    BY <2>3 DEF Job, Same, Alike
  <2>7. Standing(k) = s /\ s # None
    BY <2>2, <2>6, NoneAssumption DEF Standing
  <2>8. Sound(k, s, f)
    BY <2>1, <2>6, SoundAlike
  <2>9. PauseOk(k)
    BY <1>1, <2>6, <2>7 DEF PauseOk
  <2> QED
    BY <2>3, <2>5, <2>6, <2>7, <2>8, <2>9 DEF JobOk
<1>2. CASE ~(j.pauseRequested /\ j.status \notin TERMINAL_STATES)
  <2>1. k = j
    BY <1>2 DEF HoldIfPaused
  <2>2. PauseOk(j) /\ Standing(j) = j.status
    BY <1>2 DEF PauseOk, Standing
  <2> QED
    BY <2>1, <2>2 DEF JobOk, Alike, Same
<1> QED
  BY <1>1, <1>2

\* What consume_process_receipt makes of a sound job.
LEMMA AppliedSound ==
  ASSUME NEW j \in Job, NEW f, JobOk(j, f), j.active # None, NEW r \in Results,
         NEW k, k = Applied(j, r)
  PROVE  /\ k \in Job /\ JobOk(k, FreshFrom(j.active.action, r, f))
         /\ k.kind = j.kind /\ k.active = None /\ k.sequence = j.sequence
         /\ k.processed = j.processed \cup {j.active.id}
         /\ k.sealed # j.sealed =>
              /\ r.outcome = "success" /\ j.kind # "narrative_audit"
              /\ j.active.action \in {"continuity_checkpoint", "heavy_audit"}
              /\ Ready(j, j.active.action, f)
<1>1. /\ j.active \in Attempt /\ j.active.action \in Actions /\ j.active.id \in Nat
      /\ Base(j) /\ ~j.exhausted /\ Ready(j, j.active.action, f)
      /\ j.pauseRequested => j.pausedFrom = ACTION_RUNNING_STATE[j.active.action]
  BY ActiveFacts
<1>2. PICK a \in Actions : a = j.active.action
  BY <1>1
<1>3. PICK d : d = j.processed \cup {j.active.id}
  OBVIOUS
<1>4. d \in SUBSET Nat
  <2>1. j.processed \in SUBSET Nat
    BY DEF Job
  <2> QED
    BY <1>1, <1>3, <2>1
<1>5. PICK i : i = [j EXCEPT !.active = None, !.processed = d]
  OBVIOUS
<1>6. i \in Job
  <2>1. [j EXCEPT !.active = None, !.processed = d] \in Job
    BY <1>4, Zenon DEF Job
  <2> QED
    BY <1>5, <2>1
<1>7. /\ Same(j, i) /\ i.kind = j.kind /\ i.active = None /\ i.sequence = j.sequence
      /\ i.processed = d /\ i.pauseRequested = j.pauseRequested /\ i.pausedFrom = j.pausedFrom
  BY <1>5 DEF Job, Same
<1>8. /\ Base(i) /\ ~i.exhausted /\ Done(i) = Done(j) /\ i.sealed = j.sealed
      /\ i.batch = j.batch /\ i.rewrites = j.rewrites /\ i.reaudit = j.reaudit
  BY <1>1, <1>7, SameBase DEF Same
<1>9. Ready(i, a, f)
  BY <1>1, <1>2, <1>7, <1>8 DEF Ready
<1>10. PICK o : o = AfterOutcome(i, a, r)
  OBVIOUS
<1>11. k = HoldIfPaused(o)
  BY <1>2, <1>3, <1>5, <1>10 DEF Applied
<1>12. /\ o \in Job /\ o.kind = i.kind /\ o.active = None /\ o.sequence = i.sequence
       /\ o.processed = i.processed
       /\ o.pauseRequested = i.pauseRequested /\ o.pausedFrom = i.pausedFrom
       /\ o.status # "paused" /\ Sound(o, o.status, FreshFrom(a, r, f))
       /\ o.retryAction = IF r.outcome = "success" THEN None ELSE a
       /\ r.outcome = "success" /\ o.status \in TERMINAL_STATES =>
            a \in {"heavy_audit", "final_acceptance"}
       /\ o.sealed # i.sealed =>
            /\ r.outcome = "success"
            /\ a = "continuity_checkpoint" \/ (a = "heavy_audit" /\ i.kind # "narrative_audit")
  BY <1>6, <1>7, <1>8, <1>9, <1>10, OutcomeSound
<1>13. o.pauseRequested <=> o.pausedFrom # None
  BY <1>7, <1>12 DEF JobOk, PauseOk
<1>14. ASSUME o.pauseRequested, o.status \in TERMINAL_STATES
       PROVE  IF o.retryAction # None THEN o.pausedFrom = ACTION_RUNNING_STATE[o.retryAction]
              ELSE o.pausedFrom \in {"heavy_auditing", "final_acceptance"}
  <2>1. o.pausedFrom = ACTION_RUNNING_STATE[a]
    BY <1>1, <1>2, <1>7, <1>12, <1>14
  <2>2. CASE r.outcome = "success"
    <3>1. a \in {"heavy_audit", "final_acceptance"} /\ o.retryAction = None
      BY <1>12, <1>14, <2>2
    <3>2. ACTION_RUNNING_STATE[a] \in {"heavy_auditing", "final_acceptance"}
      BY <3>1, RunningStates
    <3> QED
      BY <2>1, <3>1, <3>2
  <2>3. CASE r.outcome # "success"
    BY <1>12, <2>1, <2>3, NoneAssumption
  <2> QED
    BY <2>2, <2>3
<1>15. /\ k \in Job /\ JobOk(k, FreshFrom(a, r, f)) /\ Alike(o, k)
       /\ k.sequence = o.sequence /\ k.processed = o.processed
  BY <1>11, <1>12, <1>13, <1>14, HoldSound
<1>16. k.kind = j.kind /\ k.active = None /\ k.sealed = o.sealed
  BY <1>7, <1>12, <1>15 DEF Alike, Same
<1>17. a = "continuity_checkpoint" => j.kind # "narrative_audit"
  BY <1>1, <1>2 DEF Ready
<1> QED
  BY <1>1, <1>2, <1>3, <1>7, <1>8, <1>12, <1>15, <1>16, <1>17

----------------------------------------------------------------------------
(* Scheduling. *)

\* A wait that is over.
LEMMA WokenSound ==
  ASSUME NEW j \in Job, NEW f, Sound(j, j.status, f), j.active = None, NEW k, k = Woken(j)
  PROVE  /\ k \in Job /\ Sound(k, k.status, f) /\ Kept(j, k) /\ k.sealed = j.sealed
         /\ k.status \in {j.status, "failed_recoverable"}
<1>1. CASE j.status \in WaitStates /\ due
  <2>1. k = [j EXCEPT !.status = "failed_recoverable"]
    BY <1>1 DEF Woken
  <2>2. k \in Job /\ Kept(j, k) /\ Same(j, k) /\ k.status = "failed_recoverable"
    BY <2>1, StatusOnly, NamedStatuses
  <2>3. Alike(j, k)
    BY <2>2 DEF Alike, Kept
  <2>4. Sound(k, j.status, f)
    BY <2>3, SoundAlike
  <2>5. j.status \in RetryStates \ {"blocked"}
    BY <1>1 DEF RetryStates, WaitStates
  <2>6. k.active = None /\ k.retryAction # None
    BY <2>2, <2>4, <2>5 DEF Sound, Kept
  <2>7. \A a \in Actions : Facing(k, "failed_recoverable", a) => Ready(k, a, f)
    <3>1. \A a \in Actions : Facing(k, "failed_recoverable", a) => Facing(k, j.status, a)
      BY <2>5, <2>6, LeadsFacts DEF Facing, RetryStates
    <3> QED
      BY <2>4, <3>1 DEF Sound
  <2>8. Base(k) /\ ~k.exhausted
    BY <1>1, <2>4 DEF Sound, Base, WaitStates
  <2>9. "failed_recoverable" \in RetryStates
    BY DEF RetryStates
  <2>10. Sound(k, "failed_recoverable", f)
    BY <2>6, <2>7, <2>8, <2>9 DEF Sound, Base, Completed
  <2> QED
    BY <2>2, <2>10 DEF Same
<1>2. CASE ~(j.status \in WaitStates /\ due)
  BY <1>2 DEF Woken, Kept
<1> QED
  BY <1>1, <1>2

Begins(j, k, n) ==
  k = [j EXCEPT !.batch = n, !.rewrites = 0, !.exhausted = FALSE,
                !.reaudit = FALSE, !.status = "queued"]

\* The next batch, or the final acceptance.
LEMMA AdvancedSound ==
  ASSUME NEW j \in Job, NEW f, Sound(j, j.status, f), j.active = None, NEW k, k = Advanced(j)
  PROVE  /\ k \in Job /\ Sound(k, k.status, f) /\ Kept(j, k) /\ k.sealed = j.sealed
<1>0. j.batch \in Nat /\ j.rewrites \in Nat /\ 0 \in Nat
  BY DEF Job
<1>1. CASE j.status # "batch_sealed"
  BY <1>1 DEF Advanced, Kept
<1>2. ASSUME j.status = "batch_sealed"
      PROVE  /\ j.retryAction = None /\ Base(j) /\ ~j.exhausted
             /\ j.kind # "narrative_audit" /\ Len(j.sealed) = j.batch
  <2>1. Base(j) /\ ~j.exhausted /\ j.kind # "narrative_audit" /\ Len(j.sealed) = j.batch
    BY <1>2 DEF Sound, Base
  <2>2. j.retryAction = None
    <3>1. j.retryAction \in Actions \cup {None}
      BY DEF Job
    <3>2. j.retryAction # None =>
            "batch_sealed" \in RetryStates \cup {ACTION_RUNNING_STATE[j.retryAction]}
      BY <1>2 DEF Sound
    <3> QED
      BY <3>1, <3>2, RunningStates DEF RetryStates, WaitStates
  <2> QED
    BY <2>1, <2>2
<1>3. CASE j.status = "batch_sealed" /\ IsLast(j.batch)
  <2>1. k = [j EXCEPT !.status = "final_acceptance"]
    BY <1>3 DEF Advanced
  <2>2. k \in Job /\ Kept(j, k) /\ Same(j, k) /\ k.status = "final_acceptance"
    BY <2>1, StatusOnly, NamedStatuses
  <2>3. /\ Base(k) /\ Done(k) = Done(j) /\ ~k.exhausted /\ k.batch = j.batch
        /\ k.active = None /\ k.retryAction = None /\ k.kind = j.kind
    BY <1>2, <1>3, <2>2, SameBase DEF Kept
  <2>4. Ready(k, "final_acceptance", f)
    BY <1>2, <1>3, <2>3 DEF Ready, Done
  <2>5. \A b \in Actions : k.status \in Leads(b) => Ready(k, b, f)
    BY <2>2, <2>4, LeadsFacts
  <2>6. k.status \notin RetryStates \cup TERMINAL_STATES \cup {"batch_sealed", "decision_required"}
    BY <2>2 DEF RetryStates, WaitStates, TERMINAL_STATES, Completed
  <2>7. Sound(k, k.status, f)
    BY <2>2, <2>3, <2>5, <2>6, NextSound
  <2> QED
    BY <2>2, <2>7 DEF Same
<1>4. CASE j.status = "batch_sealed" /\ ~IsLast(j.batch)
  <2>1. PICK n \in Nat : n = j.batch + 1
    BY <1>0
  <2>2. Begins(j, k, n)
    BY <1>4, <2>1 DEF Advanced, Begins
  <2>3. "queued" \in Statuses
    BY NamedStatuses
  <2>4. k \in Job
    <3>1. [j EXCEPT !.batch = n, !.rewrites = 0, !.exhausted = FALSE,
                    !.reaudit = FALSE, !.status = "queued"] \in Job
      BY <1>0, <2>3, Zenon DEF Job
    <3> QED
      BY <2>2, <3>1 DEF Begins
  <2>5. /\ Kept(j, k) /\ k.batch = n /\ k.rewrites = 0 /\ ~k.exhausted /\ k.status = "queued"
        /\ k.sealed = j.sealed /\ k.audited = j.audited
    BY <2>2 DEF Job, Kept, Begins
  <2>6. /\ Base(k) /\ Done(k) = Done(j) /\ Done(j) = j.sealed
        /\ k.active = None /\ k.retryAction = None /\ k.kind = j.kind
    BY <1>0, <1>2, <1>4, <2>1, <2>5 DEF Base, Done, Kept, MAX_AUTOMATIC_REWRITES
  <2>7. Len(Done(k)) = k.batch - 1
    BY <1>0, <1>2, <1>4, <2>1, <2>5, <2>6
  <2>8. \A b \in {"preflight", "generate_batch"} : Ready(k, b, f)
    BY <1>2, <1>4, <2>5, <2>6, <2>7 DEF Ready, MAX_AUTOMATIC_REWRITES
  <2>9. \A b \in Actions : k.status \in Leads(b) => Ready(k, b, f)
    BY <2>5, <2>8, LeadsFacts
  <2>10. k.status \notin RetryStates \cup TERMINAL_STATES \cup {"batch_sealed", "decision_required"}
    BY <2>5 DEF RetryStates, WaitStates, TERMINAL_STATES, Completed
  <2>11. Sound(k, k.status, f)
    BY <2>4, <2>5, <2>6, <2>9, <2>10, NextSound
  <2> QED
    BY <2>4, <2>5, <2>11
<1> QED
  BY <1>1, <1>3, <1>4

\* The action that _action_for_state finds is the one the job faces.
LEMMA ActionForFacts ==
  ASSUME NEW j \in Job, NEW a, a = ActionFor(j), a # None
  PROVE  /\ a \in Actions
         /\ \/ j.status = "failed_recoverable" /\ a = j.retryAction
            \/ /\ j.status \in Leads(a)
               /\ j.status \notin RetryStates \cup TERMINAL_STATES
                                    \cup CONTROLLER_STOP_STATES \cup {"batch_sealed"}
<1>1. CASE j.status = "failed_recoverable"
  <2>1. a = j.retryAction /\ j.retryAction \in Actions \cup {None}
    BY <1>1 DEF ActionFor, Job
  <2> QED
    BY <1>1, <2>1
<1>2. CASE j.status = "queued"
  <2>1. a \in {"preflight", "generate_batch"}
    BY <1>2 DEF ActionFor
  <2>2. j.status \in Leads(a) /\ a \in Actions
    BY <1>2, <2>1 DEF Leads, Actions
  <2> QED
    BY <1>2, <2>2
       DEF RetryStates, WaitStates, TERMINAL_STATES, Completed, CONTROLLER_STOP_STATES
<1>3. CASE j.status \in {"deterministic_check", "deterministic_reaudit", "final_acceptance"}
  <2>1. a = j.status /\ a \in Actions
    BY <1>3 DEF ActionFor, Actions
  <2>2. ACTION_RUNNING_STATE[a] = j.status
    BY <1>3, <2>1, RunningStates
  <2>3. j.status \in Leads(a)
    BY <2>2 DEF Leads
  <2> QED
    BY <1>3, <2>1, <2>3
       DEF RetryStates, WaitStates, TERMINAL_STATES, Completed, CONTROLLER_STOP_STATES
<1>4. CASE j.status \in {"awaiting_continuity_checkpoint", "awaiting_heavy_audit",
                         "awaiting_revision_scribe", "awaiting_revision_verifier",
                         "rewrite_required"}
  <2>1. a = CASE j.status = "awaiting_continuity_checkpoint" -> "continuity_checkpoint"
              [] j.status = "awaiting_heavy_audit" -> "heavy_audit"
              [] j.status = "awaiting_revision_scribe" -> "revision_support_scribe"
              [] j.status = "awaiting_revision_verifier" -> "revision_support_verifier"
              [] j.status = "rewrite_required" -> "rewrite_batch"
    BY <1>4 DEF ActionFor
  <2>2. j.status \in Leads(a) /\ a \in Actions
    BY <1>4, <2>1 DEF Leads, Actions
  <2> QED
    BY <1>4, <2>2
       DEF RetryStates, WaitStates, TERMINAL_STATES, Completed, CONTROLLER_STOP_STATES
<1> QED
  BY <1>1, <1>2, <1>3, <1>4 DEF ActionFor

Attempts(j, k, n, t, s) == k = [j EXCEPT !.sequence = n, !.active = t, !.status = s]

\* A job that schedules the action it faces.
LEMMA ScheduledSound ==
  ASSUME NEW j \in Job, NEW f, Sound(j, j.status, f), j.active = None,
         ~j.pauseRequested, j.pausedFrom = None,
         NEW a, a = ActionFor(j), a # None, NEW n \in Nat,
         NEW t \in Attempt, t.action = a,
         NEW s, s = ACTION_RUNNING_STATE[a], NEW k, Attempts(j, k, n, t, s)
  PROVE  /\ k \in Job /\ JobOk(k, f) /\ k.sequence = n /\ k.active = t
         /\ k.kind = j.kind /\ k.processed = j.processed /\ k.sealed = j.sealed
<1>1. /\ a \in Actions
      /\ \/ j.status = "failed_recoverable" /\ a = j.retryAction
         \/ /\ j.status \in Leads(a)
            /\ j.status \notin RetryStates \cup TERMINAL_STATES
                                 \cup CONTROLLER_STOP_STATES \cup {"batch_sealed"}
  BY ActionForFacts
<1>3. /\ s \in Statuses
      /\ s \notin TERMINAL_STATES \cup CONTROLLER_STOP_STATES \cup RetryStates
                    \cup {"queued", "batch_sealed"}
  BY <1>1, RunningStates
<1>4. k \in Job
  <2>1. [j EXCEPT !.sequence = n, !.active = t, !.status = s] \in Job
    BY <1>3, Zenon DEF Job
  <2> QED
    BY <2>1 DEF Attempts
<1>5. /\ Same(j, k) /\ k.kind = j.kind /\ k.sequence = n /\ k.active = t /\ k.status = s
      /\ k.retryAction = j.retryAction /\ k.processed = j.processed
      /\ k.pauseRequested = j.pauseRequested /\ k.pausedFrom = j.pausedFrom
  BY DEF Job, Same, Attempts
<1>6. Ready(j, a, f)
  <2>1. Facing(j, j.status, a)
    BY <1>1 DEF Facing, RetryStates
  <2> QED
    BY <1>1, <2>1 DEF Sound
<1>7. Base(j) /\ ~j.exhausted
  <2>1. j.status # "decision_required"
    BY <1>1 DEF CONTROLLER_STOP_STATES
  <2> QED
    BY <2>1 DEF Sound, Base
<1>8. /\ Base(k) /\ ~k.exhausted /\ Done(k) = Done(j)
      /\ k.batch = j.batch /\ k.rewrites = j.rewrites /\ k.reaudit = j.reaudit
  BY <1>5, <1>7, SameBase
<1>9. Ready(k, a, f)
  BY <1>5, <1>6, <1>8 DEF Ready
<1>10. k.active # None
  BY <1>5, NoneAssumption
<1>11. k.retryAction # None => k.retryAction = a
  <2>1. j.retryAction # None =>
          j.status \in RetryStates \cup {ACTION_RUNNING_STATE[j.retryAction]}
    BY DEF Sound
  <2>2. j.retryAction \in Actions \cup {None}
    BY DEF Job
  <2>3. ASSUME j.retryAction # None, j.status # "failed_recoverable"
        PROVE  j.retryAction = a
    BY <1>1, <2>1, <2>2, <2>3, LeadsFacts
  <2> QED
    BY <1>1, <1>5, <2>3 DEF RetryStates
<1>12. \A b \in Actions : Facing(k, s, b) => b = a
  BY <1>5, <1>10 DEF Facing
<1>13. Sound(k, s, f)
  BY <1>3, <1>5, <1>8, <1>9, <1>10, <1>11, <1>12
     DEF Sound, Base, TERMINAL_STATES, CONTROLLER_STOP_STATES
<1>14. PauseOk(k) /\ Standing(k) = s
  BY <1>3, <1>5 DEF PauseOk, Standing, CONTROLLER_STOP_STATES
<1> QED
  BY <1>4, <1>5, <1>13, <1>14 DEF JobOk, Same

----------------------------------------------------------------------------
(* Commands. *)

Stops(j, k, s, p, from) ==
  k = [j EXCEPT !.status = s, !.pauseRequested = p, !.pausedFrom = from]

PauseSpots == (Statuses \ (TERMINAL_STATES \cup {"paused"})) \cup {None}

\* What pausing and resuming leave alone.
LEMMA StopFacts ==
  ASSUME NEW j \in Job, NEW s \in Statuses, NEW p \in BOOLEAN,
         NEW from \in PauseSpots,
         NEW k, Stops(j, k, s, p, from)
  PROVE  /\ k \in Job /\ Alike(j, k) /\ k.status = s /\ k.pauseRequested = p
         /\ k.pausedFrom = from /\ k.active = j.active
         /\ k.sequence = j.sequence /\ k.processed = j.processed
<1>1. [j EXCEPT !.status = s, !.pauseRequested = p, !.pausedFrom = from] \in Job
  BY Zenon DEF Job, PauseSpots
<1>2. /\ Alike(j, k) /\ k.status = s /\ k.pauseRequested = p
      /\ k.pausedFrom = from /\ k.active = j.active
      /\ k.sequence = j.sequence /\ k.processed = j.processed
  BY DEF Job, Alike, Same, Stops
<1> QED
  BY <1>1, <1>2 DEF Stops

\* A paused job stands where it stood.
LEMMA PauseSound ==
  ASSUME NEW j \in Job, NEW f, JobOk(j, f), j.status \notin TERMINAL_STATES \cup {"paused"},
         NEW k, Stops(j, k, "paused", TRUE, j.status)
  PROVE  /\ k \in Job /\ JobOk(k, f) /\ Alike(j, k) /\ k.active = j.active
         /\ k.sequence = j.sequence /\ k.processed = j.processed
<1>1. /\ j.status \in Statuses \ (TERMINAL_STATES \cup {"paused"}) /\ "paused" \in Statuses
      /\ j.status # None
  BY NamedStatuses, NoneAssumption DEF Job
<1>2. /\ k \in Job /\ Alike(j, k) /\ k.status = "paused" /\ k.pauseRequested = TRUE
      /\ k.pausedFrom = j.status /\ k.active = j.active
      /\ k.sequence = j.sequence /\ k.processed = j.processed
  <2>1. PICK p \in BOOLEAN : p = TRUE
    OBVIOUS
  <2>2. Stops(j, k, "paused", p, j.status) /\ j.status \in PauseSpots
    BY <1>1, <2>1 DEF PauseSpots
  <2>3. /\ k \in Job /\ Alike(j, k) /\ k.status = "paused" /\ k.pauseRequested = p
        /\ k.pausedFrom = j.status /\ k.active = j.active
        /\ k.sequence = j.sequence /\ k.processed = j.processed
    BY <1>1, <2>2, StopFacts
  <2> QED
    BY <2>1, <2>3
<1>3. Standing(k) = j.status /\ Standing(j) = j.status /\ PauseOk(k)
  BY <1>1, <1>2 DEF Standing, PauseOk
<1>4. Sound(k, j.status, f)
  BY <1>2, <1>3, SoundAlike DEF JobOk
<1> QED
  BY <1>2, <1>3, <1>4 DEF JobOk

\* A job that is resumed stands where it was paused, or faces again the
\* action that was running when it was.
LEMMA ResumeSound ==
  ASSUME NEW j \in Job, NEW f, JobOk(j, f), j.status \notin TERMINAL_STATES,
         j.pauseRequested \/ j.status = "paused",
         NEW s, s = IF j.pausedFrom = None THEN "queued" ELSE j.pausedFrom,
         NEW k, Stops(j, k, s, FALSE, None)
  PROVE  /\ k \in Job /\ JobOk(k, f) /\ Alike(j, k) /\ k.active = j.active
         /\ k.sequence = j.sequence /\ k.processed = j.processed
<1>1. j.pauseRequested /\ j.pausedFrom # None /\ s = j.pausedFrom
  BY DEF JobOk, PauseOk
<1>2. s \in Statuses \ (TERMINAL_STATES \cup {"paused"})
  BY <1>1 DEF Job
<1>3. /\ k \in Job /\ Alike(j, k) /\ k.status = s /\ k.pauseRequested = FALSE
      /\ k.pausedFrom = None /\ k.active = j.active
      /\ k.sequence = j.sequence /\ k.processed = j.processed
  <2>1. PICK p \in BOOLEAN : p = FALSE
    OBVIOUS
  <2>2. Stops(j, k, s, p, None) /\ s \in Statuses /\ None \in PauseSpots
    BY <1>2, <2>1 DEF PauseSpots
  <2>3. /\ k \in Job /\ Alike(j, k) /\ k.status = s /\ k.pauseRequested = p
        /\ k.pausedFrom = None /\ k.active = j.active
        /\ k.sequence = j.sequence /\ k.processed = j.processed
    BY <2>2, StopFacts
  <2> QED
    BY <2>1, <2>3
<1>4. Standing(k) = s /\ PauseOk(k)
  BY <1>2, <1>3 DEF Standing, PauseOk
<1>5. CASE j.status = "paused"
  <2>1. Sound(j, s, f)
    BY <1>1, <1>5 DEF JobOk, Standing
  <2>2. Sound(k, s, f)
    BY <1>3, <2>1, SoundAlike
  <2> QED
    BY <1>3, <1>4, <2>2 DEF JobOk
<1>6. CASE j.status # "paused"
  <2>1. j.status = "failed_recoverable" /\ j.active = None
    BY <1>1, <1>6 DEF JobOk, PauseOk
  <2>2. Sound(j, "failed_recoverable", f)
    BY <2>1 DEF JobOk, Standing
  <2>3. j.retryAction # None
    BY <2>1, <2>2 DEF Sound, RetryStates
  <2>4. s = ACTION_RUNNING_STATE[j.retryAction] /\ j.retryAction \in Actions
    BY <1>1, <1>6, <2>3 DEF JobOk, PauseOk, Job
  <2>5. /\ s \notin TERMINAL_STATES \cup CONTROLLER_STOP_STATES \cup RetryStates
                      \cup {"queued", "batch_sealed"}
    BY <2>4, RunningStates
  <2>6. \A a \in Actions : Facing(j, s, a) => Facing(j, "failed_recoverable", a)
    BY <2>1, <2>4, <2>5, LeadsFacts DEF Facing, RetryStates
  <2>7. \A a \in Actions : Facing(j, s, a) => Ready(j, a, f)
    BY <2>2, <2>6 DEF Sound
  <2>8. Base(j) /\ ~j.exhausted
    BY <2>2 DEF Sound, Base
  <2>9. Sound(j, s, f)
    BY <2>1, <2>4, <2>5, <2>7, <2>8
       DEF Sound, Base, TERMINAL_STATES, CONTROLLER_STOP_STATES
  <2>10. Sound(k, s, f)
    BY <1>3, <2>9, SoundAlike
  <2> QED
    BY <1>3, <1>4, <2>10 DEF JobOk
<1> QED
  BY <1>5, <1>6

Retries(j, k, rt) == k = [j EXCEPT !.retries = rt, !.status = "failed_recoverable"]

\* A blocked job that is retried faces the action that failed.
LEMMA RetrySound ==
  ASSUME NEW j \in Job, NEW f, JobOk(j, f), j.status = "blocked", j.active = None,
         j.retryAction # None, NEW rt \in [Actions -> Nat], NEW k, Retries(j, k, rt)
  PROVE  /\ k \in Job /\ JobOk(k, f) /\ Alike(j, k) /\ k.active = None
         /\ k.sequence = j.sequence /\ k.processed = j.processed
         /\ k.status = "failed_recoverable"
<1>1. "failed_recoverable" \in Statuses
  BY NamedStatuses
<1>2. k \in Job
  <2>1. [j EXCEPT !.retries = rt, !.status = "failed_recoverable"] \in Job
    BY <1>1, Zenon DEF Job
  <2> QED
    BY <2>1 DEF Retries
<1>3. /\ Alike(j, k) /\ k.status = "failed_recoverable" /\ k.active = j.active
      /\ k.pauseRequested = j.pauseRequested /\ k.pausedFrom = j.pausedFrom
      /\ k.sequence = j.sequence /\ k.processed = j.processed
  BY DEF Job, Alike, Same, Retries
<1>4. Sound(j, "blocked", f)
  BY DEF JobOk, Standing
<1>5. \A a \in Actions : Facing(j, "failed_recoverable", a) => Facing(j, "blocked", a)
  BY LeadsFacts DEF Facing, RetryStates
<1>6. \A a \in Actions : Facing(j, "failed_recoverable", a) => Ready(j, a, f)
  BY <1>4, <1>5 DEF Sound
<1>7. Base(j) /\ ~j.exhausted
  BY <1>4 DEF Sound, Base
<1>8. Sound(j, "failed_recoverable", f)
  BY <1>6, <1>7 DEF Sound, Base, RetryStates, Completed
<1>9. Sound(k, "failed_recoverable", f)
  BY <1>3, <1>8, SoundAlike
<1>10. PauseOk(k) /\ Standing(k) = "failed_recoverable"
  BY <1>3 DEF JobOk, PauseOk, Standing, Alike
<1> QED
  BY <1>2, <1>3, <1>9, <1>10 DEF JobOk

Marks(j, k, t) == k = [j EXCEPT !.active = t]

\* The pid of the active attempt is recorded.
LEMMA MarkSound ==
  ASSUME NEW j \in Job, NEW f, JobOk(j, f), j.active # None,
         NEW t \in Attempt, t.action = j.active.action, NEW k, Marks(j, k, t)
  PROVE  /\ k \in Job /\ JobOk(k, f) /\ Alike(j, k) /\ k.active = t /\ k.status = j.status
         /\ k.sequence = j.sequence /\ k.processed = j.processed
<1>1. k \in Job
  <2>1. [j EXCEPT !.active = t] \in Job
    BY Zenon DEF Job
  <2> QED
    BY <2>1 DEF Marks
<1>2. t # None
  BY NoneAssumption
<1>3. /\ Same(j, k) /\ k.kind = j.kind /\ k.retryAction = j.retryAction
      /\ k.active = t /\ k.status = j.status
      /\ k.pauseRequested = j.pauseRequested /\ k.pausedFrom = j.pausedFrom
      /\ k.sequence = j.sequence /\ k.processed = j.processed
  BY DEF Job, Same, Marks
<1>4. Alike(j, k)
  BY <1>2, <1>3 DEF Alike
<1>5. Sound(k, Standing(k), f)
  BY <1>3, <1>4, SoundAlike DEF JobOk, Standing
<1>6. PauseOk(k)
  BY <1>3 DEF JobOk, PauseOk
<1> QED
  BY <1>1, <1>3, <1>4, <1>5, <1>6 DEF JobOk

----------------------------------------------------------------------------
(* The invariant holds initially. *)

\* A new job.
LEMMA NewJobSound ==
  ASSUME NEW kind \in JobKinds, NEW j, j = NewJob(kind)
  PROVE  /\ j \in Job /\ JobOk(j, {}) /\ j.active = None /\ j.sequence = 0 /\ j.processed = {}
<1>1. kind \in {"narrative_generation", "narrative_audit"}
  BY JobAssumption
<1>2. PICK s : s = IF kind = "narrative_audit" THEN "awaiting_heavy_audit" ELSE "queued"
  OBVIOUS
<1>3. s \in Statuses
  BY <1>2, NamedStatuses
<1>4. PICK p \in BOOLEAN : p = (kind = "narrative_audit")
  OBVIOUS
<1>5. PICK rt : rt = [a \in Actions |-> 0]
  OBVIOUS
<1>6. rt \in [Actions -> Nat]
  BY <1>5
<1>7. PICK e : e = <<>>
  OBVIOUS
<1>8. e \in Seq(Nat) /\ Len(e) = 0
  BY <1>7, EmptySeq
<1>9. j = [kind |-> kind, status |-> s, preflightPassed |-> p,
           batch |-> 1, sealed |-> e, audited |-> e, hasFindings |-> FALSE,
           active |-> None, sequence |-> 0, processed |-> {},
           retries |-> rt, retryAction |-> None,
           rewrites |-> 0, exhausted |-> FALSE, reaudit |-> FALSE,
           pauseRequested |-> FALSE, pausedFrom |-> None]
  BY <1>2, <1>4, <1>5, <1>7 DEF NewJob
<1>10. j \in Job
  BY <1>1, <1>3, <1>4, <1>6, <1>8, <1>9 DEF Job
<1>11. /\ j.kind = kind /\ j.status = s /\ j.batch = 1 /\ j.sealed = e /\ j.audited = e
       /\ j.active = None /\ j.sequence = 0 /\ j.processed = {} /\ j.retryAction = None
       /\ j.rewrites = 0 /\ ~j.exhausted /\ ~j.pauseRequested /\ j.pausedFrom = None
  BY <1>9
<1>12. Done(j) = e /\ Counts(e)
  BY <1>7, <1>8, <1>11 DEF Done, Counts
<1>13. Base(j)
  BY <1>7, <1>11, <1>12 DEF Base, MAX_AUTOMATIC_REWRITES
<1>14. \A b \in Actions : s \in Leads(b) => Ready(j, b, {})
  <2>1. CASE kind = "narrative_audit"
    <3>1. Ready(j, "heavy_audit", {})
      BY <1>8, <1>11, <1>12, <2>1 DEF Ready
    <3> QED
      BY <1>2, <2>1, <3>1, LeadsFacts
  <2>2. CASE kind # "narrative_audit"
    <3>1. \A b \in {"preflight", "generate_batch"} : Ready(j, b, {})
      BY <1>8, <1>11, <1>12, <2>2 DEF Ready, MAX_AUTOMATIC_REWRITES
    <3> QED
      BY <1>2, <2>2, <3>1, LeadsFacts
  <2> QED
    BY <2>1, <2>2
<1>15. s \notin RetryStates \cup TERMINAL_STATES \cup {"batch_sealed", "decision_required"}
  BY <1>2 DEF RetryStates, WaitStates, TERMINAL_STATES, Completed
<1>16. Sound(j, s, {})
  BY <1>10, <1>11, <1>13, <1>14, <1>15, NextSound
<1>17. Standing(j) = s /\ PauseOk(j)
  BY <1>2, <1>11 DEF Standing, PauseOk
<1> QED
  BY <1>10, <1>11, <1>16, <1>17 DEF JobOk

\* Every initial state satisfies the invariant.
LEMMA InvInit == Init => Inv
<1> SUFFICES ASSUME Init PROVE Inv
  OBVIOUS
<1>1. PICK kind \in JobKinds : job = NewJob(kind)
  BY DEF Init
<1>2. /\ job \in Job /\ JobOk(job, {}) /\ job.active = None
      /\ job.sequence = 0 /\ job.processed = {}
  BY <1>1, NewJobSound
<1>3. /\ receipt = None /\ completion = None
      /\ feedback = "none" /\ loop = "none" /\ told = "no"
      /\ pc = "idle" /\ spawned = None /\ worker = [p \in Pids |-> None]
      /\ parentLives = FALSE /\ expired = FALSE /\ due = FALSE /\ fresh = {} /\ crashes = 0
  BY DEF Init
<1>4. TypeOK
  <2>1. worker \in [Pids -> Worker \cup {None}]
    BY <1>3
  <2> QED
    BY <1>2, <1>3, <2>1 DEF TypeOK
<1>5. AttemptsOk
  BY <1>2 DEF AttemptsOk, ReceiptsAppliedOnce
<1>6. PlaceOk /\ CompletionOk
  BY <1>3 DEF PlaceOk, CompletionOk
<1>7. WorkersOk
  BY <1>3 DEF WorkersOk, Live
<1> QED
  BY <1>2, <1>3, <1>4, <1>5, <1>6, <1>7 DEF Inv

----------------------------------------------------------------------------
(* Steps that leave the job alone. *)

\* What the invariant says of the job and its attempts is about them alone.
LEMMA JobKept ==
  ASSUME Inv, job' = job, fresh' = fresh
  PROVE  JobOk(job, fresh)' /\ AttemptsOk'
<1>1. JobOk(job, fresh) /\ AttemptsOk
  BY DEF Inv
<1>2. JobOk(job, fresh)'
  BY <1>1
<1>3. AttemptsOk'
  BY <1>1 DEF AttemptsOk, ReceiptsAppliedOnce
<1> QED
  BY <1>2, <1>3

\* Steps of the lock holder that touch neither the job nor the workers.
LEMMA QuietStep ==
  ASSUME Inv, UNCHANGED <<job, fresh, worker, receipt, crashes, spawned>>,
         TypeOK', PlaceOk', CompletionOk', pc # "mark", pc' # "mark", pc' # "orphaned"
  PROVE  Inv'
<1>1. JobOk(job, fresh)' /\ AttemptsOk'
  BY JobKept
<1>2. WorkersOk'
  BY DEF Inv, WorkersOk, Live
<1> QED
  BY <1>1, <1>2 DEF Inv

\* Steps beside the lock that touch neither the job nor the workers.
LEMMA StillStep ==
  ASSUME Inv, TypeOK',
         UNCHANGED <<job, fresh, worker, receipt, crashes, spawned, pc, completion>>
  PROVE  Inv'
<1>1. JobOk(job, fresh)' /\ AttemptsOk'
  BY JobKept
<1>2. WorkersOk'
  BY DEF Inv, WorkersOk, Live
<1>3. PlaceOk' /\ CompletionOk'
  BY DEF Inv, PlaceOk, CompletionOk
<1> QED
  BY <1>1, <1>2, <1>3 DEF Inv

\* The service is there or not after the end of a cycle.
LEMMA CycleEnds ==
  ASSUME TypeOK, CycleOver(TRUE) \/ CycleOver(FALSE)
  PROVE  /\ pc' = "idle" /\ loop' \in {"none", "asleep", "cycle"}
         /\ parentLives' \in BOOLEAN
BY DEF TypeOK, CycleOver, LoopGone

\* The steps of a cycle that only move on, and the steps after a terminal
\* status.
LEMMA MoveSteps ==
  ASSUME Inv,
         \/ Tick \/ LoopCycle \/ RecoveryConflict \/ NothingToRecover \/ RefuseLateReceipt
         \/ NothingToConsume \/ NothingToSchedule \/ NothingToLaunch \/ SupersedeFeedback
         \/ EnsureCompletionReceipt \/ EnsureTerminalFeedback \/ Dispatch
  PROVE  Inv'
<1> USE DEF Outside, Files, Raises, GoesOn, CyclePoints
<1>0. TypeOK /\ PlaceOk /\ CompletionOk /\ job \in Job /\ job.status \in Statuses
  BY DEF Inv, TypeOK, Job
<1>1. CASE Tick \/ LoopCycle
  <2>0. StartCycle /\ loop' \in {loop, "cycle"}
    BY <1>1 DEF Tick, LoopCycle
  <2>1. TypeOK'
    BY <1>0, <2>0 DEF StartCycle, TypeOK
  <2>2. PlaceOk' /\ CompletionOk'
    BY <1>0, <2>0 DEF StartCycle, PlaceOk, CompletionOk
  <2> QED
    BY <2>0, <2>1, <2>2, QuietStep DEF StartCycle
<1>2. CASE RecoveryConflict
  <2>0. /\ CycleOver(TRUE) /\ pc # "mark"
        /\ UNCHANGED <<job, fresh, worker, receipt, crashes, spawned, completion, feedback,
                       due, expired, told>>
    BY <1>2 DEF RecoveryConflict
  <2>1. pc' = "idle" /\ TypeOK'
    BY <1>0, <2>0, CycleEnds DEF TypeOK
  <2>2. PlaceOk' /\ CompletionOk'
    BY <1>0, <2>0, <2>1 DEF PlaceOk, CompletionOk
  <2> QED
    BY <2>0, <2>1, <2>2, QuietStep
<1>3. CASE NothingToRecover
  <2>1. TypeOK'
    BY <1>0, <1>3 DEF NothingToRecover, TypeOK
  <2>2. PlaceOk' /\ CompletionOk'
    BY <1>0, <1>3 DEF NothingToRecover, PlaceOk, CompletionOk
  <2> QED
    BY <1>3, <2>1, <2>2, QuietStep DEF NothingToRecover
<1>4. CASE RefuseLateReceipt
  <2>0. /\ CycleOver(TRUE) /\ pc # "mark"
        /\ UNCHANGED <<job, fresh, worker, receipt, crashes, spawned, completion, feedback,
                       due, expired, told>>
    BY <1>4 DEF RefuseLateReceipt
  <2>1. pc' = "idle" /\ TypeOK'
    BY <1>0, <2>0, CycleEnds DEF TypeOK
  <2>2. PlaceOk' /\ CompletionOk'
    BY <1>0, <2>0, <2>1 DEF PlaceOk, CompletionOk
  <2> QED
    BY <2>0, <2>1, <2>2, QuietStep
<1>5. CASE NothingToConsume
  <2>1. /\ pc = "consume"
        /\ pc' \in {"launch", "completion", "schedule"}
        /\ pc' # "launch" => job.active = None
        /\ pc' = "completion" => job.status \in TERMINAL_STATES
        /\ UNCHANGED <<job, fresh, worker, receipt, crashes, spawned, completion, feedback,
                       due, loop, parentLives, expired, told>>
    BY <1>5 DEF NothingToConsume
  <2>2. TypeOK'
    BY <1>0, <2>1 DEF TypeOK
  <2>3. PlaceOk' /\ CompletionOk'
    BY <1>0, <2>1 DEF PlaceOk, CompletionOk
  <2> QED
    BY <2>1, <2>2, <2>3, QuietStep
<1>6. CASE NothingToSchedule
  <2>0. /\ CycleOver(FALSE) /\ pc # "mark"
        /\ UNCHANGED <<job, fresh, worker, receipt, crashes, spawned, completion, feedback,
                       due, expired, told>>
    BY <1>6 DEF NothingToSchedule
  <2>1. pc' = "idle" /\ TypeOK'
    BY <1>0, <2>0, CycleEnds DEF TypeOK
  <2>2. PlaceOk' /\ CompletionOk'
    BY <1>0, <2>0, <2>1 DEF PlaceOk, CompletionOk
  <2> QED
    BY <2>0, <2>1, <2>2, QuietStep
<1>7. CASE NothingToLaunch
  <2>0. /\ CycleOver(FALSE) /\ pc # "mark"
        /\ UNCHANGED <<job, fresh, worker, receipt, crashes, spawned, completion, feedback,
                       due, expired, told>>
    BY <1>7 DEF NothingToLaunch
  <2>1. pc' = "idle" /\ TypeOK'
    BY <1>0, <2>0, CycleEnds DEF TypeOK
  <2>2. PlaceOk' /\ CompletionOk'
    BY <1>0, <2>0, <2>1 DEF PlaceOk, CompletionOk
  <2> QED
    BY <2>0, <2>1, <2>2, QuietStep
<1>8. CASE SupersedeFeedback
  <2>1. feedback' \in {"none", "pending", "sent", "superseded"}
    BY <1>0, <1>8 DEF SupersedeFeedback, TypeOK
  <2>2. TypeOK'
    BY <1>0, <1>8, <2>1 DEF SupersedeFeedback, TypeOK
  <2>3. PlaceOk' /\ CompletionOk'
    BY <1>0, <1>8 DEF SupersedeFeedback, PlaceOk, CompletionOk
  <2> QED
    BY <1>8, <2>2, <2>3, QuietStep DEF SupersedeFeedback
<1>9. CASE EnsureCompletionReceipt
  <2>1. completion' \in Completed \cup {None}
    BY <1>0, <1>9 DEF EnsureCompletionReceipt, TypeOK
  <2>2. TypeOK'
    BY <1>0, <1>9, <2>1 DEF EnsureCompletionReceipt, TypeOK
  <2>3. PlaceOk' /\ CompletionOk'
    BY <1>0, <1>9 DEF EnsureCompletionReceipt, PlaceOk, CompletionOk
  <2> QED
    BY <1>9, <2>2, <2>3, QuietStep DEF EnsureCompletionReceipt
<1>10. CASE EnsureTerminalFeedback
  <2>1. /\ pc = "feedback" /\ pc' \in {"idle", "dispatch"}
        /\ feedback' \in {feedback, "pending"}
        /\ loop' \in {"none", "asleep", "cycle"} /\ parentLives' \in BOOLEAN
        /\ UNCHANGED <<job, fresh, worker, receipt, crashes, spawned, completion,
                       due, expired, told>>
    <3>1. CASE feedback = "sent"
      BY <1>0, <1>10, <3>1, CycleEnds DEF EnsureTerminalFeedback
    <3>2. CASE feedback # "sent"
      BY <1>0, <1>10, <3>2 DEF EnsureTerminalFeedback, TypeOK
    <3> QED
      BY <3>1, <3>2
  <2>2. TypeOK'
    BY <1>0, <2>1 DEF TypeOK
  <2>3. PlaceOk' /\ CompletionOk'
    BY <1>0, <2>1 DEF PlaceOk, CompletionOk
  <2> QED
    BY <2>1, <2>2, <2>3, QuietStep
<1>11. CASE Dispatch
  <2>1. /\ pc = "dispatch" /\ CycleOver(FALSE) /\ feedback' = "sent" /\ told' = "yes"
        /\ UNCHANGED <<job, fresh, worker, receipt, crashes, spawned, completion,
                       due, expired>>
    BY <1>11 DEF Dispatch
  <2>2. pc' = "idle" /\ TypeOK'
    BY <1>0, <2>1, CycleEnds DEF TypeOK
  <2>3. PlaceOk' /\ CompletionOk'
    BY <1>0, <2>1, <2>2 DEF PlaceOk, CompletionOk
  <2> QED
    BY <2>1, <2>2, <2>3, QuietStep
<1> QED
  BY <1>1, <1>2, <1>3, <1>4, <1>5, <1>6, <1>7, <1>8, <1>9, <1>10, <1>11

\* A worker's pid is recorded or about to be, and there is one of them, as
\* long as nothing has died.
LEMMA LiveFacts ==
  ASSUME Inv, crashes = 0, NEW p \in Pids, Live(p)
  PROVE  /\ job.active # None /\ job.active.id = worker[p].attempt
         /\ job.active.pid = p \/ (spawned = p /\ pc = "mark" /\ job.active.pid = None)
         /\ receipt = None /\ pc # "orphaned" /\ p # None
         /\ \A q \in Pids : Live(q) => q = p
<1>1. \A q \in Pids : Live(q) =>
        /\ job.active # None /\ job.active.id = worker[q].attempt
        /\ job.active.pid = q \/ spawned = q
        /\ receipt = None /\ pc # "orphaned" /\ q # None
  BY JobAssumption DEF Inv, WorkersOk
<1>2. /\ spawned # None <=> pc = "mark"
      /\ pc = "mark" => job.active.pid = None
  BY DEF Inv, WorkersOk, PlaceOk
<1> QED
  BY <1>1, <1>2

\* A worker that is gone is found, and its receipt written.
LEMMA RecoverySteps ==
  ASSUME Inv, FindOrphan \/ RecoverOrphan
  PROVE  Inv'
<1> USE DEF Outside, Files, GoesOn, CyclePoints
<1>0. /\ TypeOK /\ PlaceOk /\ CompletionOk /\ WorkersOk
  BY DEF Inv
<1>1. JobOk(job, fresh)' /\ AttemptsOk'
  BY JobKept DEF FindOrphan, RecoverOrphan
<1>2. CASE FindOrphan
  <2>1. TypeOK'
    BY <1>0, <1>2 DEF FindOrphan, TypeOK
  <2>2. PlaceOk' /\ CompletionOk'
    BY <1>0, <1>2 DEF FindOrphan, PlaceOk, CompletionOk, Orphaned
  <2>3. ASSUME crashes = 0, NEW p \in Pids, Live(p) PROVE FALSE
    BY <1>2, <2>3, LiveFacts DEF FindOrphan, Orphaned, PidIsAlive
  <2>4. WorkersOk'
    BY <1>2, <2>3 DEF FindOrphan, WorkersOk, Live
  <2> QED
    BY <1>1, <2>1, <2>2, <2>4 DEF Inv
<1>3. CASE RecoverOrphan
  <2>1. receipt' \in Receipts
    BY <1>0, <1>3 DEF RecoverOrphan, TypeOK, Receipts, Results, Plain, Outcomes, Decisions
  <2>2. TypeOK'
    BY <1>0, <1>3, <2>1 DEF RecoverOrphan, TypeOK
  <2>3. PlaceOk' /\ CompletionOk'
    BY <1>0, <1>3 DEF RecoverOrphan, PlaceOk, CompletionOk
  <2>4. ASSUME crashes = 0, NEW p \in Pids, Live(p) PROVE FALSE
    BY <1>3, <2>4, LiveFacts DEF RecoverOrphan
  <2>5. job.active # None /\ job.active.pid # None
    BY <1>0, <1>3 DEF RecoverOrphan, PlaceOk
  <2>6. WorkersOk'
    BY <1>3, <2>4, <2>5 DEF RecoverOrphan, WorkersOk, Live
  <2> QED
    BY <1>1, <2>2, <2>3, <2>6 DEF Inv
<1> QED
  BY <1>2, <1>3

----------------------------------------------------------------------------
(* Steps that change the job. *)

\* A job with a completion receipt is completed, and has nothing to run.
LEMMA CompletionFacts ==
  ASSUME Inv, completion # None
  PROVE  /\ job.status = completion /\ job.status \in Completed /\ job.active = None
<1>1. job.status = completion /\ job.status \in Completed
  BY DEF Inv, CompletionOk, TypeOK
<1>2. Standing(job) \in Completed
  BY <1>1 DEF Standing, Completed
<1> QED
  BY <1>1, <1>2 DEF Inv, JobOk, Sound

\* The step of consume_process_receipt, in the words of AppliedSound.
LEMMA ConsumeFacts ==
  ASSUME Inv, Consume
  PROVE  /\ job' \in Job /\ JobOk(job', fresh') /\ job'.active = None
         /\ job'.sequence = job.sequence /\ job'.kind = job.kind
         /\ job'.processed = job.processed \cup {job.active.id}
         /\ fresh' = FreshFrom(job.active.action, receipt.result, fresh)
         /\ job.active # None /\ job.active.action \in Actions
         /\ receipt \in Receipts /\ receipt # None
         /\ job'.sealed # job.sealed =>
              /\ receipt.result.outcome = "success" /\ job.kind # "narrative_audit"
              /\ job.active.action \in {"continuity_checkpoint", "heavy_audit"}
              /\ Ready(job, job.active.action, fresh)
<1>1. /\ job \in Job /\ JobOk(job, fresh) /\ job.active # None
      /\ receipt \in Receipts /\ receipt # None
      /\ job' = Applied(job, receipt.result)
      /\ fresh' = FreshAfter(job.active.action, receipt.result)
  BY DEF Inv, TypeOK, Consume
<1>2. PICK j, f, r, k : j = job /\ f = fresh /\ r = receipt.result /\ k = job'
  OBVIOUS
<1>3. r \in Results
  BY <1>1, <1>2 DEF Receipts
<1>4. k = Applied(j, r)
  BY <1>1, <1>2
<1>5. /\ k \in Job /\ JobOk(k, FreshFrom(j.active.action, r, f))
      /\ k.kind = j.kind /\ k.active = None /\ k.sequence = j.sequence
      /\ k.processed = j.processed \cup {j.active.id}
      /\ k.sealed # j.sealed =>
           /\ r.outcome = "success" /\ j.kind # "narrative_audit"
           /\ j.active.action \in {"continuity_checkpoint", "heavy_audit"}
           /\ Ready(j, j.active.action, f)
  <2>1. j \in Job /\ JobOk(j, f) /\ j.active # None
    BY <1>1, <1>2
  <2> QED
    BY <1>3, <1>4, <2>1, AppliedSound
<1>6. fresh' = FreshFrom(j.active.action, r, f)
  BY <1>1, <1>2 DEF FreshAfter, FreshFrom, FreshOn
<1>7. j.active.action \in Actions
  BY <1>1, <1>2, ActiveFacts
<1> QED
  BY <1>1, <1>2, <1>5, <1>6, <1>7

\* A receipt is consumed.
LEMMA ConsumeStep ==
  ASSUME Inv, Consume
  PROVE  Inv'
<1> USE DEF Outside, GoesOn, CyclePoints
<1>1. /\ job' \in Job /\ JobOk(job', fresh') /\ job'.active = None
      /\ job'.sequence = job.sequence
      /\ job'.processed = job.processed \cup {job.active.id}
      /\ fresh' = FreshFrom(job.active.action, receipt.result, fresh)
      /\ job.active # None /\ job.active.action \in Actions /\ receipt # None
  BY ConsumeFacts
<1>2. TypeOK'
  <2>1. fresh' \subseteq Actions
    BY <1>1 DEF Inv, TypeOK, FreshFrom, FreshOn
  <2>2. /\ receipt' = None /\ due' = FALSE /\ pc' \in {"completion", "consume", "schedule"}
        /\ UNCHANGED <<completion, feedback, spawned, worker, loop, parentLives, expired, told,
                       crashes>>
    BY DEF Consume
  <2> QED
    BY <1>1, <2>1, <2>2 DEF Inv, TypeOK
<1>3. AttemptsOk'
  <2>1. job.sequence \in Nat /\ job.active.id = job.sequence /\ job.sequence >= 1
    BY <1>1 DEF Inv, TypeOK, AttemptsOk, Job
  <2>2. job.processed = (1 .. job.sequence) \ {job.sequence}
    BY <1>1, <2>1 DEF Inv, AttemptsOk, ReceiptsAppliedOnce
  <2>3. job'.processed = 1 .. job'.sequence
    BY <1>1, <2>1, <2>2
  <2> QED
    BY <1>1, <2>3 DEF AttemptsOk, ReceiptsAppliedOnce
<1>4. PlaceOk'
  <2>1. /\ pc' \in {"completion", "consume", "schedule"}
        /\ pc' = "completion" => job'.status \in TERMINAL_STATES
        /\ pc \in {"recover", "consume"} /\ spawned' = spawned
    BY DEF Consume
  <2> QED
    BY <1>1, <2>1 DEF Inv, PlaceOk
<1>5. CompletionOk'
  BY <1>1, CompletionFacts DEF Consume, CompletionOk
<1>6. WorkersOk'
  <2>1. ASSUME crashes = 0, NEW p \in Pids, Live(p) PROVE FALSE
    BY <1>1, <2>1, LiveFacts
  <2>2. receipt' = None /\ pc' # "mark" /\ UNCHANGED <<worker, crashes>>
    BY DEF Consume
  <2> QED
    BY <2>1, <2>2 DEF WorkersOk, Live
<1> QED
  BY <1>1, <1>2, <1>3, <1>4, <1>5, <1>6 DEF Inv

\* The step of schedule_next_attempt, in the words of ScheduledSound.
LEMMA ScheduleFacts ==
  ASSUME Inv, Schedule
  PROVE  /\ job' \in Job /\ JobOk(job', fresh) /\ job'.sequence = job.sequence + 1
         /\ job'.active \in Attempt /\ job'.active.id = job.sequence + 1
         /\ job'.active.pid = None
         /\ job'.kind = job.kind /\ job'.processed = job.processed /\ job'.sealed = job.sealed
         /\ job.active = None /\ completion = None
<1>1. /\ job \in Job /\ JobOk(job, fresh) /\ job.active = None
      /\ ~job.pauseRequested /\ job.status \notin CONTROLLER_STOP_STATES
  BY DEF Inv, TypeOK, PlaceOk, Schedule, MaySchedule
<1>2. PICK j, f, w, d, k :
        j = job /\ f = fresh /\ w = Woken(j) /\ d = Advanced(w) /\ k = job'
  OBVIOUS
<1>3. PICK n \in Nat : n = j.sequence + 1
  BY <1>1, <1>2 DEF Job
<1>4. /\ j \in Job /\ JobOk(j, f) /\ j.active = None /\ ~j.pauseRequested
      /\ j.status # "paused"
  BY <1>1, <1>2 DEF CONTROLLER_STOP_STATES
<1>5. Sound(j, j.status, f) /\ j.pausedFrom = None
  BY <1>4 DEF JobOk, Standing, PauseOk
<1>6. /\ w \in Job /\ Sound(w, w.status, f) /\ Kept(j, w) /\ w.sealed = j.sealed
      /\ w.status \in {j.status, "failed_recoverable"}
  BY <1>2, <1>4, <1>5, WokenSound
<1>7. w.active = None
  BY <1>4, <1>6 DEF Kept
<1>8. d \in Job /\ Sound(d, d.status, f) /\ Kept(w, d) /\ d.sealed = w.sealed
  BY <1>2, <1>6, <1>7, AdvancedSound
<1>9. /\ d.active = None /\ ~d.pauseRequested /\ d.pausedFrom = None /\ d.kind = j.kind
      /\ d.sequence = j.sequence /\ d.processed = j.processed /\ d.sealed = j.sealed
  BY <1>4, <1>5, <1>6, <1>8 DEF Kept
<1>10. PICK a : a = ActionFor(d)
  OBVIOUS
<1>11. /\ a # None
       /\ k = [d EXCEPT !.sequence = @ + 1,
                        !.active = [id |-> j.sequence + 1, action |-> a, pid |-> None],
                        !.status = ACTION_RUNNING_STATE[a]]
  BY <1>2, <1>10 DEF Schedule
<1>12. a \in Actions
  BY <1>8, <1>10, <1>11, ActionForFacts
<1>13. PICK t : t = [id |-> n, action |-> a, pid |-> None]
  OBVIOUS
<1>14. t \in Attempt /\ t.action = a /\ t.id = n /\ t.pid = None
  BY <1>12, <1>13 DEF Attempt
<1>15. PICK s : s = ACTION_RUNNING_STATE[a] /\ Attempts(d, k, n, t, s)
  <2>1. d.sequence + 1 = n
    BY <1>3, <1>9
  <2> QED
    BY <1>3, <1>11, <1>13, <2>1 DEF Attempts
<1>16. /\ k \in Job /\ JobOk(k, f) /\ k.sequence = n /\ k.active = t
       /\ k.kind = d.kind /\ k.processed = d.processed /\ k.sealed = d.sealed
  <2>1. /\ d \in Job /\ Sound(d, d.status, f) /\ d.active = None
        /\ ~d.pauseRequested /\ d.pausedFrom = None
    BY <1>8, <1>9
  <2>2. a = ActionFor(d) /\ a # None
    BY <1>10, <1>11
  <2>3. n \in Nat /\ t \in Attempt /\ t.action = a
    BY <1>14
  <2> QED
    BY <1>15, <2>1, <2>2, <2>3, ScheduledSound
<1>17. completion = None
  <2> SUFFICES ASSUME completion # None PROVE FALSE
    OBVIOUS
  <2>1. j.status \in Completed
    BY <1>2, CompletionFacts
  <2>2. j.status \notin WaitStates /\ j.status # "batch_sealed" /\ j.status \in TERMINAL_STATES
        /\ j.status # "failed_recoverable"
    BY <2>1 DEF Completed, WaitStates, TERMINAL_STATES
  <2>3. w = j
    BY <1>2, <2>2 DEF Woken
  <2>4. d = j
    BY <1>2, <2>2, <2>3 DEF Advanced
  <2> QED
    BY <1>4, <1>10, <1>11, <2>2, <2>4, ActionForFacts
<1> QED
  BY <1>1, <1>2, <1>3, <1>9, <1>14, <1>16, <1>17

\* An attempt is scheduled.
LEMMA ScheduleStep ==
  ASSUME Inv, Schedule
  PROVE  Inv'
<1> USE DEF Files, CyclePoints
<1>1. /\ job' \in Job /\ JobOk(job', fresh) /\ job'.sequence = job.sequence + 1
      /\ job'.active \in Attempt /\ job'.active.id = job.sequence + 1
      /\ job'.active.pid = None
      /\ job'.processed = job.processed /\ job.active = None /\ completion = None
  BY ScheduleFacts
<1>2. /\ pc = "schedule" /\ pc' = "launch" /\ expired' = FALSE
      /\ UNCHANGED <<receipt, completion, feedback, spawned, worker, loop, parentLives,
                     told, crashes, due, fresh>>
  BY DEF Schedule, GoesOn
<1>3. TypeOK'
  BY <1>1, <1>2 DEF Inv, TypeOK
<1>4. AttemptsOk'
  <2>1. job.sequence \in Nat /\ job.processed = 1 .. job.sequence
    BY <1>1 DEF Inv, TypeOK, Job, AttemptsOk, ReceiptsAppliedOnce
  <2>2. job'.active # None
    BY <1>1, NoneAssumption
  <2>3. job'.processed = (1 .. job'.sequence) \ {job'.active.id}
    BY <1>1, <2>1
  <2> QED
    BY <1>1, <2>1, <2>2, <2>3 DEF AttemptsOk, ReceiptsAppliedOnce
<1>5. PlaceOk' /\ CompletionOk'
  BY <1>1, <1>2 DEF Inv, PlaceOk, CompletionOk
<1>6. WorkersOk'
  <2>1. ASSUME crashes = 0, NEW p \in Pids, Live(p) PROVE FALSE
    BY <1>1, <2>1, LiveFacts
  <2>2. crashes = 0 => receipt = None
    BY <1>1 DEF Inv, WorkersOk
  <2> QED
    BY <1>2, <2>1, <2>2 DEF WorkersOk, Live
<1>7. JobOk(job', fresh')
  BY <1>1, <1>2
<1> QED
  BY <1>3, <1>4, <1>5, <1>6, <1>7 DEF Inv

\* A worker is started.
LEMMA LaunchStep ==
  ASSUME Inv, Launch
  PROVE  Inv'
<1> USE DEF Files, CyclePoints
<1>1. /\ pc = "launch" /\ pc' = "mark" /\ job.active # None /\ job.active.pid = None
      /\ UNCHANGED <<receipt, completion, feedback, job, loop, expired, due, fresh, told,
                     crashes>>
      /\ parentLives' \in BOOLEAN
  BY DEF Launch, MayLaunch
<1>2. PICK n : n = NewPid
  OBVIOUS
<1>3. n \in Pids /\ ~Live(n) /\ n # None
  <2>1. \E p \in Pids : ~Live(p)
    BY DEF Launch
  <2> QED
    BY <1>2, <2>1, JobAssumption DEF NewPid
<1>4. PICK w : w = [attempt |-> job.active.id, action |-> job.active.action,
                    phase |-> "started", late |-> FALSE]
  OBVIOUS
<1>5. w \in Worker /\ w.attempt = job.active.id
  <2>1. job.active \in Attempt
    BY <1>1 DEF Inv, TypeOK, Job
  <2> QED
    BY <1>4, <2>1 DEF Attempt, Worker
<1>6. worker' = [worker EXCEPT ![n] = w] /\ spawned' = n
  BY <1>2, <1>4 DEF Launch
<1>7. worker \in [Pids -> Worker \cup {None}]
  BY DEF Inv, TypeOK
<1>8. TypeOK'
  BY <1>1, <1>3, <1>5, <1>6, <1>7 DEF Inv, TypeOK
<1>9. JobOk(job, fresh)' /\ AttemptsOk'
  BY <1>1, JobKept
<1>10. PlaceOk' /\ CompletionOk'
  BY <1>1, <1>3, <1>6 DEF Inv, PlaceOk, CompletionOk
<1>11. WorkersOk'
  <2>1. ASSUME crashes = 0, NEW p \in Pids, Live(p) PROVE FALSE
    BY <1>1, <2>1, LiveFacts
  <2>2. crashes = 0 => receipt = None
    BY <1>1 DEF Inv, WorkersOk
  <2>3. ASSUME crashes = 0, NEW p \in Pids, worker'[p] # None
        PROVE  p = n /\ worker'[p].attempt = job.active.id
    <3>1. p = n
      BY <1>3, <1>6, <1>7, <2>1, <2>3 DEF Live
    <3> QED
      BY <1>3, <1>5, <1>6, <1>7, <3>1
  <2> QED
    BY <1>1, <1>6, <2>2, <2>3 DEF WorkersOk, Live
<1> QED
  BY <1>8, <1>9, <1>10, <1>11 DEF Inv

\* The step of mark_attempt_started, in the words of MarkSound.
LEMMA MarkFacts ==
  ASSUME Inv, MarkStarted
  PROVE  /\ job' \in Job /\ JobOk(job', fresh) /\ job'.active \in Attempt
         /\ job'.active.id = job.active.id /\ job'.active.pid = spawned
         /\ job'.status = job.status /\ job'.sequence = job.sequence
         /\ job'.processed = job.processed /\ job'.sealed = job.sealed
         /\ job.active # None /\ spawned \in Pids
<1>1. /\ job \in Job /\ JobOk(job, fresh) /\ job.active # None /\ spawned \in Pids
  BY DEF Inv, TypeOK, PlaceOk, MarkStarted
<1>2. PICK j, f, p, k : j = job /\ f = fresh /\ p = spawned /\ k = job'
  OBVIOUS
<1>3. j \in Job /\ JobOk(j, f) /\ j.active # None /\ p \in Pids
  BY <1>1, <1>2
<1>4. PICK t : t = [j.active EXCEPT !.pid = p]
  OBVIOUS
<1>5. j.active \in Attempt
  BY <1>3 DEF Job
<1>6. t \in Attempt /\ t.action = j.active.action /\ t.id = j.active.id /\ t.pid = p
  BY <1>3, <1>4, <1>5 DEF Attempt
<1>7. Marks(j, k, t)
  BY <1>2, <1>4 DEF MarkStarted, Marks
<1>8. /\ k \in Job /\ JobOk(k, f) /\ Alike(j, k) /\ k.active = t /\ k.status = j.status
      /\ k.sequence = j.sequence /\ k.processed = j.processed
  BY <1>3, <1>6, <1>7, MarkSound
<1> QED
  BY <1>1, <1>2, <1>6, <1>8 DEF Alike, Same

\* The pid of the worker is recorded.
LEMMA MarkStep ==
  ASSUME Inv, MarkStarted
  PROVE  Inv'
<1> USE DEF Files, CyclePoints
<1>1. /\ job' \in Job /\ JobOk(job', fresh) /\ job'.active \in Attempt
      /\ job'.active.id = job.active.id /\ job'.active.pid = spawned
      /\ job'.status = job.status /\ job'.sequence = job.sequence
      /\ job'.processed = job.processed /\ job.active # None /\ spawned \in Pids
  BY MarkFacts
<1>2. /\ pc = "mark" /\ pc' = "idle" /\ spawned' = None
      /\ loop' \in {"none", "asleep", "cycle"} /\ parentLives' \in BOOLEAN
      /\ UNCHANGED <<receipt, completion, feedback, worker, expired, due, fresh, told,
                     crashes>>
  BY CycleEnds DEF Inv, MarkStarted
<1>3. spawned # None /\ job'.active # None
  BY <1>1, JobAssumption, NoneAssumption
<1>4. TypeOK'
  BY <1>1, <1>2 DEF Inv, TypeOK
<1>5. AttemptsOk'
  BY <1>1, <1>3 DEF Inv, AttemptsOk, ReceiptsAppliedOnce
<1>6. PlaceOk' /\ CompletionOk'
  BY <1>1, <1>2 DEF Inv, PlaceOk, CompletionOk
<1>7. WorkersOk'
  <2>1. ASSUME crashes = 0, NEW p \in Pids, Live(p)
        PROVE  job.active.id = worker[p].attempt /\ p = spawned /\ receipt = None
    <3>1. job.active.pid = None
      BY <1>2, <2>1 DEF Inv, WorkersOk
    <3> QED
      BY <2>1, <3>1, LiveFacts
  <2> QED
    BY <1>1, <1>2, <1>3, <2>1 DEF WorkersOk, Live
<1>8. JobOk(job', fresh')
  BY <1>1, <1>2
<1> QED
  BY <1>4, <1>5, <1>6, <1>7, <1>8 DEF Inv

\* The job a command leaves, in the words of PauseSound, ResumeSound and
\* RetrySound.
LEMMA CommandFacts ==
  ASSUME Inv, Pause \/ Resume \/ RetryBlocked
  PROVE  /\ job' \in Job /\ JobOk(job', fresh) /\ job'.active = job.active
         /\ job'.sequence = job.sequence /\ job'.processed = job.processed
         /\ job'.sealed = job.sealed /\ job.status \notin Completed
<1>1. job \in Job /\ JobOk(job, fresh)
  BY DEF Inv, TypeOK
<1>2. PICK j, f, k : j = job /\ f = fresh /\ k = job'
  OBVIOUS
<1>3. j \in Job /\ JobOk(j, f)
  BY <1>1, <1>2
<1>4. CASE Pause
  <2>1. /\ j.status \notin TERMINAL_STATES \cup {"paused"}
        /\ k = [j EXCEPT !.pausedFrom = j.status, !.pauseRequested = TRUE, !.status = "paused"]
    BY <1>2, <1>4 DEF Pause
  <2>2. Stops(j, k, "paused", TRUE, j.status)
    BY <1>3, <2>1 DEF Stops, Job
  <2>3. /\ k \in Job /\ JobOk(k, f) /\ Alike(j, k) /\ k.active = j.active
        /\ k.sequence = j.sequence /\ k.processed = j.processed
    BY <1>3, <2>1, <2>2, PauseSound
  <2> QED
    BY <1>2, <2>1, <2>3 DEF Alike, Same, TERMINAL_STATES
<1>5. CASE Resume
  <2>1. PICK s : s = IF j.pausedFrom = None THEN "queued" ELSE j.pausedFrom
    OBVIOUS
  <2>2. j.status \notin TERMINAL_STATES /\ (j.pauseRequested \/ j.status = "paused")
    BY <1>2, <1>5 DEF Resume
  <2>3. Stops(j, k, s, FALSE, None)
    BY <1>2, <1>5, <2>1 DEF Resume, Stops
  <2>4. /\ k \in Job /\ JobOk(k, f) /\ Alike(j, k) /\ k.active = j.active
        /\ k.sequence = j.sequence /\ k.processed = j.processed
    BY <1>3, <2>1, <2>2, <2>3, ResumeSound
  <2> QED
    BY <1>2, <2>2, <2>4 DEF Alike, Same, TERMINAL_STATES
<1>6. CASE RetryBlocked
  <2>1. PICK rt : rt = [j.retries EXCEPT ![j.retryAction] = 0]
    OBVIOUS
  <2>2. j.status = "blocked" /\ j.active = None /\ j.retryAction # None
    BY <1>2, <1>6 DEF RetryBlocked
  <2>3. rt \in [Actions -> Nat]
    BY <1>3, <2>1 DEF Job
  <2>4. Retries(j, k, rt)
    BY <1>2, <1>6, <2>1 DEF RetryBlocked, Retries
  <2>5. /\ k \in Job /\ JobOk(k, f) /\ Alike(j, k) /\ k.active = None
        /\ k.sequence = j.sequence /\ k.processed = j.processed
    BY <1>3, <2>2, <2>3, <2>4, RetrySound
  <2> QED
    BY <1>2, <2>2, <2>5 DEF Alike, Same, Completed
<1> QED
  BY <1>4, <1>5, <1>6

\* An operator's command.
LEMMA CommandSteps ==
  ASSUME Inv, Pause \/ Resume \/ RetryBlocked
  PROVE  Inv'
<1> USE DEF Files, Outside, CyclePoints
<1>1. /\ job' \in Job /\ JobOk(job', fresh) /\ job'.active = job.active
      /\ job'.sequence = job.sequence /\ job'.processed = job.processed
      /\ job.status \notin Completed
  BY CommandFacts
<1>2. /\ pc = "idle" /\ pc' \in {"idle", "supersede"}
      /\ told' \in {told, "no"}
      /\ UNCHANGED <<receipt, completion, feedback, spawned, worker, loop, parentLives,
                     expired, due, fresh, crashes>>
  BY DEF Pause, Resume, RetryBlocked, GoesOn
<1>3. TypeOK'
  BY <1>1, <1>2 DEF Inv, TypeOK
<1>4. AttemptsOk'
  BY <1>1 DEF Inv, AttemptsOk, ReceiptsAppliedOnce
<1>5. CompletionOk'
  BY <1>1, <1>2, CompletionFacts DEF CompletionOk
<1>6. PlaceOk'
  BY <1>1, <1>2 DEF Inv, PlaceOk
<1>7. WorkersOk'
  BY <1>1, <1>2 DEF Inv, WorkersOk, Live
<1>8. JobOk(job', fresh')
  BY <1>1, <1>2
<1> QED
  BY <1>3, <1>4, <1>5, <1>6, <1>7, <1>8 DEF Inv

----------------------------------------------------------------------------
(* Workers and the environment. *)

\* What a worker returns is a result.
LEMMA ResultsTyped ==
  ASSUME NEW a, NEW r \in ResultsOf(a)
  PROVE  r \in Results
<1>1. \A o \in Outcomes : Plain(o) \in Results
  BY DEF Plain, Results, Decisions
<1>2. Plain("success") \in Results /\ Plain("failed") \in Results
  BY <1>1 DEF Outcomes
<1>3. CASE a = "heavy_audit"
  <2>1. \/ r \in [outcome : {"success"}, decision : {"pass"},
                  findings : BOOLEAN, proposal : {FALSE}]
        \/ r \in [outcome : {"success"}, decision : {"revision_required"},
                  findings : {TRUE}, proposal : BOOLEAN]
        \/ r \in [outcome : {"success"}, decision : {"blocked"},
                  findings : {FALSE}, proposal : {FALSE}]
        \/ r \in {Plain(o) : o \in Outcomes \ {"success"}}
    BY <1>3 DEF ResultsOf
  <2> QED
    BY <1>1, <2>1 DEF Results, Outcomes, Decisions
<1>4. CASE a = "generate_batch"
  BY <1>1, <1>4 DEF ResultsOf
<1>5. CASE a \in {"revision_support_scribe", "revision_support_verifier"}
  BY <1>1, <1>5 DEF ResultsOf
<1>6. CASE a \notin {"heavy_audit", "generate_batch", "revision_support_scribe",
                     "revision_support_verifier"}
  BY <1>2, <1>6 DEF ResultsOf
<1> QED
  BY <1>3, <1>4, <1>5, <1>6

\* A worker that only moves on or ends.
LEMMA WorkerMoves ==
  ASSUME Inv, NEW p \in Pids, Live(p),
         NEW w \in Worker \cup {None}, w # None => w.attempt = worker[p].attempt,
         worker' = [worker EXCEPT ![p] = w],
         UNCHANGED <<job, receipt, completion, feedback, pc, spawned, loop, parentLives,
                     expired, due, fresh, told, crashes>>
  PROVE  Inv'
<1>1. worker \in [Pids -> Worker \cup {None}]
  BY DEF Inv, TypeOK
<1>2. TypeOK'
  BY <1>1 DEF Inv, TypeOK
<1>3. JobOk(job, fresh)' /\ AttemptsOk'
  BY JobKept
<1>4. PlaceOk' /\ CompletionOk'
  BY DEF Inv, PlaceOk, CompletionOk
<1>5. \A q \in Pids : worker'[q] # None =>
        worker[q] # None /\ worker'[q].attempt = worker[q].attempt
  BY <1>1 DEF Live
<1>6. WorkersOk'
  BY <1>5 DEF Inv, WorkersOk, Live
<1> QED
  BY <1>2, <1>3, <1>4, <1>6 DEF Inv

\* A worker writes its receipt.
LEMMA WriteStep ==
  ASSUME Inv, NEW p \in Pids, WorkerWrites(p)
  PROVE  Inv'
<1>1. /\ Live(p) /\ worker' = [worker EXCEPT ![p] = None]
      /\ UNCHANGED <<job, completion, feedback, pc, spawned, loop, parentLives,
                     expired, due, fresh, told, crashes>>
  BY DEF WorkerWrites, Others
<1>2. worker \in [Pids -> Worker \cup {None}]
  BY DEF Inv, TypeOK
<1>3. CASE job.active # None /\ job.active.id = worker[p].attempt
  <2>1. PICK r \in ResultsOf(worker[p].action) :
          receipt' = [result |-> r, late |-> worker[p].late]
    BY <1>3 DEF WorkerWrites
  <2>2. r \in Results
    BY <2>1, ResultsTyped
  <2>3. receipt' \in Receipts
    BY <1>1, <1>2, <2>1, <2>2 DEF Receipts, Worker, Live
  <2>4. TypeOK'
    BY <1>1, <1>2, <2>3 DEF Inv, TypeOK
  <2>5. JobOk(job, fresh)' /\ AttemptsOk'
    BY <1>1, JobKept
  <2>6. PlaceOk' /\ CompletionOk'
    BY <1>1 DEF Inv, PlaceOk, CompletionOk
  <2>7. ASSUME crashes = 0, NEW q \in Pids, worker'[q] # None PROVE FALSE
    <3>1. Live(q) /\ q # p
      BY <1>1, <1>2, <2>7 DEF Live
    <3> QED
      BY <1>1, <2>7, <3>1, LiveFacts
  <2>8. crashes = 0 => (job.active.pid # None \/ pc = "mark")
    BY <1>1, LiveFacts
  <2>9. WorkersOk'
    BY <1>1, <1>3, <2>7, <2>8 DEF Inv, WorkersOk, Live
  <2> QED
    BY <2>4, <2>5, <2>6, <2>9 DEF Inv
<1>4. CASE ~(job.active # None /\ job.active.id = worker[p].attempt)
  <2>1. receipt' = receipt
    BY <1>4 DEF WorkerWrites
  <2> QED
    BY <1>1, <2>1, WorkerMoves
<1> QED
  BY <1>3, <1>4

\* A step of a worker.
LEMMA WorkerSteps ==
  ASSUME Inv, NEW p \in Pids,
         WorkerBegins(p) \/ WorkerReturns(p) \/ WorkerWrites(p) \/ WorkerDies(p)
  PROVE  Inv'
<1>1. worker \in [Pids -> Worker \cup {None}] /\ expired \in BOOLEAN
  BY DEF Inv, TypeOK
<1>2. ASSUME Live(p)
      PROVE  /\ worker[p] \in Worker
             /\ \A x \in {"executing", "writing"}, l \in BOOLEAN :
                  [worker[p] EXCEPT !.phase = x, !.late = l] \in Worker
             /\ [worker[p] EXCEPT !.phase = "executing"] \in Worker
             /\ [worker[p] EXCEPT !.phase = "executing"].attempt = worker[p].attempt
             /\ \A l \in BOOLEAN :
                  [worker[p] EXCEPT !.phase = "writing", !.late = l].attempt = worker[p].attempt
  <2>1. worker[p] \in Worker
    BY <1>1, <1>2 DEF Live
  <2> QED
    BY <2>1 DEF Worker
<1>3. CASE WorkerBegins(p)
  <2>1. PICK w : w = IF HasReceipt(p) THEN None ELSE [worker[p] EXCEPT !.phase = "executing"]
    OBVIOUS
  <2>2. Live(p) /\ worker' = [worker EXCEPT ![p] = w] /\ UNCHANGED receipt /\ Others
    BY <1>1, <1>3, <2>1 DEF WorkerBegins
  <2>3. w \in Worker \cup {None} /\ (w # None => w.attempt = worker[p].attempt)
    BY <1>2, <2>1, <2>2
  <2> QED
    BY <2>2, <2>3, WorkerMoves DEF Others
<1>4. CASE WorkerReturns(p)
  <2>1. PICK w : w = IF HasReceipt(p) THEN None
                     ELSE [worker[p] EXCEPT !.phase = "writing", !.late = expired]
    OBVIOUS
  <2>2. Live(p) /\ worker' = [worker EXCEPT ![p] = w] /\ UNCHANGED receipt /\ Others
    BY <1>1, <1>4, <2>1 DEF WorkerReturns
  <2>3. w \in Worker \cup {None} /\ (w # None => w.attempt = worker[p].attempt)
    BY <1>1, <1>2, <2>1, <2>2
  <2> QED
    BY <2>2, <2>3, WorkerMoves DEF Others
<1>5. CASE WorkerWrites(p)
  BY <1>5, WriteStep
<1>6. CASE WorkerDies(p)
  <2>1. /\ worker' = [worker EXCEPT ![p] = None] /\ crashes' = crashes + 1
        /\ UNCHANGED <<job, receipt, completion, feedback, pc, spawned, loop, parentLives,
                       expired, due, fresh, told>>
    BY <1>6 DEF WorkerDies
  <2>2. crashes \in Nat
    BY DEF Inv, TypeOK
  <2>3. TypeOK'
    BY <1>1, <2>1, <2>2 DEF Inv, TypeOK
  <2>4. JobOk(job, fresh)' /\ AttemptsOk'
    BY <2>1, JobKept
  <2>5. PlaceOk' /\ CompletionOk'
    BY <2>1 DEF Inv, PlaceOk, CompletionOk
  <2>6. WorkersOk'
    BY <2>1, <2>2 DEF WorkersOk
  <2> QED
    BY <2>3, <2>4, <2>5, <2>6 DEF Inv
<1> QED
  BY <1>3, <1>4, <1>5, <1>6

\* Deaths of the lock holder, starts and ends of the service, and time.
LEMMA EnvironmentSteps ==
  ASSUME Inv, ControllerDies \/ StartLoop \/ LoopEnds \/ LeaseExpires \/ WaitEnds
  PROVE  Inv'
<1> USE DEF Files, Outside, CyclePoints
<1>0. TypeOK /\ crashes \in Nat /\ parentLives \in BOOLEAN
  BY DEF Inv, TypeOK
<1>1. CASE ControllerDies
  <2>1. /\ pc' = "idle" /\ spawned' = None /\ crashes' = crashes + 1
        /\ loop' \in {loop, "none"} /\ parentLives' \in BOOLEAN /\ told' \in {told, "lost"}
        /\ UNCHANGED <<job, receipt, completion, feedback, worker, expired, due, fresh>>
    BY <1>0, <1>1 DEF ControllerDies, LoopGone
  <2>2. TypeOK'
    BY <1>0, <2>1 DEF TypeOK
  <2>3. JobOk(job, fresh)' /\ AttemptsOk'
    BY <2>1, JobKept
  <2>4. PlaceOk' /\ CompletionOk'
    BY <2>1 DEF Inv, PlaceOk, CompletionOk
  <2>5. WorkersOk'
    BY <1>0, <2>1 DEF WorkersOk
  <2> QED
    BY <2>2, <2>3, <2>4, <2>5 DEF Inv
<1>2. CASE StartLoop \/ LoopEnds
  <2>1. TypeOK'
    BY <1>0, <1>2 DEF StartLoop, LoopEnds, LoopGone, TypeOK
  <2> QED
    BY <1>2, <2>1, StillStep DEF StartLoop, LoopEnds
<1>3. CASE LeaseExpires
  <2>1. TypeOK'
    BY <1>0, <1>3 DEF LeaseExpires, TypeOK
  <2> QED
    BY <1>3, <2>1, StillStep DEF LeaseExpires
<1>4. CASE WaitEnds
  <2>1. TypeOK'
    BY <1>0, <1>4 DEF WaitEnds, TypeOK
  <2> QED
    BY <1>4, <2>1, StillStep DEF WaitEnds
<1> QED
  BY <1>1, <1>2, <1>3, <1>4

\* Every step preserves the invariant.
LEMMA InvStep == Inv /\ [Next]_vars => Inv'
<1> SUFFICES ASSUME Inv, [Next]_vars PROVE Inv'
  OBVIOUS
<1>1. CASE Tick \/ LoopCycle
  BY <1>1, MoveSteps
<1>2. CASE CycleStep
  BY <1>2, MoveSteps, RecoverySteps, ConsumeStep, ScheduleStep, LaunchStep, MarkStep
     DEF CycleStep
<1>3. CASE Pause \/ Resume \/ RetryBlocked
  BY <1>3, CommandSteps
<1>4. CASE SupersedeFeedback
  BY <1>4, MoveSteps
<1>5. ASSUME NEW p \in Pids,
             WorkerBegins(p) \/ WorkerReturns(p) \/ WorkerWrites(p) \/ WorkerDies(p)
      PROVE  Inv'
  BY <1>5, WorkerSteps
<1>6. CASE ControllerDies \/ StartLoop \/ LoopEnds \/ LeaseExpires \/ WaitEnds
  BY <1>6, EnvironmentSteps
<1>7. CASE UNCHANGED vars
  <2>1. TypeOK'
    BY <1>7 DEF Inv, TypeOK, vars
  <2> QED
    BY <1>7, <2>1, StillStep DEF vars
<1> QED
  BY <1>1, <1>2, <1>3, <1>4, <1>5, <1>6, <1>7 DEF Next

\* The invariant holds in every reachable state.
LEMMA InvHolds == Spec => []Inv
<1> QED
  BY InvInit, InvStep, PTL DEF Spec

----------------------------------------------------------------------------
(* What follows. *)

\* A job stands at a status.
LEMMA StandingTyped ==
  ASSUME NEW j \in Job, PauseOk(j)
  PROVE  Standing(j) \in Statuses \ {"paused"}
BY DEF Job, PauseOk, Standing

\* A job that is not stopped or at a turn of its batches leads to an action.
LEMMA SomewhereNext ==
  ASSUME NEW s \in Statuses,
         s \notin RetryStates \cup TERMINAL_STATES \cup CONTROLLER_STOP_STATES \cup {"batch_sealed"}
  PROVE  \E a \in Actions : s \in Leads(a)
<1>1. CASE \E a \in Actions : s = ACTION_RUNNING_STATE[a]
  BY <1>1 DEF Leads
<1>2. CASE s = "queued"
  <2>1. "preflight" \in Actions /\ s \in Leads("preflight")
    BY <1>2 DEF Leads, Actions
  <2> QED
    BY <2>1
<1>3. CASE s = "awaiting_continuity_checkpoint"
  <2>1. "continuity_checkpoint" \in Actions /\ s \in Leads("continuity_checkpoint")
    BY <1>3 DEF Leads, Actions
  <2> QED
    BY <2>1
<1>4. CASE s = "awaiting_heavy_audit"
  <2>1. "heavy_audit" \in Actions /\ s \in Leads("heavy_audit")
    BY <1>4 DEF Leads, Actions
  <2> QED
    BY <2>1
<1>5. CASE s = "awaiting_revision_scribe"
  <2>1. "revision_support_scribe" \in Actions /\ s \in Leads("revision_support_scribe")
    BY <1>5 DEF Leads, Actions
  <2> QED
    BY <2>1
<1>6. CASE s = "awaiting_revision_verifier"
  <2>1. "revision_support_verifier" \in Actions /\ s \in Leads("revision_support_verifier")
    BY <1>6 DEF Leads, Actions
  <2> QED
    BY <2>1
<1>7. CASE s = "rewrite_required"
  <2>1. "rewrite_batch" \in Actions /\ s \in Leads("rewrite_batch")
    BY <1>7 DEF Leads, Actions
  <2> QED
    BY <2>1
<1> QED
  BY <1>1, <1>2, <1>3, <1>4, <1>5, <1>6, <1>7 DEF Statuses, RetryStates

\* As many batches are finished as lie behind the current one, or one more.
LEMMA DoneLength ==
  ASSUME NEW j \in Job, NEW f, JobOk(j, f)
  PROVE  Len(Done(j)) \in {j.batch - 1, j.batch}
<1>1. PICK s : s = Standing(j)
  OBVIOUS
<1>2. Sound(j, s, f) /\ s \in Statuses \ {"paused"}
  BY <1>1, StandingTyped DEF JobOk
<1>3. ASSUME NEW a \in Actions, Facing(j, s, a)
      PROVE  Len(Done(j)) \in {j.batch - 1, j.batch}
  <2>1. Ready(j, a, f)
    BY <1>2, <1>3 DEF Sound
  <2> QED
    BY <2>1 DEF Ready
<1>4. CASE j.active # None
  <2>1. j.active.action \in Actions
    BY <1>4 DEF Job, Attempt
  <2> QED
    BY <1>3, <1>4, <2>1 DEF Facing
<1>5. CASE j.active = None /\ s \in RetryStates
  <2>1. CASE j.retryAction # None
    <3>1. j.retryAction \in Actions
      BY <2>1 DEF Job
    <3> QED
      BY <1>3, <1>5, <3>1 DEF Facing
  <2>2. CASE j.retryAction = None
    <3>1. s = "blocked"
      BY <1>2, <1>5, <2>2 DEF Sound
    <3> QED
      BY <1>2, <2>2, <3>1 DEF Sound
  <2> QED
    BY <2>1, <2>2
<1>6. CASE s \in Completed \cup {"batch_sealed", "decision_required"}
  BY <1>2, <1>6 DEF Sound, Done
<1>7. CASE j.active = None /\ s \notin RetryStates \cup Completed \cup {"batch_sealed", "decision_required"}
  <2>1. s \notin RetryStates \cup TERMINAL_STATES \cup CONTROLLER_STOP_STATES \cup {"batch_sealed"}
    BY <1>2, <1>7 DEF TERMINAL_STATES, CONTROLLER_STOP_STATES, RetryStates
  <2>2. PICK a \in Actions : s \in Leads(a)
    BY <1>2, <2>1, SomewhereNext
  <2> QED
    BY <1>3, <1>7, <2>2 DEF Facing
<1> QED
  BY <1>4, <1>5, <1>6, <1>7

\* The state file, the receipts and the workers always have their types.
THEOREM JobTypes == Spec => []TypeOK
<1>1. Inv => TypeOK
  BY DEF Inv
<1> QED
  BY <1>1, InvHolds, PTL

\* Every attempt's receipt is applied once and none is skipped, whatever
\* dies between the receipt, the state file and the next attempt.
THEOREM ReceiptsApplied == Spec => []ReceiptsAppliedOnce
<1>1. Inv => ReceiptsAppliedOnce
  BY DEF Inv, AttemptsOk
<1> QED
  BY <1>1, InvHolds, PTL

\* The batches of a job are finished in order, without gap or repetition,
\* and a completed job has finished the last one.
THEOREM BatchesFinishInOrder == Spec => []BatchesInOrder
<1>1. Inv => BatchesInOrder
  <2> SUFFICES ASSUME Inv PROVE BatchesInOrder
    OBVIOUS
  <2>1. job \in Job /\ JobOk(job, fresh)
    BY DEF Inv, TypeOK
  <2>2. Counts(Done(job))
    BY <2>1 DEF JobOk, Sound
  <2>3. Len(Done(job)) \in {job.batch - 1, job.batch}
    BY <2>1, DoneLength
  <2>4. job.status \in Completed => Len(Done(job)) = job.batch /\ IsLast(job.batch)
    BY <2>1 DEF JobOk, Sound, Standing, Completed
  <2>5. completion # None => completion = job.status
    BY CompletionFacts
  <2> QED
    BY <2>2, <2>3, <2>4, <2>5 DEF BatchesInOrder, Done, Counts
<1> QED
  BY <1>1, InvHolds, PTL

\* The actions on the way to a rewrite.
LEMMA RewritingActions ==
  ASSUME NEW a \in Actions
  PROVE  /\ ACTION_RUNNING_STATE[a] \in Rewriting =>
              a \in {"revision_support_scribe", "revision_support_verifier", "rewrite_batch"}
         /\ \A s \in Rewriting : s \in Leads(a) =>
              a \in {"revision_support_scribe", "revision_support_verifier", "rewrite_batch"}
<1>1. ACTION_RUNNING_STATE[a] \in Rewriting =>
        a \in {"revision_support_scribe", "revision_support_verifier", "rewrite_batch"}
  BY RunningStates DEF Rewriting, Actions
<1>2. ASSUME NEW s \in Rewriting, s \in Leads(a)
      PROVE  a \in {"revision_support_scribe", "revision_support_verifier", "rewrite_batch"}
  BY <1>1, <1>2, LeadsFacts DEF Rewriting, Leads, Actions
<1> QED
  BY <1>1, <1>2

\* Automatic rewriting of a batch stops at the limit, also for a job that was
\* paused, blocked and retried on the way.
THEOREM RewritingEnds == Spec => []RewritesEnd
<1>1. Inv => RewritesEnd
  <2> SUFFICES ASSUME Inv PROVE RewritesEnd
    OBVIOUS
  <2>1. job \in Job /\ JobOk(job, fresh)
    BY DEF Inv, TypeOK
  <2>2. PICK j, f, s : j = job /\ f = fresh /\ s = Standing(j)
    OBVIOUS
  <2>3. j \in Job /\ Sound(j, s, f) /\ PauseOk(j) /\ s \in Statuses \ {"paused"}
    BY <2>1, <2>2, StandingTyped DEF JobOk
  <2>4. j.rewrites \in Nat /\ j.rewrites <= MAX_AUTOMATIC_REWRITES
    BY <2>3 DEF Sound, Job
  <2>5. ASSUME NEW a \in {"revision_support_scribe", "revision_support_verifier", "rewrite_batch"},
               Facing(j, s, a)
        PROVE  j.rewrites # MAX_AUTOMATIC_REWRITES
    <3>1. a \in Actions
      BY DEF Actions
    <3>2. Ready(j, a, f)
      BY <2>3, <2>5, <3>1 DEF Sound
    <3>3. j.rewrites < MAX_AUTOMATIC_REWRITES
      BY <3>2 DEF Ready
    <3> QED
      BY <2>4, <3>3 DEF MAX_AUTOMATIC_REWRITES
  <2>6. ASSUME s \in Rewriting PROVE j.rewrites # MAX_AUTOMATIC_REWRITES
    <3>1. CASE j.active # None
      <4>1. j.active.action \in Actions /\ s = ACTION_RUNNING_STATE[j.active.action]
        BY <2>3, <3>1 DEF Sound, Job, Attempt
      <4>2. Facing(j, s, j.active.action)
        BY <3>1 DEF Facing
      <4> QED
        BY <2>5, <2>6, <4>1, <4>2, RewritingActions
    <3>2. CASE j.active = None
      <4>1. s \notin RetryStates \cup TERMINAL_STATES \cup CONTROLLER_STOP_STATES
                       \cup {"batch_sealed"}
        BY <2>6 DEF Rewriting, RetryStates, WaitStates, TERMINAL_STATES, Completed,
                    CONTROLLER_STOP_STATES
      <4>2. PICK a \in Actions : s \in Leads(a)
        BY <2>3, <4>1, SomewhereNext
      <4> QED
        BY <2>5, <2>6, <3>2, <4>2, RewritingActions DEF Facing
    <3> QED
      BY <3>1, <3>2
  <2>7. ASSUME j.retryAction \in {"revision_support_scribe", "revision_support_verifier",
                                  "rewrite_batch"}
        PROVE  j.rewrites # MAX_AUTOMATIC_REWRITES
    <3>1. j.retryAction \in Actions /\ j.retryAction # None
      BY <2>7, NoneAssumption DEF Actions
    <3>2. Facing(j, s, j.retryAction)
      BY <2>3, <3>1 DEF Sound, Facing, Leads
    <3> QED
      BY <2>5, <2>7, <3>2
  <2>8. ASSUME j.status \in Rewriting PROVE j.rewrites # MAX_AUTOMATIC_REWRITES
    BY <2>2, <2>6, <2>8 DEF Standing, Rewriting
  <2>9. ASSUME j.pausedFrom \in Rewriting PROVE j.rewrites # MAX_AUTOMATIC_REWRITES
    <3>1. CASE j.status = "paused"
      BY <2>2, <2>6, <2>9, <3>1 DEF Standing
    <3>2. CASE j.status # "paused"
      <4>1. j.pausedFrom # None
        <5>1. Rewriting \subseteq Statuses
          <6>1. "revision_support_scribe" \in Actions /\ "revision_support_verifier" \in Actions
                /\ "rewrite_batch" \in Actions
            BY DEF Actions
          <6>2. {"revision_support_scribe", "revision_support_verifier", "rewriting"}
                  \subseteq Statuses
            BY <6>1, RunningStates
          <6> QED
            BY <6>2, NamedStatuses DEF Rewriting
        <5> QED
          BY <2>9, <5>1, NoneAssumption
      <4>2. IF j.retryAction # None THEN j.pausedFrom = ACTION_RUNNING_STATE[j.retryAction]
            ELSE j.pausedFrom \in {"heavy_auditing", "final_acceptance"}
        BY <2>3, <3>2, <4>1 DEF PauseOk
      <4>3. j.retryAction # None
        BY <2>9, <4>2 DEF Rewriting
      <4>4. j.retryAction \in Actions
        BY <2>3, <4>3 DEF Job
      <4> QED
        BY <2>7, <2>9, <4>2, <4>3, <4>4, RewritingActions
    <3> QED
      BY <3>1, <3>2
  <2>10. j.exhausted => j.rewrites = MAX_AUTOMATIC_REWRITES /\ j.active = None
    <3> SUFFICES ASSUME j.exhausted
                 PROVE  j.rewrites = MAX_AUTOMATIC_REWRITES /\ j.active = None
      OBVIOUS
    <3>1. s = "decision_required" /\ j.rewrites = MAX_AUTOMATIC_REWRITES
      BY <2>3 DEF Sound
    <3>2. ASSUME j.active # None PROVE FALSE
      <4>1. j.active.action \in Actions /\ s = ACTION_RUNNING_STATE[j.active.action]
        BY <2>3, <3>2 DEF Sound, Job, Attempt
      <4> QED
        BY <3>1, <4>1, RunningStates DEF CONTROLLER_STOP_STATES
    <3> QED
      BY <3>1, <3>2
  <2> QED
    BY <2>2, <2>4, <2>7, <2>8, <2>9, <2>10 DEF RewritesEnd
<1> QED
  BY <1>1, InvHolds, PTL

\* As long as no process has died, one worker runs at a time, and it runs
\* the active attempt.
THEOREM WorkersAreSingle == Spec => []OneWorker
<1>1. Inv => OneWorker
  BY LiveFacts DEF OneWorker
<1> QED
  BY <1>1, InvHolds, PTL

\* What a step may do to the sealed batches.
LEMMA SealedStep ==
  ASSUME Inv, [Next]_vars, job'.sealed # job.sealed
  PROVE  Consume
<1>1. ASSUME job' = job PROVE FALSE
  BY <1>1
<1>2. ASSUME Schedule PROVE FALSE
  BY <1>2, ScheduleFacts
<1>3. ASSUME MarkStarted PROVE FALSE
  BY <1>3, MarkFacts
<1>4. ASSUME Pause \/ Resume \/ RetryBlocked PROVE FALSE
  BY <1>4, CommandFacts
<1>5. ASSUME CycleStep PROVE Consume \/ Schedule \/ MarkStarted \/ job' = job
  BY <1>5 DEF CycleStep, FindOrphan, RecoverOrphan, RecoveryConflict, NothingToRecover,
              RefuseLateReceipt, NothingToConsume, EnsureCompletionReceipt,
              EnsureTerminalFeedback, Dispatch, NothingToSchedule, Launch, NothingToLaunch, Raises
<1>6. ASSUME \/ Tick \/ LoopCycle \/ SupersedeFeedback \/ StartLoop \/ LoopEnds
             \/ \E p \in Pids :
                  WorkerBegins(p) \/ WorkerReturns(p) \/ WorkerWrites(p) \/ WorkerDies(p)
             \/ ControllerDies \/ LeaseExpires \/ WaitEnds \/ UNCHANGED vars
      PROVE  job' = job
  BY <1>6 DEF Tick, LoopCycle, StartCycle, SupersedeFeedback, StartLoop, LoopEnds,
              WorkerBegins, WorkerReturns, WorkerWrites, WorkerDies, Others,
              ControllerDies, LeaseExpires, WaitEnds, vars
<1> QED
  BY <1>1, <1>2, <1>3, <1>4, <1>5, <1>6 DEF Next

\* A batch is sealed on evidence about the text it has then.
THEOREM SealsRestOnEvidence == Spec => SealedOnFreshEvidence
<1>1. ASSUME Inv, [Next]_vars, job'.sealed # job.sealed
      PROVE  /\ fresh \cap {"deterministic_check", "deterministic_reaudit"} # {}
             /\ CheckpointOnly(job.batch) \/ "heavy_audit" \in fresh'
             /\ job.rewrites > 0 =>
                  /\ "deterministic_reaudit" \in fresh /\ "heavy_audit" \in fresh'
                  /\ job.reaudit
  <2>1. Consume
    BY <1>1, SealedStep
  <2>2. PICK j, f, a : j = job /\ f = fresh /\ a = job.active.action
    OBVIOUS
  <2>3. /\ receipt.result.outcome = "success" /\ j.kind # "narrative_audit"
        /\ a \in {"continuity_checkpoint", "heavy_audit"} /\ Ready(j, a, f)
        /\ fresh' = FreshFrom(a, receipt.result, f)
    BY <1>1, <2>1, <2>2, ConsumeFacts
  <2>4. fresh' = f \cup {a}
    BY <2>3 DEF FreshFrom, FreshOn
  <2>5. /\ Checked(f) /\ (j.rewrites > 0 => "deterministic_reaudit" \in f /\ j.reaudit)
        /\ (a = "continuity_checkpoint" => CheckpointOnly(j.batch) /\ j.rewrites = 0)
    BY <2>3 DEF Ready
  <2> QED
    BY <2>2, <2>3, <2>4, <2>5 DEF Checked
<1>2. Inv /\ [Next]_vars =>
        [job'.sealed # job.sealed =>
           /\ fresh \cap {"deterministic_check", "deterministic_reaudit"} # {}
           /\ CheckpointOnly(job.batch) \/ "heavy_audit" \in fresh'
           /\ job.rewrites > 0 =>
                /\ "deterministic_reaudit" \in fresh /\ "heavy_audit" \in fresh'
                /\ job.reaudit]_vars
  BY <1>1
<1> QED
  BY <1>2, InvHolds, PTL DEF Spec, SealedOnFreshEvidence

----------------------------------------------------------------------------
(* Reports of terminal statuses. *)

\* A report that stands as sent is one of the present status, unless the
\* holder of the lock is about to replace it or died before it could; and a
\* cycle schedules only for a job that is not terminal and launches only an
\* active attempt.
ReportOk ==
  /\ feedback = "sent" /\ pc # "supersede" => told # "no"
  /\ pc = "schedule" => job.status \notin TERMINAL_STATES
  /\ pc = "launch" => job.active # None

LEMMA ReportInit == Init => ReportOk
BY DEF Init, ReportOk

\* A job with an active attempt has not ended.
LEMMA ActiveNotTerminal ==
  ASSUME Inv, job.active # None
  PROVE  job.status \notin TERMINAL_STATES
<1>1. job \in Job /\ JobOk(job, fresh)
  BY DEF Inv, TypeOK
<1>2. PICK j, f : j = job /\ f = fresh
  OBVIOUS
<1>3. /\ j \in Job /\ Sound(j, Standing(j), f) /\ j.active # None
  BY <1>1, <1>2 DEF JobOk
<1>4. j.active.action \in Actions /\ Standing(j) = ACTION_RUNNING_STATE[j.active.action]
  BY <1>3 DEF Sound, Job, Attempt
<1>5. Standing(j) \notin TERMINAL_STATES
  BY <1>4, RunningStates
<1>6. j.status \in TERMINAL_STATES => Standing(j) = j.status
  BY DEF Standing, TERMINAL_STATES, Completed
<1> QED
  BY <1>2, <1>5, <1>6

\* The end of a cycle frees the lock.
LEMMA OverIsIdle ==
  ASSUME CycleOver(TRUE) \/ CycleOver(FALSE)
  PROVE  pc' = "idle"
BY DEF CycleOver

\* Steps that neither send a report nor take one back, and that leave the
\* cycle or lead to no place that ReportOk speaks of.
LEMMA ReportKept ==
  ASSUME ReportOk, UNCHANGED <<feedback, told>>, pc # "supersede",
         pc' \notin {"schedule", "launch"}
  PROVE  ReportOk'
BY DEF ReportOk

LEMMA ReportStep ==
  ASSUME Inv, ReportOk, [Next]_vars
  PROVE  ReportOk'
<1> USE DEF Outside, Files, Raises, GoesOn
<1>1. CASE Tick \/ LoopCycle \/ FindOrphan \/ RecoverOrphan \/ NothingToRecover
           \/ EnsureCompletionReceipt
  BY <1>1, ReportKept DEF Tick, LoopCycle, StartCycle, FindOrphan, RecoverOrphan,
                          NothingToRecover, EnsureCompletionReceipt
<1>2. CASE RecoveryConflict \/ RefuseLateReceipt \/ NothingToSchedule \/ NothingToLaunch
           \/ MarkStarted
  <2>1. pc' = "idle" /\ pc # "supersede" /\ UNCHANGED <<feedback, told>>
    BY <1>2, OverIsIdle
       DEF RecoveryConflict, RefuseLateReceipt, NothingToSchedule, NothingToLaunch, MarkStarted
  <2> QED
    BY <2>1, ReportKept
<1>3. CASE Consume
  <2>1. /\ UNCHANGED <<feedback, told>> /\ pc # "supersede"
        /\ pc' \in {"completion", "consume", "schedule"}
        /\ pc' = "schedule" => job'.status \notin TERMINAL_STATES
    BY <1>3 DEF Consume
  <2> QED
    BY <2>1 DEF ReportOk
<1>4. CASE NothingToConsume
  <2>1. /\ UNCHANGED <<feedback, told, job>> /\ pc = "consume"
        /\ pc' \in {"completion", "launch", "schedule"}
        /\ pc' = "schedule" => job.status \notin TERMINAL_STATES
        /\ pc' = "launch" => job.active # None
    BY <1>4 DEF NothingToConsume
  <2> QED
    BY <2>1 DEF ReportOk
<1>5. CASE EnsureTerminalFeedback
  <2>1. CASE feedback = "sent"
    <3>1. pc' = "idle" /\ pc = "feedback" /\ UNCHANGED <<feedback, told>>
      BY <1>5, <2>1, OverIsIdle DEF EnsureTerminalFeedback
    <3> QED
      BY <3>1, ReportKept
  <2>2. CASE feedback # "sent"
    BY <1>5, <2>2 DEF EnsureTerminalFeedback, ReportOk
  <2> QED
    BY <2>1, <2>2
<1>6. CASE Dispatch
  <2>1. pc' = "idle" /\ told' = "yes"
    BY <1>6, OverIsIdle DEF Dispatch
  <2> QED
    BY <2>1 DEF ReportOk
<1>7. CASE Schedule
  <2>1. job'.active # None
    BY <1>7, ScheduleFacts, NoneAssumption
  <2>2. pc' = "launch" /\ pc = "schedule" /\ UNCHANGED <<feedback, told>>
    BY <1>7 DEF Schedule
  <2> QED
    BY <2>1, <2>2 DEF ReportOk
<1>8. CASE Launch
  BY <1>8, ReportKept DEF Launch
<1>9. CASE Pause \/ Resume
  BY <1>9, ReportKept DEF Pause, Resume
<1>10. CASE RetryBlocked
  BY <1>10 DEF RetryBlocked, ReportOk
<1>11. CASE SupersedeFeedback
  BY <1>11 DEF SupersedeFeedback, ReportOk
<1>12. CASE ControllerDies
  BY <1>12 DEF ControllerDies, ReportOk
<1>13. ASSUME NEW p \in Pids,
              WorkerBegins(p) \/ WorkerReturns(p) \/ WorkerWrites(p) \/ WorkerDies(p)
       PROVE  ReportOk'
  <2>1. UNCHANGED <<feedback, told, pc, job>>
    BY <1>13 DEF WorkerBegins, WorkerReturns, WorkerWrites, WorkerDies, Others
  <2> QED
    BY <2>1 DEF ReportOk
<1>14. CASE StartLoop \/ LoopEnds \/ LeaseExpires \/ WaitEnds \/ UNCHANGED vars
  <2>1. UNCHANGED <<feedback, told, pc, job>>
    BY <1>14 DEF StartLoop, LoopEnds, LeaseExpires, WaitEnds, vars
  <2> QED
    BY <2>1 DEF ReportOk
<1> QED
  BY <1>1, <1>2, <1>3, <1>4, <1>5, <1>6, <1>7, <1>8, <1>9, <1>10, <1>11, <1>12, <1>13, <1>14
     DEF Next, CycleStep

\* A cycle that ends leaves no terminal status unreported: it ends at the
\* report, with an attempt that is active, or at the scheduling of a job that
\* has not ended.
LEMMA EndIsReported ==
  ASSUME Inv, ReportOk, [Next]_vars,
         pc \in CyclePoints, pc' = "idle", crashes' = crashes,
         job.status \in TERMINAL_STATES
  PROVE  told' # "no"
<1> USE DEF Outside, Files, Raises, GoesOn
<1>1. job.active = None
  BY ActiveNotTerminal
<1>2. pc \notin {"orphaned", "mark", "launch", "schedule"}
  BY <1>1 DEF Inv, PlaceOk, ReportOk
<1>3. pc # "idle" /\ pc # "supersede"
  BY DEF CyclePoints
<1>4. CASE CycleStep
  <2>1. EnsureTerminalFeedback \/ Dispatch
    BY <1>1, <1>2, <1>4
       DEF CycleStep, FindOrphan, RecoverOrphan, RecoveryConflict, NothingToRecover, Consume,
           RefuseLateReceipt, NothingToConsume, EnsureCompletionReceipt, Schedule,
           NothingToSchedule, Launch, MarkStarted, NothingToLaunch
  <2>2. CASE EnsureTerminalFeedback
    <3>1. feedback = "sent" /\ told' = told
      BY <2>2 DEF EnsureTerminalFeedback
    <3> QED
      BY <1>3, <3>1 DEF ReportOk
  <2>3. CASE Dispatch
    BY <2>3 DEF Dispatch
  <2> QED
    BY <2>1, <2>2, <2>3
<1>5. CASE Tick \/ LoopCycle \/ Pause \/ Resume \/ RetryBlocked \/ SupersedeFeedback
  BY <1>3, <1>5 DEF Tick, LoopCycle, StartCycle, Pause, Resume, RetryBlocked, SupersedeFeedback
<1>6. ASSUME NEW p \in Pids,
             WorkerBegins(p) \/ WorkerReturns(p) \/ WorkerWrites(p) \/ WorkerDies(p)
      PROVE  FALSE
  <2>1. pc' = pc
    BY <1>6 DEF WorkerBegins, WorkerReturns, WorkerWrites, WorkerDies, Others
  <2> QED
    BY <1>3, <2>1
<1>7. CASE ControllerDies
  <2>1. crashes \in Nat /\ crashes' = crashes + 1
    BY <1>7 DEF Inv, TypeOK, ControllerDies
  <2> QED
    BY <2>1
<1>8. CASE StartLoop \/ LoopEnds \/ LeaseExpires \/ WaitEnds \/ UNCHANGED vars
  <2>1. pc' = pc
    BY <1>8 DEF StartLoop, LoopEnds, LeaseExpires, WaitEnds, vars
  <2> QED
    BY <1>3, <2>1
<1> QED
  BY <1>4, <1>5, <1>6, <1>7, <1>8 DEF Next

\* No cycle runs to its end and leaves a terminal status unreported, whatever
\* died before it; the exception is a death of retry_blocked_job between its
\* two writes.
THEOREM TerminalIsReported == Spec => TerminalReported
<1>1. Inv /\ ReportOk /\ [Next]_vars => ReportOk'
  BY ReportStep
<1>2. Inv /\ ReportOk /\ [Next]_vars =>
        [/\ pc \in CyclePoints /\ pc' = "idle" /\ crashes' = crashes
         /\ job.status \in TERMINAL_STATES
         => told' # "no"]_vars
  BY EndIsReported
<1> QED
  BY <1>1, <1>2, ReportInit, InvHolds, PTL DEF Spec, TerminalReported

=============================================================================
