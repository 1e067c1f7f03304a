----------------------------- MODULE TaskRuntime -----------------------------
(***************************************************************************)
(* The lifecycle of one Task of agent_runtime/task_runtime_v2/runtime.py:  *)
(* its status, its Jobs and WorkItems, the Attempts that lease WorkItems,  *)
(* the ArtifactVersions they produce, the evidence, selection and          *)
(* disposition of those versions, and the gates of a compiled protocol.    *)
(*                                                                         *)
(* A command loads the event ledger, validates itself against the          *)
(* projection and appends one event while it holds the Task's file lock    *)
(* (_append_event), so a command is one atomic action here.  The exception *)
(* is change_artifact_disposition, which reads the projection before it    *)
(* takes the lock: it is two actions.  The variables are the projection    *)
(* that _project computes from the ledger.  Module TaskLedger models the   *)
(* append path itself: locks, retries, crashes.                            *)
(***************************************************************************)
EXTENDS Naturals, FiniteSets

CONSTANTS
  WorkItems, Attempts, Versions, Gates, Jobs, Instructions,
  Feedback,       \* digests of feedback documents
  Callers,        \* processes inside change_artifact_disposition
  Workers,        \* (worker, provider) identities
  Records,        \* trace record types
  None,           \* absent reference
  TaskRequests,   \* Task statuses that operators ask for
  TaskKind,       \* "tiered", "protocol" (has a protocol_ref) or "legacy"
  Tier,           \* [mode, minDelegated, preWorker, required]: tier policy
  RecordContract, \* [attempts, records] each record type must refer to
  ContractRoles,  \* roles that execution contracts name
  BatchRoles,     \* protocol_role values of generic WorkItem batches
  Nodes,          \* WorkItems of the compiled graph
  Graph,          \* compiled graph: see GraphType
  Types,          \* artifact types
  ArtifactType,   \* artifact type each version is recorded under
  Quotes          \* versions whose retired evidence a feedback text quotes

TaskStatuses == {"created", "ready", "running", "waiting", "blocked",
                 "paused", "completed", "cancelled", "failed"}

TASK_TRANSITIONS ==
  ({"created"} \X {"ready", "paused", "cancelled"})
    \cup ({"ready"} \X {"running", "blocked", "paused", "cancelled"})
    \cup ({"running"} \X {"waiting", "completed", "blocked", "paused",
                          "failed", "cancelled"})
    \cup ({"waiting"} \X {"running", "blocked", "paused", "cancelled"})
    \cup ({"blocked", "paused"} \X {"ready", "running", "cancelled"})
    \cup ({"completed", "failed"} \X {"ready"})

WorkItemStatuses == {"pending", "ready", "running", "waiting_review",
                     "blocked", "accepted", "failed", "cancelled"}

WORK_ITEM_TRANSITIONS ==
  ({"pending"} \X {"cancelled"})
    \cup ({"ready"} \X {"running", "blocked", "cancelled"})
    \cup ({"running"} \X {"waiting_review", "accepted", "failed", "blocked",
                          "cancelled"})
    \cup ({"waiting_review"} \X {"running", "accepted", "failed", "blocked",
                                 "cancelled"})
    \cup ({"blocked"} \X {"ready", "running", "cancelled"})
    \cup ({"accepted"} \X {"ready"})

AttemptStatuses == {"scheduled", "running", "succeeded", "failed", "cancelled"}

ATTEMPT_TRANSITIONS ==
  ({"scheduled"} \X {"running", "cancelled"})
    \cup ({"running"} \X {"succeeded", "failed", "cancelled"})

ACTIVE_ATTEMPT_STATUSES == {"scheduled", "running"}

Dispositions == {"eligible", "rejected_pre_v3", "superseded", "archived"}

ARTIFACT_DISPOSITION_TRANSITIONS ==
  ({"eligible"} \X {"rejected_pre_v3", "superseded", "archived"})
    \cup ({"rejected_pre_v3", "superseded"} \X {"archived"})

\* The role of an execution contract.  "intake" is a Supervisor whose purpose
\* is input_classification; "tool" is a deterministic_tool executor.
Roles == {"intake", "supervisor", "worker", "reviewer", "tool"}
SupervisorRoles == {"intake", "supervisor"}

EvidenceKinds == {"deterministic", "automated", "independent", "human"}
DelegationModes == {"brain_only", "single_worker_identity",
                    "governed_multi_worker"}

\* The kinds of succeeded Attempt a trace_record_contract can ask for.
LinkKinds == {"supervisor", "delegated", "reviewer"}

\* role_bindings, artifact_contracts, promotion_gate_bindings and
\* result_artifact_type of a compiled-task-graph/v3 document.
GraphType == [deps     : [Nodes -> SUBSET Nodes],
              role     : [Nodes -> Roles],
              produces : [Nodes -> SUBSET Types],
              gateNode : [Gates -> Nodes],
              gateKind : [Gates -> EvidenceKinds],
              subjects : [Gates -> SUBSET Types],
              result   : Types]

\* No trace_record_contract of config/task_input_tiers.yml is named
\* evidence_binding: record_trace cannot stand in for bind_evidence.
ASSUME ConstantsAssumption ==
  /\ TaskKind \in {"tiered", "protocol", "legacy"}
  /\ Nodes \subseteq WorkItems
  /\ Graph \in GraphType
  /\ ArtifactType \in [Versions -> Types]
  /\ Quotes \in [Feedback -> SUBSET Versions]
  /\ RecordContract \in [Records -> [attempts : SUBSET LinkKinds,
                                     records : SUBSET Records]]
  /\ TaskRequests \subseteq TaskStatuses
  /\ ContractRoles \subseteq Roles
  /\ BatchRoles \subseteq Roles \cup {None}
  /\ Tier \in [mode : DelegationModes, minDelegated : Nat,
               preWorker : SUBSET Records,
               required : SUBSET (Records \cup {"evidence_binding"})]
  /\ "evidence_binding" \notin Records

ASSUME NoneAssumption ==
  /\ None \notin WorkItems /\ None \notin Attempts /\ None \notin Versions
  /\ None \notin Workers /\ None \notin Roles /\ None \notin Feedback

ASSUME FiniteAssumption == IsFiniteSet(Attempts)

VARIABLES
  taskStatus,     \* task["status"], or "absent" before TASK_CREATED
  admitted,       \* input_classification["admission_ready"]
  compiled,       \* compiled_protocol is bound
  records,        \* trace record types present
  jobs, instructions,
  wiStatus,       \* work_items[w]["status"], or "absent"
  dependsOn,      \* work_items[w]["depends_on"]
  protocolRole,   \* work_items[w]["protocol_role"]
  lease,          \* work_items[w]["active_attempt_id"]
  reopenFeedback, \* feedback digests in work_items[w]["reopen_history"]
  overtaken,      \* history: the Attempts there were when w was last reopened
  attStatus,      \* attempts[a]["status"], or "absent"
  attItem, attRole, attWorker, ordinal,
  validation,     \* attempts[a]["output_validation"]["status"], or "none"
  latest,         \* succeeded Attempt of w with the greatest updated_at
  sealed,         \* artifact versions sealed into the Attempt's receipt
  disposition,    \* artifacts[v]["disposition"], or "absent"
  producer,       \* artifacts[v]["producer_attempt_id"]
  retireFeedback, \* feedback digests in artifacts[v]["disposition_history"]
  evidence,       \* versions with an evidence binding
  selected,       \* selected_artifact_version
  gates,          \* protocol_gates: recorded gate, or NoGate
  calls,          \* disposition commands that have read but not yet locked
  replayable      \* _project accepts every event of the ledger

taskVars == <<taskStatus, admitted, compiled, records, jobs, instructions>>
itemVars == <<wiStatus, dependsOn, protocolRole, lease, reopenFeedback, overtaken>>
attemptVars == <<attStatus, attItem, attRole, attWorker, ordinal, validation,
                 latest, sealed>>
artifactVars == <<disposition, producer, retireFeedback, evidence, selected>>
vars == <<taskVars, itemVars, attemptVars, artifactVars, gates, calls,
          replayable>>

NoGate == [attempt |-> None, subjects |-> {}]
GateRecords == [attempt : Attempts \cup {None}, subjects : SUBSET Versions]

\* What change_artifact_disposition holds between load_task and the lock.
NoCall == [version |-> None, from |-> "absent", to |-> "absent",
           feedback |-> None, reopens |-> FALSE]
CallRecords ==
  {NoCall} \cup [version : Versions, from : Dispositions, to : Dispositions,
                 feedback : Feedback, reopens : BOOLEAN]

TaskType ==
  /\ taskStatus \in TaskStatuses \cup {"absent"}
  /\ admitted \in BOOLEAN /\ compiled \in BOOLEAN
  /\ records \subseteq Records
  /\ jobs \subseteq Jobs /\ instructions \subseteq Instructions

ItemType ==
  /\ wiStatus \in [WorkItems -> WorkItemStatuses \cup {"absent"}]
  /\ dependsOn \in [WorkItems -> SUBSET WorkItems]
  /\ protocolRole \in [WorkItems -> Roles \cup {None}]
  /\ lease \in [WorkItems -> Attempts \cup {None}]
  /\ reopenFeedback \in [WorkItems -> SUBSET Feedback]
  /\ overtaken \in [WorkItems -> SUBSET Attempts]

\* An Attempt has a WorkItem, a role and a worker from the event that
\* schedules it on.
AttemptType ==
  /\ attStatus \in [Attempts -> AttemptStatuses \cup {"absent"}]
  /\ attItem \in [Attempts -> WorkItems \cup {None}]
  /\ attRole \in [Attempts -> Roles \cup {None}]
  /\ attWorker \in [Attempts -> Workers \cup {None}]
  /\ \A a \in Attempts : (attStatus[a] = "absent") <=> (attItem[a] = None)
  /\ ordinal \in [Attempts -> Nat]
  /\ validation \in [Attempts -> {"none", "pass", "fail"}]
  /\ latest \in [WorkItems -> Attempts \cup {None}]
  /\ sealed \in [Attempts -> SUBSET Versions]

VersionType ==
  /\ disposition \in [Versions -> Dispositions \cup {"absent"}]
  /\ producer \in [Versions -> Attempts \cup {None}]
  /\ retireFeedback \in [Versions -> SUBSET Feedback]
  /\ evidence \subseteq Versions
  /\ selected \in Versions \cup {None}

TypeOK ==
  /\ TaskType /\ ItemType /\ AttemptType /\ VersionType
  /\ gates \in [Gates -> GateRecords]
  /\ calls \in [Callers -> CallRecords]
  /\ replayable \in BOOLEAN

\* Nothing has been attempted, produced or judged yet.
NoWork ==
  /\ records = {} /\ jobs = {} /\ instructions = {}
  /\ lease = [w \in WorkItems |-> None]
  /\ reopenFeedback = [w \in WorkItems |-> {}]
  /\ overtaken = [w \in WorkItems |-> {}]
  /\ attStatus = [a \in Attempts |-> "absent"]
  /\ attItem = [a \in Attempts |-> None]
  /\ attRole = [a \in Attempts |-> None]
  /\ attWorker = [a \in Attempts |-> None]
  /\ ordinal = [a \in Attempts |-> 0]
  /\ validation = [a \in Attempts |-> "none"]
  /\ latest = [w \in WorkItems |-> None]
  /\ sealed = [a \in Attempts |-> {}]
  /\ disposition = [v \in Versions |-> "absent"]
  /\ producer = [v \in Versions |-> None]
  /\ retireFeedback = [v \in Versions |-> {}]
  /\ evidence = {}
  /\ selected = None
  /\ gates = [g \in Gates |-> NoGate]
  /\ calls = [c \in Callers |-> NoCall]
  /\ replayable = TRUE

Init ==
  /\ taskStatus = "absent"
  /\ admitted = FALSE /\ compiled = FALSE
  /\ wiStatus = [w \in WorkItems |-> "absent"]
  /\ dependsOn = [w \in WorkItems |-> {}]
  /\ protocolRole = [w \in WorkItems |-> None]
  /\ NoWork

(***************************************************************************)
(* Reading and appending.                                                  *)
(***************************************************************************)
ClosedTask == {"completed", "failed", "cancelled"}

\* _load_events and _project succeed and the Task exists.
Loaded == taskStatus # "absent" /\ replayable

\* The tail of _append_event: the event is in the ledger.  `accepted' is the
\* check that _project makes when it replays the event later; an event that
\* fails it makes every further load raise LedgerIntegrityError.
Appends(accepted) == replayable' = accepted

Exists(w) == wiStatus[w] # "absent"
Recorded(v) == disposition[v] # "absent"

(***************************************************************************)
(* Task commands.                                                          *)
(***************************************************************************)

\* create_task: the declared input profile is complete or not.
CreateTask ==
  /\ taskStatus = "absent" /\ replayable
  /\ taskStatus' = "created"
  /\ admitted' \in BOOLEAN
  /\ Appends(taskStatus = "absent")
  /\ UNCHANGED <<compiled, records, jobs, instructions, itemVars, attemptVars,
                 artifactVars, gates, calls>>

\* bind_compiled_protocol: only the graph the compiler derives is accepted.
BindCompiledProtocol ==
  /\ Loaded
  /\ TaskKind = "protocol" /\ ~compiled
  /\ compiled' = TRUE
  /\ Appends(~compiled)
  /\ UNCHANGED <<taskStatus, admitted, records, jobs, instructions, itemVars,
                 attemptVars, artifactVars, gates, calls>>

\* classify_task_input: the profile comes from a succeeded Supervisor intake.
ClassifyTaskInput(a) ==
  /\ Loaded
  /\ ~admitted
  /\ attStatus[a] = "succeeded" /\ attRole[a] = "intake"
  /\ admitted' = TRUE
  /\ Appends(attStatus[a] = "succeeded" /\ attRole[a] = "intake")
  /\ UNCHANGED <<taskStatus, compiled, records, jobs, instructions, itemVars,
                 attemptVars, artifactVars, gates, calls>>

\* append_instruction
AppendInstruction(i) ==
  /\ Loaded
  /\ taskStatus \notin ClosedTask
  /\ i \notin instructions
  /\ instructions' = instructions \cup {i}
  /\ Appends(i \notin instructions)
  /\ UNCHANGED <<taskStatus, admitted, compiled, records, jobs, itemVars,
                 attemptVars, artifactVars, gates, calls>>

\* create_job: an execution strategy besides the default job-main.
CreateJob(j) ==
  /\ Loaded
  /\ taskStatus \notin ClosedTask
  /\ j \notin jobs
  /\ jobs' = jobs \cup {j}
  /\ Appends(j \notin jobs)
  /\ UNCHANGED <<taskStatus, admitted, compiled, records, instructions,
                 itemVars, attemptVars, artifactVars, gates, calls>>

LinkFits(a, kind) ==
  /\ attStatus[a] = "succeeded"
  /\ kind = "supervisor" => attRole[a] \in SupervisorRoles
  /\ kind = "delegated" => attRole[a] \notin SupervisorRoles
  /\ kind = "reviewer" => attRole[a] = "reviewer"

\* record_trace and _validate_trace_record: the record's contract names the
\* succeeded Attempts and the earlier records it must refer to.
RecordTrace(r) ==
  /\ Loaded
  /\ r \notin records
  /\ \A kind \in RecordContract[r].attempts : \E a \in Attempts : LinkFits(a, kind)
  /\ RecordContract[r].records \subseteq records
  /\ records' = records \cup {r}
  /\ Appends(r \notin records)
  /\ UNCHANGED <<taskStatus, admitted, compiled, jobs, instructions, itemVars,
                 attemptVars, artifactVars, gates, calls>>

(***************************************************************************)
(* WorkItem commands.                                                      *)
(***************************************************************************)

\* Mutants of InitialStatus: a Task status; dependencies ignored.
InitialStatusOfTask(D) ==
  IF \A d \in D : wiStatus[d] = "accepted" THEN "ready" ELSE "waiting"
InitialStatusAlwaysReady(D) == "ready"

\* A new WorkItem is ready when every dependency is accepted already.
InitialStatus(D) ==
  IF \A d \in D : wiStatus[d] = "accepted" THEN "ready" ELSE "pending"

\* Mutant of AcceptsGenericItems: a compiled graph can be added to.
AcceptsItemsAnyway == taskStatus \notin ClosedTask

AcceptsGenericItems == ~compiled /\ taskStatus \notin ClosedTask

\* create_work_item, and create_work_items without a compiled protocol, whose
\* batch has the effect of creating its items one after the other.
CreateWorkItem(w, D, role) ==
  /\ Loaded
  /\ AcceptsGenericItems
  /\ ~Exists(w)
  /\ \A d \in D : Exists(d)
  /\ wiStatus' = [wiStatus EXCEPT ![w] = InitialStatus(D)]
  /\ dependsOn' = [dependsOn EXCEPT ![w] = D]
  /\ protocolRole' = [protocolRole EXCEPT ![w] = role]
  /\ Appends(~compiled /\ ~Exists(w) /\ \A d \in D : Exists(d))
  /\ UNCHANGED <<taskVars, lease, reopenFeedback, overtaken, attemptVars,
                 artifactVars, gates, calls>>

\* create_work_items with the materialization token of the compiled graph.
MaterializeGraph ==
  /\ Loaded
  /\ compiled
  /\ \A w \in WorkItems : ~Exists(w)
  /\ taskStatus \notin ClosedTask
  /\ wiStatus' = [w \in WorkItems |->
                    IF w \notin Nodes THEN "absent"
                    ELSE IF Graph.deps[w] = {} THEN "ready" ELSE "pending"]
  /\ dependsOn' = [w \in WorkItems |->
                     IF w \in Nodes THEN Graph.deps[w] ELSE {}]
  /\ protocolRole' = [w \in WorkItems |->
                        IF w \in Nodes THEN Graph.role[w] ELSE None]
  /\ Appends(compiled /\ \A w \in WorkItems : ~Exists(w))
  /\ UNCHANGED <<taskVars, lease, reopenFeedback, overtaken, attemptVars,
                 artifactVars, gates, calls>>

\* Mutant of Unlock: nothing is unlocked.
UnlockNothing(status) == status

\* After every WorkItem event _project unlocks the pending items whose
\* dependencies are all accepted.
Unlock(status) ==
  [w \in WorkItems |->
     IF status[w] = "pending" /\ \A d \in dependsOn[w] : status[d] = "accepted"
     THEN "ready" ELSE status[w]]

\* Mutant of LeaseReleased: cancelling ignores the lease.
LeaseReleasedUnlessCancelled(w, s) == s \in {"accepted", "failed"} => lease[w] = None

\* A terminal WorkItem status requires that no Attempt holds the lease.
LeaseReleased(w, s) == s \in {"accepted", "failed", "cancelled"} => lease[w] = None

WorkItemEvent(w, s) ==
  /\ wiStatus' = Unlock([wiStatus EXCEPT ![w] = s])
  /\ Appends(<<wiStatus[w], s>> \in WORK_ITEM_TRANSITIONS)

\* transition_work_item, other than accepting or reopening.
MoveWorkItem(w, s) ==
  /\ Loaded
  /\ <<wiStatus[w], s>> \in WORK_ITEM_TRANSITIONS
  /\ s # "accepted" /\ wiStatus[w] # "accepted"
  /\ LeaseReleased(w, s)
  /\ WorkItemEvent(w, s)
  /\ UNCHANGED <<taskVars, dependsOn, protocolRole, lease, reopenFeedback,
                 overtaken, attemptVars, artifactVars, gates, calls>>

ValidatedAttempts(w) ==
  {a \in Attempts : attItem[a] = w /\ attStatus[a] = "succeeded"
                                   /\ validation[a] = "pass"}

GatesOf(w) == {g \in Gates : Graph.gateNode[g] = w}

\* a delivered every artifact type the compiled graph wants of w.
Delivers(a, w) ==
  w \in Nodes => \A t \in Graph.produces[w] :
                   \E v \in Versions : producer[v] = a /\ ArtifactType[v] = t

\* _validate_protocol_work_item_acceptance
ProtocolAcceptance(w) ==
  compiled =>
    /\ ValidatedAttempts(w) # {}
    /\ \A g \in GatesOf(w) : gates[g] # NoGate
    /\ \E a \in ValidatedAttempts(w) :
         /\ \A g \in GatesOf(w) : gates[g].attempt = a
         /\ Delivers(a, w)

\* transition_work_item to "accepted"
AcceptWorkItem(w) ==
  /\ Loaded
  /\ <<wiStatus[w], "accepted">> \in WORK_ITEM_TRANSITIONS
  /\ ProtocolAcceptance(w)
  /\ LeaseReleased(w, "accepted")
  /\ WorkItemEvent(w, "accepted")
  /\ UNCHANGED <<taskVars, dependsOn, protocolRole, lease, reopenFeedback,
                 overtaken, attemptVars, artifactVars, gates, calls>>

\* The items that depend on w, directly or not: the least set that holds every
\* item with a dependency in it or on w.
Descendants(w) ==
  {d \in WorkItems :
     \A S \in SUBSET WorkItems :
       (\A x \in WorkItems : dependsOn[x] \cap (S \cup {w}) # {} => x \in S)
         => d \in S}

HasGate(w) == \E g \in Gates : gates[g] # NoGate /\ Graph.gateNode[g] = w

\* Mutant of HasEligibleArtifact: only the selected version counts.
HasSelectedArtifact(w) ==
  selected # None /\ attItem[producer[selected]] = w

HasEligibleArtifact(w) ==
  \E v \in Versions : disposition[v] = "eligible" /\ attItem[producer[v]] = w

\* Feedback f accounts for the results the descendant d already has, so that
\* its ancestor w may be reopened under them.
FeedbackBinds(w, d, f) ==
  LET results == {v \in Versions : Recorded(v) /\ producer[v] = latest[d]}
      retired == {v \in results : disposition[v] # "eligible"}
  IN  \/ f \in reopenFeedback[d]
      \/ \E v \in retired : f \in retireFeedback[v]
      \/ /\ reopenFeedback[w] # {}
         /\ results # {} /\ results = retired
         /\ \E v \in results : v \in Quotes[f]

\* transition_work_item from "accepted" back to "ready"
ReopenWorkItem(w, f) ==
  /\ Loaded
  /\ wiStatus[w] = "accepted"
  /\ compiled
  /\ ~HasGate(w) /\ ~HasEligibleArtifact(w)
  /\ \A d \in Descendants(w) :
       /\ wiStatus[d] \in {"pending", "blocked"}
       /\ ~HasGate(d) /\ ~HasEligibleArtifact(d)
       /\ latest[d] # None => FeedbackBinds(w, d, f)
  /\ WorkItemEvent(w, "ready")
  /\ reopenFeedback' = [reopenFeedback EXCEPT ![w] = @ \cup {f}]
  /\ overtaken' = [overtaken EXCEPT ![w] = {a \in Attempts : attStatus[a] # "absent"}]
  /\ UNCHANGED <<taskVars, dependsOn, protocolRole, lease, attemptVars, artifactVars, gates,
                 calls>>
(***************************************************************************)
(* Attempt commands.                                                       *)
(***************************************************************************)
Delegated(role) == role \in {"worker", "reviewer"}

\* Identities the single-worker tiers count: every Attempt whose role is not
\* Supervisor, the deterministic-tool Attempts included.
DelegatedWorkers ==
  {attWorker[a] : a \in {b \in Attempts : /\ attStatus[b] # "absent"
                                         /\ attRole[b] \notin SupervisorRoles}}

\* Mutant of TierAdmits: a reviewer is not held to the plan.
TierAdmitsReviewerEarly(role, worker) ==
  TaskKind # "legacy" =>
    /\ admitted \/ role = "intake"
    /\ Tier.mode = "brain_only" => ~Delegated(role)
    /\ role = "worker" /\ ~compiled => Tier.preWorker \subseteq records

\* The admission checks of schedule_attempt for a Task with a tier.
TierAdmits(role, worker) ==
  TaskKind # "legacy" =>
    /\ admitted \/ role = "intake"
    /\ Tier.mode = "brain_only" => ~Delegated(role)
    /\ (/\ Tier.mode = "single_worker_identity" /\ Delegated(role)
        /\ DelegatedWorkers # {}) => worker \in DelegatedWorkers
    /\ Delegated(role) /\ ~compiled => Tier.preWorker \subseteq records

\* Artifact versions RoleAttemptExecutor may seal into an Attempt on w: the
\* subjects of w's gates and the outputs of succeeded predecessor Attempts.
SealableSources(w) ==
  {v \in Versions :
     /\ compiled /\ Recorded(v)
     /\ \/ \E g \in GatesOf(w) : ArtifactType[v] \in Graph.subjects[g]
        \/ /\ attItem[producer[v]] \in dependsOn[w]
           /\ attStatus[producer[v]] = "succeeded"}

AttemptsOn(w) == {a \in Attempts : attItem[a] = w}

NextOrdinal(w) == 1 + Cardinality(AttemptsOn(w))

\* schedule_attempt: lease w to a new Attempt.
ScheduleAttempt(w, a, role, worker) ==
  /\ Loaded
  /\ Exists(w)
  /\ compiled => role = protocolRole[w]
  /\ attStatus[a] = "absent"
  /\ taskStatus \notin ClosedTask \cup {"paused"}
  /\ wiStatus[w] \in {"ready", "running", "waiting_review", "blocked"}
  /\ TierAdmits(role, worker)
  /\ lease[w] = None
  /\ attStatus' = [attStatus EXCEPT ![a] = "scheduled"]
  /\ attItem' = [attItem EXCEPT ![a] = w]
  /\ attRole' = [attRole EXCEPT ![a] = role]
  /\ attWorker' = [attWorker EXCEPT ![a] = worker]
  /\ ordinal' = [ordinal EXCEPT ![a] = NextOrdinal(w)]
  /\ sealed' = [sealed EXCEPT ![a] = SealableSources(w)]
  /\ lease' = [lease EXCEPT ![w] = a]
  /\ Appends(attStatus[a] = "absent" /\ Exists(w) /\ lease[w] = None)
  /\ UNCHANGED <<taskVars, wiStatus, dependsOn, protocolRole, reopenFeedback,
                 overtaken, validation, latest, artifactVars, gates, calls>>

\* Mutant of LeaseAfter: a cancelled Attempt keeps its lease.
LeaseAfterFinish(a, s) ==
  IF s \in {"succeeded", "failed"} THEN [lease EXCEPT ![attItem[a]] = None]
  ELSE lease

\* The leases once Attempt a has status s.
LeaseAfter(a, s) ==
  IF s \in ACTIVE_ATTEMPT_STATUSES THEN lease
  ELSE [lease EXCEPT ![attItem[a]] = None]

\* transition_attempt and the executors' private success paths.  A terminal
\* status releases the lease of the WorkItem.
TransitionAttempt(a, s) ==
  /\ Loaded
  /\ <<attStatus[a], s>> \in ATTEMPT_TRANSITIONS
  /\ attStatus' = [attStatus EXCEPT ![a] = s]
  /\ lease' = LeaseAfter(a, s)
  /\ latest' = IF s = "succeeded" THEN [latest EXCEPT ![attItem[a]] = a]
               ELSE latest
  /\ Appends(<<attStatus[a], s>> \in ATTEMPT_TRANSITIONS)
  /\ UNCHANGED <<taskVars, wiStatus, dependsOn, protocolRole, reopenFeedback,
                 overtaken, attItem, attRole, attWorker, ordinal, validation,
                 sealed, artifactVars, gates, calls>>

\* record_attempt_output_validation
ValidateOutput(a, verdict) ==
  /\ Loaded
  /\ attStatus[a] = "succeeded"
  /\ validation[a] = "none"
  /\ validation' = [validation EXCEPT ![a] = verdict]
  /\ latest' = [latest EXCEPT ![attItem[a]] = a]
  /\ Appends(attStatus[a] = "succeeded" /\ validation[a] = "none")
  /\ UNCHANGED <<taskVars, itemVars, attStatus, attItem, attRole, attWorker,
                 ordinal, sealed, artifactVars, gates, calls>>

(***************************************************************************)
(* Artifact commands.                                                      *)
(***************************************************************************)

\* record_artifact_version
RecordArtifact(v, a) ==
  /\ Loaded
  /\ attStatus[a] = "succeeded"
  /\ compiled => validation[a] = "pass"
  /\ ~Recorded(v)
  /\ disposition' = [disposition EXCEPT ![v] = "eligible"]
  /\ producer' = [producer EXCEPT ![v] = a]
  /\ Appends(~Recorded(v) /\ attStatus[a] = "succeeded")
  /\ UNCHANGED <<taskVars, itemVars, attemptVars, retireFeedback, evidence,
                 selected, gates, calls>>

\* bind_evidence
BindEvidence(v) ==
  /\ Loaded
  /\ Recorded(v)
  /\ v \notin evidence
  /\ evidence' = evidence \cup {v}
  /\ Appends(Recorded(v))
  /\ UNCHANGED <<taskVars, itemVars, attemptVars, disposition, producer,
                 retireFeedback, selected, gates, calls>>

\* select_artifact_version
SelectVersion(v) ==
  /\ Loaded
  /\ disposition[v] = "eligible"
  /\ v \in evidence
  /\ selected' = v
  /\ Appends(disposition[v] = "eligible" /\ v \in evidence)
  /\ UNCHANGED <<taskVars, itemVars, attemptVars, disposition, producer,
                 retireFeedback, evidence, gates, calls>>

\* change_artifact_disposition up to _append_event: what load_task showed.  A
\* request that leaves the disposition as it is returns or raises at once.
BeginDisposition(c, v, d, f) ==
  /\ Loaded
  /\ calls[c] = NoCall
  /\ Recorded(v)
  /\ <<disposition[v], d>> \in ARTIFACT_DISPOSITION_TRANSITIONS
  /\ calls' = [calls EXCEPT ![c] =
                 [version |-> v, from |-> disposition[v], to |-> d,
                  feedback |-> f,
                  reopens |-> taskStatus = "completed" /\ selected = v]]
  /\ UNCHANGED <<taskVars, itemVars, attemptVars, artifactVars, gates,
                 replayable>>

\* Mutant of DispositionValid: the validate callback is not passed.
DispositionUnchecked(call) == TRUE

\* The validate callback of change_artifact_disposition, under the lock.
DispositionValid(call) ==
  /\ disposition[call.version] = call.from
  /\ <<call.from, call.to>> \in ARTIFACT_DISPOSITION_TRANSITIONS
  /\ call.reopens => taskStatus = "completed" /\ selected = call.version

\* Mutant of SelectionWithout: the selection is kept.
SelectionKept(v) == selected

\* Retiring the selected version clears the selection.
SelectionWithout(v) == IF selected = v THEN None ELSE selected

CommitDisposition(c) ==
  LET call == calls[c] IN
  /\ Loaded
  /\ call # NoCall
  /\ DispositionValid(call)
  /\ disposition' = [disposition EXCEPT ![call.version] = call.to]
  /\ retireFeedback' = [retireFeedback EXCEPT ![call.version] =
                          @ \cup {call.feedback}]
  /\ selected' = SelectionWithout(call.version)
  /\ taskStatus' = IF call.reopens THEN "ready" ELSE taskStatus
  /\ calls' = [calls EXCEPT ![c] = NoCall]
  /\ Appends(/\ disposition[call.version] = call.from
             /\ <<call.from, call.to>> \in ARTIFACT_DISPOSITION_TRANSITIONS
             /\ call.reopens => taskStatus = "completed")
  /\ UNCHANGED <<admitted, compiled, records, jobs, instructions, itemVars,
                 attemptVars, producer, evidence, gates>>

RejectDisposition(c) ==
  /\ Loaded
  /\ calls[c] # NoCall
  /\ ~DispositionValid(calls[c])
  /\ calls' = [calls EXCEPT ![c] = NoCall]
  /\ UNCHANGED <<taskVars, itemVars, attemptVars, artifactVars, gates,
                 replayable>>

(***************************************************************************)
(* Gates of a compiled protocol.                                           *)
(***************************************************************************)

\* The subjects S are one version of each type the gate is bound to, produced
\* by the evaluating Attempt a or sealed into its receipt.
SubjectsBound(g, a, S) ==
  /\ S # {} /\ \A v \in S : Recorded(v)
  /\ \A u, v \in S : ArtifactType[u] = ArtifactType[v] => u = v
  /\ {ArtifactType[v] : v \in S} = Graph.subjects[g]
  /\ \A v \in S : producer[v] = a \/ v \in sealed[a]

\* Mutant of EvidenceFits: a worker may review its own version.
EvidenceFitsSelfReview(g, a, S) ==
  /\ Graph.gateKind[g] = "deterministic" => attRole[a] = "tool"
  /\ Graph.gateKind[g] = "independent" => attRole[a] = "reviewer"

\* What each evidence kind asks of the evaluating Attempt.
EvidenceFits(g, a, S) ==
  /\ Graph.gateKind[g] = "deterministic" => attRole[a] = "tool"
  /\ Graph.gateKind[g] = "independent" =>
       /\ attRole[a] = "reviewer"
       /\ \A v \in S : attWorker[producer[v]] # attWorker[a]

\* record_protocol_gate
RecordGate(g, a, S) ==
  /\ Loaded
  /\ compiled
  /\ Exists(Graph.gateNode[g])
  /\ attItem[a] = Graph.gateNode[g] /\ attStatus[a] = "succeeded"
  /\ validation[a] = "pass"
  /\ SubjectsBound(g, a, S)
  /\ EvidenceFits(g, a, S)
  /\ gates[g] = NoGate
  /\ gates' = [gates EXCEPT ![g] = [attempt |-> a, subjects |-> S]]
  /\ Appends(/\ gates[g] = NoGate /\ compiled
             /\ attItem[a] = Graph.gateNode[g] /\ attStatus[a] = "succeeded"
             /\ SubjectsBound(g, a, S) /\ EvidenceFits(g, a, S))
  /\ UNCHANGED <<taskVars, itemVars, attemptVars, artifactVars, calls>>

\* revoke_protocol_gate
RevokeGate(g) ==
  /\ Loaded
  /\ gates[g] # NoGate
  /\ Graph.gateKind[g] # "human"
  /\ gates' = [gates EXCEPT ![g] = NoGate]
  /\ Appends(gates[g] # NoGate /\ Graph.gateKind[g] # "human")
  /\ UNCHANGED <<taskVars, itemVars, attemptVars, artifactVars, calls>>

(***************************************************************************)
(* Task status.                                                            *)
(***************************************************************************)

\* transition_task to a status other than "completed"
TransitionTask(s) ==
  /\ Loaded
  /\ <<taskStatus, s>> \in TASK_TRANSITIONS
  /\ s # "completed"
  /\ taskStatus' = s
  /\ Appends(<<taskStatus, s>> \in TASK_TRANSITIONS)
  /\ UNCHANGED <<admitted, compiled, records, jobs, instructions, itemVars,
                 attemptVars, artifactVars, gates, calls>>

\* Mutant of Finished: a blocked WorkItem does not hold completion up.
FinishedOrBlocked(w) == wiStatus[w] \in {"accepted", "cancelled", "blocked"}

Finished(w) == wiStatus[w] \in {"accepted", "cancelled"}

\* _validate_protocol_completion
ProtocolCompletion ==
  /\ {w \in WorkItems : Exists(w)} = Nodes
  /\ \A w \in Nodes : wiStatus[w] = "accepted" /\ ProtocolAcceptance(w)
  /\ selected # None /\ ArtifactType[selected] = Graph.result
  /\ LET resultGates == {g \in Gates : Graph.result \in Graph.subjects[g]}
     IN  /\ resultGates # {}
         /\ \A g \in resultGates : selected \in gates[g].subjects

\* Mutant of AvailableRecords: the declared record types count, recorded or not.
AvailableRecordsDeclared == Records \cup {"evidence_binding"}

AvailableRecords ==
  records \cup (IF evidence # {} THEN {"evidence_binding"} ELSE {})

\* The tier's records, gate evidence and delegated Attempts.
TierCompletion ==
  /\ admitted
  /\ Tier.required \subseteq AvailableRecords
  /\ Tier.minDelegated <=
       Cardinality({a \in Attempts : /\ attStatus[a] = "succeeded"
                                     /\ attRole[a] \notin SupervisorRoles})

\* transition_task to "completed"
CompleteTask ==
  /\ Loaded
  /\ <<taskStatus, "completed">> \in TASK_TRANSITIONS
  /\ \A w \in WorkItems : Exists(w) => Finished(w)
  /\ (\E v \in Versions : Recorded(v)) => selected # None
  /\ compiled => admitted /\ ProtocolCompletion
  /\ ~compiled /\ TaskKind # "legacy" => TierCompletion
  /\ taskStatus' = "completed"
  /\ Appends(<<taskStatus, "completed">> \in TASK_TRANSITIONS)
  /\ UNCHANGED <<admitted, compiled, records, jobs, instructions, itemVars,
                 attemptVars, artifactVars, gates, calls>>

(***************************************************************************)
(* The specification.  Every command is issued from outside, by an         *)
(* operator or a driver program, in any order: no fairness is assumed.     *)
(***************************************************************************)
TaskCommand ==
  \/ CreateTask \/ BindCompiledProtocol \/ CompleteTask
  \/ \E s \in TaskRequests : TransitionTask(s)
  \/ \E a \in Attempts : ClassifyTaskInput(a)
  \/ \E i \in Instructions : AppendInstruction(i)
  \/ \E j \in Jobs : CreateJob(j)
  \/ \E r \in Records : RecordTrace(r)

WorkItemCommand ==
  \/ MaterializeGraph
  \/ \E w \in WorkItems :
       \/ \E D \in SUBSET WorkItems, role \in BatchRoles :
            CreateWorkItem(w, D, role)
       \/ \E s \in WorkItemStatuses : MoveWorkItem(w, s)
       \/ AcceptWorkItem(w)
       \/ \E f \in Feedback : ReopenWorkItem(w, f)

AttemptCommand ==
  \E a \in Attempts :
    \/ \E w \in WorkItems, role \in ContractRoles, worker \in Workers :
         ScheduleAttempt(w, a, role, worker)
    \/ \E s \in AttemptStatuses : TransitionAttempt(a, s)
    \/ \E verdict \in {"pass", "fail"} : ValidateOutput(a, verdict)

ArtifactCommand ==
  \/ \E v \in Versions :
       \/ \E a \in Attempts : RecordArtifact(v, a)
       \/ BindEvidence(v)
       \/ SelectVersion(v)
  \/ \E c \in Callers :
       \/ \E v \in Versions, d \in Dispositions, f \in Feedback :
            BeginDisposition(c, v, d, f)
       \/ CommitDisposition(c)
       \/ RejectDisposition(c)

GateCommand ==
  \E g \in Gates :
    \/ \E a \in Attempts, S \in SUBSET Versions : RecordGate(g, a, S)
    \/ RevokeGate(g)

Next == \/ TaskCommand \/ WorkItemCommand \/ AttemptCommand
        \/ ArtifactCommand \/ GateCommand

Spec == Init /\ [][Next]_vars

(***************************************************************************)
(* Properties.                                                             *)
(***************************************************************************)

\* "Each WorkItem may have only one scheduled or running Attempt at a time":
\* active_attempt_id of a WorkItem names the active Attempt on it, whenever
\* there is one, and nothing otherwise, so a crashed or cancelled Attempt
\* neither keeps the lease for ever nor loses it while it runs.
LeaseIntegrity ==
  \A w \in WorkItems :
    /\ lease[w] # None => /\ attItem[lease[w]] = w
                          /\ attStatus[lease[w]] \in ACTIVE_ATTEMPT_STATUSES
    /\ \A a \in Attempts :
         attItem[a] = w /\ attStatus[a] \in ACTIVE_ATTEMPT_STATUSES => lease[w] = a

\* Nobody works on a WorkItem that has not begun or is settled: schedule_attempt
\* and transition_work_item look at the status and the lease from either side.
SettledHoldsNoLease ==
  \A w \in WorkItems :
    wiStatus[w] \in {"absent", "pending", "accepted", "failed", "cancelled"} =>
      lease[w] = None

\* No Attempt is active in a completed Task, and outside compiled protocols no
\* WorkItem is left unfinished in one, whatever commands follow completion.
CompletedIsQuiet ==
  taskStatus = "completed" =>
    /\ \A a \in Attempts : attStatus[a] \notin ACTIVE_ATTEMPT_STATUSES
    /\ ~compiled => \A w \in WorkItems :
                      wiStatus[w] \in {"absent", "accepted", "cancelled"}

\* The selected version is one that select_artifact_version would still
\* select: never retired, evidenced, and made by an Attempt that succeeded.
SelectionSound ==
  selected # None =>
    /\ disposition[selected] = "eligible" /\ selected \in evidence
    /\ producer[selected] \in Attempts
    /\ attStatus[producer[selected]] = "succeeded"

\* A pending WorkItem waits for something: the event that accepts its last
\* dependency also unlocks it, so no WorkItem is forgotten.
NoLostWakeup ==
  \A w \in WorkItems :
    wiStatus[w] = "pending" => \E d \in dependsOn[w] : wiStatus[d] # "accepted"

\* Outside compiled protocols, where nothing is reopened, work on a WorkItem
\* begins only once its dependencies are accepted, and they stay accepted.
DependencyOrder ==
  ~compiled =>
    \A w \in WorkItems :
      wiStatus[w] \notin {"absent", "pending", "cancelled"} =>
        \A d \in dependsOn[w] : wiStatus[d] = "accepted"

\* No command appends an event that _project refuses: its validate callback
\* is never weaker than the reducer, whatever was appended between the read a
\* command was prepared from and its turn at the lock.
LedgerReplays == replayable

\* The tier's plan comes first: no Worker or Reviewer Attempt exists before
\* the input is classified and the pre_worker_records are on record.
WorkersFollowPlan ==
  TaskKind = "tiered" =>
    \A a \in Attempts :
      attStatus[a] # "absent" /\ Delegated(attRole[a]) =>
        admitted /\ Tier.preWorker \subseteq records

\* A completed Task of a tier has what the tier asks for, and no later command
\* takes it away: classification, records, evidence and delegated successes.
CompletedHasEvidence ==
  TaskKind = "tiered" /\ taskStatus = "completed" =>
    /\ admitted
    /\ Tier.required \ {"evidence_binding"} \subseteq records
    /\ "evidence_binding" \in Tier.required => evidence # {}
    /\ \E D \in SUBSET {a \in Attempts : attStatus[a] = "succeeded"} :
         /\ Cardinality(D) = Tier.minDelegated
         /\ \A a \in D : attRole[a] \notin SupervisorRoles

\* "generic WorkItem creation cannot mutate a compiled protocol graph": once
\* the protocol is bound and a WorkItem exists, the WorkItems, their
\* dependencies and their roles stay as they are.
CompiledGraphFixed ==
  [][compiled /\ (\E w \in WorkItems : Exists(w)) =>
       /\ \A w \in WorkItems : Exists(w) <=> wiStatus'[w] # "absent"
       /\ UNCHANGED <<dependsOn, protocolRole>>]_vars

\* A compiled Task is completed only with a result that passed its independent
\* gates: judged by a succeeded reviewer other than the result's producer.
IndependentlyReviewed ==
  [][taskStatus # "completed" /\ taskStatus' = "completed" /\ compiled =>
       \A g \in Gates :
         /\ Graph.gateKind[g] = "independent"
         /\ Graph.result \in Graph.subjects[g]
         => LET reviewer == gates[g].attempt IN
            /\ reviewer \in Attempts /\ attStatus[reviewer] = "succeeded"
            /\ attRole[reviewer] = "reviewer"
            /\ attWorker[reviewer] # attWorker[producer[selected]]]_vars

\* A result that was reopened is reviewed afresh.  transition_work_item reopens
\* a WorkItem under blocked descendants whatever their Attempts are doing; an
\* Attempt that was there at the time, a review still running included, never
\* judges the result that the Task is then completed with.
ReviewedAfresh ==
  [][taskStatus # "completed" /\ taskStatus' = "completed" /\ compiled =>
       \A g \in Gates :
         /\ Graph.gateKind[g] = "independent"
         /\ Graph.result \in Graph.subjects[g]
         => gates[g].attempt \notin overtaken[attItem[producer[selected]]]]_vars

\* A completed Task keeps a result: retiring its selected version reopens it.
\* Stated by tests/test_task_runtime_v2.py for change_artifact_disposition.
CompletedKeepsResult ==
  [][taskStatus = "completed" /\ selected # None /\ taskStatus' = "completed"
       => selected' # None]_vars

=============================================================================
