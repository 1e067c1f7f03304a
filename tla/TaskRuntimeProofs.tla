-------------------------- MODULE TaskRuntimeProofs --------------------------
(***************************************************************************)
(* Theorems about TaskRuntime, for every number of WorkItems, Attempts,    *)
(* versions, callers and commands.                                         *)
(***************************************************************************)
EXTENDS TaskRuntime, FiniteSetTheorems, TLAPS

\* The number of Attempts on a WorkItem is a natural number.
LEMMA OrdinalIsNat ==
  ASSUME NEW w
  PROVE  NextOrdinal(w) \in Nat
<1>1. IsFiniteSet(AttemptsOn(w))
  BY FiniteAssumption, FS_Subset DEF AttemptsOn
<1>2. Cardinality(AttemptsOn(w)) \in Nat
  BY <1>1, FS_CardinalityType
<1> QED
  BY <1>2 DEF NextOrdinal

\* What no command on Attempts touches.
LEMMA AttemptFrame ==
  ASSUME AttemptCommand
  PROVE  /\ UNCHANGED taskVars /\ UNCHANGED artifactVars
         /\ UNCHANGED <<wiStatus, dependsOn>>
<1> DEFINE Frame == /\ UNCHANGED taskVars /\ UNCHANGED artifactVars
                    /\ UNCHANGED <<wiStatus, dependsOn>>
<1>1. ASSUME NEW a, NEW w, NEW role, NEW worker, ScheduleAttempt(w, a, role, worker)
      PROVE  Frame
  BY <1>1 DEF ScheduleAttempt
<1>2. ASSUME NEW a, NEW s, TransitionAttempt(a, s)
      PROVE  Frame
  BY <1>2 DEF TransitionAttempt
<1>3. ASSUME NEW a, NEW verdict, ValidateOutput(a, verdict)
      PROVE  Frame
  BY <1>3 DEF ValidateOutput, itemVars
<1> HIDE DEF Frame
<1>4. Frame
  BY <1>1, <1>2, <1>3 DEF AttemptCommand
<1> QED
  BY <1>4 DEF Frame

\* The initial state is well typed.
LEMMA TypeInit == Init => TypeOK
<1> SUFFICES ASSUME Init PROVE TypeOK
  OBVIOUS
<1>1. TaskType
  BY DEF Init, NoWork, TaskType
<1>2. ItemType
  BY DEF Init, NoWork, ItemType
<1>3. AttemptType
  BY DEF Init, NoWork, AttemptType
<1>4. VersionType
  BY DEF Init, NoWork, VersionType
<1>5. gates \in [Gates -> GateRecords]
  BY DEF Init, NoWork, NoGate, GateRecords
<1>6. calls \in [Callers -> CallRecords]
  BY DEF Init, NoWork, NoCall, CallRecords
<1> QED
  BY <1>1, <1>2, <1>3, <1>4, <1>5, <1>6 DEF TypeOK, Init, NoWork

\* Variables that do not change keep their types.
LEMMA TypeFrames ==
  ASSUME TypeOK
  PROVE  /\ UNCHANGED taskVars => TaskType'
         /\ UNCHANGED itemVars => ItemType'
         /\ UNCHANGED attemptVars => AttemptType'
         /\ UNCHANGED artifactVars => VersionType'
<1>1. UNCHANGED taskVars => TaskType'
  BY DEF TypeOK, TaskType, taskVars
<1>2. UNCHANGED itemVars => ItemType'
  BY DEF TypeOK, ItemType, itemVars
<1>3. UNCHANGED attemptVars => AttemptType'
  BY DEF TypeOK, AttemptType, attemptVars
<1>4. UNCHANGED artifactVars => VersionType'
  BY DEF TypeOK, VersionType, artifactVars
<1> QED
  BY <1>1, <1>2, <1>3, <1>4

LEMMA TypeTask ==
  ASSUME TypeOK, TaskCommand
  PROVE  TypeOK'
<1> USE DEF Appends
<1>1. CASE CreateTask
  BY <1>1, TypeFrames DEF CreateTask, TypeOK, TaskType, TaskStatuses
<1>2. CASE BindCompiledProtocol
  BY <1>2, TypeFrames DEF BindCompiledProtocol, TypeOK, TaskType
<1>3. CASE CompleteTask
  BY <1>3, TypeFrames DEF CompleteTask, TypeOK, TaskType, TaskStatuses
<1>4. ASSUME NEW s \in TaskRequests, TransitionTask(s)
      PROVE  TypeOK'
  BY <1>4, ConstantsAssumption, TypeFrames DEF TransitionTask, TypeOK, TaskType
<1>5. ASSUME NEW a \in Attempts, ClassifyTaskInput(a)
      PROVE  TypeOK'
  BY <1>5, TypeFrames DEF ClassifyTaskInput, TypeOK, TaskType
<1>6. ASSUME NEW i \in Instructions, AppendInstruction(i)
      PROVE  TypeOK'
  BY <1>6, TypeFrames DEF AppendInstruction, TypeOK, TaskType
<1>7. ASSUME NEW j \in Jobs, CreateJob(j)
      PROVE  TypeOK'
  BY <1>7, TypeFrames DEF CreateJob, TypeOK, TaskType
<1>8. ASSUME NEW r \in Records, RecordTrace(r)
      PROVE  TypeOK'
  BY <1>8, TypeFrames DEF RecordTrace, TypeOK, TaskType
<1> QED
  BY <1>1, <1>2, <1>3, <1>4, <1>5, <1>6, <1>7, <1>8 DEF TaskCommand

LEMMA TypeWorkItem ==
  ASSUME TypeOK, WorkItemCommand
  PROVE  TypeOK'
<1> USE DEF Appends
<1>1. CASE MaterializeGraph
  <2>1. ItemType'
    BY <1>1, ConstantsAssumption
    DEF MaterializeGraph, TypeOK, ItemType, WorkItemStatuses, GraphType
  <2> QED
    BY <1>1, <2>1, TypeFrames DEF MaterializeGraph, TypeOK
<1>2. ASSUME NEW w \in WorkItems, NEW D \in SUBSET WorkItems,
             NEW role \in BatchRoles, CreateWorkItem(w, D, role)
      PROVE  TypeOK'
  <2>1. InitialStatus(D) \in WorkItemStatuses
    BY DEF InitialStatus, WorkItemStatuses
  <2>2. ItemType'
    BY <1>2, <2>1, ConstantsAssumption DEF CreateWorkItem, TypeOK, ItemType
  <2> QED
    BY <1>2, <2>2, TypeFrames DEF CreateWorkItem, TypeOK
<1>3. ASSUME NEW w \in WorkItems, NEW s \in WorkItemStatuses,
             WorkItemEvent(w, s)
      PROVE  /\ wiStatus' \in [WorkItems -> WorkItemStatuses \cup {"absent"}]
             /\ replayable' \in BOOLEAN
  BY <1>3 DEF WorkItemEvent, Unlock, TypeOK, ItemType, WorkItemStatuses
<1>4. ASSUME NEW w \in WorkItems, NEW s \in WorkItemStatuses, MoveWorkItem(w, s)
      PROVE  TypeOK'
  BY <1>3, <1>4, TypeFrames DEF MoveWorkItem, TypeOK, ItemType
<1>5. ASSUME NEW w \in WorkItems, AcceptWorkItem(w)
      PROVE  TypeOK'
  <2>1. "accepted" \in WorkItemStatuses
    BY DEF WorkItemStatuses
  <2> QED
    BY <1>3, <1>5, <2>1, TypeFrames DEF AcceptWorkItem, TypeOK, ItemType
<1>6. ASSUME NEW w \in WorkItems, NEW f \in Feedback, ReopenWorkItem(w, f)
      PROVE  TypeOK'
  <2>1. "ready" \in WorkItemStatuses
    BY DEF WorkItemStatuses
  <2> QED
    BY <1>3, <1>6, <2>1, TypeFrames DEF ReopenWorkItem, TypeOK, ItemType
<1> QED
  BY <1>1, <1>2, <1>4, <1>5, <1>6 DEF WorkItemCommand

LEMMA TypeAttempt ==
  ASSUME TypeOK, AttemptCommand
  PROVE  TypeOK'
<1> USE DEF Appends
<1> PICK a \in Attempts :
      \/ \E w \in WorkItems, role \in ContractRoles, worker \in Workers :
           ScheduleAttempt(w, a, role, worker)
      \/ \E s \in AttemptStatuses : TransitionAttempt(a, s)
      \/ \E verdict \in {"pass", "fail"} : ValidateOutput(a, verdict)
  BY DEF AttemptCommand
<1>1. ASSUME NEW w \in WorkItems, NEW role \in ContractRoles,
             NEW worker \in Workers, ScheduleAttempt(w, a, role, worker)
      PROVE  TypeOK'
  <2>1. ItemType'
    BY <1>1 DEF ScheduleAttempt, TypeOK, ItemType
  <2>2. SealableSources(w) \subseteq Versions
    BY DEF SealableSources
  <2>3. AttemptType'
    BY <1>1, <2>2, OrdinalIsNat, ConstantsAssumption, NoneAssumption
    DEF ScheduleAttempt, TypeOK, AttemptType, AttemptStatuses
  <2> QED
    BY <1>1, <2>1, <2>3, TypeFrames DEF ScheduleAttempt, TypeOK
<1>2. ASSUME NEW s \in AttemptStatuses, TransitionAttempt(a, s)
      PROVE  TypeOK'
  <2>1. ItemType'
    BY <1>2 DEF TransitionAttempt, LeaseAfter, TypeOK, ItemType
  <2>2. attStatus[a] # "absent"
    BY <1>2 DEF TransitionAttempt, ATTEMPT_TRANSITIONS
  <2>3. AttemptType'
    BY <1>2, <2>2 DEF TransitionAttempt, TypeOK, AttemptType, AttemptStatuses
  <2> QED
    BY <1>2, <2>1, <2>3, TypeFrames DEF TransitionAttempt, TypeOK
<1>3. ASSUME NEW verdict \in {"pass", "fail"}, ValidateOutput(a, verdict)
      PROVE  TypeOK'
  <2>1. AttemptType'
    BY <1>3 DEF ValidateOutput, TypeOK, AttemptType
  <2> QED
    BY <1>3, <2>1, TypeFrames DEF ValidateOutput, TypeOK
<1> QED
  BY <1>1, <1>2, <1>3

LEMMA TypeArtifact ==
  ASSUME TypeOK, ArtifactCommand
  PROVE  TypeOK'
<1> USE DEF Appends
<1>1. ASSUME NEW v \in Versions, NEW a \in Attempts, RecordArtifact(v, a)
      PROVE  TypeOK'
  BY <1>1, TypeFrames DEF RecordArtifact, TypeOK, VersionType, Dispositions
<1>2. ASSUME NEW v \in Versions, BindEvidence(v)
      PROVE  TypeOK'
  BY <1>2, TypeFrames DEF BindEvidence, TypeOK, VersionType
<1>3. ASSUME NEW v \in Versions, SelectVersion(v)
      PROVE  TypeOK'
  BY <1>3, TypeFrames DEF SelectVersion, TypeOK, VersionType
<1>4. ASSUME NEW c \in Callers, NEW v \in Versions, NEW d \in Dispositions,
             NEW f \in Feedback, BeginDisposition(c, v, d, f)
      PROVE  TypeOK'
  <2>1. disposition[v] \in Dispositions
    BY <1>4 DEF BeginDisposition, Recorded, TypeOK, VersionType
  <2>2. calls' \in [Callers -> CallRecords]
    BY <1>4, <2>1 DEF BeginDisposition, TypeOK, CallRecords
  <2> QED
    BY <1>4, <2>2, TypeFrames DEF BeginDisposition, TypeOK
<1>5. ASSUME NEW c \in Callers, CommitDisposition(c)
      PROVE  TypeOK'
  <2>1. /\ calls[c].version \in Versions /\ calls[c].to \in Dispositions
        /\ calls[c].feedback \in Feedback
        /\ calls' \in [Callers -> CallRecords]
    BY <1>5 DEF CommitDisposition, TypeOK, CallRecords
  <2>2. TaskType'
    BY <1>5 DEF CommitDisposition, TypeOK, TaskType, TaskStatuses
  <2>3. VersionType'
    BY <1>5, <2>1 DEF CommitDisposition, SelectionWithout, TypeOK, VersionType
  <2> QED
    BY <1>5, <2>1, <2>2, <2>3, TypeFrames DEF CommitDisposition, TypeOK
<1>6. ASSUME NEW c \in Callers, RejectDisposition(c)
      PROVE  TypeOK'
  <2>1. calls' \in [Callers -> CallRecords]
    BY <1>6 DEF RejectDisposition, TypeOK, CallRecords
  <2> QED
    BY <1>6, <2>1, TypeFrames DEF RejectDisposition, TypeOK
<1> QED
  BY <1>1, <1>2, <1>3, <1>4, <1>5, <1>6 DEF ArtifactCommand

LEMMA TypeGate ==
  ASSUME TypeOK, GateCommand
  PROVE  TypeOK'
<1> USE DEF Appends
<1>1. ASSUME NEW g \in Gates, NEW a \in Attempts, NEW S \in SUBSET Versions,
             RecordGate(g, a, S)
      PROVE  TypeOK'
  <2>1. gates' \in [Gates -> GateRecords]
    BY <1>1 DEF RecordGate, TypeOK, GateRecords
  <2> QED
    BY <1>1, <2>1, TypeFrames DEF RecordGate, TypeOK
<1>2. ASSUME NEW g \in Gates, RevokeGate(g)
      PROVE  TypeOK'
  <2>1. gates' \in [Gates -> GateRecords]
    BY <1>2 DEF RevokeGate, TypeOK, NoGate, GateRecords
  <2> QED
    BY <1>2, <2>1, TypeFrames DEF RevokeGate, TypeOK
<1> QED
  BY <1>1, <1>2 DEF GateCommand

LEMMA TypeStep ==
  ASSUME TypeOK, [Next]_vars
  PROVE  TypeOK'
<1>1. CASE UNCHANGED vars
  BY <1>1, TypeFrames DEF vars, TypeOK
<1> QED
  BY <1>1, TypeTask, TypeWorkItem, TypeAttempt, TypeArtifact, TypeGate DEF Next

\* Every command keeps the projection of a Task well typed.
THEOREM TypeCorrect == Spec => []TypeOK
  BY TypeInit, TypeStep, PTL DEF Spec

(***************************************************************************)
(* Leases.  LeaseIntegrity alone is not inductive enough for the others:   *)
(* that a completed Task is quiet follows from the leases of its WorkItems *)
(* being released, which follows from how a lease and an Attempt mirror    *)
(* each other.                                                             *)
(***************************************************************************)
LeaseInv == LeaseIntegrity /\ SettledHoldsNoLease

LEMMA LeaseInit == Init => LeaseInv
  BY NoneAssumption
  DEF Init, NoWork, LeaseInv, LeaseIntegrity, SettledHoldsNoLease,
      ACTIVE_ATTEMPT_STATUSES

\* WorkItem commands: only the statuses of WorkItems change.
LEMMA LeaseWorkItem ==
  ASSUME TypeOK, LeaseInv, WorkItemCommand
  PROVE  LeaseInv'
<1>1. UNCHANGED <<lease, attStatus, attItem>>
  BY DEF WorkItemCommand, MaterializeGraph, CreateWorkItem, MoveWorkItem,
         AcceptWorkItem, ReopenWorkItem, attemptVars
<1>2. LeaseIntegrity'
  BY <1>1 DEF LeaseInv, LeaseIntegrity
<1>3. CASE MaterializeGraph
  <2>1. \A w \in WorkItems : lease[w] = None
    BY <1>3 DEF MaterializeGraph, Exists, LeaseInv, SettledHoldsNoLease
  <2> QED
    BY <1>1, <1>2, <2>1 DEF LeaseInv, SettledHoldsNoLease
<1>4. ASSUME NEW w \in WorkItems, NEW D \in SUBSET WorkItems,
             NEW role \in BatchRoles, CreateWorkItem(w, D, role)
      PROVE  SettledHoldsNoLease'
  BY <1>1, <1>4
  DEF CreateWorkItem, Exists, LeaseInv, SettledHoldsNoLease, TypeOK, ItemType
<1>5. ASSUME NEW w \in WorkItems, NEW s \in WorkItemStatuses,
             WorkItemEvent(w, s), LeaseReleased(w, s), s # "pending"
      PROVE  SettledHoldsNoLease'
  BY <1>1, <1>5
  DEF WorkItemEvent, Unlock, LeaseReleased, LeaseInv, SettledHoldsNoLease,
      WorkItemStatuses, TypeOK, ItemType
<1>6. ASSUME NEW w \in WorkItems, NEW s \in WorkItemStatuses, MoveWorkItem(w, s)
      PROVE  SettledHoldsNoLease'
  <2>1. s # "pending"
    BY <1>6 DEF MoveWorkItem, WORK_ITEM_TRANSITIONS
  <2> QED
    BY <1>5, <1>6, <2>1 DEF MoveWorkItem
<1>7. ASSUME NEW w \in WorkItems, AcceptWorkItem(w)
      PROVE  SettledHoldsNoLease'
  BY <1>5, <1>7 DEF AcceptWorkItem, WorkItemStatuses
<1>8. ASSUME NEW w \in WorkItems, NEW f \in Feedback, ReopenWorkItem(w, f)
      PROVE  SettledHoldsNoLease'
  BY <1>5, <1>8 DEF ReopenWorkItem, LeaseReleased, WorkItemStatuses
<1> QED
  BY <1>2, <1>3, <1>4, <1>6, <1>7, <1>8 DEF WorkItemCommand, LeaseInv

\* Attempt commands: a lease is taken when it is free and given back by the
\* Attempt that holds it.
LEMMA LeaseAttempt ==
  ASSUME TypeOK, LeaseInv, AttemptCommand
  PROVE  LeaseInv'
<1> USE DEF ACTIVE_ATTEMPT_STATUSES
<1>1. UNCHANGED wiStatus
  BY AttemptFrame
<1>2. ASSUME NEW a \in Attempts, NEW w \in WorkItems, NEW role, NEW worker,
             ScheduleAttempt(w, a, role, worker)
      PROVE  LeaseInv'
  <2>1. /\ lease' = [lease EXCEPT ![w] = a]
        /\ attStatus' = [attStatus EXCEPT ![a] = "scheduled"]
        /\ attItem' = [attItem EXCEPT ![a] = w]
        /\ attStatus[a] = "absent" /\ lease[w] = None
        /\ wiStatus[w] \in {"ready", "running", "waiting_review", "blocked"}
    BY <1>2 DEF ScheduleAttempt
  <2>2. \A x \in WorkItems : lease[x] # a
    BY <2>1, NoneAssumption DEF LeaseInv, LeaseIntegrity
  <2>3. LeaseIntegrity'
    BY <2>1, <2>2, NoneAssumption
    DEF LeaseInv, LeaseIntegrity, TypeOK, AttemptType, ItemType
  <2>4. SettledHoldsNoLease'
    BY <1>1, <2>1 DEF LeaseInv, SettledHoldsNoLease, TypeOK, ItemType
  <2> QED
    BY <2>3, <2>4 DEF LeaseInv
<1>3. ASSUME NEW a \in Attempts, NEW s \in AttemptStatuses, TransitionAttempt(a, s)
      PROVE  LeaseInv'
  <2>1. /\ attStatus[a] \in {"scheduled", "running"}
        /\ s \in {"running", "succeeded", "failed", "cancelled"}
        /\ attStatus' = [attStatus EXCEPT ![a] = s]
        /\ lease' = LeaseAfter(a, s)
        /\ UNCHANGED attItem
    BY <1>3 DEF TransitionAttempt, ATTEMPT_TRANSITIONS
  <2>2. attItem[a] \in WorkItems /\ lease[attItem[a]] = a
    BY <2>1 DEF LeaseInv, LeaseIntegrity, TypeOK, AttemptType
  <2>3. LeaseIntegrity'
    BY <2>1, <2>2, NoneAssumption
    DEF LeaseInv, LeaseIntegrity, LeaseAfter, TypeOK, AttemptType, ItemType
  <2>4. SettledHoldsNoLease'
    BY <1>1, <2>1 DEF LeaseInv, SettledHoldsNoLease, LeaseAfter, TypeOK, ItemType
  <2> QED
    BY <2>3, <2>4 DEF LeaseInv
<1>4. ASSUME NEW a \in Attempts, NEW verdict, ValidateOutput(a, verdict)
      PROVE  LeaseInv'
  BY <1>4 DEF ValidateOutput, itemVars, LeaseInv, LeaseIntegrity, SettledHoldsNoLease
<1> QED
  BY <1>2, <1>3, <1>4 DEF AttemptCommand

LEMMA LeaseStep ==
  ASSUME TypeOK, LeaseInv, [Next]_vars
  PROVE  LeaseInv'
<1>1. ASSUME UNCHANGED <<itemVars, attemptVars>>
      PROVE  LeaseInv'
  BY <1>1 DEF itemVars, attemptVars, LeaseInv, LeaseIntegrity, SettledHoldsNoLease
<1>2. CASE TaskCommand
  BY <1>1, <1>2
  DEF TaskCommand, CreateTask, BindCompiledProtocol, CompleteTask, TransitionTask,
      ClassifyTaskInput, AppendInstruction, CreateJob, RecordTrace
<1>3. CASE ArtifactCommand
  BY <1>1, <1>3
  DEF ArtifactCommand, RecordArtifact, BindEvidence, SelectVersion,
      BeginDisposition, CommitDisposition, RejectDisposition
<1>4. CASE GateCommand
  BY <1>1, <1>4 DEF GateCommand, RecordGate, RevokeGate
<1>5. CASE UNCHANGED vars
  BY <1>1, <1>5 DEF vars
<1> QED
  BY <1>2, <1>3, <1>4, <1>5, LeaseWorkItem, LeaseAttempt DEF Next

\* At every moment the lease of a WorkItem and its active Attempt name each
\* other: schedule_attempt, transition_attempt and transition_work_item keep
\* active_attempt_id in step with the Attempts.
THEOREM LeaseIntegrityHolds == Spec => []LeaseIntegrity
<1>1. TypeOK /\ LeaseInv /\ [Next]_vars => (TypeOK /\ LeaseInv)'
  BY TypeStep, LeaseStep
<1>2. LeaseInv => LeaseIntegrity
  BY DEF LeaseInv
<1> QED
  BY <1>1, <1>2, TypeInit, LeaseInit, PTL DEF Spec

\* No Attempt is leased a WorkItem that is pending or settled.
THEOREM SettledHoldsNoLeaseHolds == Spec => []SettledHoldsNoLease
<1>1. TypeOK /\ LeaseInv /\ [Next]_vars => (TypeOK /\ LeaseInv)'
  BY TypeStep, LeaseStep
<1>2. LeaseInv => SettledHoldsNoLease
  BY DEF LeaseInv
<1> QED
  BY <1>1, <1>2, TypeInit, LeaseInit, PTL DEF Spec

(***************************************************************************)
(* Completion.                                                             *)
(***************************************************************************)

\* When every lease is free, no Attempt is active.
LEMMA NoLeaseNoActivity ==
  ASSUME TypeOK, LeaseInv, \A w \in WorkItems : lease[w] = None
  PROVE  \A a \in Attempts : attStatus[a] \notin ACTIVE_ATTEMPT_STATUSES
  BY NoneAssumption
  DEF TypeOK, AttemptType, LeaseInv, LeaseIntegrity, ACTIVE_ATTEMPT_STATUSES

LEMMA QuietStep ==
  ASSUME TypeOK, LeaseInv, CompletedIsQuiet, [Next]_vars
  PROVE  CompletedIsQuiet'
<1> USE DEF CompletedIsQuiet
<1>1. ASSUME UNCHANGED <<wiStatus, attStatus>>, compiled => compiled',
             taskStatus' = "completed" => taskStatus = "completed"
      PROVE  CompletedIsQuiet'
  BY <1>1 DEF TypeOK, TaskType
<1>2. CASE CompleteTask
  <2>1. \A w \in WorkItems : wiStatus[w] \in {"absent", "accepted", "cancelled"}
    BY <1>2 DEF CompleteTask, Exists, Finished
  <2>2. \A w \in WorkItems : lease[w] = None
    BY <2>1 DEF LeaseInv, SettledHoldsNoLease
  <2>3. \A a \in Attempts : attStatus[a] \notin ACTIVE_ATTEMPT_STATUSES
    BY <2>2, NoLeaseNoActivity
  <2> QED
    BY <1>2, <2>1, <2>3 DEF CompleteTask, itemVars, attemptVars
<1>3. CASE TaskCommand /\ ~CompleteTask
  <2> USE <1>3 DEF TaskCommand, CreateTask, BindCompiledProtocol, TransitionTask,
                   ClassifyTaskInput, AppendInstruction, CreateJob, RecordTrace
  <2>1. UNCHANGED <<wiStatus, attStatus>>
    BY DEF itemVars, attemptVars
  <2>2. compiled => compiled'
    OBVIOUS
  <2>3. taskStatus' = "completed" => taskStatus = "completed"
    OBVIOUS
  <2> QED
    BY <1>1, <2>1, <2>2, <2>3
<1>4. CASE WorkItemCommand
  <2>1. UNCHANGED <<taskStatus, compiled, attStatus>>
    BY <1>4
    DEF WorkItemCommand, MaterializeGraph, CreateWorkItem, MoveWorkItem,
        AcceptWorkItem, ReopenWorkItem, taskVars, attemptVars
  <2> SUFFICES ASSUME taskStatus = "completed", ~compiled
               PROVE  UNCHANGED wiStatus
    BY <2>1
  <2>2. \A w \in WorkItems : wiStatus[w] \in {"absent", "accepted", "cancelled"}
    OBVIOUS
  <2>3. ~MaterializeGraph
    BY DEF MaterializeGraph
  <2>4. ASSUME NEW w \in WorkItems
        PROVE  /\ \A D, role : ~CreateWorkItem(w, D, role)
               /\ \A f : ~ReopenWorkItem(w, f)
               /\ ~AcceptWorkItem(w)
               /\ \A s : ~MoveWorkItem(w, s)
    BY <2>2
    DEF CreateWorkItem, AcceptsGenericItems, ClosedTask, ReopenWorkItem,
        AcceptWorkItem, MoveWorkItem, WORK_ITEM_TRANSITIONS
  <2> QED
    BY <1>4, <2>3, <2>4 DEF WorkItemCommand
<1>5. CASE AttemptCommand
  <2>1. UNCHANGED <<taskStatus, compiled, wiStatus>>
    BY <1>5, AttemptFrame DEF taskVars
  <2> SUFFICES ASSUME taskStatus = "completed"
               PROVE  UNCHANGED attStatus
    BY <2>1
  <2>2. ASSUME NEW a \in Attempts
        PROVE  /\ \A w, role, worker : ~ScheduleAttempt(w, a, role, worker)
               /\ \A s : ~TransitionAttempt(a, s)
    BY DEF ScheduleAttempt, ClosedTask, TransitionAttempt, ATTEMPT_TRANSITIONS,
           ACTIVE_ATTEMPT_STATUSES
  <2> QED
    BY <1>5, <2>2 DEF AttemptCommand, ValidateOutput
<1>6. CASE ArtifactCommand
  <2>1. UNCHANGED <<wiStatus, attStatus, compiled>>
    BY <1>6
    DEF ArtifactCommand, RecordArtifact, BindEvidence, SelectVersion,
        BeginDisposition, CommitDisposition, RejectDisposition, taskVars,
        itemVars, attemptVars
  <2>2. taskStatus' \in {taskStatus, "ready"}
    BY <1>6
    DEF ArtifactCommand, RecordArtifact, BindEvidence, SelectVersion,
        BeginDisposition, CommitDisposition, RejectDisposition, taskVars
  <2> QED
    BY <1>1, <2>1, <2>2
<1>7. CASE GateCommand
  <2>1. UNCHANGED <<taskVars, itemVars, attemptVars>>
    BY <1>7 DEF GateCommand, RecordGate, RevokeGate
  <2> QED
    BY <1>1, <2>1 DEF taskVars, itemVars, attemptVars
<1>8. CASE UNCHANGED vars
  BY <1>1, <1>8 DEF vars, taskVars, itemVars, attemptVars
<1> QED
  BY <1>2, <1>3, <1>4, <1>5, <1>6, <1>7, <1>8 DEF Next

\* A completed Task has no active Attempt and, without a compiled protocol, no
\* unfinished WorkItem: transition_task counts on the lease discipline.
THEOREM CompletedIsQuietHolds == Spec => []CompletedIsQuiet
<1>1. Init => CompletedIsQuiet
  BY DEF Init, CompletedIsQuiet
<1>2. TypeOK /\ LeaseInv /\ CompletedIsQuiet /\ [Next]_vars
        => (TypeOK /\ LeaseInv /\ CompletedIsQuiet)'
  BY TypeStep, LeaseStep, QuietStep
<1> QED
  BY <1>1, <1>2, TypeInit, LeaseInit, PTL DEF Spec

(***************************************************************************)
(* Dependencies.                                                           *)
(***************************************************************************)

\* The two properties of dependencies say how the statuses of WorkItems may
\* change, so only the WorkItem commands matter.
LEMMA OtherCommandsKeepItems ==
  ASSUME [Next]_vars, ~WorkItemCommand
  PROVE  UNCHANGED <<wiStatus, dependsOn>>
<1>1. CASE TaskCommand
  BY <1>1
  DEF TaskCommand, CreateTask, BindCompiledProtocol, CompleteTask, TransitionTask,
      ClassifyTaskInput, AppendInstruction, CreateJob, RecordTrace, itemVars
<1>2. CASE AttemptCommand
  BY <1>2, AttemptFrame
<1>3. CASE ArtifactCommand
  BY <1>3
  DEF ArtifactCommand, RecordArtifact, BindEvidence, SelectVersion,
      BeginDisposition, CommitDisposition, RejectDisposition, itemVars
<1>4. CASE GateCommand
  BY <1>4 DEF GateCommand, RecordGate, RevokeGate, itemVars
<1>5. CASE UNCHANGED vars
  BY <1>5 DEF vars, itemVars
<1> QED
  BY <1>1, <1>2, <1>3, <1>4, <1>5 DEF Next

\* A command on an existing WorkItem w gives it a status s that is not pending
\* and unlocks the rest.
LEMMA ItemCommandCases ==
  ASSUME TypeOK, WorkItemCommand
  PROVE  \/ MaterializeGraph
         \/ \E w \in WorkItems, D \in SUBSET WorkItems, role \in BatchRoles :
              CreateWorkItem(w, D, role)
         \/ \E w \in WorkItems, s \in WorkItemStatuses :
              /\ WorkItemEvent(w, s) /\ UNCHANGED <<dependsOn, compiled>>
              /\ s # "pending"
              /\ wiStatus[w] \in {"absent", "pending", "cancelled"} => s = "cancelled"
              /\ wiStatus[w] = "accepted" => compiled
<1> DEFINE Moves(w, s) ==
      /\ WorkItemEvent(w, s) /\ UNCHANGED <<dependsOn, compiled>>
      /\ s # "pending"
      /\ wiStatus[w] \in {"absent", "pending", "cancelled"} => s = "cancelled"
      /\ wiStatus[w] = "accepted" => compiled
<1>1. ASSUME NEW w, NEW s, MoveWorkItem(w, s)
      PROVE  Moves(w, s)
  BY <1>1 DEF MoveWorkItem, WORK_ITEM_TRANSITIONS, taskVars
<1>2. ASSUME NEW w, AcceptWorkItem(w)
      PROVE  Moves(w, "accepted")
  BY <1>2 DEF AcceptWorkItem, WORK_ITEM_TRANSITIONS, taskVars
<1>3. ASSUME NEW w, NEW f, ReopenWorkItem(w, f)
      PROVE  Moves(w, "ready")
  BY <1>3 DEF ReopenWorkItem, WORK_ITEM_TRANSITIONS, taskVars
<1>4. {"accepted", "ready"} \subseteq WorkItemStatuses
  BY DEF WorkItemStatuses
<1> HIDE DEF Moves
<1>5. \/ MaterializeGraph
      \/ \E w \in WorkItems, D \in SUBSET WorkItems, role \in BatchRoles :
           CreateWorkItem(w, D, role)
      \/ \E w \in WorkItems, s \in WorkItemStatuses : Moves(w, s)
  BY <1>1, <1>2, <1>3, <1>4 DEF WorkItemCommand
<1> QED
  BY <1>5 DEF Moves

LEMMA WakeupStep ==
  ASSUME TypeOK, NoLostWakeup, [Next]_vars
  PROVE  NoLostWakeup'
<1> USE DEF NoLostWakeup
<1>1. CASE ~WorkItemCommand
  BY <1>1, OtherCommandsKeepItems
<1>2. CASE MaterializeGraph
  BY <1>2, ConstantsAssumption DEF MaterializeGraph, GraphType, TypeOK, ItemType
<1>3. ASSUME NEW w \in WorkItems, NEW D \in SUBSET WorkItems,
             NEW role \in BatchRoles, CreateWorkItem(w, D, role)
      PROVE  NoLostWakeup'
  <2>1. w \notin D /\ InitialStatus(D) # "accepted"
    BY <1>3 DEF CreateWorkItem, Exists, InitialStatus
  <2>2. wiStatus[w] = "absent"
    BY <1>3 DEF CreateWorkItem, Exists
  <2>3. /\ wiStatus' = [wiStatus EXCEPT ![w] = InitialStatus(D)]
        /\ dependsOn' = [dependsOn EXCEPT ![w] = D]
    BY <1>3 DEF CreateWorkItem
  <2>4. InitialStatus(D) = "pending" => \E d \in D : wiStatus[d] # "accepted"
    BY DEF InitialStatus
  <2> QED
    BY <2>1, <2>2, <2>3, <2>4 DEF TypeOK, ItemType
<1>4. ASSUME NEW w \in WorkItems, NEW s \in WorkItemStatuses,
             WorkItemEvent(w, s), UNCHANGED dependsOn
      PROVE  NoLostWakeup'
  BY <1>4 DEF WorkItemEvent, Unlock, TypeOK, ItemType
<1> QED
  BY <1>1, <1>2, <1>3, <1>4, ItemCommandCases

\* No pending WorkItem is forgotten: the reducer unlocks in the same event.
THEOREM NoLostWakeupHolds == Spec => []NoLostWakeup
<1>1. Init => NoLostWakeup
  BY DEF Init, NoLostWakeup
<1>2. TypeOK /\ NoLostWakeup /\ [Next]_vars => (TypeOK /\ NoLostWakeup)'
  BY TypeStep, WakeupStep
<1> QED
  BY <1>1, <1>2, TypeInit, PTL DEF Spec

\* A compiled protocol stays bound.
LEMMA CompiledStays ==
  ASSUME [Next]_vars
  PROVE  compiled => compiled'
<1>1. CASE TaskCommand
  BY <1>1
  DEF TaskCommand, CreateTask, BindCompiledProtocol, CompleteTask, TransitionTask,
      ClassifyTaskInput, AppendInstruction, CreateJob, RecordTrace
<1>2. CASE WorkItemCommand
  BY <1>2
  DEF WorkItemCommand, MaterializeGraph, CreateWorkItem, MoveWorkItem,
      AcceptWorkItem, ReopenWorkItem, taskVars
<1>3. CASE AttemptCommand
  BY <1>3, AttemptFrame DEF taskVars
<1>4. CASE ArtifactCommand
  BY <1>4
  DEF ArtifactCommand, RecordArtifact, BindEvidence, SelectVersion,
      BeginDisposition, CommitDisposition, RejectDisposition, taskVars
<1>5. CASE GateCommand
  BY <1>5 DEF GateCommand, RecordGate, RevokeGate, taskVars
<1>6. CASE UNCHANGED vars
  BY <1>6 DEF vars, taskVars
<1> QED
  BY <1>1, <1>2, <1>3, <1>4, <1>5, <1>6 DEF Next

LEMMA OrderStep ==
  ASSUME TypeOK, DependencyOrder, [Next]_vars
  PROVE  DependencyOrder'
<1> USE DEF DependencyOrder
<1>1. compiled => compiled'
  BY CompiledStays
<1> SUFFICES ASSUME ~compiled, ~compiled'
             PROVE  \A w \in WorkItems :
                      wiStatus'[w] \notin {"absent", "pending", "cancelled"} =>
                        \A d \in dependsOn'[w] : wiStatus'[d] = "accepted"
  BY <1>1
<1>2. CASE ~WorkItemCommand
  BY <1>2, OtherCommandsKeepItems
<1>3. CASE MaterializeGraph
  BY <1>3 DEF MaterializeGraph
<1>4. ASSUME NEW w \in WorkItems, NEW D \in SUBSET WorkItems,
             NEW role \in BatchRoles, CreateWorkItem(w, D, role)
      PROVE  \A x \in WorkItems :
               wiStatus'[x] \notin {"absent", "pending", "cancelled"} =>
                 \A d \in dependsOn'[x] : wiStatus'[d] = "accepted"
  <2>1. w \notin D /\ wiStatus[w] = "absent"
    BY <1>4 DEF CreateWorkItem, Exists
  <2>2. /\ wiStatus' = [wiStatus EXCEPT ![w] = InitialStatus(D)]
        /\ dependsOn' = [dependsOn EXCEPT ![w] = D]
    BY <1>4 DEF CreateWorkItem
  <2>3. InitialStatus(D) # "pending" => \A d \in D : wiStatus[d] = "accepted"
    BY DEF InitialStatus
  <2> QED
    BY <2>1, <2>2, <2>3 DEF TypeOK, ItemType
<1>5. ASSUME NEW w \in WorkItems, NEW s \in WorkItemStatuses,
             WorkItemEvent(w, s), UNCHANGED dependsOn,
             wiStatus[w] \in {"absent", "pending", "cancelled"} => s = "cancelled",
             wiStatus[w] = "accepted" => compiled
      PROVE  \A x \in WorkItems :
               wiStatus'[x] \notin {"absent", "pending", "cancelled"} =>
                 \A d \in dependsOn'[x] : wiStatus'[d] = "accepted"
  <2> DEFINE st == [wiStatus EXCEPT ![w] = s]
  <2>1. \A x \in WorkItems : st[x] = "accepted" => wiStatus'[x] = "accepted"
    BY <1>5 DEF WorkItemEvent, Unlock, TypeOK, ItemType
  <2>2. \A x \in WorkItems :
          \/ wiStatus'[x] = st[x]
          \/ \A d \in dependsOn[x] : st[d] = "accepted"
    BY <1>5 DEF WorkItemEvent, Unlock, TypeOK, ItemType
  <2>3. \A x \in WorkItems :
          st[x] \notin {"absent", "pending", "cancelled"} =>
            wiStatus[x] \notin {"absent", "pending", "cancelled"} \/ x = w
    BY DEF TypeOK, ItemType
  <2>4. \A x \in WorkItems : wiStatus[x] = "accepted" => st[x] = "accepted"
    BY <1>5 DEF TypeOK, ItemType
  <2> QED
    BY <2>1, <2>2, <2>3, <2>4, <1>5 DEF TypeOK, ItemType
<1> QED
  BY <1>2, <1>3, <1>4, <1>5, ItemCommandCases

\* Without a compiled protocol no WorkItem is worked on before, or after, all
\* its dependencies are accepted.
THEOREM DependencyOrderHolds == Spec => []DependencyOrder
<1>1. Init => DependencyOrder
  BY DEF Init, DependencyOrder
<1>2. TypeOK /\ DependencyOrder /\ [Next]_vars => (TypeOK /\ DependencyOrder)'
  BY TypeStep, OrderStep
<1> QED
  BY <1>1, <1>2, TypeInit, PTL DEF Spec

(***************************************************************************)
(* Versions.  The selection is sound because every version ever recorded   *)
(* comes from a succeeded Attempt, and success is final.                   *)
(***************************************************************************)
ProducersSucceeded ==
  \A v \in Versions :
    Recorded(v) => producer[v] \in Attempts /\ attStatus[producer[v]] = "succeeded"

SelectionInv == ProducersSucceeded /\ SelectionSound

LEMMA SelectionStep ==
  ASSUME TypeOK, SelectionInv, [Next]_vars
  PROVE  SelectionInv'
<1> USE DEF SelectionInv, ProducersSucceeded, SelectionSound, Recorded
<1>1. ASSUME UNCHANGED artifactVars,
             \A a \in Attempts : attStatus[a] = "succeeded" => attStatus'[a] = "succeeded"
      PROVE  SelectionInv'
  BY <1>1 DEF artifactVars, TypeOK, VersionType
<1>2. CASE TaskCommand
  BY <1>1, <1>2
  DEF TaskCommand, CreateTask, BindCompiledProtocol, CompleteTask, TransitionTask,
      ClassifyTaskInput, AppendInstruction, CreateJob, RecordTrace, attemptVars
<1>3. CASE WorkItemCommand
  BY <1>1, <1>3
  DEF WorkItemCommand, MaterializeGraph, CreateWorkItem, MoveWorkItem,
      AcceptWorkItem, ReopenWorkItem, attemptVars
<1>4. CASE AttemptCommand
  <2>1. UNCHANGED artifactVars
    BY <1>4, AttemptFrame
  <2>2. \A a \in Attempts : attStatus[a] = "succeeded" => attStatus'[a] = "succeeded"
    <3>1. ASSUME NEW a \in Attempts, NEW w, NEW role, NEW worker,
                 ScheduleAttempt(w, a, role, worker)
          PROVE  attStatus[a] = "absent" /\ attStatus' = [attStatus EXCEPT ![a] = "scheduled"]
      BY <3>1 DEF ScheduleAttempt
    <3>2. ASSUME NEW a \in Attempts, NEW s, TransitionAttempt(a, s)
          PROVE  attStatus[a] # "succeeded" /\ attStatus' = [attStatus EXCEPT ![a] = s]
      BY <3>2 DEF TransitionAttempt, ATTEMPT_TRANSITIONS
    <3>3. ASSUME NEW a \in Attempts, NEW verdict, ValidateOutput(a, verdict)
          PROVE  attStatus' = attStatus
      BY <3>3 DEF ValidateOutput
    <3> QED
      BY <1>4, <3>1, <3>2, <3>3 DEF AttemptCommand, TypeOK, AttemptType
  <2> QED
    BY <1>1, <2>1, <2>2
<1>5. ASSUME NEW v \in Versions, NEW a \in Attempts, RecordArtifact(v, a)
      PROVE  SelectionInv'
  BY <1>5, NoneAssumption DEF RecordArtifact, attemptVars, TypeOK, VersionType
<1>6. ASSUME NEW v \in Versions, BindEvidence(v)
      PROVE  SelectionInv'
  BY <1>6 DEF BindEvidence, attemptVars, TypeOK, VersionType
<1>7. ASSUME NEW v \in Versions, SelectVersion(v)
      PROVE  SelectionInv'
  BY <1>7 DEF SelectVersion, attemptVars, TypeOK, VersionType
<1>8. ASSUME NEW c \in Callers, CommitDisposition(c)
      PROVE  SelectionInv'
  <2>1. calls[c].version \in Versions /\ calls[c].from \in Dispositions
    BY <1>8 DEF CommitDisposition, TypeOK, CallRecords
  <2>2. Recorded(calls[c].version)
    BY <1>8, <2>1 DEF CommitDisposition, DispositionValid, Dispositions
  <2> QED
    BY <1>8, <2>1, <2>2, NoneAssumption
    DEF CommitDisposition, SelectionWithout, attemptVars, TypeOK, VersionType
<1>9. CASE \E c \in Callers :
              \/ \E v \in Versions, d \in Dispositions, f \in Feedback :
                   BeginDisposition(c, v, d, f)
              \/ RejectDisposition(c)
  BY <1>1, <1>9 DEF BeginDisposition, RejectDisposition, attemptVars
<1>10. CASE GateCommand
  BY <1>1, <1>10 DEF GateCommand, RecordGate, RevokeGate, attemptVars
<1>11. CASE UNCHANGED vars
  BY <1>1, <1>11 DEF vars, attemptVars
<1> QED
  BY <1>2, <1>3, <1>4, <1>5, <1>6, <1>7, <1>8, <1>9, <1>10, <1>11
  DEF Next, ArtifactCommand

\* The selected version is always eligible, evidenced and the product of a
\* succeeded Attempt, with any number of concurrent disposition commands.
THEOREM SelectionSoundHolds == Spec => []SelectionSound
<1>1. Init => SelectionInv
  BY DEF Init, NoWork, SelectionInv, ProducersSucceeded, SelectionSound, Recorded
<1>2. TypeOK /\ SelectionInv /\ [Next]_vars => (TypeOK /\ SelectionInv)'
  BY TypeStep, SelectionStep
<1>3. SelectionInv => SelectionSound
  BY DEF SelectionInv
<1> QED
  BY <1>1, <1>2, <1>3, TypeInit, PTL DEF Spec

(***************************************************************************)
(* The ledger stays replayable: what a validate callback lets through, the *)
(* reducer accepts.                                                        *)
(***************************************************************************)
LEMMA ReplayStep ==
  ASSUME LedgerReplays, [Next]_vars
  PROVE  LedgerReplays'
<1> USE DEF LedgerReplays, Appends
<1>1. CASE TaskCommand
  BY <1>1
  DEF TaskCommand, CreateTask, BindCompiledProtocol, CompleteTask, TransitionTask,
      ClassifyTaskInput, AppendInstruction, CreateJob, RecordTrace
<1>2. CASE MaterializeGraph
  BY <1>2 DEF MaterializeGraph
<1>3. ASSUME NEW w, NEW D, NEW role, CreateWorkItem(w, D, role)
      PROVE  LedgerReplays'
  BY <1>3 DEF CreateWorkItem, AcceptsGenericItems
<1>4. ASSUME NEW w, NEW s, MoveWorkItem(w, s)
      PROVE  LedgerReplays'
  BY <1>4 DEF MoveWorkItem, WorkItemEvent
<1>5. ASSUME NEW w, AcceptWorkItem(w)
      PROVE  LedgerReplays'
  BY <1>5 DEF AcceptWorkItem, WorkItemEvent
<1>6. ASSUME NEW w, NEW f, ReopenWorkItem(w, f)
      PROVE  LedgerReplays'
  BY <1>6 DEF ReopenWorkItem, WorkItemEvent, WORK_ITEM_TRANSITIONS
<1>7. CASE AttemptCommand
  <2>1. ASSUME NEW a, NEW w, NEW role, NEW worker, ScheduleAttempt(w, a, role, worker)
        PROVE  LedgerReplays'
    BY <2>1 DEF ScheduleAttempt
  <2>2. ASSUME NEW a, NEW s, TransitionAttempt(a, s)
        PROVE  LedgerReplays'
    BY <2>2 DEF TransitionAttempt
  <2>3. ASSUME NEW a, NEW verdict, ValidateOutput(a, verdict)
        PROVE  LedgerReplays'
    BY <2>3 DEF ValidateOutput
  <2> QED
    BY <1>7, <2>1, <2>2, <2>3 DEF AttemptCommand
<1>8. ASSUME NEW c, CommitDisposition(c)
      PROVE  LedgerReplays'
  BY <1>8 DEF CommitDisposition, DispositionValid
<1>9. CASE ArtifactCommand /\ ~(\E c \in Callers : CommitDisposition(c))
  <2>1. ASSUME NEW v, NEW a, RecordArtifact(v, a)
        PROVE  LedgerReplays'
    BY <2>1 DEF RecordArtifact
  <2> QED
    BY <1>9, <2>1
    DEF ArtifactCommand, BindEvidence, SelectVersion, BeginDisposition,
        RejectDisposition
<1>10. CASE GateCommand
  <2>1. ASSUME NEW g, NEW a, NEW S, RecordGate(g, a, S)
        PROVE  LedgerReplays'
    BY <2>1 DEF RecordGate
  <2>2. ASSUME NEW g, RevokeGate(g)
        PROVE  LedgerReplays'
    BY <2>2 DEF RevokeGate
  <2> QED
    BY <1>10, <2>1, <2>2 DEF GateCommand
<1>11. CASE UNCHANGED vars
  BY <1>11 DEF vars
<1> QED
  BY <1>1, <1>2, <1>3, <1>4, <1>5, <1>6, <1>7, <1>8, <1>9, <1>10, <1>11
  DEF Next, WorkItemCommand

\* No sequence of commands, concurrent dispositions included, appends an event
\* that _project refuses.
THEOREM LedgerReplaysHolds == Spec => []LedgerReplays
<1>1. Init => LedgerReplays
  BY DEF Init, NoWork, LedgerReplays
<1> QED
  BY <1>1, ReplayStep, PTL DEF Spec

(***************************************************************************)
(* What only grows.  Records, evidence, the Attempts and their successes   *)
(* are never taken away; the classification only at creation, when there   *)
(* is no Attempt yet.                                                      *)
(***************************************************************************)
\* Only the commands on Attempts change one.
LEMMA OtherCommandsKeepAttempts ==
  ASSUME [Next]_vars, ~AttemptCommand
  PROVE  UNCHANGED attemptVars
<1>1. CASE TaskCommand
  BY <1>1
  DEF TaskCommand, CreateTask, BindCompiledProtocol, CompleteTask, TransitionTask,
      ClassifyTaskInput, AppendInstruction, CreateJob, RecordTrace
<1>2. CASE WorkItemCommand
  BY <1>2
  DEF WorkItemCommand, MaterializeGraph, CreateWorkItem, MoveWorkItem,
      AcceptWorkItem, ReopenWorkItem
<1>3. CASE ArtifactCommand
  BY <1>3
  DEF ArtifactCommand, RecordArtifact, BindEvidence, SelectVersion,
      BeginDisposition, CommitDisposition, RejectDisposition
<1>4. CASE GateCommand
  BY <1>4 DEF GateCommand, RecordGate, RevokeGate
<1>5. CASE UNCHANGED vars
  BY <1>5 DEF vars
<1> QED
  BY <1>1, <1>2, <1>3, <1>4, <1>5 DEF Next

AttemptsKept ==
  \A a \in Attempts :
    /\ attStatus[a] # "absent" =>
         /\ attStatus'[a] # "absent"
         /\ attRole'[a] = attRole[a] /\ attWorker'[a] = attWorker[a]
    /\ attStatus[a] = "succeeded" => attStatus'[a] = "succeeded"

\* Only schedule_attempt adds an Attempt, and success is final.
LEMMA AttemptsStay ==
  ASSUME TypeOK, [Next]_vars
  PROVE  AttemptsKept
<1> USE DEF AttemptsKept
<1>1. CASE AttemptCommand
  <2>1. ASSUME NEW a \in Attempts, NEW w, NEW role, NEW worker,
               ScheduleAttempt(w, a, role, worker)
        PROVE  AttemptsKept
    BY <2>1 DEF ScheduleAttempt, TypeOK, AttemptType
  <2>2. ASSUME NEW a \in Attempts, NEW s \in AttemptStatuses, TransitionAttempt(a, s)
        PROVE  AttemptsKept
    BY <2>2
    DEF TransitionAttempt, ATTEMPT_TRANSITIONS, AttemptStatuses, TypeOK, AttemptType
  <2>3. ASSUME NEW a \in Attempts, NEW verdict, ValidateOutput(a, verdict)
        PROVE  AttemptsKept
    BY <2>3 DEF ValidateOutput
  <2> QED
    BY <1>1, <2>1, <2>2, <2>3 DEF AttemptCommand
<1>2. CASE ~AttemptCommand
  BY <1>2, OtherCommandsKeepAttempts DEF attemptVars
<1> QED
  BY <1>1, <1>2

TaskKept ==
  /\ taskStatus # "absent" => taskStatus' # "absent" /\ (admitted => admitted')
  /\ records \subseteq records'
  /\ TaskKind # "protocol" => compiled' = compiled

\* What a Task has on record stays there: no command revokes a classification
\* or a trace record.
LEMMA TaskStays ==
  ASSUME TypeOK, [Next]_vars
  PROVE  TaskKept
<1> USE DEF TaskKept
<1>1. ASSUME UNCHANGED taskVars
      PROVE  TaskKept
  BY <1>1 DEF taskVars
<1>2. CASE TaskCommand
  <2>1. CASE CreateTask
    BY <2>1 DEF CreateTask
  <2>2. CASE BindCompiledProtocol
    BY <2>2 DEF BindCompiledProtocol
  <2>3. CASE CompleteTask
    BY <2>3 DEF CompleteTask
  <2>4. ASSUME NEW s \in TaskRequests, TransitionTask(s)
        PROVE  TaskKept
    BY <2>4, ConstantsAssumption DEF TransitionTask, TaskStatuses
  <2>5. ASSUME NEW a \in Attempts, ClassifyTaskInput(a)
        PROVE  TaskKept
    BY <2>5 DEF ClassifyTaskInput
  <2>6. ASSUME NEW i, AppendInstruction(i)
        PROVE  TaskKept
    BY <2>6 DEF AppendInstruction
  <2>7. ASSUME NEW j, CreateJob(j)
        PROVE  TaskKept
    BY <2>7 DEF CreateJob
  <2>8. ASSUME NEW r, RecordTrace(r)
        PROVE  TaskKept
    BY <2>8 DEF RecordTrace
  <2> QED
    BY <1>2, <2>1, <2>2, <2>3, <2>4, <2>5, <2>6, <2>7, <2>8 DEF TaskCommand
<1>3. CASE WorkItemCommand
  BY <1>1, <1>3
  DEF WorkItemCommand, MaterializeGraph, CreateWorkItem, MoveWorkItem,
      AcceptWorkItem, ReopenWorkItem
<1>4. CASE AttemptCommand
  BY <1>1, <1>4, AttemptFrame
<1>5. CASE ArtifactCommand
  <2>1. ASSUME NEW c, CommitDisposition(c)
        PROVE  TaskKept
    BY <2>1 DEF CommitDisposition
  <2> QED
    BY <1>1, <1>5, <2>1
    DEF ArtifactCommand, RecordArtifact, BindEvidence, SelectVersion,
        BeginDisposition, RejectDisposition
<1>6. CASE GateCommand
  BY <1>1, <1>6 DEF GateCommand, RecordGate, RevokeGate
<1>7. CASE UNCHANGED vars
  BY <1>1, <1>7 DEF vars
<1> QED
  BY <1>2, <1>3, <1>4, <1>5, <1>6, <1>7 DEF Next

\* A command that makes the Task completed is CompleteTask.
LEMMA OnlyCompletion ==
  ASSUME [Next]_vars, taskStatus # "completed", taskStatus' = "completed"
  PROVE  CompleteTask
<1>1. ~UNCHANGED taskVars
  BY DEF taskVars
<1>2. CASE TaskCommand
  BY <1>2
  DEF TaskCommand, CreateTask, BindCompiledProtocol, TransitionTask,
      ClassifyTaskInput, AppendInstruction, CreateJob, RecordTrace
<1>3. ~WorkItemCommand
  BY <1>1
  DEF WorkItemCommand, MaterializeGraph, CreateWorkItem, MoveWorkItem,
      AcceptWorkItem, ReopenWorkItem
<1>4. ~AttemptCommand
  BY <1>1, AttemptFrame
<1>5. ~ArtifactCommand
  <2>1. ASSUME NEW c, CommitDisposition(c)
        PROVE  FALSE
    BY <2>1 DEF CommitDisposition
  <2> QED
    BY <1>1, <2>1
    DEF ArtifactCommand, RecordArtifact, BindEvidence, SelectVersion,
        BeginDisposition, RejectDisposition
<1>6. ~GateCommand
  BY <1>1 DEF GateCommand, RecordGate, RevokeGate
<1>7. ~UNCHANGED vars
  BY <1>1 DEF vars
<1> QED
  BY <1>2, <1>3, <1>4, <1>5, <1>6, <1>7 DEF Next

VersionsKept ==
  /\ evidence \subseteq evidence'
  /\ \A v \in Versions : Recorded(v) => Recorded(v)' /\ producer'[v] = producer[v]

\* A recorded version keeps its producer, and evidence is never unbound.
LEMMA VersionsStay ==
  ASSUME TypeOK, [Next]_vars
  PROVE  VersionsKept
<1> USE DEF VersionsKept, Recorded
<1>1. ASSUME UNCHANGED artifactVars
      PROVE  VersionsKept
  BY <1>1 DEF artifactVars
<1>2. CASE TaskCommand
  BY <1>1, <1>2
  DEF TaskCommand, CreateTask, BindCompiledProtocol, CompleteTask, TransitionTask,
      ClassifyTaskInput, AppendInstruction, CreateJob, RecordTrace
<1>3. CASE WorkItemCommand
  BY <1>1, <1>3
  DEF WorkItemCommand, MaterializeGraph, CreateWorkItem, MoveWorkItem,
      AcceptWorkItem, ReopenWorkItem
<1>4. CASE AttemptCommand
  BY <1>1, <1>4, AttemptFrame
<1>5. ASSUME NEW v \in Versions, NEW a \in Attempts, RecordArtifact(v, a)
      PROVE  VersionsKept
  BY <1>5 DEF RecordArtifact, TypeOK, VersionType
<1>6. ASSUME NEW v \in Versions, BindEvidence(v)
      PROVE  VersionsKept
  BY <1>6 DEF BindEvidence
<1>7. ASSUME NEW v \in Versions, SelectVersion(v)
      PROVE  VersionsKept
  BY <1>7 DEF SelectVersion
<1>8. ASSUME NEW c \in Callers, CommitDisposition(c)
      PROVE  VersionsKept
  <2>1. calls[c].version \in Versions /\ calls[c].to \in Dispositions
    BY <1>8 DEF CommitDisposition, TypeOK, CallRecords
  <2>2. /\ disposition' = [disposition EXCEPT ![calls[c].version] = calls[c].to]
        /\ producer' = producer /\ evidence' = evidence
    BY <1>8 DEF CommitDisposition
  <2> QED
    BY <2>1, <2>2 DEF Dispositions, TypeOK, VersionType
<1>9. CASE \E c \in Callers :
              \/ \E v \in Versions, d \in Dispositions, f \in Feedback :
                   BeginDisposition(c, v, d, f)
              \/ RejectDisposition(c)
  BY <1>1, <1>9 DEF BeginDisposition, RejectDisposition
<1>10. CASE GateCommand
  BY <1>1, <1>10 DEF GateCommand, RecordGate, RevokeGate
<1>11. CASE UNCHANGED vars
  BY <1>1, <1>11 DEF vars
<1> QED
  BY <1>2, <1>3, <1>4, <1>5, <1>6, <1>7, <1>8, <1>9, <1>10, <1>11
  DEF Next, ArtifactCommand

(***************************************************************************)
(* Tiers.  The plan binds at schedule_attempt and transition_task only;    *)
(* that it binds in every later state follows from what only grows.  A     *)
(* Task without a protocol_ref is never compiled, so the branch of either  *)
(* command that trusts the compiled protocol instead is never taken.       *)
(***************************************************************************)
TieredInv ==
  /\ TaskKind = "tiered" => ~compiled
  /\ taskStatus = "absent" => \A a \in Attempts : attStatus[a] = "absent"
  /\ WorkersFollowPlan

LEMMA TieredStep ==
  ASSUME TypeOK, TieredInv, [Next]_vars
  PROVE  TieredInv'
<1> USE DEF TieredInv
<1>1. TaskKept /\ AttemptsKept
  BY TaskStays, AttemptsStay
<1>2. (TaskKind = "tiered" => ~compiled)'
  BY <1>1 DEF TaskKept
<1>3. ASSUME NEW a \in Attempts, NEW w \in WorkItems, NEW role \in ContractRoles,
             NEW worker \in Workers, ScheduleAttempt(w, a, role, worker)
      PROVE  TieredInv'
  <2>1. taskStatus' = taskStatus /\ taskStatus # "absent"
    BY <1>3 DEF ScheduleAttempt, Loaded, taskVars
  <2>2. ASSUME TaskKind = "tiered", NEW b \in Attempts, attStatus'[b] # "absent",
               Delegated(attRole'[b])
        PROVE  admitted' /\ Tier.preWorker \subseteq records'
    <3>1. UNCHANGED <<admitted, records>>
      BY <1>3 DEF ScheduleAttempt, taskVars
    <3>2. CASE b = a
      <4>1. attRole'[b] = role /\ TierAdmits(role, worker)
        BY <1>3, <3>2 DEF ScheduleAttempt, TypeOK, AttemptType
      <4>2. Delegated(role) /\ role # "intake" /\ ~compiled
        BY <2>2, <4>1 DEF Delegated
      <4> QED
        BY <2>2, <3>1, <4>1, <4>2 DEF TierAdmits
    <3>3. CASE b # a
      <4>1. attStatus'[b] = attStatus[b] /\ attRole'[b] = attRole[b]
        BY <1>3, <3>3 DEF ScheduleAttempt, TypeOK, AttemptType
      <4> QED
        BY <2>2, <3>1, <4>1 DEF WorkersFollowPlan
    <3> QED
      BY <3>2, <3>3
  <2> QED
    BY <1>2, <2>1, <2>2 DEF WorkersFollowPlan
<1>4. ASSUME \A a \in Attempts : attStatus'[a] # "absent" => attStatus[a] # "absent"
      PROVE  TieredInv'
  <2>1. taskStatus' = "absent" => \A a \in Attempts : attStatus'[a] = "absent"
    BY <1>1, <1>4 DEF TaskKept
  <2>2. ASSUME TaskKind = "tiered", NEW b \in Attempts, attStatus'[b] # "absent",
               Delegated(attRole'[b])
        PROVE  admitted' /\ Tier.preWorker \subseteq records'
    <3>1. attStatus[b] # "absent" /\ attRole'[b] = attRole[b]
      BY <1>1, <1>4, <2>2 DEF AttemptsKept
    <3>2. admitted /\ Tier.preWorker \subseteq records /\ taskStatus # "absent"
      BY <2>2, <3>1 DEF WorkersFollowPlan
    <3> QED
      BY <1>1, <3>2 DEF TaskKept
  <2> QED
    BY <1>2, <2>1, <2>2 DEF WorkersFollowPlan
<1>5. CASE AttemptCommand
  <2>1. ASSUME NEW a \in Attempts, NEW s \in AttemptStatuses, TransitionAttempt(a, s)
        PROVE  TieredInv'
    <3>1. attStatus[a] # "absent" /\ attStatus' = [attStatus EXCEPT ![a] = s]
      BY <2>1 DEF TransitionAttempt, ATTEMPT_TRANSITIONS
    <3> QED
      BY <1>4, <3>1 DEF TypeOK, AttemptType
  <2>2. ASSUME NEW a \in Attempts, NEW verdict, ValidateOutput(a, verdict)
        PROVE  TieredInv'
    BY <1>4, <2>2 DEF ValidateOutput
  <2> QED
    BY <1>3, <1>5, <2>1, <2>2 DEF AttemptCommand
<1>6. CASE ~AttemptCommand
  <2>1. UNCHANGED attemptVars
    BY <1>6, OtherCommandsKeepAttempts
  <2> QED
    BY <1>4, <2>1 DEF attemptVars
<1> QED
  BY <1>5, <1>6

LEMMA TieredInit == Init => TieredInv
  BY DEF Init, NoWork, TieredInv, WorkersFollowPlan

\* In a Task with a tier, no Worker or Reviewer Attempt ever precedes the
\* classification of the input and the pre_worker_records, and neither is
\* withdrawn while such an Attempt is on record.
THEOREM WorkersFollowPlanHolds == Spec => []WorkersFollowPlan
<1>1. TypeOK /\ TieredInv /\ [Next]_vars => (TypeOK /\ TieredInv)'
  BY TypeStep, TieredStep
<1>2. TieredInv => WorkersFollowPlan
  BY DEF TieredInv
<1> QED
  BY <1>1, <1>2, TypeInit, TieredInit, PTL DEF Spec

\* A finite set has subsets of every smaller size: the first n values of a
\* bijection from 1..Cardinality(S) to S.
LEMMA SubsetOfSize ==
  ASSUME NEW S, IsFiniteSet(S), NEW n \in Nat, n <= Cardinality(S)
  PROVE  \E D \in SUBSET S : Cardinality(D) = n
<1>1. Cardinality(S) \in Nat /\ ExistsBijection(1..Cardinality(S), S)
  BY FS_CardinalityType
<1> PICK f : f \in Bijection(1..Cardinality(S), S)
  BY <1>1 DEF ExistsBijection
<1> DEFINE D == {f[i] : i \in 1..n}
           h == [i \in 1..n |-> f[i]]
<1>2. \A i \in 1..n : i \in 1..Cardinality(S)
  BY <1>1
<1>3. /\ f \in [1..Cardinality(S) -> S]
      /\ \A i, j \in 1..Cardinality(S) : f[i] = f[j] => i = j
  BY DEF Bijection, Injection, Surjection, IsInjective
<1>4. D \in SUBSET S
  BY <1>2, <1>3
<1>5. h \in Bijection(1..n, D)
  <2>1. h \in [1..n -> D]
    OBVIOUS
  <2>2. \A i, j \in 1..n : h[i] = h[j] => i = j
    BY <1>2, <1>3
  <2>3. \A t \in D : \E i \in 1..n : h[i] = t
    OBVIOUS
  <2> QED
    BY <2>1, <2>2, <2>3 DEF Bijection, Injection, Surjection, IsInjective
<1>6. ExistsBijection(1..n, D)
  BY <1>5 DEF ExistsBijection
<1>7. Cardinality(D) = n
  BY <1>6, FS_CountingElements
<1> QED
  BY <1>4, <1>7

LEMMA EvidenceStep ==
  ASSUME TypeOK, TieredInv, CompletedHasEvidence, [Next]_vars
  PROVE  CompletedHasEvidence'
<1> SUFFICES ASSUME TaskKind = "tiered", taskStatus' = "completed"
             PROVE  /\ admitted'
                    /\ Tier.required \ {"evidence_binding"} \subseteq records'
                    /\ "evidence_binding" \in Tier.required => evidence' # {}
                    /\ \E D \in SUBSET {a \in Attempts : attStatus'[a] = "succeeded"} :
                         /\ Cardinality(D) = Tier.minDelegated
                         /\ \A a \in D : attRole'[a] \notin SupervisorRoles
  BY DEF CompletedHasEvidence
<1>1. TaskKept /\ AttemptsKept /\ VersionsKept
  BY TaskStays, AttemptsStay, VersionsStay
<1>2. CASE taskStatus = "completed"
  <2>1. PICK D \in SUBSET {a \in Attempts : attStatus[a] = "succeeded"} :
          /\ Cardinality(D) = Tier.minDelegated
          /\ \A a \in D : attRole[a] \notin SupervisorRoles
    BY <1>2 DEF CompletedHasEvidence
  <2>2. \A a \in D : attStatus'[a] = "succeeded" /\ attRole'[a] = attRole[a]
    BY <1>1, <2>1 DEF AttemptsKept
  <2>3. D \in SUBSET {a \in Attempts : attStatus'[a] = "succeeded"}
    BY <2>1, <2>2
  <2>4. \A a \in D : attRole'[a] \notin SupervisorRoles
    BY <2>1, <2>2
  <2>5. admitted'
    BY <1>1, <1>2 DEF CompletedHasEvidence, TaskKept
  <2>6. Tier.required \ {"evidence_binding"} \subseteq records'
    BY <1>1, <1>2 DEF CompletedHasEvidence, TaskKept
  <2>7. "evidence_binding" \in Tier.required => evidence' # {}
    BY <1>1, <1>2 DEF CompletedHasEvidence, VersionsKept
  <2> QED
    BY <2>1, <2>3, <2>4, <2>5, <2>6, <2>7
<1>3. CASE taskStatus # "completed"
  <2>1. CompleteTask
    BY <1>3, OnlyCompletion
  <2>2. /\ TierCompletion
        /\ UNCHANGED <<admitted, records, evidence, attStatus, attRole>>
    BY <2>1 DEF TieredInv, CompleteTask, attemptVars, artifactVars
  <2> DEFINE S == {a \in Attempts : /\ attStatus[a] = "succeeded"
                                    /\ attRole[a] \notin SupervisorRoles}
  <2>3. IsFiniteSet(S)
    BY FiniteAssumption, FS_Subset
  <2>4. Tier.minDelegated \in Nat /\ Tier.minDelegated <= Cardinality(S)
    BY <2>2, ConstantsAssumption DEF TierCompletion
  <2> HIDE DEF S
  <2>5. PICK D \in SUBSET S : Cardinality(D) = Tier.minDelegated
    BY <2>3, <2>4, SubsetOfSize
  <2>6. /\ D \in SUBSET {a \in Attempts : attStatus'[a] = "succeeded"}
        /\ \A a \in D : attRole'[a] \notin SupervisorRoles
    BY <2>2, <2>5 DEF S
  <2>7. /\ admitted'
        /\ Tier.required \ {"evidence_binding"} \subseteq records'
    BY <2>2 DEF TierCompletion, AvailableRecords
  <2>8. "evidence_binding" \in Tier.required => evidence' # {}
    BY <2>2, ConstantsAssumption DEF TierCompletion, AvailableRecords, TypeOK, TaskType
  <2> QED
    BY <2>5, <2>6, <2>7, <2>8
<1> QED
  BY <1>2, <1>3

\* A completed Task of a tier keeps its classification, its records, its
\* evidence and as many delegated successes as the tier asks for, whatever
\* commands follow completion.
THEOREM CompletedHasEvidenceHolds == Spec => []CompletedHasEvidence
<1>1. Init => CompletedHasEvidence
  BY DEF Init, CompletedHasEvidence
<1>2. TypeOK /\ TieredInv /\ CompletedHasEvidence /\ [Next]_vars
        => (TypeOK /\ TieredInv /\ CompletedHasEvidence)'
  BY TypeStep, TieredStep, EvidenceStep
<1> QED
  BY <1>1, <1>2, TypeInit, TieredInit, PTL DEF Spec

(***************************************************************************)
(* The compiled protocol: its graph and its gates.                         *)
(***************************************************************************)

\* A command on a WorkItem that exists neither removes nor adds one.
LEMMA EventKeepsItems ==
  ASSUME TypeOK, NEW w \in WorkItems, NEW s \in WorkItemStatuses,
         WorkItemEvent(w, s), Exists(w)
  PROVE  \A x \in WorkItems : Exists(x) <=> wiStatus'[x] # "absent"
<1>1. \A x \in WorkItems : wiStatus'[x] = "absent" <=> [wiStatus EXCEPT ![w] = s][x] = "absent"
  BY DEF WorkItemEvent, Unlock
<1>2. s # "absent"
  BY DEF WorkItemStatuses
<1> QED
  BY <1>1, <1>2 DEF Exists, TypeOK, ItemType

\* Once a compiled graph is materialized, nothing adds to it, removes from it
\* or rewires it: create_work_item is refused and create_work_items finds the
\* graph there.
THEOREM CompiledGraphFixedHolds == Spec => CompiledGraphFixed
<1> DEFINE Fixed ==
      /\ \A w \in WorkItems : Exists(w) <=> wiStatus'[w] # "absent"
      /\ UNCHANGED <<dependsOn, protocolRole>>
<1>1. TypeOK /\ [Next]_vars
        => [compiled /\ (\E w \in WorkItems : Exists(w)) => Fixed]_vars
  <2> SUFFICES ASSUME TypeOK, Next, compiled, NEW x \in WorkItems, Exists(x)
               PROVE  Fixed
    BY DEF vars
  <2>1. ASSUME UNCHANGED <<wiStatus, dependsOn, protocolRole>>
        PROVE  Fixed
    BY <2>1 DEF Exists
  <2>2. CASE TaskCommand
    BY <2>1, <2>2
    DEF TaskCommand, CreateTask, BindCompiledProtocol, CompleteTask, TransitionTask,
        ClassifyTaskInput, AppendInstruction, CreateJob, RecordTrace, itemVars
  <2>3. CASE WorkItemCommand
    <3>1. ~MaterializeGraph
      BY DEF MaterializeGraph
    <3>2. ASSUME NEW w, NEW D, NEW role, CreateWorkItem(w, D, role)
          PROVE  FALSE
      BY <3>2 DEF CreateWorkItem, AcceptsGenericItems
    <3>3. ASSUME NEW w \in WorkItems, NEW s \in WorkItemStatuses, MoveWorkItem(w, s)
          PROVE  Fixed
      <4>1. Exists(w)
        BY <3>3 DEF MoveWorkItem, WORK_ITEM_TRANSITIONS, Exists
      <4> QED
        BY <3>3, <4>1, EventKeepsItems DEF MoveWorkItem
    <3>4. ASSUME NEW w \in WorkItems, AcceptWorkItem(w)
          PROVE  Fixed
      <4>1. Exists(w) /\ "accepted" \in WorkItemStatuses
        BY <3>4 DEF AcceptWorkItem, WORK_ITEM_TRANSITIONS, Exists, WorkItemStatuses
      <4> QED
        BY <3>4, <4>1, EventKeepsItems DEF AcceptWorkItem
    <3>5. ASSUME NEW w \in WorkItems, NEW f \in Feedback, ReopenWorkItem(w, f)
          PROVE  Fixed
      <4>1. Exists(w) /\ "ready" \in WorkItemStatuses
        BY <3>5 DEF ReopenWorkItem, Exists, WorkItemStatuses
      <4> QED
        BY <3>5, <4>1, EventKeepsItems DEF ReopenWorkItem
    <3> QED
      BY <2>3, <3>1, <3>2, <3>3, <3>4, <3>5 DEF WorkItemCommand
  <2>4. CASE AttemptCommand
    <3>1. ASSUME NEW a, NEW w, NEW role, NEW worker, ScheduleAttempt(w, a, role, worker)
          PROVE  Fixed
      BY <2>1, <3>1 DEF ScheduleAttempt
    <3>2. ASSUME NEW a, NEW s, TransitionAttempt(a, s)
          PROVE  Fixed
      BY <2>1, <3>2 DEF TransitionAttempt
    <3>3. ASSUME NEW a, NEW verdict, ValidateOutput(a, verdict)
          PROVE  Fixed
      BY <2>1, <3>3 DEF ValidateOutput, itemVars
    <3> QED
      BY <2>4, <3>1, <3>2, <3>3 DEF AttemptCommand
  <2>5. CASE ArtifactCommand
    BY <2>1, <2>5
    DEF ArtifactCommand, RecordArtifact, BindEvidence, SelectVersion,
        BeginDisposition, CommitDisposition, RejectDisposition, itemVars
  <2>6. CASE GateCommand
    BY <2>1, <2>6 DEF GateCommand, RecordGate, RevokeGate, itemVars
  <2> QED
    BY <2>2, <2>3, <2>4, <2>5, <2>6 DEF Next
<1> QED
  BY <1>1, TypeCorrect, PTL DEF Spec, CompiledGraphFixed

\* A recorded gate was evaluated by a succeeded Attempt over recorded
\* versions; an independent one by a reviewer that produced none of them.
GatesSound ==
  \A g \in Gates :
    gates[g] # NoGate =>
      /\ gates[g].attempt \in Attempts
      /\ attStatus[gates[g].attempt] = "succeeded"
      /\ \A v \in gates[g].subjects : Recorded(v)
      /\ Graph.gateKind[g] = "independent" =>
           /\ attRole[gates[g].attempt] = "reviewer"
           /\ \A v \in gates[g].subjects :
                attWorker[producer[v]] # attWorker[gates[g].attempt]

GateInv == SelectionInv /\ GatesSound

\* Only record_protocol_gate and revoke_protocol_gate change a gate.
LEMMA OtherCommandsKeepGates ==
  ASSUME [Next]_vars, ~GateCommand
  PROVE  UNCHANGED gates
<1>1. CASE TaskCommand
  BY <1>1
  DEF TaskCommand, CreateTask, BindCompiledProtocol, CompleteTask, TransitionTask,
      ClassifyTaskInput, AppendInstruction, CreateJob, RecordTrace
<1>2. CASE WorkItemCommand
  BY <1>2
  DEF WorkItemCommand, MaterializeGraph, CreateWorkItem, MoveWorkItem,
      AcceptWorkItem, ReopenWorkItem
<1>3. CASE AttemptCommand
  <2>1. ASSUME NEW a, NEW w, NEW role, NEW worker, ScheduleAttempt(w, a, role, worker)
        PROVE  UNCHANGED gates
    BY <2>1 DEF ScheduleAttempt
  <2>2. ASSUME NEW a, NEW s, TransitionAttempt(a, s)
        PROVE  UNCHANGED gates
    BY <2>2 DEF TransitionAttempt
  <2>3. ASSUME NEW a, NEW verdict, ValidateOutput(a, verdict)
        PROVE  UNCHANGED gates
    BY <2>3 DEF ValidateOutput
  <2> QED
    BY <1>3, <2>1, <2>2, <2>3 DEF AttemptCommand
<1>4. CASE ArtifactCommand
  BY <1>4
  DEF ArtifactCommand, RecordArtifact, BindEvidence, SelectVersion,
      BeginDisposition, CommitDisposition, RejectDisposition
<1>5. CASE UNCHANGED vars
  BY <1>5 DEF vars
<1> QED
  BY <1>1, <1>2, <1>3, <1>4, <1>5 DEF Next

\* Nothing that happens after a gate is recorded touches what it rests on.
LEMMA GateStep ==
  ASSUME TypeOK, GateInv, [Next]_vars
  PROVE  GateInv'
<1>1. SelectionInv'
  BY SelectionStep DEF GateInv
<1>2. AttemptsKept /\ VersionsKept
  BY AttemptsStay, VersionsStay
<1>3. ASSUME NEW g \in Gates, gates'[g] = gates[g], gates[g] # NoGate
      PROVE  /\ gates'[g].attempt \in Attempts
             /\ attStatus'[gates'[g].attempt] = "succeeded"
             /\ \A v \in gates'[g].subjects : Recorded(v)'
             /\ Graph.gateKind[g] = "independent" =>
                  /\ attRole'[gates'[g].attempt] = "reviewer"
                  /\ \A v \in gates'[g].subjects :
                       attWorker'[producer'[v]] # attWorker'[gates'[g].attempt]
  <2> PICK a : a = gates[g].attempt
    OBVIOUS
  <2> PICK S : S = gates[g].subjects
    OBVIOUS
  <2>1. gates'[g].attempt = a /\ gates'[g].subjects = S
    BY <1>3
  <2>2. S \subseteq Versions
    BY DEF TypeOK, GateRecords
  <2>3. a \in Attempts /\ attStatus[a] = "succeeded" /\ \A v \in S : Recorded(v)
    BY <1>3 DEF GateInv, GatesSound
  <2>4. /\ attStatus'[a] = "succeeded"
        /\ attRole'[a] = attRole[a] /\ attWorker'[a] = attWorker[a]
    BY <1>2, <2>3 DEF AttemptsKept
  <2>5. \A v \in S : Recorded(v)' /\ producer'[v] = producer[v]
    BY <1>2, <2>2, <2>3 DEF VersionsKept
  <2>6. \A v \in S : attWorker'[producer[v]] = attWorker[producer[v]]
    <3>1. \A v \in S : producer[v] \in Attempts /\ attStatus[producer[v]] = "succeeded"
      BY <2>2, <2>3 DEF GateInv, SelectionInv, ProducersSucceeded
    <3> QED
      BY <1>2, <3>1 DEF AttemptsKept
  <2>7. Graph.gateKind[g] = "independent" =>
          /\ attRole[a] = "reviewer"
          /\ \A v \in S : attWorker[producer[v]] # attWorker[a]
    BY <1>3 DEF GateInv, GatesSound
  <2> QED
    BY <2>1, <2>3, <2>4, <2>5, <2>6, <2>7
<1>4. ASSUME NEW g \in Gates, NEW a \in Attempts, NEW S \in SUBSET Versions,
             RecordGate(g, a, S)
      PROVE  GatesSound'
  <2>1. \A h \in Gates \ {g} : gates'[h] = gates[h]
    BY <1>4 DEF RecordGate, TypeOK
  <2>2. gates'[g].attempt = a /\ gates'[g].subjects = S
    BY <1>4 DEF RecordGate, TypeOK
  <2>3. UNCHANGED <<attStatus, attRole, attWorker, producer, disposition>>
    BY <1>4 DEF RecordGate, attemptVars, artifactVars
  <2>4. attStatus[a] = "succeeded" /\ \A v \in S : Recorded(v)
    BY <1>4 DEF RecordGate, SubjectsBound
  <2>5. Graph.gateKind[g] = "independent" =>
          /\ attRole[a] = "reviewer"
          /\ \A v \in S : attWorker[producer[v]] # attWorker[a]
    BY <1>4 DEF RecordGate, EvidenceFits
  <2>6. \A v \in S : Recorded(v)'
    BY <2>3, <2>4 DEF Recorded
  <2> QED
    BY <1>3, <2>1, <2>2, <2>3, <2>4, <2>5, <2>6 DEF GatesSound
<1>5. ASSUME NEW g \in Gates, RevokeGate(g)
      PROVE  GatesSound'
  <2>1. /\ \A h \in Gates \ {g} : gates'[h] = gates[h]
        /\ gates'[g] = NoGate
    BY <1>5 DEF RevokeGate, TypeOK
  <2> QED
    BY <1>3, <2>1 DEF GatesSound
<1>6. ASSUME UNCHANGED gates
      PROVE  GatesSound'
  BY <1>3, <1>6 DEF GatesSound
<1>7. CASE GateCommand
  BY <1>1, <1>4, <1>5, <1>7 DEF GateCommand, GateInv
<1>8. CASE ~GateCommand
  BY <1>1, <1>6, <1>8, OtherCommandsKeepGates DEF GateInv
<1> QED
  BY <1>7, <1>8

LEMMA GateInit == Init => GateInv
  BY DEF Init, NoWork, GateInv, GatesSound, SelectionInv, ProducersSucceeded,
         SelectionSound, Recorded

\* A compiled Task is completed only with a result that a succeeded reviewer
\* other than its producer judged in every independent gate of the result: a
\* gate that was recorded earlier still stands for the version selected now.
THEOREM ResultsAreReviewed == Spec => IndependentlyReviewed
<1> DEFINE Judged(g) ==
      LET reviewer == gates[g].attempt IN
      /\ reviewer \in Attempts /\ attStatus[reviewer] = "succeeded"
      /\ attRole[reviewer] = "reviewer"
      /\ attWorker[reviewer] # attWorker[producer[selected]]
    Reviewed ==
      \A g \in Gates :
        /\ Graph.gateKind[g] = "independent"
        /\ Graph.result \in Graph.subjects[g]
        => Judged(g)
<1>1. TypeOK /\ GateInv /\ [Next]_vars
        => [taskStatus # "completed" /\ taskStatus' = "completed" /\ compiled
              => Reviewed]_vars
  <2> SUFFICES ASSUME TypeOK, GateInv, [Next]_vars, taskStatus # "completed",
                      taskStatus' = "completed", compiled,
                      NEW g \in Gates, Graph.gateKind[g] = "independent",
                      Graph.result \in Graph.subjects[g]
               PROVE  Judged(g)
    OBVIOUS
  <2>1. CompleteTask
    BY OnlyCompletion
  <2>2. selected \in gates[g].subjects
    BY <2>1 DEF CompleteTask, ProtocolCompletion
  <2>3. gates[g] # NoGate
    BY <2>2 DEF NoGate
  <2> QED
    BY <2>2, <2>3 DEF GateInv, GatesSound
<1>2. TypeOK /\ GateInv /\ [Next]_vars => (TypeOK /\ GateInv)'
  BY TypeStep, GateStep
<1> QED
  BY <1>1, <1>2, TypeInit, GateInit, PTL DEF Spec, IndependentlyReviewed

(***************************************************************************)
(* Reopening.  Whatever was there when a WorkItem was reopened has seen    *)
(* only versions of it that are retired by then, and retirement is final,  *)
(* so a gate about an eligible version was evaluated by a later Attempt.   *)
(***************************************************************************)
Overtaken == \A w \in WorkItems : \A a \in overtaken[w] : attStatus[a] # "absent"

SealedRecorded == \A a \in Attempts : \A v \in sealed[a] : Recorded(v)

SubjectsSealed ==
  \A g \in Gates :
    gates[g] # NoGate =>
      \A v \in gates[g].subjects :
        producer[v] = gates[g].attempt \/ v \in sealed[gates[g].attempt]

SeenIsRetired ==
  \A w \in WorkItems : \A a \in overtaken[w] : \A v \in sealed[a] :
    attItem[producer[v]] = w => disposition[v] # "eligible"

AfreshInv == Overtaken /\ SealedRecorded /\ SubjectsSealed /\ SeenIsRetired

\* An Attempt keeps its WorkItem and the versions sealed into it, and starts
\* with versions that are on record.
SealsKept ==
  \A a \in Attempts :
    /\ attStatus[a] # "absent" => attItem'[a] = attItem[a] /\ sealed'[a] = sealed[a]
    /\ sealed'[a] = sealed[a] \/ \A v \in sealed'[a] : Recorded(v)

LEMMA SealsStay ==
  ASSUME TypeOK, [Next]_vars
  PROVE  SealsKept
<1> USE DEF SealsKept
<1>1. CASE AttemptCommand
  <2>1. ASSUME NEW a \in Attempts, NEW w \in WorkItems, NEW role, NEW worker,
               ScheduleAttempt(w, a, role, worker)
        PROVE  SealsKept
    <3>1. \A v \in SealableSources(w) : Recorded(v)
      BY DEF SealableSources
    <3>2. /\ attStatus[a] = "absent"
          /\ attItem' = [attItem EXCEPT ![a] = w]
          /\ sealed' = [sealed EXCEPT ![a] = SealableSources(w)]
      BY <2>1 DEF ScheduleAttempt
    <3> QED
      BY <3>1, <3>2 DEF TypeOK, AttemptType
  <2>2. ASSUME NEW a \in Attempts, NEW s, TransitionAttempt(a, s)
        PROVE  SealsKept
    BY <2>2 DEF TransitionAttempt
  <2>3. ASSUME NEW a \in Attempts, NEW verdict, ValidateOutput(a, verdict)
        PROVE  SealsKept
    BY <2>3 DEF ValidateOutput
  <2> QED
    BY <1>1, <2>1, <2>2, <2>3 DEF AttemptCommand
<1>2. CASE ~AttemptCommand
  BY <1>2, OtherCommandsKeepAttempts DEF attemptVars
<1> QED
  BY <1>1, <1>2

RetiredKept ==
  \A v \in Versions :
    disposition'[v] = "eligible" => disposition[v] \in {"absent", "eligible"}

\* No command makes a retired version eligible again.
LEMMA RetirementIsFinal ==
  ASSUME TypeOK, [Next]_vars
  PROVE  RetiredKept
<1> USE DEF RetiredKept
<1>1. ASSUME UNCHANGED disposition
      PROVE  RetiredKept
  BY <1>1
<1>2. CASE ~ArtifactCommand
  <2>1. CASE AttemptCommand
    BY <1>1, <2>1, AttemptFrame DEF artifactVars
  <2>2. CASE TaskCommand
    BY <1>1, <2>2
    DEF TaskCommand, CreateTask, BindCompiledProtocol, CompleteTask, TransitionTask,
        ClassifyTaskInput, AppendInstruction, CreateJob, RecordTrace, artifactVars
  <2>3. CASE WorkItemCommand
    BY <1>1, <2>3
    DEF WorkItemCommand, MaterializeGraph, CreateWorkItem, MoveWorkItem,
        AcceptWorkItem, ReopenWorkItem, artifactVars
  <2>4. CASE GateCommand
    BY <1>1, <2>4 DEF GateCommand, RecordGate, RevokeGate, artifactVars
  <2>5. CASE UNCHANGED vars
    BY <1>1, <2>5 DEF vars, artifactVars
  <2> QED
    BY <1>2, <2>1, <2>2, <2>3, <2>4, <2>5 DEF Next
<1>3. ASSUME NEW v \in Versions, NEW a \in Attempts, RecordArtifact(v, a)
      PROVE  RetiredKept
  BY <1>3 DEF RecordArtifact, Recorded, TypeOK, VersionType
<1>4. ASSUME NEW c \in Callers, CommitDisposition(c)
      PROVE  RetiredKept
  <2>1. calls[c].to # "eligible"
    BY <1>4 DEF CommitDisposition, DispositionValid, ARTIFACT_DISPOSITION_TRANSITIONS
  <2>2. disposition' = [disposition EXCEPT ![calls[c].version] = calls[c].to]
    BY <1>4 DEF CommitDisposition
  <2> QED
    BY <2>1, <2>2 DEF TypeOK, VersionType
<1>5. CASE ArtifactCommand
  BY <1>1, <1>3, <1>4, <1>5
  DEF ArtifactCommand, BindEvidence, SelectVersion, BeginDisposition,
      RejectDisposition, artifactVars
<1> QED
  BY <1>2, <1>5

\* Only a reopening changes which Attempts a WorkItem has left behind.
LEMMA OnlyReopening ==
  ASSUME [Next]_vars
  PROVE  \/ UNCHANGED overtaken
         \/ \E w \in WorkItems, f \in Feedback : ReopenWorkItem(w, f)
<1>1. CASE TaskCommand
  BY <1>1
  DEF TaskCommand, CreateTask, BindCompiledProtocol, CompleteTask, TransitionTask,
      ClassifyTaskInput, AppendInstruction, CreateJob, RecordTrace, itemVars
<1>2. CASE WorkItemCommand
  BY <1>2
  DEF WorkItemCommand, MaterializeGraph, CreateWorkItem, MoveWorkItem, AcceptWorkItem
<1>3. CASE AttemptCommand
  <2>1. ASSUME NEW a, NEW w, NEW role, NEW worker, ScheduleAttempt(w, a, role, worker)
        PROVE  UNCHANGED overtaken
    BY <2>1 DEF ScheduleAttempt
  <2>2. ASSUME NEW a, NEW s, TransitionAttempt(a, s)
        PROVE  UNCHANGED overtaken
    BY <2>2 DEF TransitionAttempt
  <2>3. ASSUME NEW a, NEW verdict, ValidateOutput(a, verdict)
        PROVE  UNCHANGED overtaken
    BY <2>3 DEF ValidateOutput, itemVars
  <2> QED
    BY <1>3, <2>1, <2>2, <2>3 DEF AttemptCommand
<1>4. CASE ArtifactCommand
  BY <1>4
  DEF ArtifactCommand, RecordArtifact, BindEvidence, SelectVersion,
      BeginDisposition, CommitDisposition, RejectDisposition, itemVars
<1>5. CASE GateCommand
  BY <1>5 DEF GateCommand, RecordGate, RevokeGate, itemVars
<1>6. CASE UNCHANGED vars
  BY <1>6 DEF vars, itemVars
<1> QED
  BY <1>1, <1>2, <1>3, <1>4, <1>5, <1>6 DEF Next

LEMMA AfreshStep ==
  ASSUME TypeOK, GateInv, AfreshInv, [Next]_vars
  PROVE  AfreshInv'
<1>1. AttemptsKept /\ VersionsKept /\ SealsKept /\ RetiredKept
  BY AttemptsStay, VersionsStay, SealsStay, RetirementIsFinal
<1>2. SealedRecorded'
  <2> SUFFICES ASSUME NEW a \in Attempts, NEW v \in sealed'[a]
               PROVE  Recorded(v)'
    BY DEF SealedRecorded
  <2>1. Recorded(v)
    BY <1>1 DEF SealsKept, AfreshInv, SealedRecorded
  <2>2. v \in Versions
    BY TypeStep DEF TypeOK, AttemptType
  <2> QED
    BY <1>1, <2>1, <2>2 DEF VersionsKept
<1>3. SubjectsSealed'
  <2>1. ASSUME NEW g \in Gates, gates'[g] = gates[g], gates[g] # NoGate,
               NEW v \in gates[g].subjects
        PROVE  producer'[v] = gates[g].attempt \/ v \in sealed'[gates[g].attempt]
    <3> PICK a : a = gates[g].attempt
      OBVIOUS
    <3>1. a \in Attempts /\ attStatus[a] = "succeeded" /\ Recorded(v)
      BY <2>1 DEF GateInv, GatesSound
    <3>2. v \in Versions
      BY <2>1 DEF TypeOK, GateRecords
    <3>3. producer'[v] = producer[v] /\ sealed'[a] = sealed[a]
      BY <1>1, <3>1, <3>2 DEF VersionsKept, SealsKept
    <3>4. producer[v] = a \/ v \in sealed[a]
      BY <2>1 DEF AfreshInv, SubjectsSealed
    <3> QED
      BY <3>3, <3>4
  <2>2. ASSUME NEW g \in Gates, NEW a \in Attempts, NEW S \in SUBSET Versions,
               RecordGate(g, a, S)
        PROVE  SubjectsSealed'
    <3>1. \A h \in Gates \ {g} : gates'[h] = gates[h]
      BY <2>2 DEF RecordGate, TypeOK
    <3>2. gates'[g].attempt = a /\ gates'[g].subjects = S
      BY <2>2 DEF RecordGate, TypeOK
    <3>3. UNCHANGED <<producer, sealed>>
      BY <2>2 DEF RecordGate, attemptVars, artifactVars
    <3>4. \A v \in S : producer[v] = a \/ v \in sealed[a]
      BY <2>2 DEF RecordGate, SubjectsBound
    <3> QED
      BY <2>1, <3>1, <3>2, <3>3, <3>4 DEF SubjectsSealed
  <2>3. ASSUME NEW g \in Gates, RevokeGate(g)
        PROVE  SubjectsSealed'
    <3>1. (\A h \in Gates \ {g} : gates'[h] = gates[h]) /\ gates'[g] = NoGate
      BY <2>3 DEF RevokeGate, TypeOK
    <3> QED
      BY <2>1, <3>1 DEF SubjectsSealed
  <2>4. ASSUME UNCHANGED gates
        PROVE  SubjectsSealed'
    BY <2>1, <2>4 DEF SubjectsSealed
  <2>5. CASE GateCommand
    BY <2>2, <2>3, <2>5 DEF GateCommand
  <2>6. CASE ~GateCommand
    BY <2>4, <2>6, OtherCommandsKeepGates
  <2> QED
    BY <2>5, <2>6
<1>4. ASSUME NEW w \in WorkItems, overtaken'[w] = overtaken[w], NEW a \in overtaken[w]
      PROVE  /\ attStatus'[a] # "absent"
             /\ \A v \in sealed'[a] :
                  attItem'[producer'[v]] = w => disposition'[v] # "eligible"
  <2>1. a \in Attempts /\ attStatus[a] # "absent"
    BY <1>4 DEF AfreshInv, Overtaken, TypeOK, ItemType
  <2>2. attStatus'[a] # "absent" /\ sealed'[a] = sealed[a]
    BY <1>1, <2>1 DEF AttemptsKept, SealsKept
  <2>3. ASSUME NEW v \in sealed[a], attItem'[producer'[v]] = w
        PROVE  disposition'[v] # "eligible"
    <3>1. v \in Versions /\ Recorded(v)
      BY <2>1 DEF AfreshInv, SealedRecorded, TypeOK, AttemptType
    <3>2. producer'[v] = producer[v]
      BY <1>1, <3>1 DEF VersionsKept
    <3>3. producer[v] \in Attempts /\ attStatus[producer[v]] # "absent"
      BY <3>1 DEF GateInv, SelectionInv, ProducersSucceeded
    <3>4. attItem'[producer[v]] = attItem[producer[v]]
      BY <1>1, <3>3 DEF SealsKept
    <3>5. disposition[v] # "eligible"
      BY <1>4, <2>3, <3>2, <3>4 DEF AfreshInv, SeenIsRetired
    <3> QED
      BY <1>1, <3>1, <3>5 DEF RetiredKept, Recorded
  <2> QED
    BY <2>2, <2>3
<1>5. CASE UNCHANGED overtaken
  BY <1>2, <1>3, <1>4, <1>5 DEF AfreshInv, Overtaken, SeenIsRetired
<1>6. ASSUME NEW w \in WorkItems, NEW f \in Feedback, ReopenWorkItem(w, f)
      PROVE  AfreshInv'
  <2>1. /\ \A x \in WorkItems \ {w} : overtaken'[x] = overtaken[x]
        /\ overtaken'[w] = {a \in Attempts : attStatus[a] # "absent"}
    BY <1>6 DEF ReopenWorkItem, TypeOK, ItemType
  <2>2. UNCHANGED <<attStatus, attItem, sealed, producer, disposition>>
    BY <1>6 DEF ReopenWorkItem, attemptVars, artifactVars
  <2>3. \A v \in Versions : attItem[producer[v]] = w => disposition[v] # "eligible"
    BY <1>6 DEF ReopenWorkItem, HasEligibleArtifact
  <2>4. \A a \in Attempts : sealed[a] \subseteq Versions
    BY DEF TypeOK, AttemptType
  <2> QED
    BY <1>2, <1>3, <1>4, <2>1, <2>2, <2>3, <2>4 DEF AfreshInv, Overtaken, SeenIsRetired
<1> QED
  BY <1>5, <1>6, OnlyReopening

LEMMA AfreshInit == Init => AfreshInv
  BY DEF Init, NoWork, AfreshInv, Overtaken, SealedRecorded, SubjectsSealed,
         SeenIsRetired

\* A compiled Task is never completed on the judgement of an Attempt that was
\* there when its result was last reopened, also when that Attempt was still
\* at work then and finished afterwards.
THEOREM ReopenedIsReviewedAfresh == Spec => ReviewedAfresh
<1> DEFINE Afresh ==
      \A g \in Gates :
        /\ Graph.gateKind[g] = "independent"
        /\ Graph.result \in Graph.subjects[g]
        => gates[g].attempt \notin overtaken[attItem[producer[selected]]]
<1>1. TypeOK /\ GateInv /\ AfreshInv /\ [Next]_vars
        => [taskStatus # "completed" /\ taskStatus' = "completed" /\ compiled
              => Afresh]_vars
  <2> SUFFICES ASSUME TypeOK, GateInv, AfreshInv, [Next]_vars,
                      taskStatus # "completed", taskStatus' = "completed", compiled,
                      NEW g \in Gates, Graph.gateKind[g] = "independent",
                      Graph.result \in Graph.subjects[g],
                      gates[g].attempt \in overtaken[attItem[producer[selected]]]
               PROVE  FALSE
    OBVIOUS
  <2> PICK a : a = gates[g].attempt
    OBVIOUS
  <2> PICK w : w = attItem[producer[selected]]
    OBVIOUS
  <2>1. CompleteTask
    BY OnlyCompletion
  <2>2. selected \in gates[g].subjects /\ selected # None
    BY <2>1 DEF CompleteTask, ProtocolCompletion
  <2>3. gates[g] # NoGate
    BY <2>2 DEF NoGate
  <2>4. disposition[selected] = "eligible" /\ producer[selected] \in Attempts
    BY <2>2 DEF GateInv, SelectionInv, SelectionSound
  <2>5. attStatus[producer[selected]] = "succeeded"
    BY <2>2 DEF GateInv, SelectionInv, SelectionSound
  <2>6. w \in WorkItems
    BY <2>4, <2>5 DEF TypeOK, AttemptType
  <2>7. attWorker[producer[selected]] # attWorker[a]
    BY <2>2, <2>3 DEF GateInv, GatesSound
  <2>8. selected \in sealed[a]
    BY <2>2, <2>3, <2>7 DEF AfreshInv, SubjectsSealed
  <2> QED
    BY <2>4, <2>6, <2>8 DEF AfreshInv, SeenIsRetired
<1>2. TypeOK /\ GateInv /\ AfreshInv /\ [Next]_vars => (TypeOK /\ GateInv /\ AfreshInv)'
  BY TypeStep, GateStep, AfreshStep
<1> QED
  BY <1>1, <1>2, TypeInit, GateInit, AfreshInit, PTL DEF Spec, ReviewedAfresh

=============================================================================
