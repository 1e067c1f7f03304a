------------------------- MODULE ProjectTasksProofs -------------------------
(***************************************************************************)
(* Theorems about ProjectTasks, for every number of processes, Tasks,      *)
(* requests, legacy runs and deaths.                                       *)
(***************************************************************************)
EXTENDS ProjectTasks, SequenceTheorems, TLAPS

(* The state, typed. *)

StatusEvents == [key : TaskStatuses \cup {None}, status : TaskStatuses]
Events == Commands \cup StatusEvents
SourceType == [task : Tasks, goal : Goals, status : TaskStatuses]
Readings == UNION {[D -> Nat] : D \in SUBSET Tasks}

CallType == [pc : CallPoints, command : Commands \cup {None}, left : Seq(SourceType),
             todo : SUBSET Tasks, seen : Readings, since : Readings]

Shape ==
  /\ dirs \in SUBSET Tasks
  /\ ledger \in [Tasks -> Seq(Events)]
  /\ admitted \in Seq(Tasks)
  /\ lock \in Processes \cup {None}
  /\ call \in [Processes -> CallType]
  /\ index \in Readings /\ manifest \in Readings
  /\ rebuilds \in 0 .. MaxRebuilds /\ deaths \in 0 .. MaxDeaths

\* A reading of no Task.
LEMMA EmptyReading == <<>> \in Readings
<1>1. <<>> \in Seq(Nat) /\ Len(<<>>) = 0
  BY EmptySeq
<1>2. <<>> \in [1 .. 0 -> Nat]
  BY <1>1, LenProperties
<1>3. 1 .. 0 = {}
  OBVIOUS
<1>4. <<>> \in [{} -> Nat]
  BY <1>2, <1>3
<1> QED
  BY <1>4 DEF Readings

\* The call of a process that is in none.
LEMMA IdleType == Idle \in CallType /\ Idle.pc = "idle" /\ Idle.left = <<>> /\ Idle.todo = {}
<1>1. <<>> \in Seq(SourceType)
  BY EmptySeq
<1> QED
  BY <1>1, EmptyReading DEF Idle, CallType, CallPoints

\* A new project is well typed.
LEMMA ShapeInit == Init => Shape
BY EmptySeq, EmptyReading, IdleType, ProjectAssumption DEF Init, Shape

\* An import is a command.
LEMMA ImportIsCommand ==
  ASSUME NEW source \in SourceType
  PROVE  ImportOf(source) \in Commands /\ ImportOf(source).task = source.task
         /\ ImportOf(source).independent
BY DEF ImportOf, Commands, SourceType

\* Where the status of a Task goes is a status.
LEMMA TransitionType ==
  ASSUME NEW from, NEW to, <<from, to>> \in TASK_TRANSITIONS
  PROVE  to \in TaskStatuses
BY DEF TaskStatuses

\* Raising leaves the call and gives the lock back.
LEMMA RaiseType ==
  ASSUME Shape, NEW p \in Processes, Raise(p)
  PROVE  call' \in [Processes -> CallType] /\ lock' \in Processes \cup {None}
BY IdleType DEF Shape, Raise

\* Every step of a call that changes no file and publishes nothing.
Quiet(p) ==
  \/ \E r \in Requests : Create(p, r)
  \/ Admit(p) \/ Scan(p) \/ Apply(p) \/ Import(p) \/ EndApply(p)
  \/ Rebuild(p) \/ Visit(p) \/ Die(p)

\* The other steps of a call.
LEMMA StepCases ==
  ASSUME NEW p \in Processes, Step(p)
  PROVE  \/ Quiet(p) \/ Append1(p) \/ AppendFirstEvent(p) \/ Restore(p)
         \/ PublishIndex(p) \/ PublishManifest(p)
BY DEF Step, Quiet

\* The lengths of the ledgers of some Tasks.
LEMMA LengthsRead ==
  ASSUME Shape, NEW d \in SUBSET Tasks
  PROVE  [t \in d |-> Len(ledger[t])] \in Readings
<1>1. \A t \in d : Len(ledger[t]) \in Nat
  BY LenProperties DEF Shape
<1> QED
  BY <1>1 DEF Readings

\* A rebuild begins well typed.
LEMMA StartIndexType ==
  ASSUME Shape, NEW p \in Processes
  PROVE  StartIndex(p, dirs) \in CallType
BY LengthsRead, IdleType DEF Shape, StartIndex, CallType, CallPoints

\* One more reading.
LEMMA MoreRead ==
  ASSUME NEW seen \in Readings, NEW t \in Tasks, NEW n \in Nat
  PROVE  [u \in {t} \cup DOMAIN seen |-> IF u = t THEN n ELSE seen[u]] \in Readings
<1>1. PICK D \in SUBSET Tasks : seen \in [D -> Nat]
  BY DEF Readings
<1>2. [u \in {t} \cup DOMAIN seen |-> IF u = t THEN n ELSE seen[u]] \in [{t} \cup D -> Nat]
  BY <1>1
<1> QED
  BY <1>2 DEF Readings

\* Changing fields of a call within their types.
LEMMA TypedUpdate ==
  ASSUME Shape, NEW p \in Processes, NEW point \in CallPoints, NEW tasks \in SUBSET Tasks
  PROVE  /\ [call EXCEPT ![p].pc = point, ![p].todo = tasks] \in [Processes -> CallType]
         /\ [call EXCEPT ![p].todo = tasks, ![p].pc = point] \in [Processes -> CallType]
         /\ [call EXCEPT ![p].pc = point] \in [Processes -> CallType]
         /\ \A c \in Commands \cup {None} :
              [call EXCEPT ![p].pc = point, ![p].command = c] \in [Processes -> CallType]
         /\ \A left \in Seq(SourceType) :
              /\ [call EXCEPT ![p].left = left] \in [Processes -> CallType]
              /\ [call EXCEPT ![p].pc = point, ![p].left = left] \in [Processes -> CallType]
              /\ [call EXCEPT ![p].pc = point, ![p].left = left, ![p].command = None]
                   \in [Processes -> CallType]
<1>0. call \in [Processes -> CallType]
  BY DEF Shape
<1>1. /\ [call EXCEPT ![p].pc = point, ![p].todo = tasks] \in [Processes -> CallType]
      /\ [call EXCEPT ![p].todo = tasks, ![p].pc = point] \in [Processes -> CallType]
      /\ [call EXCEPT ![p].pc = point] \in [Processes -> CallType]
  BY <1>0, ZenonT(60) DEF CallType
<1>2. ASSUME NEW c \in Commands \cup {None}
      PROVE  [call EXCEPT ![p].pc = point, ![p].command = c] \in [Processes -> CallType]
  BY <1>0, ZenonT(60) DEF CallType
<1>3. ASSUME NEW left \in Seq(SourceType)
      PROVE  /\ [call EXCEPT ![p].left = left] \in [Processes -> CallType]
             /\ [call EXCEPT ![p].pc = point, ![p].left = left] \in [Processes -> CallType]
             /\ [call EXCEPT ![p].pc = point, ![p].left = left, ![p].command = None]
                  \in [Processes -> CallType]
  BY <1>0, ZenonT(60) DEF CallType
<1> QED
  BY <1>1, <1>2, <1>3

\* A quiet step keeps the calls and the lock typed.
LEMMA CallsTyped ==
  ASSUME Shape, NEW p \in Processes, Quiet(p)
  PROVE  call' \in [Processes -> CallType] /\ lock' \in Processes \cup {None}
<1> USE DEF Shape
<1>0. call[p] \in CallType
  OBVIOUS
<1>1. ASSUME NEW r \in Requests, Create(p, r) PROVE call' \in [Processes -> CallType] /\ lock' = lock
  <2>1. /\ call' = [call EXCEPT ![p].pc = "admission", ![p].command = r] /\ lock' = lock
        /\ "admission" \in CallPoints /\ r \in Commands \cup {None}
    BY <1>1, ProjectAssumption DEF Create, CallPoints
  <2> QED
    BY <2>1, TypedUpdate
<1>2. CASE Admit(p)
  <2> DEFINE others == IF call[p].command.independent THEN {}
                       ELSE dirs \ {call[p].command.task}
             point == IF others = {} THEN "append" ELSE "scan"
  <2>1. others \in SUBSET Tasks
    OBVIOUS
  <2>2. point \in CallPoints
    BY DEF CallPoints
  <2>3. call' = [call EXCEPT ![p].pc = point, ![p].todo = others] /\ lock' = p
    BY <1>2 DEF Admit
  <2> HIDE DEF others, point
  <2> QED
    BY <2>1, <2>2, <2>3, TypedUpdate
<1>3. CASE Scan(p)
  <2>1. PICK t \in call[p].todo :
          IF ~Exists(t) \/ Goal(t) = call[p].command.goal
          THEN Raise(p)
          ELSE /\ call' = [call EXCEPT ![p].todo = @ \ {t},
                                       ![p].pc = IF call[p].todo = {t} THEN "append" ELSE "scan"]
               /\ UNCHANGED lock
    BY <1>3 DEF Scan
  <2>2. CASE Raise(p)
    BY <2>2, RaiseType
  <2>3. CASE ~Raise(p)
    <3> DEFINE point == IF call[p].todo = {t} THEN "append" ELSE "scan"
               rest == call[p].todo \ {t}
    <3>1. point \in CallPoints /\ rest \in SUBSET Tasks
      BY <1>0 DEF CallPoints, CallType
    <3>2. call' = [call EXCEPT ![p].todo = rest, ![p].pc = point] /\ lock' = lock
      BY <2>1, <2>3
    <3> HIDE DEF point, rest
    <3> QED
      BY <3>1, <3>2, TypedUpdate
  <2> QED
    BY <2>2, <2>3
<1>4. CASE Apply(p)
  <2>1. Sources \in Seq(SourceType)
    BY ProjectAssumption DEF SourceType
  <2>2. /\ call' = [call EXCEPT ![p].pc = "import", ![p].left = Sources] /\ lock' = lock
        /\ "import" \in CallPoints
    BY <1>4 DEF Apply, CallPoints
  <2> QED
    BY <2>1, <2>2, TypedUpdate
<1>5. CASE Import(p)
  <2>1. call[p].left \in Seq(SourceType) /\ call[p].left # <<>>
    BY <1>0, <1>5 DEF CallType, Import
  <2>2. Head(call[p].left) \in SourceType /\ Tail(call[p].left) \in Seq(SourceType)
    BY <2>1, HeadTailProperties
  <2>3. CASE Raise(p)
    BY <2>3, RaiseType
  <2>4. CASE ~Raise(p)
    <3> DEFINE command == ImportOf(Head(call[p].left))
               rest == Tail(call[p].left)
    <3>1. command \in Commands /\ rest \in Seq(SourceType)
      BY <2>2, ImportIsCommand
    <3>2. /\ \/ call' = [call EXCEPT ![p].pc = "admission", ![p].command = command]
             \/ call' = [call EXCEPT ![p].left = rest]
          /\ lock' = lock
      BY <1>5, <2>4 DEF Import
    <3> HIDE DEF command, rest
    <3>3. "admission" \in CallPoints
      BY DEF CallPoints
    <3>4. call' \in [Processes -> CallType]
      <4>1. CASE call' = [call EXCEPT ![p].left = rest]
        BY <3>1, <3>3, <4>1, TypedUpdate
      <4>2. CASE call' = [call EXCEPT ![p].pc = "admission", ![p].command = command]
        BY <3>1, <3>3, <4>2, TypedUpdate
      <4> QED
        BY <3>2, <4>1, <4>2
    <3> QED
      BY <3>2, <3>4
  <2> QED
    BY <2>3, <2>4
<1>6. CASE EndApply(p)
  BY <1>6, StartIndexType DEF EndApply
<1>7. CASE Rebuild(p)
  BY <1>7, StartIndexType DEF Rebuild
<1>8. CASE Visit(p)
  <2>1. PICK t \in call[p].todo :
          call' = [call EXCEPT ![p] =
                     IF Exists(t)
                     THEN [call[p] EXCEPT
                             !.todo = call[p].todo \ {t},
                             !.seen = [u \in {t} \cup DOMAIN call[p].seen |->
                                         IF u = t THEN ReadTask(t) ELSE call[p].seen[u]]]
                     ELSE Idle]
    BY <1>8 DEF Visit
  <2>2. t \in Tasks
    BY <1>0 DEF CallType
  <2>3. ReadTask(t) \in Nat
    BY <2>2, LenProperties DEF ReadTask
  <2>4. [u \in {t} \cup DOMAIN call[p].seen |->
          IF u = t THEN ReadTask(t) ELSE call[p].seen[u]] \in Readings
    BY <1>0, <2>2, <2>3, MoreRead DEF CallType
  <2>5. lock' = lock
    BY <1>8 DEF Visit
  <2> QED
    BY <1>0, <2>1, <2>4, <2>5, IdleType DEF CallType
<1>9. CASE Die(p)
  BY <1>9, RaiseType DEF Die
<1> QED
  BY <1>1, <1>2, <1>3, <1>4, <1>5, <1>6, <1>7, <1>8, <1>9 DEF Quiet

----------------------------------------------------------------------------
(* The invariant: what holds of ledgers and of each call. *)

\* A Task with events has a directory, its first event is the command that
\* created it, and the others give it a status.
LedgerOk ==
  \A t \in Tasks : Exists(t) =>
    /\ t \in dirs
    /\ ledger[t][1] \in Commands
    /\ \A i \in 2 .. Len(ledger[t]) : ledger[t][i] \in StatusEvents

\* The list of admitted Tasks is the list of those with events.
AdmittedOk ==
  \A t \in Tasks : Exists(t) <=> \E i \in 1 .. Len(admitted) : admitted[i] = t

Holding == {"scan", "append", "event"}

\* What a call knows of the Tasks.  While it holds the admission lock, every
\* other Task with its goal is one that it has still to look at.
CallOk(p) ==
  /\ lock = p <=> call[p].pc \in Holding
  /\ call[p].pc = "idle" => call[p].left = <<>>
  /\ call[p].pc \in {"admission"} \cup Holding =>
       /\ call[p].command \in Commands
       /\ call[p].left # <<>> => call[p].command.task = Head(call[p].left).task
  /\ call[p].pc = "restore" => call[p].left # <<>> /\ Exists(Head(call[p].left).task)
  /\ call[p].todo \subseteq dirs
  /\ call[p].pc \in {"append", "event"} => call[p].todo = {}
  /\ call[p].pc = "event" => call[p].command.task \in dirs /\ ~Exists(call[p].command.task)
  /\ call[p].pc \in Holding /\ ~call[p].command.independent =>
       \A t \in Tasks :
         Exists(t) /\ Goal(t) = call[p].command.goal =>
           t \in call[p].todo \/ t = call[p].command.task

Inv == Shape /\ LedgerOk /\ AdmittedOk /\ \A p \in Processes : CallOk(p)

\* A status is added to the ledger of an existing Task.
AddsStatus(t, e) ==
  /\ Exists(t) /\ e \in StatusEvents
  /\ ledger' = [ledger EXCEPT ![t] = Append(@, e)]
  /\ admitted' = admitted

\* Appending a status keeps what the ledger held.
LEMMA AddsStatusFacts ==
  ASSUME Inv, NEW t \in Tasks, NEW e, AddsStatus(t, e)
  PROVE  /\ ledger' \in [Tasks -> Seq(Events)]
         /\ \A u \in Tasks : u # t => ledger'[u] = ledger[u]
         /\ Len(ledger[t]) \in Nat \ {0} /\ Len(ledger'[t]) = Len(ledger[t]) + 1
         /\ \A i \in 1 .. Len(ledger[t]) : ledger'[t][i] = ledger[t][i]
         /\ ledger'[t][Len(ledger[t]) + 1] = e
         /\ ledger'[t] # <<>>
<1>1. ledger[t] \in Seq(Events) /\ e \in Events /\ ledger[t] # <<>>
  BY DEF Inv, Shape, AddsStatus, Events, Exists
<1>2. ledger'[t] = Append(ledger[t], e)
  BY DEF AddsStatus, Inv, Shape
<1>3. Append(ledger[t], e) \in Seq(Events)
  BY <1>1, AppendProperties
<1>4. ledger' \in [Tasks -> Seq(Events)]
  BY <1>3 DEF AddsStatus, Inv, Shape
<1>5. Len(ledger[t]) \in Nat \ {0}
  BY <1>1, EmptySeq
<1>6. /\ Append(ledger[t], e) # <<>>
      /\ Len(Append(ledger[t], e)) = Len(ledger[t]) + 1
      /\ \A i \in 1 .. Len(ledger[t]) : Append(ledger[t], e)[i] = ledger[t][i]
      /\ Append(ledger[t], e)[Len(ledger[t]) + 1] = e
  BY <1>1, AppendProperties
<1>7. \A u \in Tasks : u # t => ledger'[u] = ledger[u]
  BY DEF AddsStatus, Inv, Shape
<1> QED
  BY <1>2, <1>4, <1>5, <1>6, <1>7

\* The first event of a Task.
LEMMA FirstEventFacts ==
  ASSUME Inv, NEW p \in Processes, AppendFirstEvent(p)
  PROVE  /\ call[p].command \in Commands /\ call[p].command.task \in Tasks
         /\ ~Exists(call[p].command.task) /\ call[p].command.task \in dirs
         /\ lock = p
         /\ ledger' \in [Tasks -> Seq(Events)]
         /\ \A u \in Tasks : u # call[p].command.task => ledger'[u] = ledger[u]
         /\ ledger'[call[p].command.task] # <<>>
         /\ Len(ledger'[call[p].command.task]) = 1
         /\ ledger'[call[p].command.task][1] = call[p].command
         /\ admitted' = Append(admitted, call[p].command.task)
<1> DEFINE c == call[p].command
<1>1. call[p].pc = "event" /\ CallOk(p)
  BY DEF AppendFirstEvent, At, Inv
<1>2. c \in Commands /\ ~Exists(c.task) /\ c.task \in dirs /\ lock = p
  BY <1>1 DEF CallOk, Holding
<1>3. c.task \in Tasks
  BY <1>2 DEF Commands
<1>4. ledger' = [ledger EXCEPT ![c.task] = <<c>>] /\ admitted' = Append(admitted, c.task)
  BY DEF AppendFirstEvent
<1>5. c \in Events
  BY <1>2 DEF Events
<1> HIDE DEF c
<1>6. <<c>> \in Seq(Events) /\ Len(<<c>>) = 1 /\ <<c>>[1] = c /\ <<c>> # <<>>
  BY <1>5
<1>7. ledger \in [Tasks -> Seq(Events)]
  BY DEF Inv, Shape
<1> QED
  BY <1>2, <1>3, <1>4, <1>6, <1>7 DEF c

\* Only these two kinds of steps change ledgers.
LEMMA LedgerSteps ==
  ASSUME Inv, [Next]_vars
  PROVE  \/ ledger' = ledger /\ admitted' = admitted
         \/ \E p \in Processes : AppendFirstEvent(p)
         \/ \E t \in Tasks, e \in StatusEvents : AddsStatus(t, e)
<1>1. CASE UNCHANGED vars
  BY <1>1 DEF vars
<1>2. ASSUME NEW t \in Tasks, NEW s \in Operations, Operate(t, s)
      PROVE  AddsStatus(t, StatusEvent(None, s)) /\ StatusEvent(None, s) \in StatusEvents
  <2>1. s \in TaskStatuses
    BY ProjectAssumption
  <2> QED
    BY <1>2, <2>1 DEF Operate, AppendStatus, AddsStatus, StatusEvent, StatusEvents
<1>3. ASSUME NEW p \in Processes, Step(p)
      PROVE  \/ ledger' = ledger /\ admitted' = admitted
             \/ AppendFirstEvent(p)
             \/ \E t \in Tasks, e \in StatusEvents : AddsStatus(t, e)
  <2>1. CASE Quiet(p)
    BY <2>1 DEF Quiet, Create, Admit, Scan, Apply, Import, EndApply, Rebuild, Visit, Die, Files
  <2>2. CASE Append1(p)
    BY <2>2 DEF Append1
  <2>3. CASE Restore(p)
    <3> DEFINE t == Head(call[p].left).task
    <3>1. call[p].left \in Seq(SourceType) /\ call[p].left # <<>> /\ Exists(t)
      BY <2>3 DEF Restore, At, Inv, Shape, CallType, CallOk
    <3>2. t \in Tasks
      <4>1. Head(call[p].left) \in SourceType
        BY <3>1, HeadTailProperties
      <4> QED
        BY <4>1 DEF SourceType
    <3>3. admitted' = admitted
      BY <2>3 DEF Restore
    <3>4. ledger' = ledger \/ \E next : AppendStatus(t, next, next)
      BY <2>3 DEF Restore
    <3>5. ASSUME NEW next, AppendStatus(t, next, next)
          PROVE  \E e \in StatusEvents : AddsStatus(t, e)
      <4>1. next \in TaskStatuses
        BY <3>5, TransitionType DEF AppendStatus
      <4>2. StatusEvent(next, next) \in StatusEvents
        BY <4>1 DEF StatusEvent, StatusEvents
      <4> QED
        BY <3>1, <3>3, <3>5, <4>2 DEF AppendStatus, AddsStatus
    <3> QED
      BY <3>2, <3>3, <3>4, <3>5
  <2>4. CASE PublishIndex(p) \/ PublishManifest(p)
    BY <2>4 DEF PublishIndex, PublishManifest, Files
  <2> QED
    BY <1>3, <2>1, <2>2, <2>3, <2>4, StepCases
<1> QED
  BY <1>1, <1>2, <1>3 DEF Next

\* Ledgers grow, and keep their first event.
LEMMA LedgersGrow ==
  ASSUME Inv, [Next]_vars
  PROVE  /\ ledger' \in [Tasks -> Seq(Events)]
         /\ \A t \in Tasks : /\ Len(ledger[t]) \in Nat /\ Len(ledger'[t]) \in Nat
                             /\ Len(ledger[t]) <= Len(ledger'[t])
         /\ \A t \in Tasks : Exists(t) => Exists(t)' /\ ledger'[t][1] = ledger[t][1]
<1>0. \A t \in Tasks : ledger[t] \in Seq(Events) /\ Len(ledger[t]) \in Nat
  BY LenProperties DEF Inv, Shape
<1>1. CASE ledger' = ledger
  BY <1>0, <1>1 DEF Inv, Shape, Exists
<1>2. ASSUME NEW p \in Processes, AppendFirstEvent(p)
      PROVE  /\ ledger' \in [Tasks -> Seq(Events)]
             /\ \A t \in Tasks : /\ Len(ledger[t]) \in Nat /\ Len(ledger'[t]) \in Nat
                                 /\ Len(ledger[t]) <= Len(ledger'[t])
             /\ \A t \in Tasks : Exists(t) => Exists(t)' /\ ledger'[t][1] = ledger[t][1]
  <2> DEFINE c == call[p].command
  <2>1. /\ c.task \in Tasks /\ ~Exists(c.task)
        /\ ledger' \in [Tasks -> Seq(Events)]
        /\ \A u \in Tasks : u # c.task => ledger'[u] = ledger[u]
        /\ Len(ledger'[c.task]) = 1
    BY <1>2, FirstEventFacts
  <2> HIDE DEF c
  <2>2. Len(ledger[c.task]) = 0
    BY <2>1, EmptySeq DEF Exists
  <2>3. ASSUME NEW t \in Tasks
        PROVE  /\ Len(ledger[t]) \in Nat /\ Len(ledger'[t]) \in Nat
               /\ Len(ledger[t]) <= Len(ledger'[t])
               /\ Exists(t) => Exists(t)' /\ ledger'[t][1] = ledger[t][1]
    <3>1. CASE t = c.task
      BY <2>1, <2>2, <3>1
    <3>2. CASE t # c.task
      <4>1. ledger'[t] = ledger[t] /\ Len(ledger[t]) \in Nat
        BY <1>0, <2>1, <3>2
      <4> QED
        BY <4>1 DEF Exists
    <3> QED
      BY <3>1, <3>2
  <2> QED
    BY <2>1, <2>3
<1>3. ASSUME NEW t \in Tasks, NEW e \in StatusEvents, AddsStatus(t, e)
      PROVE  /\ ledger' \in [Tasks -> Seq(Events)]
             /\ \A u \in Tasks : /\ Len(ledger[u]) \in Nat /\ Len(ledger'[u]) \in Nat
                                 /\ Len(ledger[u]) <= Len(ledger'[u])
             /\ \A u \in Tasks : Exists(u) => Exists(u)' /\ ledger'[u][1] = ledger[u][1]
  <2>1. /\ ledger' \in [Tasks -> Seq(Events)]
        /\ \A u \in Tasks : u # t => ledger'[u] = ledger[u]
        /\ Len(ledger[t]) \in Nat \ {0} /\ Len(ledger'[t]) = Len(ledger[t]) + 1
        /\ \A i \in 1 .. Len(ledger[t]) : ledger'[t][i] = ledger[t][i]
        /\ ledger'[t] # <<>>
    BY <1>3, AddsStatusFacts
  <2>2. 1 \in 1 .. Len(ledger[t])
    BY <2>1
  <2>3. ledger'[t][1] = ledger[t][1]
    BY <2>1, <2>2
  <2> QED
    BY <1>0, <2>1, <2>3 DEF Exists
<1> QED
  BY <1>1, <1>2, <1>3, LedgerSteps

\* A Task comes to exist by its first event and by nothing else.
LEMMA NewTask ==
  ASSUME Inv, [Next]_vars, NEW t \in Tasks, ~Exists(t), Exists(t)'
  PROVE  \E p \in Processes : AppendFirstEvent(p) /\ t = call[p].command.task
<1>1. ledger' # ledger
  BY DEF Exists
<1>2. ASSUME NEW u \in Tasks, NEW e \in StatusEvents, AddsStatus(u, e) PROVE FALSE
  <2>1. t = u
    BY <1>2, AddsStatusFacts DEF Exists
  <2> QED
    BY <1>2, <2>1 DEF AddsStatus
<1>3. PICK p \in Processes : AppendFirstEvent(p)
  BY <1>1, <1>2, LedgerSteps
<1>4. t = call[p].command.task
  BY <1>3, FirstEventFacts DEF Exists
<1> QED
  BY <1>3, <1>4

\* Directories are never removed.
LEMMA DirsGrow ==
  ASSUME Inv, [Next]_vars
  PROVE  dirs \subseteq dirs' /\ dirs' \in SUBSET Tasks
<1>1. ASSUME NEW p \in Processes, Append1(p)
      PROVE  dirs \subseteq dirs' /\ dirs' \in SUBSET Tasks
  <2>1. call[p].command.task \in Tasks
    BY <1>1 DEF Append1, At, Inv, CallOk, Holding, Commands
  <2> QED
    BY <1>1, <2>1 DEF Append1, Inv, Shape
<1>2. ASSUME NEW p \in Processes, Step(p), ~Append1(p) PROVE dirs' = dirs
  BY <1>2 DEF Step, Create, Admit, Scan, Apply, Import, EndApply, Rebuild, Visit, Die, Files,
     AppendFirstEvent, Restore, PublishIndex, PublishManifest
<1>3. ASSUME NEW t \in Tasks, NEW s \in Operations, Operate(t, s) PROVE dirs' = dirs
  BY <1>3 DEF Operate
<1>4. CASE UNCHANGED vars
  BY <1>4 DEF vars, Inv, Shape
<1> QED
  BY <1>1, <1>2, <1>3, <1>4 DEF Next, Inv, Shape

\* Ledgers stay a command followed by statuses.
LEMMA LedgerOkStep ==
  ASSUME Inv, [Next]_vars
  PROVE  LedgerOk'
<1> SUFFICES ASSUME NEW t \in Tasks, Exists(t)'
             PROVE  /\ t \in dirs'
                    /\ ledger'[t][1] \in Commands
                    /\ \A i \in 2 .. Len(ledger'[t]) : ledger'[t][i] \in StatusEvents
  BY DEF LedgerOk, Exists
<1>0. Exists(t) => /\ t \in dirs /\ ledger[t][1] \in Commands
                   /\ \A i \in 2 .. Len(ledger[t]) : ledger[t][i] \in StatusEvents
  BY DEF Inv, LedgerOk
<1>1. CASE ledger' = ledger
  BY <1>0, <1>1, DirsGrow DEF Exists
<1>2. ASSUME NEW p \in Processes, AppendFirstEvent(p)
      PROVE  /\ t \in dirs'
             /\ ledger'[t][1] \in Commands
             /\ \A i \in 2 .. Len(ledger'[t]) : ledger'[t][i] \in StatusEvents
  <2>1. CASE t = call[p].command.task
    BY <1>2, <2>1, FirstEventFacts, DirsGrow
  <2>2. CASE t # call[p].command.task
    <3>1. ledger'[t] = ledger[t]
      BY <1>2, <2>2, FirstEventFacts
    <3> QED
      BY <1>0, <3>1, DirsGrow DEF Exists
  <2> QED
    BY <2>1, <2>2
<1>3. ASSUME NEW u \in Tasks, NEW e \in StatusEvents, AddsStatus(u, e)
      PROVE  /\ t \in dirs'
             /\ ledger'[t][1] \in Commands
             /\ \A i \in 2 .. Len(ledger'[t]) : ledger'[t][i] \in StatusEvents
  <2>1. CASE t = u
    <3>1. /\ Len(ledger[t]) \in Nat \ {0} /\ Len(ledger'[t]) = Len(ledger[t]) + 1
          /\ \A i \in 1 .. Len(ledger[t]) : ledger'[t][i] = ledger[t][i]
          /\ ledger'[t][Len(ledger[t]) + 1] = e
      BY <1>3, <2>1, AddsStatusFacts
    <3>2. Exists(t)
      BY <1>3, <2>1 DEF AddsStatus
    <3>3. ASSUME NEW i \in 2 .. Len(ledger'[t]) PROVE ledger'[t][i] \in StatusEvents
      <4>1. i \in 2 .. Len(ledger[t]) \/ i = Len(ledger[t]) + 1
        BY <3>1
      <4>2. CASE i \in 2 .. Len(ledger[t])
        BY <1>0, <3>1, <3>2, <4>2
      <4> QED
        BY <3>1, <4>1, <4>2
    <3>4. 1 \in 1 .. Len(ledger[t])
      BY <3>1
    <3> QED
      BY <1>0, <3>1, <3>2, <3>3, <3>4, DirsGrow
  <2>2. CASE t # u
    <3>1. ledger'[t] = ledger[t]
      BY <1>3, <2>2, AddsStatusFacts
    <3> QED
      BY <1>0, <3>1, DirsGrow DEF Exists
  <2> QED
    BY <2>1, <2>2
<1> QED
  BY <1>1, <1>2, <1>3, LedgerSteps

\* Tasks that exist are the admitted ones.
LEMMA AdmittedOkStep ==
  ASSUME Inv, [Next]_vars
  PROVE  AdmittedOk' /\ admitted' \in Seq(Tasks)
<1>0. admitted \in Seq(Tasks) /\ Len(admitted) \in Nat
  BY LenProperties DEF Inv, Shape
<1>1. CASE ledger' = ledger /\ admitted' = admitted
  BY <1>0, <1>1 DEF Inv, AdmittedOk, Exists
<1>2. ASSUME NEW p \in Processes, AppendFirstEvent(p)
      PROVE  AdmittedOk' /\ admitted' \in Seq(Tasks)
  <2> DEFINE c == call[p].command
  <2>1. /\ c.task \in Tasks
        /\ \A u \in Tasks : u # c.task => ledger'[u] = ledger[u]
        /\ ledger'[c.task] # <<>>
        /\ admitted' = Append(admitted, c.task)
    BY <1>2, FirstEventFacts
  <2> HIDE DEF c
  <2>2. /\ Append(admitted, c.task) \in Seq(Tasks)
        /\ Len(Append(admitted, c.task)) = Len(admitted) + 1
        /\ \A i \in 1 .. Len(admitted) : Append(admitted, c.task)[i] = admitted[i]
        /\ Append(admitted, c.task)[Len(admitted) + 1] = c.task
    BY <1>0, <2>1, AppendProperties
  <2>3. /\ Len(admitted') = Len(admitted) + 1
        /\ \A i \in 1 .. Len(admitted) : admitted'[i] = admitted[i]
        /\ admitted'[Len(admitted) + 1] = c.task
    BY <2>1, <2>2
  <2>4. ASSUME NEW t \in Tasks
        PROVE  Exists(t)' <=> \E i \in 1 .. Len(admitted') : admitted'[i] = t
    <3>1. CASE t = c.task
      BY <1>0, <2>1, <2>3, <3>1 DEF Exists
    <3>2. CASE t # c.task
      <4>1. Exists(t)' <=> \E i \in 1 .. Len(admitted) : admitted[i] = t
        BY <2>1, <3>2 DEF Inv, AdmittedOk, Exists
      <4> QED
        BY <1>0, <2>3, <3>2, <4>1
    <3> QED
      BY <3>1, <3>2
  <2> QED
    BY <2>1, <2>2, <2>4 DEF AdmittedOk
<1>3. ASSUME NEW t \in Tasks, NEW e \in StatusEvents, AddsStatus(t, e)
      PROVE  AdmittedOk' /\ admitted' \in Seq(Tasks)
  <2>1. \A u \in Tasks : Exists(u)' <=> Exists(u)
    BY <1>3, AddsStatusFacts DEF AddsStatus, Exists
  <2> QED
    BY <1>0, <1>3, <2>1 DEF Inv, AdmittedOk, AddsStatus
<1> QED
  BY <1>1, <1>2, <1>3, LedgerSteps

----------------------------------------------------------------------------
(* The calls. *)

\* What a call leaves or takes: nothing of other processes.
LEMMA OthersKeep ==
  ASSUME Inv, NEW p \in Processes, Step(p), NEW q \in Processes, q # p
  PROVE  call'[q] = call[q] /\ (lock' = q <=> lock = q)
<1>0. call \in [Processes -> CallType] /\ q # None
  BY ProjectAssumption DEF Inv, Shape
<1>1. ASSUME Raise(p) PROVE call'[q] = call[q] /\ (lock' = q <=> lock = q)
  BY <1>0, <1>1 DEF Raise
<1>2. ASSUME Created(p), lock = p PROVE call'[q] = call[q] /\ (lock' = q <=> lock = q)
  BY <1>0, <1>2 DEF Created
<1>3. CASE Append1(p)
  <2>1. lock = p
    BY <1>3 DEF Append1, At, Inv, CallOk, Holding
  <2> QED
    BY <1>0, <1>1, <1>2, <1>3, <2>1 DEF Append1
<1>4. CASE AppendFirstEvent(p)
  BY <1>2, <1>4, FirstEventFacts DEF AppendFirstEvent
<1>5. CASE Scan(p)
  BY <1>0, <1>1, <1>5 DEF Scan
<1>6. CASE Import(p)
  BY <1>0, <1>1, <1>6 DEF Import
<1>7. CASE Restore(p)
  BY <1>0, <1>1, <1>7 DEF Restore
<1>8. CASE Die(p)
  BY <1>1, <1>8 DEF Die
<1>9. CASE Admit(p)
  BY <1>0, <1>9 DEF Admit
<1>10. CASE \E r \in Requests : Create(p, r)
  BY <1>0, <1>10 DEF Create
<1>11. CASE Apply(p) \/ EndApply(p) \/ Rebuild(p)
  BY <1>0, <1>11 DEF Apply, EndApply, Rebuild
<1>12. CASE Visit(p) \/ PublishIndex(p) \/ PublishManifest(p)
  BY <1>0, <1>12 DEF Visit, PublishIndex, PublishManifest
<1> QED
  BY <1>3, <1>4, <1>5, <1>6, <1>7, <1>8, <1>9, <1>10, <1>11, <1>12 DEF Step

\* A process that steps out of Created is idle or goes on with its migration.
LEMMA CreatedType ==
  ASSUME Shape, NEW p \in Processes, Created(p)
  PROVE  call' \in [Processes -> CallType] /\ lock' = None
BY IdleType DEF Shape, Created, CallType, CallPoints

\* The state keeps its shape.
LEMMA ShapeStep ==
  ASSUME Inv, [Next]_vars
  PROVE  Shape'
<1>1. dirs' \in SUBSET Tasks /\ ledger' \in [Tasks -> Seq(Events)] /\ admitted' \in Seq(Tasks)
  BY DirsGrow, LedgersGrow, AdmittedOkStep
<1>2. Shape
  BY DEF Inv
<1>3. ASSUME NEW p \in Processes, Step(p)
      PROVE  /\ lock' \in Processes \cup {None} /\ call' \in [Processes -> CallType]
             /\ index' \in Readings /\ manifest' \in Readings
             /\ rebuilds' \in 0 .. MaxRebuilds /\ deaths' \in 0 .. MaxDeaths
  <2>1. CASE Quiet(p)
    <3>1. index' = index /\ manifest' = manifest
      BY <2>1 DEF Quiet, Create, Admit, Scan, Apply, Import, EndApply, Rebuild, Visit, Die,
         Published
    <3>2. rebuilds' = rebuilds \/ (rebuilds < MaxRebuilds /\ rebuilds' = rebuilds + 1)
      BY <2>1 DEF Quiet, Create, Admit, Scan, Apply, Import, EndApply, Rebuild, Visit, Die,
         Counts, CountRebuild
    <3>3. deaths' = deaths \/ (deaths < MaxDeaths /\ deaths' = deaths + 1)
      BY <2>1 DEF Quiet, Create, Admit, Scan, Apply, Import, EndApply, Rebuild, Visit, Die,
         Counts
    <3>4. rebuilds' \in 0 .. MaxRebuilds /\ deaths' \in 0 .. MaxDeaths
      BY <1>2, <3>2, <3>3, ProjectAssumption DEF Shape
    <3> QED
      BY <1>2, <2>1, <3>1, <3>4, CallsTyped DEF Shape
  <2>2. CASE Append1(p)
    <3>1. call' \in [Processes -> CallType] /\ lock' \in Processes \cup {None}
      <4>1. CASE Raise(p)
        BY <1>2, <4>1, RaiseType
      <4>2. CASE Created(p)
        BY <1>2, <4>2, CreatedType
      <4>3. CASE call' = [call EXCEPT ![p].pc = "event"] /\ lock' = lock
        BY <1>2, <4>3, TypedUpdate DEF CallPoints, Shape
      <4> QED
        BY <2>2, <4>1, <4>2, <4>3 DEF Append1
    <3> QED
      BY <1>2, <2>2, <3>1 DEF Append1, Published, Counts, Shape
  <2>3. CASE AppendFirstEvent(p)
    BY <1>2, <2>3, CreatedType DEF AppendFirstEvent, Published, Counts, Shape
  <2>4. CASE Restore(p)
    <3>1. call' \in [Processes -> CallType] /\ lock' \in Processes \cup {None}
      <4>1. CASE Raise(p)
        BY <1>2, <4>1, RaiseType
      <4>2. CASE UNCHANGED <<call, lock>>
        BY <1>2, <4>2 DEF Shape
      <4>3. CASE /\ call' = [call EXCEPT ![p].pc = "import", ![p].left = Tail(@),
                                         ![p].command = None]
                 /\ lock' = lock
        <5>1. call[p].left \in Seq(SourceType) /\ call[p].left # <<>>
          BY <2>4 DEF Restore, At, Inv, Shape, CallType, CallOk
        <5>2. Tail(call[p].left) \in Seq(SourceType)
          BY <5>1, HeadTailProperties
        <5> DEFINE rest == Tail(call[p].left)
        <5>3. call' = [call EXCEPT ![p].pc = "import", ![p].left = rest, ![p].command = None]
          BY <4>3
        <5> HIDE DEF rest
        <5>4. "import" \in CallPoints /\ rest \in Seq(SourceType)
          BY <5>2 DEF CallPoints, rest
        <5>5. call' \in [Processes -> CallType]
          BY <1>2, <5>3, <5>4, TypedUpdate
        <5> QED
          BY <1>2, <4>3, <5>5 DEF Shape
      <4> QED
        BY <2>4, <4>1, <4>2, <4>3 DEF Restore
    <3> QED
      BY <1>2, <2>4, <3>1 DEF Restore, Published, Counts, Shape
  <2>5. CASE PublishIndex(p)
    <3>1. call[p].seen \in Readings
      BY <1>2 DEF Shape, CallType
    <3>2. [Idle EXCEPT !.pc = "manifest", !.todo = dirs, !.since = call[p].seen] \in CallType
      BY <1>2, <3>1, IdleType DEF Shape, CallType, CallPoints
    <3> QED
      BY <1>2, <2>5, <3>1, <3>2 DEF PublishIndex, Counts, Shape
  <2>6. CASE PublishManifest(p)
    <3>1. call[p].seen \in Readings
      BY <1>2 DEF Shape, CallType
    <3> QED
      BY <1>2, <2>6, <3>1, IdleType DEF PublishManifest, Counts, Shape
  <2> QED
    BY <1>3, <2>1, <2>2, <2>3, <2>4, <2>5, <2>6, StepCases
<1>4. CASE UNCHANGED vars
  BY <1>2, <1>4 DEF vars, Shape
<1>5. ASSUME NEW t \in Tasks, NEW s \in Operations, Operate(t, s)
      PROVE  UNCHANGED <<lock, call, index, manifest, rebuilds, deaths>>
  BY <1>5 DEF Operate, Published, Counts
<1> QED
  BY <1>1, <1>2, <1>3, <1>4, <1>5 DEF Next, Shape

\* What others do keeps what is known of a call: a Task comes to exist only
\* by the process that holds the admission lock.
LEMMA CallOkKept ==
  ASSUME Inv, [Next]_vars, NEW q \in Processes,
         call'[q] = call[q], lock' = q <=> lock = q,
         \A p \in Processes : AppendFirstEvent(p) => p # q
  PROVE  CallOk(q)'
<1>1. CallOk(q) /\ dirs \subseteq dirs'
  BY DirsGrow DEF Inv
<1>2. \A t \in Tasks : Exists(t) => Exists(t)' /\ Goal(t)' = Goal(t)
  BY LedgersGrow DEF Goal
<1>3. ASSUME call[q].pc \in Holding, NEW t \in Tasks PROVE Exists(t)' => Exists(t)
  <2>1. lock = q
    BY <1>1, <1>3 DEF CallOk
  <2>2. \A p \in Processes : AppendFirstEvent(p) => lock = p
    BY FirstEventFacts
  <2> QED
    BY <2>1, <2>2, NewTask
<1>4. call[q] \in CallType
  BY DEF Inv, Shape
<1>5. call[q].pc = "restore" => Head(call[q].left).task \in Tasks
  <2>1. call[q].pc = "restore" => call[q].left # <<>> /\ call[q].left \in Seq(SourceType)
    BY <1>1, <1>4 DEF CallOk, CallType
  <2>2. call[q].pc = "restore" => Head(call[q].left) \in SourceType
    BY <2>1, HeadTailProperties
  <2> QED
    BY <2>2 DEF SourceType
<1>6. call[q].pc \in Holding => call[q].command.task \in Tasks
  BY <1>1 DEF CallOk, Commands
<1>7. call[q].pc \in Holding /\ ~call[q].command.independent =>
        \A t \in Tasks :
          Exists(t)' /\ Goal(t)' = call[q].command.goal =>
            t \in call[q].todo \/ t = call[q].command.task
  BY <1>1, <1>2, <1>3 DEF CallOk
<1>8. call[q].pc = "restore" => call[q].left # <<>> /\ Exists(Head(call[q].left).task)'
  BY <1>1, <1>2, <1>5 DEF CallOk
<1>9. call[q].pc = "event" => call[q].command.task \in dirs' /\ ~Exists(call[q].command.task)'
  BY <1>1, <1>3, <1>6 DEF CallOk, Holding
<1> QED
  BY <1>1, <1>7, <1>8, <1>9 DEF CallOk

\* A call that ends.
LEMMA IdleOk ==
  ASSUME Inv, NEW p \in Processes, call'[p] = Idle, lock' # p
  PROVE  CallOk(p)'
BY IdleType DEF CallOk, Holding

\* A call that raises.
LEMMA RaiseOk ==
  ASSUME Inv, NEW p \in Processes, Raise(p)
  PROVE  CallOk(p)'
<1>1. call'[p] = Idle /\ lock' # p
  BY ProjectAssumption DEF Raise, Inv, Shape
<1> QED
  BY <1>1, IdleOk

\* The command has been executed.
LEMMA CreatedOk ==
  ASSUME Inv, [Next]_vars, NEW p \in Processes, Created(p),
         call[p].pc \in {"append", "event"}, ledger'[call[p].command.task] # <<>>
  PROVE  CallOk(p)'
<1>1. CallOk(p) /\ call[p] \in CallType /\ lock' # p
  BY ProjectAssumption DEF Inv, Shape, Created
<1>2. CASE call[p].left = <<>>
  BY <1>1, <1>2, IdleOk DEF Created, Inv, Shape
<1>3. CASE call[p].left # <<>>
  <2>1. call'[p] = [call[p] EXCEPT !.pc = "restore"]
    BY <1>3 DEF Created, Inv, Shape
  <2>2. /\ call'[p].pc = "restore" /\ call'[p].left = call[p].left
        /\ call'[p].todo = call[p].todo
    BY <1>1, <2>1 DEF CallType
  <2>3. call[p].todo = {} /\ call[p].command.task = Head(call[p].left).task
    BY <1>1, <1>3 DEF CallOk, Holding
  <2>4. call'[p].left # <<>> /\ ledger'[Head(call'[p].left).task] # <<>>
    BY <1>3, <2>2, <2>3
  <2> QED
    BY <1>1, <2>2, <2>3, <2>4 DEF CallOk, Holding, Exists
<1> QED
  BY <1>2, <1>3

\* What a process knows of its own call.
LEMMA CallOkOwn ==
  ASSUME Inv, [Next]_vars, NEW p \in Processes, Step(p)
  PROVE  CallOk(p)'
<1>0. /\ CallOk(p) /\ call[p] \in CallType /\ call \in [Processes -> CallType]
      /\ dirs \in SUBSET Tasks /\ p # None
  BY ProjectAssumption DEF Inv, Shape
<1>1. ASSUME NEW r \in Requests, Create(p, r) PROVE CallOk(p)'
  <2>1. /\ call'[p].pc = "admission" /\ call'[p].command = r
        /\ call'[p].left = call[p].left /\ call'[p].todo = call[p].todo
    BY <1>0, <1>1 DEF Create, CallType
  <2>2. call[p].pc = "idle" /\ lock' = lock /\ dirs' = dirs
    BY <1>1 DEF Create, At, Files
  <2>3. r \in Commands
    BY ProjectAssumption
  <2>4. call[p].left = <<>> /\ lock # p /\ call[p].todo \subseteq dirs
    BY <1>0, <2>2 DEF CallOk, Holding
  <2> QED
    BY <2>1, <2>2, <2>3, <2>4 DEF CallOk, Holding
<1>2. CASE Admit(p)
  <2> DEFINE others == IF call[p].command.independent THEN {}
                       ELSE dirs \ {call[p].command.task}
             point == IF others = {} THEN "append" ELSE "scan"
  <2>1. call' = [call EXCEPT ![p].pc = point, ![p].todo = others]
    BY <1>2 DEF Admit
  <2>2. /\ call'[p].pc = point /\ call'[p].todo = others
        /\ call'[p].command = call[p].command /\ call'[p].left = call[p].left
    BY <1>0, <2>1 DEF CallType
  <2>3. /\ call[p].pc = "admission" /\ lock' = p
        /\ dirs' = dirs /\ ledger' = ledger
    BY <1>2 DEF Admit, At, Files
  <2>4. /\ call[p].command \in Commands
        /\ call[p].left # <<>> => call[p].command.task = Head(call[p].left).task
    BY <1>0, <2>3 DEF CallOk
  <2>5. ~call[p].command.independent =>
          \A t \in Tasks : Exists(t) => t \in others \/ t = call[p].command.task
    BY DEF Inv, LedgerOk
  <2>6. point \in {"append", "scan"} /\ (point = "append" => others = {}) /\ others \subseteq dirs
    OBVIOUS
  <2> HIDE DEF others, point
  <2>7. \A t \in Tasks : Exists(t)' <=> Exists(t)
    BY <2>3 DEF Exists
  <2> QED
    BY <2>2, <2>3, <2>4, <2>5, <2>6, <2>7 DEF CallOk, Holding
<1>3. CASE Scan(p)
  <2>1. PICK t \in call[p].todo :
          IF ~Exists(t) \/ Goal(t) = call[p].command.goal
          THEN Raise(p)
          ELSE /\ call' = [call EXCEPT ![p].todo = @ \ {t},
                                       ![p].pc = IF call[p].todo = {t} THEN "append" ELSE "scan"]
               /\ UNCHANGED lock
    BY <1>3 DEF Scan
  <2>2. CASE ~Exists(t) \/ Goal(t) = call[p].command.goal
    BY <2>1, <2>2, RaiseOk
  <2>3. CASE Exists(t) /\ Goal(t) # call[p].command.goal
    <3> DEFINE point == IF call[p].todo = {t} THEN "append" ELSE "scan"
               rest == call[p].todo \ {t}
    <3>1. call' = [call EXCEPT ![p].todo = rest, ![p].pc = point] /\ lock' = lock
      BY <2>1, <2>3
    <3>2. /\ call'[p].pc = point /\ call'[p].todo = rest
          /\ call'[p].command = call[p].command /\ call'[p].left = call[p].left
      BY <1>0, <3>1 DEF CallType
    <3>3. call[p].pc = "scan" /\ dirs' = dirs /\ ledger' = ledger
      BY <1>3 DEF Scan, At, Files
    <3>4. /\ call[p].command \in Commands /\ lock = p /\ call[p].todo \subseteq dirs
          /\ call[p].left # <<>> => call[p].command.task = Head(call[p].left).task
      BY <1>0, <3>3 DEF CallOk, Holding
    <3>5. ~call[p].command.independent =>
            \A u \in Tasks : Exists(u) /\ Goal(u) = call[p].command.goal =>
              u \in rest \/ u = call[p].command.task
      BY <1>0, <2>3, <3>3 DEF CallOk, Holding
    <3>6. point \in {"append", "scan"} /\ (point = "append" => rest = {}) /\ rest \subseteq dirs
      BY <3>4
    <3> HIDE DEF rest, point
    <3>7. \A u \in Tasks : (Exists(u)' <=> Exists(u)) /\ Goal(u)' = Goal(u)
      BY <3>3 DEF Exists, Goal
    <3> QED
      BY <3>1, <3>2, <3>3, <3>4, <3>5, <3>6, <3>7 DEF CallOk, Holding
  <2> QED
    BY <2>2, <2>3
<1>4. CASE Append1(p)
  <2> DEFINE c == call[p].command
  <2>1. /\ call[p].pc = "append" /\ ledger' = ledger
    BY <1>4 DEF Append1, At
  <2>2. CASE Exists(c.task)
    <3>1. Raise(p) \/ Created(p)
      BY <1>4, <2>2 DEF Append1
    <3>2. ledger'[c.task] # <<>>
      BY <2>1, <2>2 DEF Exists
    <3> QED
      BY <2>1, <3>1, <3>2, RaiseOk, CreatedOk
  <2>3. CASE ~Exists(c.task)
    <3>1. /\ dirs' = dirs \cup {c.task} /\ lock' = lock
          /\ call' = [call EXCEPT ![p].pc = "event"]
      BY <1>4, <2>3 DEF Append1
    <3>2. /\ call'[p].pc = "event" /\ call'[p].todo = call[p].todo
          /\ call'[p].command = c /\ call'[p].left = call[p].left
      BY <1>0, <3>1 DEF CallType
    <3>3. /\ c \in Commands /\ lock = p /\ call[p].todo = {}
          /\ call[p].left # <<>> => c.task = Head(call[p].left).task
          /\ ~c.independent =>
               \A u \in Tasks : Exists(u) /\ Goal(u) = c.goal => u = c.task
      BY <1>0, <2>1 DEF CallOk, Holding
    <3> HIDE DEF c
    <3>4. /\ \A u \in Tasks : (Exists(u)' <=> Exists(u)) /\ Goal(u)' = Goal(u)
          /\ ledger'[c.task] = <<>>
      BY <2>1, <2>3 DEF Exists, Goal
    <3> QED
      BY <3>1, <3>2, <3>3, <3>4 DEF CallOk, Holding, Exists
  <2> QED
    BY <2>2, <2>3
<1>5. CASE AppendFirstEvent(p)
  <2>1. ledger'[call[p].command.task] # <<>>
    BY <1>5, FirstEventFacts
  <2> QED
    BY <1>5, <2>1, CreatedOk DEF AppendFirstEvent, At
<1>6. CASE Apply(p)
  <2>1. /\ call'[p].pc = "import" /\ call'[p].todo = call[p].todo
        /\ lock' = lock /\ dirs' = dirs /\ call[p].pc = "idle"
    BY <1>0, <1>6 DEF Apply, CallType, At, Files
  <2> QED
    BY <1>0, <2>1 DEF CallOk, Holding
<1>7. CASE Import(p)
  <2> DEFINE command == ImportOf(Head(call[p].left))
  <2>1. call[p].pc = "import" /\ call[p].left # <<>> /\ dirs' = dirs
    BY <1>7 DEF Import, At, Files
  <2>2. call[p].left \in Seq(SourceType)
    BY <1>0 DEF CallType
  <2>3. Head(call[p].left) \in SourceType
    BY <2>1, <2>2, HeadTailProperties
  <2>4. command \in Commands /\ command.task = Head(call[p].left).task
    BY <2>3, ImportIsCommand
  <2>5. lock # p /\ call[p].todo \subseteq dirs
    BY <1>0, <2>1 DEF CallOk, Holding
  <2>6. CASE Raise(p)
    BY <2>6, RaiseOk
  <2>7. CASE ~Raise(p)
    <3>1. /\ \/ call' = [call EXCEPT ![p].pc = "admission", ![p].command = command]
             \/ call' = [call EXCEPT ![p].left = Tail(@)]
          /\ lock' = lock
      BY <1>7, <2>7 DEF Import
    <3> HIDE DEF command
    <3>2. /\ call'[p].todo = call[p].todo
          /\ \/ /\ call'[p].pc = "admission" /\ call'[p].command = command
                /\ call'[p].left = call[p].left
             \/ call'[p].pc = "import"
      BY <1>0, <2>1, <3>1 DEF CallType
    <3> QED
      BY <2>1, <2>4, <2>5, <3>1, <3>2 DEF CallOk, Holding
  <2> QED
    BY <2>6, <2>7
<1>8. CASE Restore(p)
  <2>1. CASE Raise(p)
    BY <2>1, RaiseOk
  <2>2. CASE UNCHANGED <<call, lock>>
    <3>1. \A q \in Processes : AppendFirstEvent(q) => q # p
      BY <1>8 DEF AppendFirstEvent, Restore, At
    <3> QED
      BY <2>2, <3>1, CallOkKept
  <2>3. CASE /\ call' = [call EXCEPT ![p].pc = "import", ![p].left = Tail(@),
                                     ![p].command = None]
             /\ lock' = lock
    <3>1. call'[p].pc = "import" /\ call'[p].todo = call[p].todo
      BY <1>0, <2>3 DEF CallType
    <3>2. call[p].pc = "restore" /\ dirs' = dirs
      BY <1>8 DEF Restore, At
    <3> QED
      BY <1>0, <2>3, <3>1, <3>2 DEF CallOk, Holding
  <2> QED
    BY <1>8, <2>1, <2>2, <2>3 DEF Restore
<1>9. CASE EndApply(p) \/ Rebuild(p)
  <2>1. /\ call' = [call EXCEPT ![p] = StartIndex(p, dirs)] /\ lock' = lock /\ dirs' = dirs
        /\ call[p].pc \in {"import", "idle"}
    BY <1>9 DEF EndApply, Rebuild, At, Files
  <2>2. call'[p].pc = "index" /\ call'[p].todo = dirs
    BY <1>0, <2>1 DEF StartIndex, Idle
  <2> QED
    BY <1>0, <2>1, <2>2 DEF CallOk, Holding
<1>10. CASE Visit(p)
  <2>1. PICK t \in call[p].todo :
          call' = [call EXCEPT ![p] =
                     IF Exists(t)
                     THEN [call[p] EXCEPT
                             !.todo = call[p].todo \ {t},
                             !.seen = [u \in {t} \cup DOMAIN call[p].seen |->
                                         IF u = t THEN ReadTask(t) ELSE call[p].seen[u]]]
                     ELSE Idle]
    BY <1>10 DEF Visit
  <2>2. lock' = lock /\ dirs' = dirs /\ call[p].pc \in {"index", "manifest"}
    BY <1>10 DEF Visit, At, Files
  <2>3. CASE ~Exists(t)
    BY <1>0, <2>1, <2>2, <2>3, IdleOk DEF CallOk, Holding
  <2>4. CASE Exists(t)
    <3>1. call'[p].pc = call[p].pc /\ call'[p].todo = call[p].todo \ {t}
      BY <1>0, <2>1, <2>4 DEF CallType
    <3> QED
      BY <1>0, <2>2, <3>1 DEF CallOk, Holding
  <2> QED
    BY <2>3, <2>4
<1>11. CASE PublishIndex(p)
  <2>1. /\ call'[p] = [Idle EXCEPT !.pc = "manifest", !.todo = dirs, !.since = call[p].seen]
        /\ lock' = lock /\ dirs' = dirs /\ call[p].pc = "index"
    BY <1>0, <1>11 DEF PublishIndex, At, Files
  <2>2. call'[p].pc = "manifest" /\ call'[p].todo = dirs
    BY <2>1 DEF Idle
  <2> QED
    BY <1>0, <2>1, <2>2 DEF CallOk, Holding
<1>12. CASE PublishManifest(p)
  BY <1>0, <1>12, IdleOk DEF PublishManifest, At, CallOk, Holding
<1>13. CASE Die(p)
  BY <1>13, RaiseOk DEF Die
<1> QED
  BY <1>1, <1>2, <1>3, <1>4, <1>5, <1>6, <1>7, <1>8, <1>9, <1>10, <1>11, <1>12, <1>13 DEF Step

\* A step of the environment or of a process keeps what is known of calls.
LEMMA CallOkStep ==
  ASSUME Inv, [Next]_vars
  PROVE  \A q \in Processes : CallOk(q)'
<1> SUFFICES ASSUME NEW q \in Processes PROVE CallOk(q)'
  OBVIOUS
<1>1. ASSUME UNCHANGED <<call, lock, admitted>> PROVE CallOk(q)'
  <2>1. \A p \in Processes : AppendFirstEvent(p) => FALSE
    <3> SUFFICES ASSUME NEW p \in Processes, AppendFirstEvent(p) PROVE FALSE
      OBVIOUS
    <3>1. call[p].pc = "event" /\ call[p] \in CallType /\ Created(p)
      BY DEF AppendFirstEvent, At, Inv, Shape
    <3>2. lock = p /\ lock' = None
      BY <3>1, FirstEventFacts DEF Created
    <3> QED
      BY <1>1, <3>2, ProjectAssumption
  <2> QED
    BY <1>1, <2>1, CallOkKept
<1>2. ASSUME NEW p \in Processes, Step(p) PROVE CallOk(q)'
  <2>1. CASE p = q
    BY <1>2, <2>1, CallOkOwn
  <2>2. CASE p # q
    <3>1. call'[q] = call[q] /\ (lock' = q <=> lock = q)
      BY <1>2, <2>2, OthersKeep
    <3>2. AppendFirstEvent(q) => FALSE
      <4>1. AppendFirstEvent(q) => lock = q /\ lock' = None
        BY FirstEventFacts DEF AppendFirstEvent, Created
      <4> QED
        BY <3>1, <4>1, ProjectAssumption
    <3> QED
      BY <3>1, <3>2, CallOkKept
  <2> QED
    BY <2>1, <2>2
<1>3. ASSUME NEW t \in Tasks, NEW s \in Operations, Operate(t, s) PROVE CallOk(q)'
  BY <1>1, <1>3 DEF Operate
<1>4. CASE UNCHANGED vars
  BY <1>1, <1>4 DEF vars
<1> QED
  BY <1>2, <1>3, <1>4 DEF Next

\* The invariant holds.
LEMMA InvHolds == Spec => []Inv
<1>1. Init => Inv
  <2> SUFFICES ASSUME Init PROVE Inv
    OBVIOUS
  <2>1. \A t \in Tasks : ~Exists(t)
    BY DEF Init, Exists
  <2>2. AdmittedOk
    BY <2>1, EmptySeq DEF AdmittedOk, Init
  <2>3. \A p \in Processes : CallOk(p)
    BY <2>1, IdleType, ProjectAssumption DEF Init, CallOk, Holding
  <2> QED
    BY <2>1, <2>2, <2>3, ShapeInit DEF Inv, LedgerOk
<1>2. Inv /\ [Next]_vars => Inv'
  BY ShapeStep, LedgerOkStep, AdmittedOkStep, CallOkStep DEF Inv
<1> QED
  BY <1>1, <1>2, PTL DEF Spec

----------------------------------------------------------------------------
(* A business goal belongs to one Task. *)

\* A Task is admitted when every other Task with its goal has been looked at,
\* and none was found.
LEMMA UniqueGoalsStep ==
  ASSUME Inv, [Next]_vars, UniqueGoals
  PROVE  UniqueGoals'
<1>0. /\ admitted \in Seq(Tasks) /\ Len(admitted) \in Nat
      /\ DOMAIN admitted = 1 .. Len(admitted)
      /\ \A i \in 1 .. Len(admitted) : admitted[i] \in Tasks
  BY LenProperties, ElementOfSeq DEF Inv, Shape
<1>1. \A i \in 1 .. Len(admitted) :
        Exists(admitted[i]) /\ ledger'[admitted[i]][1] = ledger[admitted[i]][1]
  <2>1. \A i \in 1 .. Len(admitted) : Exists(admitted[i])
    BY <1>0 DEF Inv, AdmittedOk
  <2> QED
    BY <1>0, <2>1, LedgersGrow
<1>2. CASE admitted' = admitted
  BY <1>0, <1>1, <1>2 DEF UniqueGoals, Goal
<1>3. ASSUME NEW p \in Processes, AppendFirstEvent(p) PROVE UniqueGoals'
  <2> DEFINE c == call[p].command
             n == Len(admitted) + 1
  <2>1. /\ c.task \in Tasks /\ ~Exists(c.task) /\ ledger'[c.task][1] = c
        /\ admitted' = Append(admitted, c.task)
    BY <1>3, FirstEventFacts
  <2>2. call[p].pc = "event" /\ CallOk(p)
    BY <1>3 DEF AppendFirstEvent, At, Inv
  <2>3. ~c.independent => \A t \in Tasks : Exists(t) /\ Goal(t) = c.goal => t = c.task
    BY <2>2 DEF CallOk, Holding
  <2> HIDE DEF c
  <2>4. /\ Len(admitted') = n /\ DOMAIN admitted' = 1 .. n
        /\ \A i \in 1 .. Len(admitted) : admitted'[i] = admitted[i]
        /\ admitted'[n] = c.task
    <3>1. Append(admitted, c.task) \in Seq(Tasks)
      BY <1>0, <2>1, AppendProperties
    <3> QED
      BY <1>0, <2>1, <3>1, AppendProperties, LenProperties
  <2>5. SUFFICES ASSUME NEW i \in 1 .. n, NEW j \in 1 .. n, i < j,
                        ledger'[admitted'[i]][1].goal = ledger'[admitted'[j]][1].goal
                 PROVE  ledger'[admitted'[j]][1].independent
    BY <2>4 DEF UniqueGoals, Goal
  <2>6. i \in 1 .. Len(admitted)
    BY <1>0, <2>5
  <2>7. CASE j \in 1 .. Len(admitted)
    BY <1>0, <1>1, <2>4, <2>5, <2>6, <2>7 DEF UniqueGoals, Goal
  <2>8. CASE j = n
    <3>1. admitted'[j] = c.task /\ ledger'[admitted'[j]][1] = c
      BY <2>1, <2>4, <2>8
    <3>2. Goal(admitted[i]) = c.goal
      BY <1>1, <2>4, <2>5, <2>6, <3>1 DEF Goal
    <3>3. admitted[i] \in Tasks /\ Exists(admitted[i]) /\ admitted[i] # c.task
      BY <1>0, <1>1, <2>1, <2>6
    <3> QED
      BY <2>3, <3>1, <3>2, <3>3
  <2> QED
    BY <1>0, <2>7, <2>8
<1>4. admitted' = admitted \/ \E p \in Processes : AppendFirstEvent(p)
  BY LedgerSteps DEF AddsStatus
<1> QED
  BY <1>2, <1>3, <1>4

\* Of two Tasks with one business goal the later one declared an independent
\* boundary: create_task looks at every Task under the admission lock, and a
\* Task comes to exist only under that lock, whoever dies in between.
THEOREM UniqueGoalsHolds == Spec => []UniqueGoals
<1>1. Init => UniqueGoals
  <2> SUFFICES ASSUME Init PROVE UniqueGoals
    OBVIOUS
  <2>1. <<>> \in Seq(Tasks) /\ Len(<<>>) = 0
    BY EmptySeq
  <2>2. DOMAIN <<>> = 1 .. 0
    BY <2>1, LenProperties
  <2> QED
    BY <2>2 DEF Init, UniqueGoals
<1>2. Inv /\ UniqueGoals /\ [Next]_vars => UniqueGoals'
  BY UniqueGoalsStep
<1> QED
  BY <1>1, <1>2, InvHolds, PTL DEF Spec

----------------------------------------------------------------------------
(* What rebuild_project reads. *)

\* What a pass over the Tasks has read.  A Task it started from is still to
\* be visited, or has been read no earlier than the pass began.
ReadOk(p) ==
  /\ IsReading(call[p].seen) /\ IsReading(call[p].since)
  /\ DOMAIN call[p].seen \subseteq dirs
  /\ call[p].pc \in {"index", "manifest"} =>
       \A t \in DOMAIN call[p].since :
         \/ t \in call[p].todo
         \/ t \in DOMAIN call[p].seen /\ call[p].seen[t] >= call[p].since[t]

ReadInv == IsReading(index) /\ IsReading(manifest) /\ \A p \in Processes : ReadOk(p)

\* Readings hold natural numbers.
LEMMA ReadingFacts ==
  ASSUME NEW r \in Readings
  PROVE  DOMAIN r \subseteq Tasks /\ \A t \in DOMAIN r : r[t] \in Nat
BY DEF Readings

\* What was read stays a reading: ledgers only grow.
LEMMA ReadingKept ==
  ASSUME Inv, [Next]_vars, NEW r \in Readings, IsReading(r)
  PROVE  DOMAIN r \subseteq Tasks /\ \A t \in DOMAIN r : r[t] <= Len(ledger'[t])
<1>1. \A t \in DOMAIN r : /\ t \in Tasks /\ r[t] \in Nat /\ r[t] <= Len(ledger[t])
                          /\ Len(ledger[t]) \in Nat /\ Len(ledger'[t]) \in Nat
                          /\ Len(ledger[t]) <= Len(ledger'[t])
  BY ReadingFacts, LedgersGrow DEF IsReading
<1> QED
  BY <1>1

\* A reading of no Task holds of every ledger.
LEMMA IdleReads ==
  /\ DOMAIN Idle.seen = {} /\ DOMAIN Idle.since = {} /\ IsReading(<<>>)
<1>1. <<>> \in Seq(Nat) /\ Len(<<>>) = 0
  BY EmptySeq
<1>2. DOMAIN <<>> = 1 .. 0
  BY <1>1, LenProperties
<1> QED
  BY <1>2 DEF Idle, IsReading

\* A call in which nothing is read any more.
LEMMA IdleReadOk ==
  ASSUME Inv, [Next]_vars, NEW p \in Processes, call'[p] = Idle
  PROVE  ReadOk(p)'
BY IdleReads, IdleType DEF ReadOk, IsReading

\* A step that leaves what a call has read.
LEMMA ReadOkKept ==
  ASSUME Inv, [Next]_vars, NEW p \in Processes, ReadOk(p),
         call'[p].seen = call[p].seen, call'[p].since = call[p].since,
         call'[p].pc \in {"index", "manifest"} =>
           call'[p].pc = call[p].pc /\ call'[p].todo = call[p].todo
  PROVE  ReadOk(p)'
<1>1. call[p].seen \in Readings /\ call[p].since \in Readings
  BY DEF Inv, Shape, CallType
<1>2. /\ IsReading(call[p].seen)
      /\ IsReading(call[p].since)
  BY DEF ReadOk
<1>3. /\ DOMAIN call[p].seen \subseteq Tasks
      /\ \A t \in DOMAIN call[p].seen : call[p].seen[t] <= Len(ledger'[t])
  BY <1>1, <1>2, ReadingKept
<1>4. /\ DOMAIN call[p].since \subseteq Tasks
      /\ \A t \in DOMAIN call[p].since : call[p].since[t] <= Len(ledger'[t])
  BY <1>1, <1>2, ReadingKept
<1> QED
  BY <1>3, <1>4, DirsGrow DEF ReadOk, IsReading

\* The steps of a call that are not part of a rebuild leave its readings, or
\* end the call.
LEMMA OtherStepsRead ==
  ASSUME Inv, NEW p \in Processes, Step(p),
         ~EndApply(p), ~Rebuild(p), ~Visit(p), ~PublishIndex(p), ~PublishManifest(p)
  PROVE  \/ call'[p] = Idle
         \/ call'[p] = call[p]
         \/ /\ call'[p].seen = call[p].seen /\ call'[p].since = call[p].since
            /\ call'[p].pc \notin {"index", "manifest"}
<1>0. call[p] \in CallType /\ call \in [Processes -> CallType]
  BY DEF Inv, Shape
<1>1. ASSUME Raise(p) PROVE call'[p] = Idle
  BY <1>0, <1>1 DEF Raise
<1>2. ASSUME Created(p)
      PROVE  \/ call'[p] = Idle
             \/ /\ call'[p].seen = call[p].seen /\ call'[p].since = call[p].since
                /\ call'[p].pc = "restore"
  BY <1>0, <1>2 DEF Created, CallType
<1>3. CASE Append1(p)
  <2>1. CASE call' = [call EXCEPT ![p].pc = "event"]
    BY <1>0, <2>1 DEF CallType
  <2> QED
    BY <1>1, <1>2, <1>3, <2>1 DEF Append1
<1>4. CASE AppendFirstEvent(p)
  BY <1>2, <1>4 DEF AppendFirstEvent
<1>5. CASE Scan(p)
  <2>1. CASE Raise(p)
    BY <1>1, <2>1
  <2>2. CASE ~Raise(p)
    <3>1. PICK t \in call[p].todo :
            call' = [call EXCEPT ![p].todo = @ \ {t},
                                 ![p].pc = IF call[p].todo = {t} THEN "append" ELSE "scan"]
      BY <1>5, <2>2 DEF Scan
    <3> QED
      BY <1>0, <3>1 DEF CallType
  <2> QED
    BY <2>1, <2>2
<1>6. CASE Import(p)
  <2>1. CASE Raise(p)
    BY <1>1, <2>1
  <2>2. CASE ~Raise(p)
    <3>1. call[p].pc = "import"
      BY <1>6 DEF Import, At
    <3> DEFINE command == ImportOf(Head(call[p].left))
    <3>2. \/ call' = [call EXCEPT ![p].pc = "admission", ![p].command = command]
          \/ call' = [call EXCEPT ![p].left = Tail(@)]
      BY <1>6, <2>2 DEF Import
    <3> HIDE DEF command
    <3>3. CASE call' = [call EXCEPT ![p].pc = "admission", ![p].command = command]
      BY <1>0, <3>3 DEF CallType
    <3>4. CASE call' = [call EXCEPT ![p].left = Tail(@)]
      <4>1. call'[p] = [call[p] EXCEPT !.left = Tail(call[p].left)]
        BY <1>0, <3>4
      <4> QED
        BY <1>0, <3>1, <4>1 DEF CallType
    <3> QED
      BY <3>2, <3>3, <3>4
  <2> QED
    BY <2>1, <2>2
<1>7. CASE Restore(p)
  <2>1. CASE call' = [call EXCEPT ![p].pc = "import", ![p].left = Tail(@), ![p].command = None]
    BY <1>0, <2>1 DEF CallType
  <2> QED
    BY <1>1, <1>7, <2>1 DEF Restore
<1>8. CASE Die(p)
  BY <1>1, <1>8 DEF Die
<1>9. CASE Admit(p)
  <2>1. PICK point \in {"append", "scan"}, tasks \in SUBSET dirs :
          call' = [call EXCEPT ![p].pc = point, ![p].todo = tasks]
    <3> DEFINE others == IF call[p].command.independent THEN {}
                         ELSE dirs \ {call[p].command.task}
               point == IF others = {} THEN "append" ELSE "scan"
    <3>1. point \in {"append", "scan"} /\ others \in SUBSET dirs
      OBVIOUS
    <3>2. call' = [call EXCEPT ![p].pc = point, ![p].todo = others]
      BY <1>9 DEF Admit
    <3> HIDE DEF others, point
    <3> QED
      BY <3>1, <3>2
  <2> QED
    BY <1>0, <2>1 DEF CallType
<1>10. ASSUME NEW r \in Requests, Create(p, r)
       PROVE  /\ call'[p].seen = call[p].seen /\ call'[p].since = call[p].since
              /\ call'[p].pc = "admission"
  BY <1>0, <1>10 DEF Create, CallType
<1>11. CASE Apply(p)
  BY <1>0, <1>11 DEF Apply, CallType
<1> QED
  BY <1>3, <1>4, <1>5, <1>6, <1>7, <1>8, <1>9, <1>10, <1>11 DEF Step

\* What a process knows of its readings.
LEMMA ReadOkOwn ==
  ASSUME Inv, [Next]_vars, NEW p \in Processes, ReadOk(p), Step(p)
  PROVE  ReadOk(p)'
<1>0. /\ CallOk(p) /\ call[p] \in CallType /\ call \in [Processes -> CallType]
      /\ dirs \in SUBSET Tasks /\ \A t \in Tasks : Len(ledger[t]) \in Nat
  BY LenProperties DEF Inv, Shape
<1>1. CASE EndApply(p) \/ Rebuild(p)
  <2>1. /\ call'[p] = StartIndex(p, dirs) /\ dirs' = dirs /\ ledger' = ledger
    BY <1>0, <1>1 DEF EndApply, Rebuild, Files
  <2>2. /\ call'[p].seen = <<>> /\ call'[p].todo = dirs
        /\ call'[p].since = [t \in dirs |-> Len(ledger[t])]
    BY <2>1 DEF StartIndex, Idle
  <2>3. /\ DOMAIN call'[p].seen = {} /\ DOMAIN call'[p].since = dirs
        /\ \A t \in dirs : call'[p].since[t] = Len(ledger'[t])
    BY <2>1, <2>2, IdleReads DEF Idle
  <2>4. \A t \in dirs : call'[p].since[t] <= Len(ledger'[t])
    BY <1>0, <2>1, <2>3
  <2> QED
    BY <1>0, <2>1, <2>2, <2>3, <2>4 DEF ReadOk, IsReading
<1>2. CASE Visit(p)
  <2>1. PICK t \in call[p].todo :
          call' = [call EXCEPT ![p] =
                     IF Exists(t)
                     THEN [call[p] EXCEPT
                             !.todo = call[p].todo \ {t},
                             !.seen = [u \in {t} \cup DOMAIN call[p].seen |->
                                         IF u = t THEN ReadTask(t) ELSE call[p].seen[u]]]
                     ELSE Idle]
    BY <1>2 DEF Visit
  <2>2. dirs' = dirs /\ ledger' = ledger /\ call[p].pc \in {"index", "manifest"}
    BY <1>2 DEF Visit, At, Files
  <2>3. CASE ~Exists(t)
    BY <1>0, <2>1, <2>3, IdleReadOk
  <2>4. CASE Exists(t)
    <3> DEFINE seen == [u \in {t} \cup DOMAIN call[p].seen |->
                          IF u = t THEN Len(ledger[t]) ELSE call[p].seen[u]]
    <3>1. /\ call'[p].pc = call[p].pc /\ call'[p].todo = call[p].todo \ {t}
          /\ call'[p].since = call[p].since /\ call'[p].seen = seen
      BY <1>0, <2>1, <2>4 DEF CallType, ReadTask
    <3>2. t \in dirs /\ t \in Tasks /\ call[p].seen \in Readings /\ call[p].since \in Readings
      BY <1>0 DEF CallOk, CallType
    <3>3. /\ DOMAIN call[p].seen \subseteq dirs
          /\ \A u \in DOMAIN call[p].seen : call[p].seen[u] <= Len(ledger[u])
          /\ DOMAIN call[p].since \subseteq Tasks
          /\ \A u \in DOMAIN call[p].since : call[p].since[u] <= Len(ledger[u])
      BY DEF ReadOk, IsReading
    <3>4. /\ DOMAIN seen = {t} \cup DOMAIN call[p].seen
          /\ \A u \in DOMAIN seen : seen[u] <= Len(ledger[u])
      BY <1>0, <3>2, <3>3
    <3>5. \A u \in DOMAIN call[p].since :
            \/ u \in call[p].todo \ {t}
            \/ u \in DOMAIN seen /\ seen[u] >= call[p].since[u]
      <4> SUFFICES ASSUME NEW u \in DOMAIN call[p].since, u \notin call[p].todo \ {t}
                   PROVE  u \in DOMAIN seen /\ seen[u] >= call[p].since[u]
        OBVIOUS
      <4>1. call[p].since[u] \in Nat
        BY <3>2, ReadingFacts
      <4>2. CASE u = t
        BY <1>0, <3>2, <3>3, <4>1, <4>2
      <4>3. CASE u # t
        <5>1. u \in DOMAIN call[p].seen /\ call[p].seen[u] >= call[p].since[u]
          BY <2>2, <4>3 DEF ReadOk
        <5> QED
          BY <4>3, <5>1
      <4> QED
        BY <4>2, <4>3
    <3> HIDE DEF seen
    <3> QED
      BY <1>0, <2>2, <3>1, <3>2, <3>3, <3>4, <3>5 DEF ReadOk, IsReading
  <2> QED
    BY <2>3, <2>4
<1>3. CASE PublishIndex(p)
  <2>1. /\ call'[p] = [Idle EXCEPT !.pc = "manifest", !.todo = dirs, !.since = call[p].seen]
        /\ dirs' = dirs /\ ledger' = ledger
    BY <1>0, <1>3 DEF PublishIndex, Files
  <2>2. call'[p].seen = Idle.seen /\ call'[p].todo = dirs /\ call'[p].since = call[p].seen
    BY <2>1 DEF Idle
  <2>3. DOMAIN call'[p].seen = {}
    BY <2>2, IdleReads
  <2> QED
    BY <1>0, <2>1, <2>2, <2>3 DEF ReadOk, IsReading
<1>4. CASE PublishManifest(p)
  BY <1>0, <1>4, IdleReadOk DEF PublishManifest
<1>5. CASE ~EndApply(p) /\ ~Rebuild(p) /\ ~Visit(p) /\ ~PublishIndex(p) /\ ~PublishManifest(p)
  <2>1. \/ call'[p] = Idle
        \/ call'[p] = call[p]
        \/ /\ call'[p].seen = call[p].seen /\ call'[p].since = call[p].since
           /\ call'[p].pc \notin {"index", "manifest"}
    BY <1>5, OtherStepsRead
  <2> QED
    BY <2>1, IdleReadOk, ReadOkKept
<1> QED
  BY <1>1, <1>2, <1>3, <1>4, <1>5

\* What was read and published is in the ledgers.
LEMMA ReadInvStep ==
  ASSUME Inv, [Next]_vars, ReadInv
  PROVE  ReadInv'
<1>1. ASSUME NEW q \in Processes PROVE ReadOk(q)'
  <2>0. ReadOk(q)
    BY DEF ReadInv
  <2>1. CASE call'[q] = call[q]
    BY <2>0, <2>1, ReadOkKept
  <2>2. ASSUME NEW p \in Processes, Step(p) PROVE ReadOk(q)'
    BY <2>0, <2>1, <2>2, OthersKeep, ReadOkOwn
  <2>3. CASE UNCHANGED call
    BY <2>1, <2>3
  <2> QED
    BY <2>2, <2>3 DEF Next, Operate, vars
<1>2. \/ index' = index
      \/ \E p \in Processes : index' = call[p].seen
  BY DEF Next, Step, Operate, vars, Create, Admit, Scan, Append1, AppendFirstEvent, Apply,
     Import, Restore, EndApply, Rebuild, Visit, PublishIndex, PublishManifest, Die, Published
<1>3. \/ manifest' = manifest
      \/ \E p \in Processes : manifest' = call[p].seen
  BY DEF Next, Step, Operate, vars, Create, Admit, Scan, Append1, AppendFirstEvent, Apply,
     Import, Restore, EndApply, Rebuild, Visit, PublishIndex, PublishManifest, Die, Published
<1>4. /\ index \in Readings /\ IsReading(index)
      /\ manifest \in Readings /\ IsReading(manifest)
      /\ \A p \in Processes : call[p].seen \in Readings /\ IsReading(call[p].seen)
  BY DEF Inv, Shape, CallType, ReadInv, ReadOk
<1>5. /\ DOMAIN index' \subseteq Tasks /\ \A t \in DOMAIN index' : index'[t] <= Len(ledger'[t])
  BY <1>2, <1>4, ReadingKept
<1>6. /\ DOMAIN manifest' \subseteq Tasks
      /\ \A t \in DOMAIN manifest' : manifest'[t] <= Len(ledger'[t])
  BY <1>3, <1>4, ReadingKept
<1> QED
  BY <1>1, <1>5, <1>6 DEF ReadInv, IsReading

\* The readings stay readings.
LEMMA ReadInvHolds == Spec => []ReadInv
<1>1. Init => ReadInv
  BY IdleReads, IdleType DEF Init, ReadInv, ReadOk, IsReading, Idle
<1>2. Inv /\ ReadInv /\ [Next]_vars => ReadInv'
  BY ReadInvStep
<1> QED
  BY <1>1, <1>2, InvHolds, PTL DEF Spec

\* What rebuild_project publishes is no older than the pass that read it, and
\* the manifest is never behind the index of the same rebuild.
THEOREM PublishedIsRecentHolds == Spec => PublishedIsRecent
<1>1. Inv /\ ReadInv /\ [Next]_vars =>
        [\A p \in Processes :
           /\ PublishIndex(p) => AtLeast(index', call[p].since)
           /\ PublishManifest(p) => AtLeast(manifest', call[p].since)]_vars
  <2> SUFFICES ASSUME ReadInv, NEW p \in Processes
               PROVE  /\ PublishIndex(p) => AtLeast(index', call[p].since)
                      /\ PublishManifest(p) => AtLeast(manifest', call[p].since)
    OBVIOUS
  <2>1. ReadOk(p)
    BY DEF ReadInv
  <2>2. ASSUME PublishIndex(p) PROVE AtLeast(index', call[p].since)
    BY <2>1, <2>2 DEF PublishIndex, At, ReadOk, AtLeast
  <2>3. ASSUME PublishManifest(p) PROVE AtLeast(manifest', call[p].since)
    BY <2>1, <2>3 DEF PublishManifest, At, ReadOk, AtLeast
  <2> QED
    BY <2>2, <2>3
<1> QED
  BY <1>1, InvHolds, ReadInvHolds, PTL DEF Spec, PublishedIsRecent

\* The state keeps its types: among them, the admission lock is held exactly
\* in the guarded part of create_task, every Task with events has a directory
\* and a status, and no reading of a ledger is ahead of it.
THEOREM ProjectTypesCorrect == Spec => []TypeOK
<1>1. Inv /\ ReadInv => TypeOK
  <2> SUFFICES ASSUME Inv, ReadInv PROVE TypeOK
    OBVIOUS
  <2>1. /\ Shape /\ \A p \in Processes : CallOk(p) /\ ReadOk(p)
    BY DEF Inv, ReadInv
  <2>2. ASSUME NEW t \in Tasks, Exists(t) PROVE t \in dirs /\ Status(t) \in TaskStatuses
    <3>1. /\ t \in dirs
          /\ \A i \in 2 .. Len(ledger[t]) : ledger[t][i] \in StatusEvents
      BY <2>2 DEF Inv, LedgerOk
    <3>2. ledger[t] \in Seq(Events) /\ ledger[t] # <<>>
      BY <2>1, <2>2 DEF Shape, Exists
    <3>3. Len(ledger[t]) \in Nat \ {0}
      BY <3>2, EmptySeq
    <3>4. CASE Len(ledger[t]) = 1
      BY <3>1, <3>4 DEF Status, TaskStatuses
    <3>5. CASE Len(ledger[t]) # 1
      <4> DEFINE n == Len(ledger[t])
      <4>0. n \in 2 .. n
        <5> HIDE DEF n
        <5>1. n \in Nat \ {0} /\ n # 1
          BY <3>3, <3>5 DEF n
        <5> QED
          BY <5>1
      <4>1. ledger[t][Len(ledger[t])] \in StatusEvents
        BY <3>1, <4>0
      <4>2. Status(t) = ledger[t][Len(ledger[t])].status
        BY <3>5 DEF Status
      <4> QED
        BY <3>1, <4>1, <4>2 DEF StatusEvents
    <3> QED
      BY <3>4, <3>5
  <2>3. ASSUME NEW t \in Tasks
        PROVE  Exists(t) <=> \E i \in DOMAIN admitted : admitted[i] = t
    <3>1. DOMAIN admitted = 1 .. Len(admitted)
      BY <2>1, LenProperties DEF Shape
    <3> QED
      BY <3>1 DEF Inv, AdmittedOk
  <2>4. ASSUME NEW p \in Processes
        PROVE  /\ call[p].pc \in CallPoints
               /\ call[p].todo \subseteq dirs
               /\ IsReading(call[p].seen) /\ IsReading(call[p].since)
               /\ lock = p <=> call[p].pc \in {"scan", "append", "event"}
    BY <2>1 DEF Shape, CallType, CallOk, ReadOk, Holding
  <2> QED
    BY <2>1, <2>2, <2>3, <2>4 DEF TypeOK, Shape, ReadInv
<1> QED
  BY <1>1, InvHolds, ReadInvHolds, PTL

=============================================================================
