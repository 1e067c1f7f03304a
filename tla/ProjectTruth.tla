---------------------------- MODULE ProjectTruth ----------------------------
(***************************************************************************)
(* The canonical state of a project (agent_runtime/project_truth/store.py) *)
(* and the agents registered in it (agent_runtime/project_agents):         *)
(* snapshot and receipt files that are never changed, an event log and one *)
(* pointer file, written one after the other under an exclusive lock by    *)
(* processes that may die between any two writes and be retried by others. *)
(* Rollbacks and agent updates read before they lock.  A collaboration     *)
(* plan binds WorkItems to the current snapshot while holding the lock;    *)
(* the runtime validates such a binding later, without the lock            *)
(* (task_runtime_v2/runtime.py).                                           *)
(***************************************************************************)
EXTENDS Integers, Sequences, FiniteSets

CONSTANTS
  Processes, None,
  Facts,         \* keys of facts and resources other than agent manifests
  Values,        \* their contents
  Requests,      \* change sets that callers commit and retry
  RequestKey,    \* idempotency key of each request
  RequestBody,   \* what each request changes, and who asks for it
  RollbackNames, \* idempotency keys of rollbacks
  GivenStatuses, \* statuses that updates give the agent
  MaxSnapshots,  \* bound on snapshot files
  MaxRevision,   \* bound on revisions of the agent's manifest
  MaxDeaths      \* bound on deaths of processes

AgentStatuses == {"none", "active", "paused", "archived"}
Manifest == [revision : Nat, status : AgentStatuses, scope : SUBSET Facts]
Unregistered == [revision |-> 0, status |-> "none", scope |-> {}]

\* What a change set does to each fact: a value, or one of these.
Writes == [Facts -> Values \cup {"keep", "remove"}]
NoWrites == [f \in Facts |-> "keep"]

\* A ChangeSet without expected_snapshot_id, which its hash leaves out.
Actors == {"operator", "agent"}
Body == [actor : Actors, writes : Writes, agent : Manifest \cup {None}]

ASSUME TruthAssumption ==
  /\ None \notin Processes \cup Values \cup Manifest
  /\ Values \cap {"keep", "remove"} = {}
  /\ GivenStatuses \subseteq AgentStatuses \ {"none"}
  /\ DOMAIN RequestKey = Requests /\ RequestBody \in [Requests -> Body]
  /\ MaxSnapshots \in Nat /\ MaxRevision \in Nat /\ MaxDeaths \in Nat

VARIABLES
  snaps,     \* snapshot files; the position is the snapshot id
  receipts,  \* receipt files
  prepared,  \* snapshots with a CANONICAL_CHANGE_PREPARED event
  pointer,   \* project_truth.yml: the current snapshot
  lock,      \* holder of .commit.lock
  call,      \* the call each process is in
  told,      \* change sets whose callers hold a receipt
  bindings,  \* what WorkItems are bound to: snapshot and manifest revision
  passed,    \* validations of bindings that passed, and the snapshot then current
  deaths

vars == <<snaps, receipts, prepared, pointer, lock, call, told, bindings, passed, deaths>>

----------------------------------------------------------------------------
(* Types *)

\* An idempotency key: a caller's own, one derived from a rollback and its
\* target, or one derived from a manifest revision and the expected snapshot.
IdemKey(kind, name, of, at) == [kind |-> kind, name |-> name, of |-> of, at |-> at]

\* A revision of a fact: the value and the snapshot that introduced it.
Revision(value, at) == [value |-> value, at |-> at]
NoFact == [value |-> None, at |-> 0]

\* "line" lists the snapshots that a walk along parent_snapshot_id visits,
\* oldest first.  key, body and madeFor (the generation the caller had seen)
\* are not in the file; they name the commit that wrote it.
Genesis ==
  [generation |-> 0, facts |-> [f \in Facts |-> NoFact], agent |-> Unregistered,
   key |-> None, body |-> None, madeFor |-> 0, line |-> <<1>>]

InLine(head, s) == \E i \in DOMAIN snaps[head].line : snaps[head].line[i] = s

Current == snaps[pointer]

Idle == [pc |-> "idle", key |-> None, body |-> None, expected |-> 0, target |-> 0]

\* The points of a call at which it holds the lock, and all of them.
Locked == {"check", "receipt", "event", "pointer", "return", "leased"}
CallPoints == {"idle", "ready", "validating"} \cup Locked

TypeOK ==
  /\ pointer \in DOMAIN snaps
  /\ \A s \in DOMAIN snaps :
       /\ snaps[s].generation \in Nat
       /\ \A f \in Facts : snaps[s].facts[f].value \in Values \cup {None}
       /\ snaps[s].agent \in Manifest
  /\ \A r \in receipts : r.snapshot \in DOMAIN snaps /\ r.previous \in DOMAIN snaps
  /\ prepared \subseteq DOMAIN snaps
  /\ \A p \in Processes :
       /\ call[p].pc \in CallPoints
       /\ call[p].expected \in {0} \cup DOMAIN snaps
       /\ call[p].target \in {0} \cup DOMAIN snaps
  /\ lock \in Processes \cup {None}
  /\ \A p \in Processes : lock = p <=> call[p].pc \in Locked
  /\ bindings \subseteq [snapshot : DOMAIN snaps, revision : Nat]
  /\ passed \subseteq [binding : bindings, at : DOMAIN snaps]
  /\ deaths \in 0 .. MaxDeaths

Init ==
  /\ snaps = <<Genesis>> /\ receipts = {} /\ prepared = {} /\ pointer = 1
  /\ lock = None
  /\ call = [p \in Processes |-> Idle]
  /\ told = {} /\ bindings = {} /\ passed = {} /\ deaths = 0

----------------------------------------------------------------------------
(* Calls before they take the lock *)

Store == <<snaps, receipts, prepared, pointer>>
Rest == <<bindings, passed, deaths>>

At(p, point) == call[p].pc = point

\* The bound leaves room for the snapshots of the calls under way.
RoomForSnapshot ==
  Len(snaps) + Cardinality({p \in Processes : call[p].pc \in {"ready", "check"}}) < MaxSnapshots

\* A ChangeSet is ready to be committed: its key, body and expected snapshot.
Prepare(p, key, body) ==
  /\ At(p, "idle")
  /\ RoomForSnapshot
  /\ call' = [call EXCEPT ![p] = [Idle EXCEPT !.pc = "ready", !.key = key, !.body = body,
                                              !.expected = pointer]]
  /\ UNCHANGED <<Store, lock, told, Rest>>

\* A caller makes a ChangeSet for the snapshot that is current, or repeats an
\* earlier one with what it expects now.
Commit(p, r) == Prepare(p, IdemKey("plain", RequestKey[r], 0, 0), RequestBody[r])

\* What ProjectAgentRegistry makes of the manifest it read.  register and
\* AgentLifecycle.update take any status and scope; pause, resume, replace and
\* archive are cases of update.
Successors(m) ==
  [revision : {m.revision + 1}, status : GivenStatuses, scope : SUBSET Facts]

ChangeAgent(p, manifest) ==
  /\ manifest.revision <= MaxRevision
  /\ Prepare(p, IdemKey("agent", None, manifest.revision, pointer),
             [actor |-> "operator", writes |-> NoWrites, agent |-> manifest])

\* The writes that turn the facts of snapshot s into those of the target; a
\* fact with the target's value but another revision is written again.
Restore(s, target) ==
  [f \in Facts |->
     IF snaps[target].facts[f] = snaps[s].facts[f] THEN "keep"
     ELSE IF snaps[target].facts[f] = NoFact THEN "remove" ELSE snaps[target].facts[f].value]

RollbackKey(target, name) == IdemKey("rollback", name, target, 0)

\* rollback looks for its receipt and makes the ChangeSet without the lock;
\* agent manifests are left out.
Rollback(p, target, name, actor) ==
  /\ InLine(pointer, target)
  /\ Restore(pointer, target) # NoWrites
  /\ \A r \in receipts : r.key # RollbackKey(target, name)
  /\ Prepare(p, RollbackKey(target, name),
             [actor |-> actor, writes |-> Restore(pointer, target), agent |-> None])

\* A rollback that finds its receipt returns it if it is in force; otherwise
\* it raises, which changes nothing.
RollbackAgain(p, r) ==
  /\ At(p, "idle")
  /\ r.key.kind = "rollback"
  /\ InLine(pointer, r.snapshot)
  /\ told' = told \cup {[key |-> r.key, body |-> r.body]}
  /\ UNCHANGED <<Store, lock, call, Rest>>

----------------------------------------------------------------------------
(* commit under the lock *)

Goto(p, point) == call' = [call EXCEPT ![p].pc = point]

\* The call ends with an exception or a receipt and the lock is released.
Leave(p) ==
  /\ call' = [call EXCEPT ![p] = Idle]
  /\ lock' = None

\* Mutant of Acquire: the lock is shared.
AcquireShared(p) ==
  /\ At(p, "ready")
  /\ lock' = p
  /\ Goto(p, "check")
  /\ UNCHANGED <<Store, told, Rest>>

Acquire(p) ==
  /\ At(p, "ready") /\ lock = None
  /\ lock' = p
  /\ Goto(p, "check")
  /\ UNCHANGED <<Store, told, Rest>>

ReceiptsOf(p) == {r \in receipts : r.key = call[p].key}

\* Mutant of Recover: the completed commit does not repeat its event.
RecoverWithoutEvent(p) ==
  /\ At(p, "check")
  /\ \E r \in ReceiptsOf(p) :
       IF r.body = call[p].body /\ InLine(pointer, r.snapshot)
       THEN Goto(p, "return") /\ UNCHANGED lock
       ELSE IF r.body = call[p].body /\ pointer = r.previous
            THEN /\ call' = [call EXCEPT ![p].pc = "pointer", ![p].target = r.snapshot]
                 /\ UNCHANGED lock
            ELSE Leave(p)
  /\ UNCHANGED <<Store, told, Rest>>

\* Mutant of Recover: an overtaken commit is tried again and again.
RecoverSpins(p) ==
  /\ At(p, "check")
  /\ \E r \in ReceiptsOf(p) :
       IF r.body = call[p].body /\ InLine(pointer, r.snapshot)
       THEN Goto(p, "return") /\ UNCHANGED lock
       ELSE IF r.body = call[p].body /\ pointer = r.previous
            THEN /\ call' = [call EXCEPT ![p].pc = "event", ![p].target = r.snapshot]
                 /\ UNCHANGED lock
            ELSE UNCHANGED <<call, lock>>
  /\ UNCHANGED <<Store, told, Rest>>

\* A receipt of the key exists.  It is returned when its snapshot is in the
\* history, its commit is completed when the history still ends where that
\* commit began, and the call is in conflict otherwise.
Recover(p) ==
  /\ At(p, "check")
  /\ \E r \in ReceiptsOf(p) :
       IF r.body = call[p].body /\ InLine(pointer, r.snapshot)
       THEN Goto(p, "return") /\ UNCHANGED lock
       ELSE IF r.body = call[p].body /\ pointer = r.previous
            THEN /\ call' = [call EXCEPT ![p].pc = "event", ![p].target = r.snapshot]
                 /\ UNCHANGED lock
            ELSE Leave(p)
  /\ UNCHANGED <<Store, told, Rest>>

\* _validate_agent_manifest_transitions: an agent's manifest is never removed
\* and its revision grows by one.
ManifestFollows(body, snapshot) ==
  body.agent # None => body.agent.revision = snapshot.agent.revision + 1

\* Mutant of Authorized: the scope is checked, the status of the agent is not.
AuthorizedByScope(body, snapshot) ==
  body.actor = "agent" =>
    /\ \A f \in Facts : body.writes[f] # "keep" => f \in snapshot.agent.scope
    /\ body.agent = None

\* _authorize_agent_change_set: an agent writes while it is active, within
\* the scope of the manifest in force, and never a manifest.
Authorized(body, snapshot) ==
  body.actor = "agent" =>
    /\ snapshot.agent.status = "active"
    /\ \A f \in Facts : body.writes[f] # "keep" => f \in snapshot.agent.scope
    /\ body.agent = None

\* Mutant of Acceptable: the expected snapshot only has to be in the history.
AcceptableIfKnown(p) ==
  /\ InLine(pointer, call[p].expected)
  /\ ManifestFollows(call[p].body, Current)
  /\ Authorized(call[p].body, Current)

\* No receipt: the ChangeSet must have been made for the current snapshot and
\* be permitted in it.
Acceptable(p) ==
  /\ call[p].expected = pointer
  /\ ManifestFollows(call[p].body, Current)
  /\ Authorized(call[p].body, Current)

Refuse(p) ==
  /\ At(p, "check") /\ ReceiptsOf(p) = {} /\ ~Acceptable(p)
  /\ Leave(p)
  /\ UNCHANGED <<Store, told, Rest>>

\* Mutant of Changed: removals are not applied.
ChangedKeepingRemoved(body, key, madeFor) ==
  LET new == Len(snaps) + 1
      written(f) == IF body.writes[f] \in {"keep", "remove"} THEN Current.facts[f]
                    ELSE Revision(body.writes[f], new)
  IN  [generation |-> Current.generation + 1,
       facts |-> [f \in Facts |-> written(f)],
       agent |-> IF body.agent = None THEN Current.agent ELSE body.agent,
       key |-> key, body |-> body, madeFor |-> madeFor,
       line |-> Append(Current.line, new)]

\* The snapshot that the body makes of the current one.
Changed(body, key, madeFor) ==
  LET new == Len(snaps) + 1
      written(f) == CASE body.writes[f] = "keep" -> Current.facts[f]
                      [] body.writes[f] = "remove" -> NoFact
                      [] OTHER -> Revision(body.writes[f], new)
  IN  [generation |-> Current.generation + 1,
       facts |-> [f \in Facts |-> written(f)],
       agent |-> IF body.agent = None THEN Current.agent ELSE body.agent,
       key |-> key, body |-> body, madeFor |-> madeFor,
       line |-> Append(Current.line, new)]

WriteSnapshot(p) ==
  /\ At(p, "check") /\ ReceiptsOf(p) = {} /\ Acceptable(p)
  /\ snaps' = Append(snaps, Changed(call[p].body, call[p].key,
                                    snaps[call[p].expected].generation))
  /\ call' = [call EXCEPT ![p].pc = "receipt", ![p].target = Len(snaps) + 1]
  /\ UNCHANGED <<receipts, prepared, pointer, lock, told, Rest>>

WriteReceipt(p) ==
  /\ At(p, "receipt")
  /\ receipts' = receipts \cup {[key |-> call[p].key, body |-> call[p].body,
                                 snapshot |-> call[p].target, previous |-> pointer]}
  /\ Goto(p, "event")
  /\ UNCHANGED <<snaps, prepared, pointer, lock, told, Rest>>

AppendEvent(p) ==
  /\ At(p, "event")
  /\ prepared' = prepared \cup {call[p].target}
  /\ Goto(p, "pointer")
  /\ UNCHANGED <<snaps, receipts, pointer, lock, told, Rest>>

MovePointer(p) ==
  /\ At(p, "pointer")
  /\ pointer' = call[p].target
  /\ Goto(p, "return")
  /\ UNCHANGED <<snaps, receipts, prepared, lock, told, Rest>>

Return(p) ==
  /\ At(p, "return")
  /\ told' = told \cup {[key |-> call[p].key, body |-> call[p].body]}
  /\ Leave(p)
  /\ UNCHANGED <<Store, Rest>>

----------------------------------------------------------------------------
(* WorkItems bound to the agent *)

\* current_snapshot_lease: the lock is held while the snapshot is used.
AcquireLease(p) ==
  /\ At(p, "idle") /\ lock = None
  /\ lock' = p
  /\ call' = [call EXCEPT ![p] = [Idle EXCEPT !.pc = "leased", !.expected = pointer]]
  /\ UNCHANGED <<Store, told, Rest>>

\* ExpertCollaborationScheduler.materialize reads the agents a second time
\* and binds WorkItems to the leased snapshot, if the agent is active.
Bind(p) ==
  /\ At(p, "leased")
  /\ bindings' = IF Current.agent.status = "active"
                 THEN bindings \cup {[snapshot |-> call[p].expected,
                                      revision |-> Current.agent.revision]}
                 ELSE bindings
  /\ Leave(p)
  /\ UNCHANGED <<Store, told, passed, deaths>>

\* _validate_project_agent_binding reads the current snapshot ...
StartValidation(p, b) ==
  /\ At(p, "idle")
  /\ b.snapshot = pointer
  /\ call' = [call EXCEPT ![p] = [Idle EXCEPT !.pc = "validating", !.expected = b.snapshot,
                                              !.body = b]]
  /\ UNCHANGED <<Store, lock, told, Rest>>

\* Mutant of AgentStillBound: the revision is not compared again.
AgentActive(b) == Current.agent.status = "active"

\* ... and then, from whatever is current by then, the agent.
AgentStillBound(b) ==
  Current.agent.status = "active" /\ Current.agent.revision = b.revision

FinishValidation(p) ==
  /\ At(p, "validating")
  /\ passed' = IF AgentStillBound(call[p].body)
               THEN passed \cup {[binding |-> call[p].body, at |-> pointer]} ELSE passed
  /\ call' = [call EXCEPT ![p] = Idle]
  /\ UNCHANGED <<Store, lock, told, bindings, deaths>>

----------------------------------------------------------------------------

\* The process dies at any point of its call; the kernel drops its lock.
Die(p) ==
  /\ deaths < MaxDeaths /\ ~At(p, "idle")
  /\ deaths' = deaths + 1
  /\ call' = [call EXCEPT ![p] = Idle]
  /\ lock' = IF lock = p THEN None ELSE lock
  /\ UNCHANGED <<Store, told, bindings, passed>>

UnderLock(p) ==
  \/ Recover(p) \/ Refuse(p)
  \/ WriteSnapshot(p) \/ WriteReceipt(p) \/ AppendEvent(p) \/ MovePointer(p) \/ Return(p)
  \/ Bind(p)

Start(p) ==
  \/ \E r \in Requests : Commit(p, r)
  \/ \E m \in Successors(Current.agent) : ChangeAgent(p, m)
  \/ \E target \in DOMAIN snaps, name \in RollbackNames, actor \in Actors :
       Rollback(p, target, name, actor)
  \/ \E r \in receipts : RollbackAgain(p, r)
  \/ \E b \in bindings : StartValidation(p, b)
  \/ AcquireLease(p)

Next ==
  \E p \in Processes :
    Start(p) \/ Acquire(p) \/ UnderLock(p) \/ FinishValidation(p) \/ Die(p)

Spec == Init /\ [][Next]_vars

\* A call goes on once it has the lock, and flock is granted to a call that
\* waits for it while it is free again and again.
FairSpec ==
  /\ Spec
  /\ \A p \in Processes :
       WF_vars(UnderLock(p)) /\ WF_vars(FinishValidation(p)) /\ SF_vars(Acquire(p))

----------------------------------------------------------------------------
(* Properties *)

History == Current.line

\* Deaths and retries leave no gap in the canonical history: generations
\* count from the empty snapshot, each link extends its parent's history, and
\* every snapshot of it has its receipt and its event although these three
\* files and the pointer are written one after the other.
HistoryComplete ==
  \A i \in DOMAIN History :
    /\ snaps[History[i]].generation = i - 1
    /\ snaps[History[i]].line = SubSeq(History, 1, i)
    /\ i > 1 => /\ History[i] \in prepared
                /\ \E r \in receipts :
                     /\ r.key = snaps[History[i]].key /\ r.body = snaps[History[i]].body
                     /\ r.snapshot = History[i] /\ r.previous = History[i - 1]

\* The store implements the register that its callers are promised: pointer
\* moves only append, each change set takes effect once and on the state it
\* was made for, and success is reported only for one in force.
ChangeSetsInForce ==
  [i \in 1 .. Len(History) - 1 |->
     LET s == snaps[History[i + 1]]
     IN  [key |-> s.key, body |-> s.body, madeFor |-> s.madeFor]]

Register == INSTANCE TruthRegister WITH history <- ChangeSetsInForce

ImplementsRegister == Register!RegisterSpec

\* A rollback in force brought back the values of its target, whatever was
\* committed between its unlocked reads and its commit, and left the agent's
\* manifest as it was.
RollbackRestores ==
  \A i \in DOMAIN History \ {1} :
    LET s == snaps[History[i]]
    IN  s.key.kind = "rollback" =>
          /\ InLine(pointer, s.key.of)
          /\ \A f \in Facts : s.facts[f].value = snaps[s.key.of].facts[f].value
          /\ s.agent = snaps[History[i - 1]].agent

\* Along the history the agent's manifest is replaced only by its next
\* revision, and what the agent wrote was within the scope of the manifest
\* in force when it was applied, also when another process completed the
\* commit later or the write was a rollback.
AgentGoverned ==
  \A i \in DOMAIN History \ {1} :
    LET s == snaps[History[i]]
        before == snaps[History[i - 1]]
    IN  /\ s.agent # before.agent => s.agent.revision = before.agent.revision + 1
        /\ s.body.actor = "agent" =>
             /\ before.agent.status = "active" /\ s.agent = before.agent
             /\ \A f \in Facts \ before.agent.scope : s.facts[f] = before.facts[f]

\* A WorkItem is bound to a snapshot whose own manifest is the bound revision
\* and active, and a binding that passes validation still has the agent's
\* whole manifest in force, although commits may fall between the two reads
\* of the scheduler and of the validation.
BindingsHold ==
  /\ \A b \in bindings :
       /\ snaps[b.snapshot].agent.status = "active"
       /\ snaps[b.snapshot].agent.revision = b.revision
  /\ \A v \in passed : snaps[v.at].agent = snaps[v.binding.snapshot].agent

\* Every call on the store ends: nobody waits for the lock for ever, and a
\* death in the middle of a commit does not keep others out.
EveryCallEnds ==
  \A p \in Processes : ~At(p, "idle") ~> At(p, "idle")

=============================================================================
