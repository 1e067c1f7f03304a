---------------------------- MODULE ProjectTasks ----------------------------
(***************************************************************************)
(* The Tasks of a project (task_runtime_v2/runtime.py and migration.py):   *)
(* create_task admits a business goal once, under a lock of the project;   *)
(* rebuild_project reads the Tasks one at a time, each under its own lock, *)
(* and publishes the index and then the manifest of selected artifacts;    *)
(* LegacyRunMigrator.apply imports the runs of the old pipeline as Tasks   *)
(* and brings each to its old status by a series of commands.  Processes   *)
(* do all of this at once and may die between any two steps.  One append   *)
(* to a ledger is atomic here: module TaskLedger takes it apart.           *)
(***************************************************************************)
EXTENDS Naturals, Sequences, FiniteSets

CONSTANTS
  Processes, None,
  Tasks,      \* task ids
  Goals, Keys, \* fingerprints of business goals, and idempotency keys
  Requests,   \* create_task commands: task, goal, key and whether the goal is
              \* declared to be an independent boundary (allow_duplicate_goal)
  Sources,    \* sequence of legacy runs: task, goal and status
  Operations, \* statuses that operators give to Tasks
  MaxEvents,  \* bound on the events of a Task that operators append
  MaxRebuilds, \* bound on calls of rebuild_project
  MaxDeaths   \* bound on deaths of processes

TASK_TRANSITIONS ==
  ({"created"} \X {"ready", "paused", "cancelled"})
    \cup ({"ready"} \X {"running", "blocked", "paused", "cancelled"})
    \cup ({"running"} \X {"waiting", "completed", "blocked", "paused", "failed", "cancelled"})
    \cup ({"waiting"} \X {"running", "blocked", "paused", "cancelled"})
    \cup ({"blocked", "paused"} \X {"ready", "running", "cancelled"})
    \cup ({"completed", "failed"} \X {"ready"})

TaskStatuses == {"waiting"} \cup {t[2] : t \in TASK_TRANSITIONS} \cup {"created"}

Commands == [task : Tasks, goal : Goals, key : Keys \cup {"legacy"},
             independent : BOOLEAN, legacy : BOOLEAN]

ASSUME ProjectAssumption ==
  /\ None \notin Processes
  /\ \A r \in Requests : r \in Commands /\ ~r.legacy
  /\ Sources \in Seq([task : Tasks, goal : Goals, status : TaskStatuses])
  /\ Operations \subseteq TaskStatuses
  /\ MaxEvents \in Nat /\ MaxRebuilds \in Nat /\ MaxDeaths \in Nat

VARIABLES
  dirs,     \* directories under tasks/
  ledger,   \* events of each Task; the first is the command that created it
  admitted, \* Tasks in the order of their first events
  lock,     \* holder of .admission.lock
  call,     \* the call each process is in
  index,    \* task_index.yml: the length of the ledger shown for each Task
  manifest, \* selected_artifacts.yml: the same
  rebuilds, deaths

vars == <<dirs, ledger, admitted, lock, call, index, manifest, rebuilds, deaths>>

Exists(t) == ledger[t] # <<>>
Goal(t) == ledger[t][1].goal
Status(t) == IF Len(ledger[t]) = 1 THEN "created" ELSE ledger[t][Len(ledger[t])].status

\* "left" are the legacy runs still to be imported, "todo" the directories
\* still to be visited, "seen" what was read of the others, and "since" what
\* the ledgers held when the current pass began.
Idle == [pc |-> "idle", command |-> None, left |-> <<>>, todo |-> {},
         seen |-> <<>>, since |-> <<>>]

CallPoints == {"idle", "import", "admission", "scan", "append", "event", "restore",
               "index", "manifest"}

\* Readings of some Tasks: the length of each ledger.
IsReading(r) == DOMAIN r \subseteq Tasks /\ \A t \in DOMAIN r : r[t] <= Len(ledger[t])

TypeOK ==
  /\ dirs \subseteq Tasks
  /\ \A t \in Tasks :
       /\ Exists(t) => t \in dirs /\ Status(t) \in TaskStatuses
       /\ Exists(t) <=> \E i \in DOMAIN admitted : admitted[i] = t
  /\ lock \in Processes \cup {None}
  /\ \A p \in Processes :
       /\ call[p].pc \in CallPoints
       /\ call[p].todo \subseteq dirs
       /\ IsReading(call[p].seen) /\ IsReading(call[p].since)
       /\ lock = p <=> call[p].pc \in {"scan", "append", "event"}
  /\ IsReading(index) /\ IsReading(manifest)
  /\ rebuilds \in 0 .. MaxRebuilds /\ deaths \in 0 .. MaxDeaths

Init ==
  /\ dirs = {} /\ admitted = <<>>
  /\ ledger = [t \in Tasks |-> <<>>]
  /\ lock = None
  /\ call = [p \in Processes |-> Idle]
  /\ index = <<>> /\ manifest = <<>>
  /\ rebuilds = 0 /\ deaths = 0

----------------------------------------------------------------------------
(* create_task *)

At(p, point) == call[p].pc = point

Files == <<dirs, ledger, admitted>>
Published == <<index, manifest>>
Counts == <<rebuilds, deaths>>

Create(p, request) ==
  /\ At(p, "idle")
  /\ call' = [call EXCEPT ![p].pc = "admission", ![p].command = request]
  /\ UNCHANGED <<Files, lock, Published, Counts>>

\* Mutant of Admit: a directory of its own makes the command a repetition,
\* which is not checked.
AdmitRepetition(p) ==
  /\ At(p, "admission") /\ lock = None
  /\ lock' = p
  /\ LET others == IF call[p].command.independent \/ call[p].command.task \in dirs THEN {}
                   ELSE dirs
     IN  call' = [call EXCEPT ![p].pc = IF others = {} THEN "append" ELSE "scan",
                              ![p].todo = others]
  /\ UNCHANGED <<Files, Published, Counts>>

\* Under the admission lock the directories are listed; a command that
\* declares an independent boundary does not look at them.
Admit(p) ==
  /\ At(p, "admission") /\ lock = None
  /\ lock' = p
  /\ LET others == IF call[p].command.independent THEN {}
                   ELSE dirs \ {call[p].command.task}
     IN  call' = [call EXCEPT ![p].pc = IF others = {} THEN "append" ELSE "scan",
                              ![p].todo = others]
  /\ UNCHANGED <<Files, Published, Counts>>

\* The call raises, which also ends a migration it is part of.
Raise(p) ==
  /\ call' = [call EXCEPT ![p] = Idle]
  /\ lock' = IF lock = p THEN None ELSE lock

\* _assert_unique_business_goal looks at the next directory: one without
\* events cannot be projected, one with the same goal is a duplicate.
Scan(p) ==
  /\ At(p, "scan")
  /\ \E t \in call[p].todo :
       IF ~Exists(t) \/ Goal(t) = call[p].command.goal
       THEN Raise(p)
       ELSE /\ call' = [call EXCEPT ![p].todo = @ \ {t},
                                    ![p].pc = IF call[p].todo = {t} THEN "append" ELSE "scan"]
            /\ UNCHANGED lock
  /\ UNCHANGED <<Files, Published, Counts>>

\* Mutant of Created: a migration keeps the admission lock.
CreatedKeepingLock(p) ==
  /\ call' = [call EXCEPT ![p] = IF @.left = <<>> THEN Idle ELSE [@ EXCEPT !.pc = "restore"]]
  /\ lock' = IF call[p].left = <<>> THEN None ELSE lock

\* The command has returned; a migration goes on with the old status.
Created(p) ==
  /\ call' = [call EXCEPT ![p] = IF @.left = <<>> THEN Idle ELSE [@ EXCEPT !.pc = "restore"]]
  /\ lock' = None

\* _append_event: the command was executed before, or is in conflict, or
\* makes the directory.
Append1(p) ==
  LET c == call[p].command
  IN  /\ At(p, "append")
      /\ IF Exists(c.task)
         THEN /\ IF ledger[c.task][1] = c THEN Created(p) ELSE Raise(p)
              /\ UNCHANGED dirs
         ELSE /\ dirs' = dirs \cup {c.task}
              /\ call' = [call EXCEPT ![p].pc = "event"]
              /\ UNCHANGED lock
      /\ UNCHANGED <<ledger, admitted, Published, Counts>>

\* The first event is in the ledger and the admission lock is released.
AppendFirstEvent(p) ==
  LET c == call[p].command
  IN  /\ At(p, "event")
      /\ ledger' = [ledger EXCEPT ![c.task] = <<c>>]
      /\ admitted' = Append(admitted, c.task)
      /\ Created(p)
      /\ UNCHANGED <<dirs, Published, Counts>>

----------------------------------------------------------------------------
(* Events of existing Tasks *)

StatusEvent(key, status) == [key |-> key, status |-> status]

AppendStatus(t, key, status) ==
  /\ <<Status(t), status>> \in TASK_TRANSITIONS
  /\ ledger' = [ledger EXCEPT ![t] = Append(@, StatusEvent(key, status))]

\* An operator's command; it stands for every command that adds an event.
Operate(t, status) ==
  /\ Exists(t) /\ Len(ledger[t]) < MaxEvents
  /\ AppendStatus(t, None, status)
  /\ UNCHANGED <<dirs, admitted, lock, call, Published, Counts>>

----------------------------------------------------------------------------
(* LegacyRunMigrator.apply *)

ImportOf(source) ==
  [task |-> source.task, goal |-> source.goal, key |-> "legacy",
   independent |-> TRUE, legacy |-> TRUE]

\* The list of directories that rebuild_project starts from.
StartIndex(p, d) ==
  [Idle EXCEPT !.pc = "index", !.todo = d, !.since = [t \in d |-> Len(ledger[t])]]

CountRebuild == rebuilds < MaxRebuilds /\ rebuilds' = rebuilds + 1

Apply(p) ==
  /\ At(p, "idle") /\ Sources # <<>>
  /\ CountRebuild
  /\ call' = [call EXCEPT ![p].pc = "import", ![p].left = Sources]
  /\ UNCHANGED <<Files, lock, Published, deaths>>

\* The next legacy run: a directory must hold this very import, which then
\* counts as imported; otherwise the Task is created.
Import(p) ==
  /\ At(p, "import") /\ call[p].left # <<>>
  /\ LET command == ImportOf(Head(call[p].left))
         t == command.task
     IN  IF t \notin dirs
         THEN /\ call' = [call EXCEPT ![p].pc = "admission", ![p].command = command]
              /\ UNCHANGED lock
         ELSE IF Exists(t) /\ ledger[t][1] = command
              THEN call' = [call EXCEPT ![p].left = Tail(@)] /\ UNCHANGED lock
              ELSE Raise(p)
  /\ UNCHANGED <<Files, Published, Counts>>

\* The commands of _restore_terminal_status, by the status of the old run; a
\* status outside its mapping, "waiting" included, leaves the Task created.
RestorePath(status) ==
  CASE status \in {"cancelled", "ready"} -> <<status>>
    [] status \in {"paused", "blocked"} -> <<"ready", status>>
    [] status = "running" -> <<"ready", "running">>
    [] status \in {"completed", "failed"} -> <<"ready", "running", status>>
    [] OTHER -> <<>>

LegacyKeys(t) == {ledger[t][i].key : i \in 2 .. Len(ledger[t])} \ {None}

\* The next of these commands, each executed once whoever repeats it.
Restore(p) ==
  LET source == Head(call[p].left)
      t == source.task
      path == RestorePath(source.status)
      missing == {i \in DOMAIN path : path[i] \notin LegacyKeys(t)}
      next == path[CHOOSE i \in missing : \A j \in missing : i <= j]
  IN  /\ At(p, "restore")
      /\ \/ /\ missing = {}
            /\ call' = [call EXCEPT ![p].pc = "import", ![p].left = Tail(@), ![p].command = None]
            /\ UNCHANGED <<ledger, lock>>
         \/ /\ missing # {} /\ AppendStatus(t, next, next)
            /\ UNCHANGED <<call, lock>>
         \/ /\ missing # {} /\ <<Status(t), next>> \notin TASK_TRANSITIONS
            /\ Raise(p) /\ UNCHANGED ledger
      /\ UNCHANGED <<dirs, admitted, Published, Counts>>

EndApply(p) ==
  /\ At(p, "import") /\ call[p].left = <<>>
  /\ call' = [call EXCEPT ![p] = StartIndex(p, dirs)]
  /\ UNCHANGED <<Files, lock, Published, Counts>>

----------------------------------------------------------------------------
(* rebuild_project *)

Rebuild(p) ==
  /\ At(p, "idle")
  /\ CountRebuild
  /\ call' = [call EXCEPT ![p] = StartIndex(p, dirs)]
  /\ UNCHANGED <<Files, lock, Published, deaths>>

\* Mutant of ReadTask: an entry of the published index is taken over.
ReadIndexed(t) == IF t \in DOMAIN index THEN index[t] ELSE Len(ledger[t])

\* What a pass reads of a Task: its ledger, under its lock.
ReadTask(t) == Len(ledger[t])

\* A pass reads the next Task; one without events raises.
Visit(p) ==
  /\ At(p, "index") \/ At(p, "manifest")
  /\ \E t \in call[p].todo :
       call' = [call EXCEPT ![p] =
                  IF Exists(t)
                  THEN [call[p] EXCEPT
                          !.todo = call[p].todo \ {t},
                          !.seen = [u \in {t} \cup DOMAIN call[p].seen |->
                                      IF u = t THEN ReadTask(t) ELSE call[p].seen[u]]]
                  ELSE Idle]
  /\ UNCHANGED <<Files, lock, Published, Counts>>

\* The index is published and a second pass begins.
PublishIndex(p) ==
  /\ At(p, "index") /\ call[p].todo = {}
  /\ index' = call[p].seen
  /\ call' = [call EXCEPT ![p] = [Idle EXCEPT !.pc = "manifest", !.todo = dirs,
                                              !.since = call[p].seen]]
  /\ UNCHANGED <<Files, lock, manifest, Counts>>

PublishManifest(p) ==
  /\ At(p, "manifest") /\ call[p].todo = {}
  /\ manifest' = call[p].seen
  /\ call' = [call EXCEPT ![p] = Idle]
  /\ UNCHANGED <<Files, lock, index, Counts>>

----------------------------------------------------------------------------

\* The process dies; the kernel drops its locks.
Die(p) ==
  /\ deaths < MaxDeaths /\ ~At(p, "idle")
  /\ deaths' = deaths + 1
  /\ Raise(p)
  /\ UNCHANGED <<Files, Published, rebuilds>>

Step(p) ==
  \/ \E r \in Requests : Create(p, r)
  \/ Admit(p) \/ Scan(p) \/ Append1(p) \/ AppendFirstEvent(p)
  \/ Apply(p) \/ Import(p) \/ Restore(p) \/ EndApply(p)
  \/ Rebuild(p) \/ Visit(p) \/ PublishIndex(p) \/ PublishManifest(p)
  \/ Die(p)

Next ==
  \/ \E p \in Processes : Step(p)
  \/ \E t \in Tasks, s \in Operations : Operate(t, s)

Spec == Init /\ [][Next]_vars

----------------------------------------------------------------------------
(* Properties *)

\* A business goal belongs to one Task: of two Tasks with the same goal the
\* later one declared an independent boundary, whichever processes admitted
\* them at the same time and wherever they died.
UniqueGoals ==
  \A i, j \in DOMAIN admitted :
    i < j /\ Goal(admitted[i]) = Goal(admitted[j]) => ledger[admitted[j]][1].independent

\* What rebuild_project publishes is no older than the rebuild: the index
\* shows every Task listed at its start at least as it was then, and the
\* manifest, read in a second pass, is never behind the index published by
\* the same rebuild.
AtLeast(published, since) ==
  \A t \in DOMAIN since : t \in DOMAIN published /\ published[t] >= since[t]

PublishedIsRecent ==
  [][\A p \in Processes :
       /\ PublishIndex(p) => AtLeast(index', call[p].since)
       /\ PublishManifest(p) => AtLeast(manifest', call[p].since)]_vars

=============================================================================
