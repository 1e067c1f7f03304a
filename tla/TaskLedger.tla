----------------------------- MODULE TaskLedger -----------------------------
(***************************************************************************)
(* How task_runtime_v2/runtime.py carries out one command on the ledger of *)
(* a Task (events.jsonl): _append_event under the Task's flock, with the   *)
(* lookup of the idempotency key and the write, flush and fsync of one     *)
(* line, then rebuild_task, which takes the lock again and replaces the    *)
(* projection files one by one.  Processes die at any step, and machines   *)
(* lose power; every request may be retried by any process at any time.    *)
(*                                                                         *)
(* What a command means is left to module TaskRuntime.  Here a request is  *)
(* a key and a body, and its validation may accept or refuse it.           *)
(***************************************************************************)
EXTENDS Naturals, Sequences, FiniteSets

CONSTANTS
  Processes, None,
  Requests,       \* commands as callers issue and retry them
  Key, Body,      \* idempotency key and payload of each request
  Creates,        \* requests of type TASK_CREATED
  Late,           \* requests whose validate callback extends the payload
  Splits,         \* requests whose text holds a Unicode line separator
  ViewCount,      \* number of projection files
  CrashOutcomes,  \* what a write cut short leaves: see CrashInWrite
  ProcessCrash,   \* single processes may die
  PowerLoss       \* the machine may lose power

ASSUME LedgerAssumption ==
  /\ None \notin Processes
  /\ Creates \subseteq Requests /\ Late \subseteq Requests /\ Splits \subseteq Requests
  /\ ViewCount \in Nat \ {0}
  /\ CrashOutcomes \subseteq {"none", "partial", "unterminated", "whole"}
  /\ ProcessCrash \in BOOLEAN /\ PowerLoss \in BOOLEAN

VARIABLES
  file,      \* lines of events.jsonl as read_text shows them
  durable,   \* number of lines known to be on disk
  lock,      \* holder of the Task's flock
  pc,        \* where each process is in its command
  request,   \* the request each process carries out
  reply,     \* how its last command ended
  loaded,    \* number of events rebuild_task projects
  written,   \* number of projection files it has replaced
  view,      \* last_event_sequence each projection file was made from
  acked      \* requests whose callers were told of success

vars == <<file, durable, lock, pc, request, reply, loaded, written, view, acked>>

Views == 1 .. ViewCount

\* A line is an event and its newline, an event that lost its newline, or
\* text that json.loads refuses.
Forms == {"whole", "unterminated", "junk"}
Lines == [request : Requests, form : Forms]

Replies == {"none", "ok", "conflict", "integrity", "refused"}

TypeOK ==
  /\ file \in Seq(Lines)
  /\ durable \in 0 .. Len(file)
  /\ lock \in Processes \cup {None}
  /\ pc \in [Processes -> {"idle", "appending", "written", "appended", "rebuilding"}]
  /\ request \in [Processes -> Requests \cup {None}]
  /\ \A p \in Processes : pc[p] # "idle" => request[p] \in Requests
  /\ reply \in [Processes -> Replies]
  /\ loaded \in [Processes -> Nat]
  /\ written \in [Processes -> 0 .. ViewCount]
  /\ view \in [Views -> Nat]
  /\ acked \subseteq Requests

Init ==
  /\ file = <<>> /\ durable = 0
  /\ lock = None
  /\ pc = [p \in Processes |-> "idle"]
  /\ request = [p \in Processes |-> None]
  /\ reply = [p \in Processes |-> "none"]
  /\ loaded = [p \in Processes |-> 0]
  /\ written = [p \in Processes |-> 0]
  /\ view = [v \in Views |-> 0]
  /\ acked = {}

(***************************************************************************)
(* The file.                                                               *)
(***************************************************************************)

\* _load_events: every line is one event with the right hash and sequence.
Readable == \A i \in DOMAIN file : file[i].form # "junk"

\* The line of request r that is written when nothing goes wrong.  splitlines
\* breaks a line at U+0085, U+2028 and U+2029, which json.dumps with
\* ensure_ascii=False leaves unescaped.
EventLine(r) == [request |-> r, form |-> IF r \in Splits THEN "junk" ELSE "whole"]

\* The file after the text of `line' is appended to it.  Text appended to an
\* event without newline makes one unreadable line of both.
WithLine(line) ==
  LET tail == file[Len(file)] IN
  IF file # <<>> /\ tail.form = "unterminated"
  THEN [file EXCEPT ![Len(file)] = [request |-> tail.request, form |-> "junk"]]
  ELSE Append(file, line)

\* Mutant of Existing: only the last event is compared.
ExistingLast(r) ==
  {i \in DOMAIN file : i = Len(file) /\ Key[file[i].request] = Key[r]}

\* Lines with the idempotency key of r.
Existing(r) == {i \in DOMAIN file : Key[file[i].request] = Key[r]}

\* Mutants of SameCommand: the key alone decides; from_status is compared too,
\* which differs once another event has been appended.
SameCommandByKey(e, r) == TRUE
SameCommandWithStatus(e, r) == Body[e] = Body[r] /\ file[Len(file)].request = e

\* existing_identity = command_identity.  The payload of an event holds what
\* its validate callback added; the payload of the retry does not.
SameCommand(e, r) == Body[e] = Body[r] /\ e \notin Late

(***************************************************************************)
(* _append_event.                                                          *)
(***************************************************************************)

\* A process takes the ledger lock for a request, new or retried.
Acquire(p, r) ==
  /\ pc[p] = "idle" /\ lock = None
  /\ lock' = p
  /\ pc' = [pc EXCEPT ![p] = "appending"]
  /\ request' = [request EXCEPT ![p] = r]
  /\ reply' = [reply EXCEPT ![p] = "none"]
  /\ UNCHANGED <<file, durable, loaded, written, view, acked>>

\* Mutant of LockWithout: the lock outlives a command that fails.
LockWithoutOk(p) == IF lock = p /\ written[p] = ViewCount THEN None ELSE lock

\* The kernel releases the lock with the last descriptor, on every way out.
LockWithout(p) == IF lock = p THEN None ELSE lock

\* The command of p is over; it leaves the lock if it holds it.
Leave(p) ==
  /\ lock' = LockWithout(p)
  /\ pc' = [pc EXCEPT ![p] = "idle"]
  /\ loaded' = [loaded EXCEPT ![p] = 0]
  /\ written' = [written EXCEPT ![p] = 0]

\* An exception reaches the caller.
Raise(p, why) ==
  /\ Leave(p)
  /\ reply' = [reply EXCEPT ![p] = why]
  /\ UNCHANGED <<file, durable, request, view, acked>>

\* Mutant of LoadFails: lines that are no events are skipped.
LoadNeverFails == FALSE

LoadFails == ~Readable

\* _load_events raises LedgerIntegrityError, in _append_event or rebuild_task.
LoadError(p) ==
  /\ pc[p] = "appending" \/ (pc[p] = "appended" /\ lock = None)
  /\ LoadFails
  /\ Raise(p, "integrity")

\* The Task does not exist yet, exists already, or the command is refused by
\* expected_task_statuses or by its validate callback.
Refuse(p) ==
  LET r == request[p] IN
  /\ pc[p] = "appending" /\ ~LoadFails
  /\ Existing(r) = {}
  /\ Raise(p, "refused")

\* The key belongs to another command: IdempotencyConflict.
Conflict(p) ==
  /\ pc[p] = "appending" /\ ~LoadFails
  /\ \E i \in Existing(request[p]) : ~SameCommand(file[i].request, request[p])
  /\ Raise(p, "conflict")

\* The event is in the ledger already: it is returned as it is.
Reuse(p) ==
  /\ pc[p] = "appending" /\ ~LoadFails
  /\ \E i \in Existing(request[p]) : SameCommand(file[i].request, request[p])
  /\ lock' = None
  /\ pc' = [pc EXCEPT ![p] = "appended"]
  /\ UNCHANGED <<file, durable, request, reply, loaded, written, view, acked>>

\* The checks before the write: a TASK_CREATED event comes first and once.
MayAppend(r) ==
  /\ ~LoadFails
  /\ (file = <<>>) <=> (r \in Creates)
  /\ Existing(r) = {}

\* handle.write and handle.flush of _append_ledger_line
Write(p) ==
  /\ pc[p] = "appending"
  /\ MayAppend(request[p])
  /\ file' = WithLine(EventLine(request[p]))
  /\ pc' = [pc EXCEPT ![p] = "written"]
  /\ UNCHANGED <<durable, lock, request, reply, loaded, written, view, acked>>

\* Mutants of SyncedLines: the append is not fsynced; a line too many counts.
SyncedLinesBefore == durable
SyncedLinesAhead == Len(file) + 1

SyncedLines == Len(file)

\* os.fsync, and the end of _append_event
Sync(p) ==
  /\ pc[p] = "written"
  /\ durable' = SyncedLines
  /\ lock' = None
  /\ pc' = [pc EXCEPT ![p] = "appended"]
  /\ UNCHANGED <<file, request, reply, loaded, written, view, acked>>

(***************************************************************************)
(* rebuild_task.                                                           *)
(***************************************************************************)
\* Mutant of EventsToProject: the events up to the command's own.
EventsUpToOwn(p) ==
  Cardinality({i \in DOMAIN file : \E j \in Existing(request[p]) : i <= j})

EventsToProject(p) == Len(file)

\* _ledger_lock, _load_events and _project
AcquireAgain(p) ==
  /\ pc[p] = "appended" /\ lock = None /\ ~LoadFails
  /\ lock' = p
  /\ pc' = [pc EXCEPT ![p] = "rebuilding"]
  /\ loaded' = [loaded EXCEPT ![p] = EventsToProject(p)]
  /\ UNCHANGED <<file, durable, request, reply, written, view, acked>>

\* atomic_write_yaml of the next projection file
WriteView(p) ==
  /\ pc[p] = "rebuilding" /\ written[p] < ViewCount
  /\ view' = [view EXCEPT ![written[p] + 1] = loaded[p]]
  /\ written' = [written EXCEPT ![p] = @ + 1]
  /\ UNCHANGED <<file, durable, lock, pc, request, reply, loaded, acked>>

\* The command returns the projection to its caller.
Return(p) ==
  /\ pc[p] = "rebuilding" /\ written[p] = ViewCount
  /\ Leave(p)
  /\ reply' = [reply EXCEPT ![p] = "ok"]
  /\ acked' = acked \cup {request[p]}
  /\ UNCHANGED <<file, durable, request, view>>

(***************************************************************************)
(* Failures.                                                               *)
(***************************************************************************)

\* A process dies; what it had in memory is gone.
Dies(p) ==
  /\ ProcessCrash
  /\ Leave(p)
  /\ UNCHANGED <<request, reply, view, acked>>

Crash(p) ==
  /\ pc[p] # "idle"
  /\ Dies(p)
  /\ UNCHANGED <<file, durable>>

\* A process dies, or the disk is full, while a line is written: any prefix
\* of the line may be in the file.
CrashInWrite(p, outcome) ==
  LET r == request[p] IN
  /\ pc[p] = "appending"
  /\ MayAppend(r)
  /\ file' = CASE outcome = "none"         -> file
               [] outcome = "partial"      -> WithLine([request |-> r, form |-> "junk"])
               [] outcome = "unterminated" -> WithLine([request |-> r, form |-> "unterminated"])
               [] outcome = "whole"        -> WithLine(EventLine(r))
  /\ UNCHANGED durable
  /\ Dies(p)

\* Lines that were not fsynced may be lost; no process survives.
PowerFailure ==
  /\ PowerLoss
  /\ \E n \in durable .. Len(file) : file' = SubSeq(file, 1, n) /\ durable' = n
  /\ lock' = None
  /\ pc' = [p \in Processes |-> "idle"]
  /\ loaded' = [p \in Processes |-> 0]
  /\ written' = [p \in Processes |-> 0]
  /\ UNCHANGED <<request, reply, view, acked>>

\* A process goes on with its command.
Step(p) ==
  \/ LoadError(p) \/ Refuse(p) \/ Conflict(p) \/ Reuse(p)
  \/ Write(p) \/ Sync(p)
  \/ AcquireAgain(p) \/ WriteView(p) \/ Return(p)

Next ==
  \/ \E p \in Processes :
       \/ \E r \in Requests : Acquire(p, r)
       \/ Step(p)
       \/ Crash(p)
       \/ \E outcome \in CrashOutcomes : CrashInWrite(p, outcome)
  \/ PowerFailure

Spec == Init /\ [][Next]_vars

\* A live process is scheduled, and flock serves its waiters in turn, so a
\* process that can go on again and again does.  Nobody has to crash.
FairSpec == Spec /\ \A p \in Processes : SF_vars(Step(p))

(***************************************************************************)
(* Properties.                                                             *)
(***************************************************************************)

\* A key is spent once, however often, by whomever and after whatever crash a
\* request is retried: the lookup and the append share one lock.
AtMostOncePerKey ==
  \A i, j \in DOMAIN file : Key[file[i].request] = Key[file[j].request] => i = j

\* Success means that the command is in the ledger and in every projection
\* file, and stays there when others die between two of these files.
AckedVisible ==
  \A r \in acked :
    \E i \in Existing(r) : /\ Body[file[i].request] = Body[r]
                          /\ \A v \in Views : view[v] >= i

\* A projection file is never replaced by an older one: rebuild_task projects
\* what it loads under the lock, never what the command had loaded before.
ViewsMoveForward == [][\A v \in Views : view'[v] >= view[v]]_vars

\* "violations fail closed": nothing is appended to a ledger that a torn
\* write has left unreadable.
FailsClosed == [][~Readable => UNCHANGED <<file, view>>]_vars

\* Every command ends: nobody waits for ever at the lock of a process that
\* died or raised inside it.
EveryCommandEnds == \A p \in Processes : pc[p] # "idle" ~> pc[p] = "idle"

\* A caller is refused a key as another command's only when it is.
ConflictIsReal ==
  \A p \in Processes :
    reply[p] = "conflict" =>
      \E i \in Existing(request[p]) : Body[file[i].request] # Body[request[p]]

\* "Durably append one canonical event line": a line is readable once written.
LedgerReadable == Readable

\* "flushed, and fsynced": a caller that was told of success finds its command
\* in the ledger after the machine has lost power.
AckedDurable == \A r \in acked : Existing(r) # {}

(***************************************************************************)
(* Refinement.  The events in force are the lines before the torn one.     *)
(***************************************************************************)
InForce == [i \in 1 .. (IF Readable THEN Len(file) ELSE Len(file) - 1) |->
              file[i].request]

Abstract == INSTANCE CommandLog WITH log <- InForce

\* Locks, retries and crashes implement the exactly-once log of CommandLog.
ImplementsCommandLog == Abstract!LogSpec

=============================================================================
