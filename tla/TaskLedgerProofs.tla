-------------------------- MODULE TaskLedgerProofs --------------------------
(***************************************************************************)
(* Theorems about TaskLedger, for every number of processes, requests and  *)
(* projection files and every way a write may be cut short.                *)
(***************************************************************************)
EXTENDS TaskLedger, SequenceTheorems, TLAPS

\* File g is f and one more line.
Extends(f, g, line) ==
  /\ Len(g) = Len(f) + 1
  /\ g[Len(f) + 1] = line
  /\ \A i \in 1 .. Len(f) : g[i] = f[i]

\* File g is f with its last event, which had no newline, made unreadable.
Spoils(f, g) ==
  /\ Len(g) = Len(f) /\ Len(f) # 0
  /\ f[Len(f)].form = "unterminated" /\ g[Len(f)].form = "junk"
  /\ g[Len(f)].request = f[Len(f)].request
  /\ \A i \in 1 .. Len(f) : i # Len(f) => g[i] = f[i]

\* Appending text to the ledger adds a line or spoils an unterminated one.
LEMMA WithLineFacts ==
  ASSUME file \in Seq(Lines), NEW line \in Lines
  PROVE  /\ WithLine(line) \in Seq(Lines)
         /\ Extends(file, WithLine(line), line) \/ Spoils(file, WithLine(line))
<1>0. Len(file) \in Nat /\ DOMAIN file = 1 .. Len(file)
  BY LenProperties
<1>1. CASE file # <<>> /\ file[Len(file)].form = "unterminated"
  <2> DEFINE last == [request |-> file[Len(file)].request, form |-> "junk"]
  <2>1. Len(file) \in 1 .. Len(file) /\ Len(file) # 0
    BY <1>0, <1>1, EmptySeq
  <2>2. file[Len(file)] \in Lines
    BY <2>1, ElementOfSeq
  <2>3. last \in Lines
    BY <2>2 DEF Lines, Forms
  <2>4. WithLine(line) = [file EXCEPT ![Len(file)] = last]
    BY <1>1 DEF WithLine
  <2>6. last.request = file[Len(file)].request /\ last.form = "junk"
    OBVIOUS
  <2> HIDE DEF last
  <2>5. /\ WithLine(line) \in Seq(Lines)
        /\ Len(WithLine(line)) = Len(file)
        /\ \A i \in 1 .. Len(file) :
             WithLine(line)[i] = IF i = Len(file) THEN last ELSE file[i]
    BY <2>1, <2>3, <2>4, ExceptSeq
  <2>7. WithLine(line)[Len(file)] = last
    BY <2>1, <2>5
  <2> QED
    BY <1>1, <2>1, <2>5, <2>6, <2>7 DEF Spoils
<1>2. CASE ~(file # <<>> /\ file[Len(file)].form = "unterminated")
  <2>1. WithLine(line) = Append(file, line)
    BY <1>2 DEF WithLine
  <2> QED
    BY <2>1, AppendProperties DEF Extends
<1> QED
  BY <1>1, <1>2

\* A line that is written is a line.
LEMMA LineTypes ==
  ASSUME NEW r \in Requests
  PROVE  /\ EventLine(r) \in Lines
         /\ [request |-> r, form |-> "junk"] \in Lines
         /\ [request |-> r, form |-> "unterminated"] \in Lines
BY DEF EventLine, Lines, Forms

\* The steps of one process that write no line.
Quiet(p) ==
  \/ \E r \in Requests : Acquire(p, r)
  \/ LoadError(p) \/ Refuse(p) \/ Conflict(p) \/ Reuse(p)
  \/ Sync(p) \/ AcquireAgain(p) \/ WriteView(p) \/ Return(p) \/ Crash(p)

\* The steps that write a line, or a part of one.
Writes(p) == Write(p) \/ \E outcome \in CrashOutcomes : CrashInWrite(p, outcome)

\* Every step is of one of three kinds.
LEMMA StepCases ==
  ASSUME Next
  PROVE  (\E p \in Processes : Quiet(p) \/ Writes(p)) \/ PowerFailure
BY DEF Next, Step, Quiet, Writes

\* Only writing and power failures change the file.
LEMMA QuietKeepsFile ==
  ASSUME NEW p \in Processes, Quiet(p)
  PROVE  file' = file
BY DEF Quiet, Acquire, LoadError, Refuse, Conflict, Reuse, Sync, AcquireAgain,
       WriteView, Return, Crash, Raise

\* A writer found its key unused and changes the file by one line, if at all.
LEMMA WritesOneLine ==
  ASSUME TypeOK, NEW p \in Processes, Writes(p)
  PROVE  /\ pc[p] = "appending" /\ request[p] \in Requests
         /\ MayAppend(request[p])
         /\ file' \in Seq(Lines)
         /\ \/ file' = file
            \/ Spoils(file, file')
            \/ \E line \in Lines : /\ line.request = request[p]
                                   /\ Extends(file, file', line)
<1>1. pc[p] = "appending" /\ MayAppend(request[p])
  BY DEF Writes, Write, CrashInWrite
<1>2. request[p] \in Requests
  BY <1>1 DEF TypeOK
<1>3. file \in Seq(Lines)
  BY DEF TypeOK
<1>4. file' = file \/ \E line \in Lines : line.request = request[p] /\ file' = WithLine(line)
  <2>1. CASE Write(p)
    BY <1>2, <2>1, LineTypes DEF Write, EventLine
  <2>2. ASSUME NEW outcome \in CrashOutcomes, CrashInWrite(p, outcome)
        PROVE  file' = file \/ \E line \in Lines : line.request = request[p] /\ file' = WithLine(line)
    BY <1>2, <2>2, LineTypes, LedgerAssumption DEF CrashInWrite, EventLine
  <2> QED
    BY <2>1, <2>2 DEF Writes
<1> QED
  BY <1>1, <1>2, <1>3, <1>4, WithLineFacts

\* A written line never shortens the file.
LEMMA WritesKeepLength ==
  ASSUME TypeOK, NEW p \in Processes, Writes(p)
  PROVE  Len(file) \in Nat /\ Len(file') \in Nat /\ Len(file') >= Len(file)
<1>1. file \in Seq(Lines) /\ file' \in Seq(Lines)
  BY WritesOneLine DEF TypeOK
<1>2. Len(file) \in Nat /\ Len(file') \in Nat
  BY <1>1, LenProperties
<1> QED
  BY <1>2, WritesOneLine DEF Spoils, Extends

-----------------------------------------------------------------------------
(***************************************************************************)
(* Types and the lock.  LockedSteps is what makes the two critical         *)
(* sections critical: it says that the process inside one, and no other,   *)
(* holds the Task's flock.                                                 *)
(***************************************************************************)
LockedSteps ==
  \A p \in Processes : pc[p] \in {"appending", "written", "rebuilding"} <=> lock = p

\* The state is well typed at first, and nobody is in a command.
LEMMA TypesInit ==
  ASSUME Init
  PROVE  TypeOK /\ LockedSteps
<1>1. file \in Seq(Lines) /\ Len(file) = 0
  BY EmptySeq DEF Init
<1> QED
  BY <1>1, LedgerAssumption DEF Init, TypeOK, LockedSteps, Replies, Views

\* A process that leaves its command returns to a well-typed idle state.
LEMMA LeaveTypes ==
  ASSUME TypeOK, NEW p \in Processes, Leave(p)
  PROVE  /\ lock' \in Processes \cup {None}
         /\ pc' \in [Processes -> {"idle", "appending", "written", "appended", "rebuilding"}]
         /\ \A q \in Processes : pc'[q] # "idle" => pc[q] # "idle"
         /\ loaded' \in [Processes -> Nat]
         /\ written' \in [Processes -> 0 .. ViewCount]
BY LedgerAssumption DEF TypeOK, Leave, LockWithout

\* Every step keeps the types.
LEMMA TypesStep ==
  ASSUME TypeOK, [Next]_vars
  PROVE  TypeOK'
<1>0. file \in Seq(Lines) /\ Len(file) \in Nat
  BY LenProperties DEF TypeOK
<1>1. CASE UNCHANGED vars
  BY <1>1 DEF vars, TypeOK
<1>2. ASSUME NEW p \in Processes, Writes(p)
      PROVE  TypeOK'
  <2>1. file' \in Seq(Lines) /\ durable' \in 0 .. Len(file')
    <3>1. durable' = durable
      BY <1>2 DEF Writes, Write, CrashInWrite
    <3> QED
      BY <3>1, <1>2, WritesOneLine, WritesKeepLength DEF TypeOK
  <2>2. CASE Write(p)
    BY <2>1, <2>2 DEF TypeOK, Write
  <2>3. CASE \E outcome \in CrashOutcomes : CrashInWrite(p, outcome)
    <3>1. Dies(p)
      BY <2>3 DEF CrashInWrite
    <3>2. Leave(p)
      BY <3>1 DEF Dies
    <3> QED
      BY <2>1, <3>1, <3>2, LeaveTypes DEF TypeOK, Dies
  <2> QED
    BY <1>2, <2>2, <2>3 DEF Writes
<1>3. ASSUME NEW p \in Processes, Quiet(p)
      PROVE  TypeOK'
  <2>1. file' = file
    BY <1>3, QuietKeepsFile
  <2>2. ASSUME NEW r \in Requests, Acquire(p, r)
        PROVE  TypeOK'
    BY <2>2 DEF TypeOK, Acquire, Replies
  <2>3. ASSUME NEW why \in Replies, Raise(p, why)
        PROVE  TypeOK'
    <3>1. Leave(p)
      BY <2>3 DEF Raise
    <3> QED
      BY <2>3, <3>1, LeaveTypes DEF TypeOK, Raise
  <2>4. CASE LoadError(p) \/ Refuse(p) \/ Conflict(p)
    BY <2>3, <2>4 DEF LoadError, Refuse, Conflict, Replies
  <2>5. CASE Reuse(p)
    BY <2>5 DEF TypeOK, Reuse
  <2>6. CASE Sync(p)
    BY <1>0, <2>6 DEF TypeOK, Sync, SyncedLines
  <2>7. CASE AcquireAgain(p)
    BY <1>0, <2>7 DEF TypeOK, AcquireAgain, EventsToProject
  <2>8. CASE WriteView(p)
    BY <2>8, LedgerAssumption DEF TypeOK, WriteView, Views
  <2>9. CASE Return(p)
    <3>1. Leave(p)
      BY <2>9 DEF Return
    <3> QED
      BY <2>9, <3>1, LeaveTypes DEF TypeOK, Return, Replies
  <2>10. CASE Crash(p)
    <3>1. Leave(p)
      BY <2>10 DEF Crash, Dies
    <3> QED
      BY <2>10, <3>1, LeaveTypes DEF TypeOK, Crash, Dies
  <2> QED
    BY <1>3, <2>2, <2>4, <2>5, <2>6, <2>7, <2>8, <2>9, <2>10 DEF Quiet
<1>4. CASE PowerFailure
  <2>1. PICK n \in durable .. Len(file) : file' = SubSeq(file, 1, n) /\ durable' = n
    BY <1>4 DEF PowerFailure
  <2>2. n \in 0 .. Len(file)
    BY <1>0, <2>1 DEF TypeOK
  <2>3. file' \in Seq(Lines) /\ Len(file') = n
    BY <1>0, <2>1, <2>2, SubSeqProperties
  <2> QED
    BY <1>0, <1>4, <2>1, <2>2, <2>3, LedgerAssumption DEF TypeOK, PowerFailure
<1> QED
  BY <1>1, <1>2, <1>3, <1>4, StepCases

\* Every step keeps the lock with the process inside a critical section.
LEMMA LockStep ==
  ASSUME TypeOK, LockedSteps, [Next]_vars
  PROVE  LockedSteps'
<1> USE LedgerAssumption
<1>1. CASE UNCHANGED vars
  BY <1>1 DEF vars, LockedSteps
<1>2. ASSUME NEW p \in Processes, Leave(p)
      PROVE  LockedSteps'
  BY <1>2 DEF TypeOK, LockedSteps, Leave, LockWithout
<1>3. ASSUME NEW p \in Processes, Quiet(p)
      PROVE  LockedSteps'
  <2>1. CASE \E r \in Requests : Acquire(p, r)
    BY <2>1 DEF TypeOK, LockedSteps, Acquire
  <2>2. CASE LoadError(p) \/ Refuse(p) \/ Conflict(p) \/ Return(p) \/ Crash(p)
    BY <1>2, <2>2 DEF LoadError, Refuse, Conflict, Return, Crash, Raise, Dies
  <2>3. CASE Reuse(p)
    BY <2>3 DEF TypeOK, LockedSteps, Reuse
  <2>4. CASE Sync(p)
    BY <2>4 DEF TypeOK, LockedSteps, Sync
  <2>5. CASE AcquireAgain(p)
    BY <2>5 DEF TypeOK, LockedSteps, AcquireAgain
  <2>6. CASE WriteView(p)
    BY <2>6 DEF TypeOK, LockedSteps, WriteView
  <2> QED
    BY <1>3, <2>1, <2>2, <2>3, <2>4, <2>5, <2>6 DEF Quiet
<1>4. ASSUME NEW p \in Processes, Writes(p)
      PROVE  LockedSteps'
  <2>1. CASE Write(p)
    BY <2>1 DEF TypeOK, LockedSteps, Write
  <2>2. CASE \E outcome \in CrashOutcomes : CrashInWrite(p, outcome)
    <3>1. Dies(p)
      BY <2>2 DEF CrashInWrite
    <3> QED
      BY <3>1, <1>2 DEF Dies
  <2> QED
    BY <1>4, <2>1, <2>2 DEF Writes
<1>5. CASE PowerFailure
  BY <1>5 DEF TypeOK, LockedSteps, PowerFailure
<1> QED
  BY <1>1, <1>3, <1>4, <1>5, StepCases

\* The ledger's state is well typed, whatever crashes and power failures.
THEOREM LedgerTypesCorrect == Spec => []TypeOK
<1>1. Init => TypeOK
  BY TypesInit
<1>2. TypeOK /\ [Next]_vars => TypeOK'
  BY TypesStep
<1> QED
  BY <1>1, <1>2, PTL DEF Spec

\* _ledger_lock excludes: two processes are never both between the lookup of
\* a key and its fsync, nor both replacing projection files.
THEOREM LockExcludes == Spec => []LockedSteps
<1>1. Init => TypeOK /\ LockedSteps
  BY TypesInit
<1>2. TypeOK /\ LockedSteps /\ [Next]_vars => TypeOK' /\ LockedSteps'
  BY TypesStep, LockStep
<1> QED
  BY <1>1, <1>2, PTL DEF Spec

-----------------------------------------------------------------------------
(***************************************************************************)
(* At most one event per key.  The lookup and the write happen under one   *)
(* lock, so the key found unused is unused when its line arrives; a torn   *)
(* line keeps its request, and lines lost with the power only leave fewer. *)
(***************************************************************************)

\* Every step keeps the keys of the file apart.
LEMMA KeysStep ==
  ASSUME TypeOK, AtMostOncePerKey, [Next]_vars
  PROVE  AtMostOncePerKey'
<1>0. /\ file \in Seq(Lines) /\ file' \in Seq(Lines)
      /\ Len(file) \in Nat /\ Len(file') \in Nat
      /\ DOMAIN file = 1 .. Len(file) /\ DOMAIN file' = 1 .. Len(file')
  <2>1. file \in Seq(Lines) /\ file' \in Seq(Lines)
    BY TypesStep DEF TypeOK
  <2> QED
    BY <2>1, LenProperties
<1>1. CASE file' = file
  BY <1>1 DEF AtMostOncePerKey
<1>2. ASSUME NEW p \in Processes, Writes(p)
      PROVE  AtMostOncePerKey'
  <2>1. CASE Spoils(file, file')
    <3>1. \A i \in 1 .. Len(file) : file'[i].request = file[i].request
      BY <1>0, <2>1 DEF Spoils
    <3>2. Len(file') = Len(file)
      BY <2>1 DEF Spoils
    <3> QED
      BY <1>0, <3>1, <3>2 DEF AtMostOncePerKey
  <2>2. ASSUME NEW line \in Lines, line.request = request[p],
               Extends(file, file', line)
        PROVE  AtMostOncePerKey'
    <3>1. \A i \in 1 .. Len(file) : Key[file[i].request] # Key[request[p]]
      BY <1>0, <1>2, WritesOneLine DEF MayAppend, Existing
    <3>2. /\ Len(file') = Len(file) + 1
          /\ file'[Len(file) + 1].request = request[p]
          /\ \A i \in 1 .. Len(file) : file'[i] = file[i]
      BY <2>2 DEF Extends
    <3>3. SUFFICES ASSUME NEW i \in 1 .. Len(file) + 1, NEW j \in 1 .. Len(file) + 1,
                          Key[file'[i].request] = Key[file'[j].request]
                   PROVE  i = j
      BY <1>0, <3>2 DEF AtMostOncePerKey
    <3> QED
      BY <1>0, <3>1, <3>2, <3>3 DEF AtMostOncePerKey
  <2> QED
    BY <1>1, <1>2, <2>1, <2>2, WritesOneLine
<1>3. CASE PowerFailure
  <2>1. PICK n \in durable .. Len(file) : file' = SubSeq(file, 1, n)
    BY <1>3 DEF PowerFailure
  <2>2. n \in 0 .. Len(file)
    BY <1>0, <2>1 DEF TypeOK
  <2>3. Len(file') = n /\ \A i \in 1 .. n : file'[i] = file[i]
    BY <1>0, <2>1, <2>2, SubSeqProperties
  <2> QED
    BY <1>0, <2>2, <2>3 DEF AtMostOncePerKey
<1>4. CASE UNCHANGED vars
  BY <1>1, <1>4 DEF vars
<1> QED
  BY <1>1, <1>2, <1>3, <1>4, StepCases, QuietKeepsFile

\* A retried command is never recorded twice: any number of processes may
\* retry it at any time, and any of them may die at any point.
THEOREM RecordedAtMostOnce == Spec => []AtMostOncePerKey
<1>1. Init => TypeOK /\ AtMostOncePerKey
  <2>1. Init => DOMAIN file = {}
    BY DEF Init
  <2> QED
    BY <2>1, TypesInit DEF AtMostOncePerKey
<1>2. TypeOK /\ AtMostOncePerKey /\ [Next]_vars => TypeOK' /\ AtMostOncePerKey'
  BY TypesStep, KeysStep
<1> QED
  BY <1>1, <1>2, PTL DEF Spec

-----------------------------------------------------------------------------
(***************************************************************************)
(* What success means while the power holds.  The invariant follows a      *)
(* command from its write to its return: its event is in the ledger, or    *)
(* the ledger has become unreadable and the command will raise; and while  *)
(* it holds the lock to rebuild, the projection files it has replaced show *)
(* all of the file.                                                        *)
(***************************************************************************)
Recorded(r) ==
  \E i \in DOMAIN file : /\ Key[file[i].request] = Key[r]
                         /\ Body[file[i].request] = Body[r]

ViewsBehindFile == \A v \in Views : view[v] <= Len(file)

WritersRecorded ==
  \A p \in Processes : pc[p] \in {"written", "appended"} => Recorded(request[p]) \/ ~Readable

RebuildersUpToDate ==
  \A p \in Processes : pc[p] = "rebuilding" =>
    /\ Readable /\ Recorded(request[p])
    /\ loaded[p] = Len(file)
    /\ \A v \in Views : v <= written[p] => view[v] = Len(file)

CountersReset == \A p \in Processes : pc[p] # "rebuilding" => written[p] = 0

VisibleInv ==
  /\ TypeOK /\ LockedSteps /\ CountersReset
  /\ ViewsBehindFile /\ WritersRecorded /\ RebuildersUpToDate /\ AckedVisible

\* While the power holds, lines stay where they are, and stay unreadable.
LEMMA LinesStay ==
  ASSUME TypeOK, ~PowerLoss, [Next]_vars
  PROVE  /\ Len(file) \in Nat /\ Len(file') \in Nat /\ Len(file) <= Len(file')
         /\ DOMAIN file = 1 .. Len(file) /\ DOMAIN file' = 1 .. Len(file')
         /\ \A i \in DOMAIN file : file'[i].request = file[i].request
         /\ ~Readable => file' = file
<1>0. /\ file \in Seq(Lines) /\ file' \in Seq(Lines)
      /\ Len(file) \in Nat /\ Len(file') \in Nat
      /\ DOMAIN file = 1 .. Len(file) /\ DOMAIN file' = 1 .. Len(file')
  <2>1. file \in Seq(Lines) /\ file' \in Seq(Lines)
    BY TypesStep DEF TypeOK
  <2> QED
    BY <2>1, LenProperties
<1>1. CASE file' = file
  BY <1>0, <1>1
<1>2. ASSUME NEW p \in Processes, Writes(p), file' # file
      PROVE  /\ Len(file) <= Len(file')
             /\ \A i \in DOMAIN file : file'[i].request = file[i].request
             /\ Readable
  <2>1. Readable
    BY <1>2, WritesOneLine DEF MayAppend, LoadFails
  <2>2. CASE Spoils(file, file')
    <3>1. \A i \in 1 .. Len(file) : file'[i].request = file[i].request
      BY <1>0, <2>2 DEF Spoils
    <3>2. Len(file') = Len(file)
      BY <2>2 DEF Spoils
    <3> QED
      BY <1>0, <2>1, <3>1, <3>2
  <2>3. CASE \E line \in Lines : Extends(file, file', line)
    BY <1>0, <2>1, <2>3 DEF Extends
  <2> QED
    BY <1>2, <2>2, <2>3, WritesOneLine
<1>3. ~PowerFailure
  BY DEF PowerFailure
<1>4. CASE UNCHANGED vars
  BY <1>1, <1>4 DEF vars
<1> QED
  BY <1>0, <1>1, <1>2, <1>3, <1>4, StepCases, QuietKeepsFile

\* While the power holds, a recorded command stays recorded.
LEMMA RecordedStays ==
  ASSUME TypeOK, ~PowerLoss, [Next]_vars, NEW r, Recorded(r)
  PROVE  \E i \in DOMAIN file' : /\ Key[file'[i].request] = Key[r]
                                /\ Body[file'[i].request] = Body[r]
<1>1. PICK i \in DOMAIN file : /\ Key[file[i].request] = Key[r]
                               /\ Body[file[i].request] = Body[r]
  BY DEF Recorded
<1>2. i \in DOMAIN file' /\ file'[i].request = file[i].request
  BY LinesStay
<1> QED
  BY <1>1, <1>2

\* A process writes to the projection files of a readable ledger only, and
\* what it writes is no older than what it replaces.
LEMMA ViewsGrow ==
  ASSUME VisibleInv, ~PowerLoss, [Next]_vars
  PROVE  /\ \A v \in Views : view'[v] >= view[v] /\ view'[v] <= Len(file')
         /\ ~Readable => view' = view
<1>0. Len(file) \in Nat /\ Len(file') \in Nat /\ Len(file) <= Len(file')
  BY LinesStay DEF VisibleInv
<1>1. view \in [Views -> Nat] /\ ViewsBehindFile
  BY DEF VisibleInv, TypeOK
<1>2. CASE view' = view
  BY <1>0, <1>1, <1>2 DEF ViewsBehindFile
<1>3. ASSUME NEW p \in Processes, WriteView(p)
      PROVE  /\ \A v \in Views : view'[v] >= view[v] /\ view'[v] <= Len(file')
             /\ Readable
  <2>1. Readable /\ loaded[p] = Len(file)
    BY <1>3 DEF VisibleInv, RebuildersUpToDate, WriteView
  <2>2. view' = [view EXCEPT ![written[p] + 1] = Len(file)]
    BY <1>3, <2>1 DEF WriteView
  <2> QED
    BY <1>0, <1>1, <2>1, <2>2 DEF ViewsBehindFile
<1>4. ~PowerFailure
  BY DEF PowerFailure
<1>5. ASSUME NEW p \in Processes, Quiet(p) \/ Writes(p), ~WriteView(p)
      PROVE  view' = view
  BY <1>5 DEF Quiet, Writes, Acquire, LoadError, Refuse, Conflict, Reuse, Sync,
       AcquireAgain, Return, Crash, Raise, Dies, Write, CrashInWrite
<1>6. CASE UNCHANGED vars
  BY <1>2, <1>6 DEF vars
<1> QED
  BY <1>2, <1>3, <1>4, <1>5, <1>6, StepCases

\* The invariant holds of an empty ledger.
LEMMA VisibleInit ==
  ASSUME Init
  PROVE  VisibleInv
<1>1. TypeOK /\ LockedSteps
  BY TypesInit
<1>2. Len(file) = 0
  BY EmptySeq DEF Init
<1> QED
  BY <1>1, <1>2 DEF Init, VisibleInv, ViewsBehindFile, WritersRecorded,
     RebuildersUpToDate, AckedVisible, CountersReset

\* A command that was written, or found written, is recorded when its process
\* takes the lock again.
LEMMA WritersStep ==
  ASSUME VisibleInv, ~PowerLoss, [Next]_vars
  PROVE  WritersRecorded'
<1> SUFFICES ASSUME NEW q \in Processes, pc'[q] \in {"written", "appended"},
                    Readable'
             PROVE  Recorded(request[q])'
  BY DEF WritersRecorded
<1>0. TypeOK /\ LockedSteps /\ WritersRecorded
  BY DEF VisibleInv
<1>1. ~Readable => ~Readable'
  <2>1. ~Readable => file' = file
    BY <1>0, LinesStay
  <2> QED
    BY <2>1 DEF Readable
<1>2. CASE pc[q] \in {"written", "appended"} /\ request'[q] = request[q]
  <2>1. Recorded(request[q])
    BY <1>0, <1>1, <1>2 DEF WritersRecorded
  <2> QED
    BY <1>0, <1>2, <2>1, RecordedStays DEF Recorded
<1>3. CASE Write(q)
  <2>1. Writes(q) /\ request' = request /\ request[q] \in Requests
    BY <1>0, <1>3, WritesOneLine DEF Write, Writes
  <2>2. EventLine(request[q]) \in Lines /\ EventLine(request[q]).request = request[q]
    BY <2>1, LineTypes DEF EventLine
  <2>3. file' = WithLine(EventLine(request[q])) /\ file \in Seq(Lines)
    BY <1>0, <1>3 DEF Write, TypeOK
  <2>4. /\ Len(file) \in Nat /\ Len(file') \in Nat
        /\ DOMAIN file = 1 .. Len(file) /\ DOMAIN file' = 1 .. Len(file')
    BY <1>0, LinesStay
  <2>5. ~Spoils(file, file')
    <3>1. SUFFICES ASSUME Spoils(file, file')
                   PROVE  FALSE
      OBVIOUS
    <3>2. Len(file) # 0 /\ Len(file') = Len(file)
      BY <3>1 DEF Spoils
    <3>3. file'[Len(file)].form = "junk"
      BY <3>1 DEF Spoils
    <3>4. Len(file) \in DOMAIN file'
      BY <2>4, <3>2
    <3> QED
      BY <3>3, <3>4 DEF Readable
  <2>6. Extends(file, file', EventLine(request[q]))
    BY <2>2, <2>3, <2>5, WithLineFacts
  <2>7. Len(file) + 1 \in DOMAIN file' /\ file'[Len(file) + 1].request = request'[q]
    BY <2>1, <2>2, <2>4, <2>6 DEF Extends
  <2> QED
    BY <2>1, <2>7 DEF Recorded
<1>4. CASE Reuse(q)
  <2>1. Recorded(request[q]) /\ request' = request
    BY <1>4 DEF Reuse, Recorded, Existing, SameCommand
  <2> QED
    BY <1>0, <2>1, RecordedStays DEF Recorded
<1>5. CASE UNCHANGED vars
  BY <1>2, <1>5 DEF vars
<1>6. ASSUME NEW p \in Processes, Quiet(p), ~Reuse(q)
      PROVE  pc[q] \in {"written", "appended"} /\ request'[q] = request[q]
  BY <1>0, <1>6 DEF TypeOK, Quiet, Acquire, LoadError, Refuse, Conflict, Reuse, Sync,
       AcquireAgain, WriteView, Return, Crash, Raise, Dies, Leave
<1>7. ASSUME NEW p \in Processes, Writes(p), ~Write(q)
      PROVE  pc[q] \in {"written", "appended"} /\ request'[q] = request[q]
  BY <1>0, <1>7 DEF TypeOK, Writes, Write, CrashInWrite, Dies, Leave
<1>8. ~PowerFailure
  BY DEF PowerFailure
<1> QED
  BY <1>2, <1>3, <1>4, <1>5, <1>6, <1>7, <1>8, StepCases

\* The process that rebuilds keeps everybody else from changing the file.
LEMMA RebuildersStep ==
  ASSUME VisibleInv, ~PowerLoss, [Next]_vars
  PROVE  RebuildersUpToDate'
<1> DEFINE Keeps(q) ==
      /\ UNCHANGED <<file, view>> /\ pc[q] = "rebuilding"
      /\ request'[q] = request[q] /\ loaded'[q] = loaded[q] /\ written'[q] = written[q]
<1> DEFINE Current(q) ==
      /\ Readable /\ Recorded(request[q])
      /\ loaded[q] = Len(file)
      /\ \A v \in Views : v <= written[q] => view[v] = Len(file)
<1> SUFFICES ASSUME NEW q \in Processes, pc'[q] = "rebuilding"
             PROVE  Current(q)'
  BY DEF RebuildersUpToDate
<1>0. TypeOK /\ LockedSteps /\ CountersReset /\ WritersRecorded /\ RebuildersUpToDate
  BY DEF VisibleInv
<1>1. CASE Keeps(q)
  BY <1>0, <1>1 DEF RebuildersUpToDate, Readable, Recorded
<1>2. CASE AcquireAgain(q)
  <2>1. /\ UNCHANGED <<file, request, written, view>>
        /\ Readable /\ pc[q] = "appended"
        /\ loaded'[q] = Len(file)
    BY <1>0, <1>2 DEF AcquireAgain, LoadFails, EventsToProject, TypeOK
  <2>2. Recorded(request[q])
    BY <1>0, <2>1 DEF WritersRecorded
  <2>3. written[q] = 0
    BY <1>0, <2>1 DEF CountersReset
  <2> QED
    BY <2>1, <2>2, <2>3 DEF Readable, Recorded, Views
<1>3. CASE WriteView(q)
  <2>1. /\ UNCHANGED <<file, request, loaded>> /\ pc[q] = "rebuilding"
        /\ written[q] \in Nat /\ written'[q] = written[q] + 1
        /\ view' = [view EXCEPT ![written[q] + 1] = loaded[q]]
    BY <1>0, <1>3, LedgerAssumption DEF WriteView, TypeOK
  <2>2. Current(q)
    BY <1>0, <2>1 DEF RebuildersUpToDate
  <2>3. ASSUME NEW v \in Views, v <= written'[q]
        PROVE  view'[v] = Len(file)
    BY <1>0, <2>1, <2>2, <2>3 DEF TypeOK, Views
  <2> QED
    BY <2>1, <2>2, <2>3 DEF Readable, Recorded
<1>4. CASE UNCHANGED vars
  BY <1>1, <1>4 DEF vars
<1>5. ASSUME NEW p \in Processes, Quiet(p), ~AcquireAgain(q), ~WriteView(q)
      PROVE  Keeps(q)
  <2>1. file' = file
    BY <1>5, QuietKeepsFile
  <2>2. pc[q] = "rebuilding" /\ request'[q] = request[q]
        /\ loaded'[q] = loaded[q]
    BY <1>0, <1>5 DEF TypeOK, Quiet, Acquire, LoadError, Refuse, Conflict, Reuse, Sync,
         AcquireAgain, WriteView, Return, Crash, Raise, Dies, Leave
  <2>3. ~WriteView(p)
    BY <1>0, <1>5, <2>2 DEF LockedSteps, WriteView
  <2>4. view' = view /\ written'[q] = written[q]
    BY <1>0, <1>5, <2>2, <2>3 DEF TypeOK, Quiet, Acquire, LoadError, Refuse, Conflict, Reuse,
         Sync, AcquireAgain, Return, Crash, Raise, Dies, Leave
  <2> QED
    BY <2>1, <2>2, <2>4
<1>6. ASSUME NEW p \in Processes, Writes(p)
      PROVE  FALSE
  <2>1. pc[p] = "appending"
    BY <1>0, <1>6, WritesOneLine
  <2>2. pc[q] = "rebuilding" /\ p # q
    BY <1>0, <1>6, <2>1 DEF TypeOK, Writes, Write, CrashInWrite, Dies, Leave
  <2> QED
    BY <1>0, <2>1, <2>2 DEF LockedSteps
<1>7. ~PowerFailure
  BY DEF PowerFailure
<1> HIDE DEF Current, Keeps
<1> QED
  BY <1>1, <1>2, <1>3, <1>4, <1>5, <1>6, <1>7, StepCases

\* Only a process that rebuilds counts projection files.
LEMMA CountersStep ==
  ASSUME VisibleInv, ~PowerLoss, [Next]_vars
  PROVE  CountersReset'
<1> SUFFICES ASSUME NEW q \in Processes, pc'[q] # "rebuilding"
             PROVE  written'[q] = 0
  BY DEF CountersReset
<1>0. TypeOK /\ CountersReset
  BY DEF VisibleInv
<1>1. CASE UNCHANGED vars
  BY <1>0, <1>1 DEF vars, CountersReset
<1>2. ASSUME NEW p \in Processes, Quiet(p)
      PROVE  written'[q] = 0
  BY <1>0, <1>2 DEF TypeOK, CountersReset, Quiet, Acquire, LoadError, Refuse, Conflict,
       Reuse, Sync, AcquireAgain, WriteView, Return, Crash, Raise, Dies, Leave
<1>3. ASSUME NEW p \in Processes, Writes(p)
      PROVE  written'[q] = 0
  BY <1>0, <1>3 DEF TypeOK, CountersReset, Writes, Write, CrashInWrite, Dies, Leave
<1>4. ~PowerFailure
  BY DEF PowerFailure
<1> QED
  BY <1>1, <1>2, <1>3, <1>4, StepCases

\* An acknowledged command stays visible, and one that returns is visible.
LEMMA AckedStep ==
  ASSUME VisibleInv, ~PowerLoss, [Next]_vars
  PROVE  AckedVisible'
<1>0. TypeOK /\ RebuildersUpToDate /\ AckedVisible
  BY DEF VisibleInv
<1>1. /\ Len(file) \in Nat /\ DOMAIN file = 1 .. Len(file)
      /\ \A i \in DOMAIN file : i \in DOMAIN file' /\ file'[i].request = file[i].request
  BY <1>0, LinesStay
<1>2. \A v \in Views : view[v] \in Nat /\ view'[v] \in Nat /\ view'[v] >= view[v]
  <2>1. view \in [Views -> Nat] /\ view' \in [Views -> Nat]
    BY <1>0, TypesStep DEF TypeOK
  <2> QED
    BY <2>1, ViewsGrow
<1> DEFINE Visible(i, r) == /\ Key[file[i].request] = Key[r]
                            /\ Body[file[i].request] = Body[r]
                            /\ \A v \in Views : view[v] >= i
<1>3. ASSUME NEW r, NEW i \in DOMAIN file, Visible(i, r)
      PROVE  /\ i \in DOMAIN file'
             /\ Key[file'[i].request] = Key[r] /\ Body[file'[i].request] = Body[r]
             /\ \A v \in Views : view'[v] >= i
  BY <1>1, <1>2, <1>3
<1>4. SUFFICES ASSUME NEW r \in acked'
               PROVE  \E i \in DOMAIN file : Visible(i, r)
  BY <1>3 DEF AckedVisible, Existing
<1>5. CASE r \in acked
  BY <1>0, <1>5 DEF AckedVisible, Existing
<1>6. ASSUME NEW p \in Processes, Return(p), r = request[p]
      PROVE  \E i \in DOMAIN file : Visible(i, r)
  <2>1. pc[p] = "rebuilding" /\ written[p] = ViewCount
    BY <1>6 DEF Return
  <2>2. PICK i \in DOMAIN file : /\ Key[file[i].request] = Key[r]
                                 /\ Body[file[i].request] = Body[r]
    BY <1>0, <1>6, <2>1 DEF RebuildersUpToDate, Recorded
  <2>3. \A v \in Views : view[v] = Len(file)
    BY <1>0, <2>1, LedgerAssumption DEF RebuildersUpToDate, Views
  <2> QED
    BY <1>1, <2>2, <2>3
<1>7. ASSUME r \notin acked
      PROVE  \E p \in Processes : Return(p) /\ r = request[p]
  <2>1. acked' # acked
    BY <1>4, <1>7
  <2>2. \E p \in Processes : Return(p)
    BY <2>1, StepCases DEF vars, PowerFailure, Quiet, Writes, Acquire, LoadError, Refuse,
         Conflict, Reuse, Sync, AcquireAgain, WriteView, Crash, Raise, Dies, Write,
         CrashInWrite
  <2> QED
    BY <1>4, <1>7, <2>2 DEF Return
<1> QED
  BY <1>5, <1>6, <1>7

\* VisibleInv is inductive while the power holds.
LEMMA VisibleStep ==
  ASSUME VisibleInv, ~PowerLoss, [Next]_vars
  PROVE  VisibleInv'
<1>1. TypeOK' /\ LockedSteps'
  BY TypesStep, LockStep DEF VisibleInv
<1>2. ViewsBehindFile'
  BY ViewsGrow DEF ViewsBehindFile
<1> QED
  BY <1>1, <1>2, CountersStep, WritersStep, RebuildersStep, AckedStep DEF VisibleInv

\* A caller that was told of success finds its command in the ledger and in
\* every projection file, whoever dies at whatever point afterwards.
THEOREM SuccessIsVisible == ASSUME ~PowerLoss PROVE Spec => []AckedVisible
<1>1. Init => VisibleInv
  BY VisibleInit
<1>2. VisibleInv /\ [Next]_vars => VisibleInv'
  BY VisibleStep
<1>3. VisibleInv => AckedVisible
  BY DEF VisibleInv
<1> QED
  BY <1>1, <1>2, <1>3, PTL DEF Spec

\* rebuild_task never replaces a projection file by an older one, although it
\* runs after the lock of the append was given up.
THEOREM ProjectionsMoveForward == ASSUME ~PowerLoss PROVE Spec => ViewsMoveForward
<1>1. Init => VisibleInv
  BY VisibleInit
<1>2. VisibleInv /\ [Next]_vars => VisibleInv'
  BY VisibleStep
<1>3. VisibleInv /\ [Next]_vars => [\A v \in Views : view'[v] >= view[v]]_vars
  BY ViewsGrow
<1> QED
  BY <1>1, <1>2, <1>3, PTL DEF Spec, ViewsMoveForward

\* A ledger that a torn write has left unreadable is never touched again, and
\* neither are its projection files.
THEOREM UnreadableStaysUntouched == ASSUME ~PowerLoss PROVE Spec => FailsClosed
<1>1. Init => VisibleInv
  BY VisibleInit
<1>2. VisibleInv /\ [Next]_vars => VisibleInv'
  BY VisibleStep
<1>3. VisibleInv /\ [Next]_vars => [~Readable => UNCHANGED <<file, view>>]_vars
  <2>1. ASSUME VisibleInv, [Next]_vars, ~Readable
        PROVE  file' = file /\ view' = view
    BY <2>1, LinesStay, ViewsGrow DEF VisibleInv
  <2> QED
    BY <2>1
<1> QED
  BY <1>1, <1>2, <1>3, PTL DEF Spec, FailsClosed

-----------------------------------------------------------------------------
(***************************************************************************)
(* Refinement.  While the power holds, and unless a process dies between   *)
(* the last byte of an event and its newline, only the last line of the    *)
(* file can be torn: whatever would follow it is refused.  The lines       *)
(* before it then behave as the log of CommandLog.                         *)
(***************************************************************************)
OnlyLastTorn ==
  \A i \in DOMAIN file : /\ file[i].form # "unterminated"
                         /\ file[i].form = "junk" => i = Len(file)

\* A write adds a line to a readable file, whole or torn, if it adds anything.
LEMMA CleanWrites ==
  ASSUME TypeOK, OnlyLastTorn, "unterminated" \notin CrashOutcomes,
         NEW p \in Processes, Writes(p)
  PROVE  \/ file' = file
         \/ \E line \in Lines : /\ line.request = request[p]
                                /\ line.form \in {"whole", "junk"}
                                /\ Extends(file, file', line)
<1>0. file \in Seq(Lines) /\ request[p] \in Requests
  BY WritesOneLine DEF TypeOK
<1>1. Len(file) \in Nat /\ DOMAIN file = 1 .. Len(file)
  BY <1>0, LenProperties
<1> DEFINE Fresh(line) == line.request = request[p] /\ line.form \in {"whole", "junk"}
<1>2. \/ file' = file
      \/ \E line \in Lines : Fresh(line) /\ file' = WithLine(line)
  <2>1. CASE Write(p)
    BY <1>0, <2>1, LineTypes DEF Write, EventLine
  <2>2. ASSUME NEW outcome \in CrashOutcomes, CrashInWrite(p, outcome)
        PROVE  \/ file' = file
               \/ \E line \in Lines : Fresh(line) /\ file' = WithLine(line)
    <3>1. outcome \in {"none", "partial", "whole"}
      BY <2>2, LedgerAssumption
    <3> QED
      BY <1>0, <2>2, <3>1, LineTypes DEF CrashInWrite, EventLine
  <2> QED
    BY <2>1, <2>2 DEF Writes
<1>3. ASSUME NEW line \in Lines, Fresh(line), file' = WithLine(line)
      PROVE  Extends(file, file', line)
  <2>1. ~Spoils(file, WithLine(line))
    <3>1. SUFFICES ASSUME Spoils(file, WithLine(line)) PROVE FALSE
      OBVIOUS
    <3>2. Len(file) # 0 /\ file[Len(file)].form = "unterminated"
      BY <3>1 DEF Spoils
    <3>3. Len(file) \in DOMAIN file
      BY <1>1, <3>2
    <3> QED
      BY <3>2, <3>3 DEF OnlyLastTorn
  <2> QED
    BY <1>0, <1>3, <2>1, WithLineFacts
<1> QED
  BY <1>2, <1>3

\* Every step leaves at most the last line torn.
LEMMA TornStep ==
  ASSUME TypeOK, OnlyLastTorn, ~PowerLoss, "unterminated" \notin CrashOutcomes, [Next]_vars
  PROVE  OnlyLastTorn'
<1>0. /\ Len(file) \in Nat /\ Len(file') \in Nat
      /\ DOMAIN file = 1 .. Len(file) /\ DOMAIN file' = 1 .. Len(file')
  BY LinesStay
<1>1. CASE file' = file
  BY <1>1 DEF OnlyLastTorn
<1>2. ASSUME NEW p \in Processes, Writes(p), NEW line \in Lines,
             line.form \in {"whole", "junk"}, Extends(file, file', line)
      PROVE  OnlyLastTorn'
  <2>1. \A i \in 1 .. Len(file) : file[i].form # "junk" /\ file[i].form # "unterminated"
    BY <1>0, <1>2, WritesOneLine DEF MayAppend, LoadFails, Readable, OnlyLastTorn
  <2>2. SUFFICES ASSUME NEW i \in 1 .. Len(file) + 1
                 PROVE  /\ file'[i].form # "unterminated"
                        /\ file'[i].form = "junk" => i = Len(file) + 1
    BY <1>0, <1>2 DEF OnlyLastTorn, Extends
  <2>3. CASE i = Len(file) + 1
    BY <1>2, <2>3 DEF Extends
  <2>4. CASE i \in 1 .. Len(file)
    BY <1>2, <2>1, <2>4 DEF Extends
  <2> QED
    BY <1>0, <2>3, <2>4
<1>3. CASE UNCHANGED vars
  BY <1>1, <1>3 DEF vars
<1>4. ~PowerFailure
  BY DEF PowerFailure
<1> QED
  BY <1>1, <1>2, <1>3, <1>4, StepCases, QuietKeepsFile, CleanWrites

\* Number of events in force: the lines before the torn one.
ForceLen == IF Readable THEN Len(file) ELSE Len(file) - 1

\* The requests of the first n lines are a sequence.
LEMMA RequestsOfLines ==
  ASSUME NEW f \in Seq(Lines), NEW n \in 0 .. Len(f),
         NEW s, s = [i \in 1 .. n |-> f[i].request]
  PROVE  /\ s \in Seq(Requests) /\ Len(s) = n
         /\ \A i \in 1 .. n : s[i] = f[i].request
<1>1. Len(f) \in Nat
  BY LenProperties
<1>2. \A i \in 1 .. Len(f) : f[i] \in Lines
  BY ElementOfSeq
<1>3. \A i \in 1 .. n : f[i].request \in Requests
  BY <1>1, <1>2 DEF Lines
<1>4. s \in [1 .. n -> Requests]
  BY <1>3
<1> QED
  BY <1>1, <1>4

\* InForce is a sequence of requests; it holds the file's lines up to ForceLen.
LEMMA InForceFacts ==
  ASSUME TypeOK
  PROVE  /\ InForce \in Seq(Requests) /\ Len(InForce) = ForceLen
         /\ \A i \in 1 .. ForceLen : InForce[i] = file[i].request
<1>1. /\ file \in Seq(Lines) /\ Len(file) \in Nat
      /\ DOMAIN file = 1 .. Len(file)
  BY LenProperties DEF TypeOK
<1>2. ~Readable => Len(file) # 0
  BY <1>1 DEF Readable
<1>3. ForceLen \in 0 .. Len(file)
  BY <1>1, <1>2 DEF ForceLen
<1>4. InForce = [i \in 1 .. ForceLen |-> file[i].request]
  BY DEF InForce, ForceLen
<1> HIDE DEF ForceLen
<1> QED
  BY <1>1, <1>3, <1>4, RequestsOfLines

\* A whole line takes effect as one command, a torn one as none.
LEMMA WriteRefines ==
  ASSUME TypeOK, OnlyLastTorn, ~PowerLoss, "unterminated" \notin CrashOutcomes,
         [Next]_vars, NEW p \in Processes, Writes(p)
  PROVE  InForce' = InForce \/ Abstract!Apply(request[p])
<1>0. /\ Readable /\ request[p] \in Requests
      /\ \A i \in DOMAIN file : Key[file[i].request] # Key[request[p]]
      /\ acked' = acked
  BY WritesOneLine DEF MayAppend, LoadFails, Existing, Writes, Write, CrashInWrite, Dies
<1>1. /\ Len(file) \in Nat /\ Len(file') \in Nat
      /\ DOMAIN file = 1 .. Len(file) /\ DOMAIN file' = 1 .. Len(file')
  BY LinesStay
<1>2. CASE file' = file
  BY <1>2 DEF InForce, Readable
<1>3. ASSUME NEW line \in Lines, line.request = request[p],
             line.form \in {"whole", "junk"}, Extends(file, file', line)
      PROVE  InForce' = InForce \/ Abstract!Apply(request[p])
  <2>1. /\ Len(file') = Len(file) + 1 /\ file'[Len(file) + 1] = line
        /\ \A i \in 1 .. Len(file) : file'[i] = file[i]
    BY <1>3 DEF Extends
  <2>2. /\ InForce \in Seq(Requests) /\ Len(InForce) = Len(file)
        /\ \A i \in 1 .. Len(file) : InForce[i] = file[i].request
    BY <1>0, InForceFacts DEF ForceLen
  <2>3. /\ InForce' \in Seq(Requests) /\ Len(InForce') = ForceLen'
        /\ \A i \in 1 .. ForceLen' : InForce'[i] = file'[i].request
    <3>1. file' \in Seq(Lines)
      BY TypesStep DEF TypeOK
    <3>2. ForceLen' \in 0 .. Len(file')
      BY <1>1, <2>1 DEF ForceLen
    <3>3. InForce' = [i \in 1 .. ForceLen' |-> file'[i].request]
      BY DEF InForce, ForceLen
    <3> HIDE DEF ForceLen
    <3> QED
      BY <3>1, <3>2, <3>3, RequestsOfLines
  <2>4. CASE line.form = "junk"
    <3>1. ~Readable'
      BY <1>1, <2>1, <2>4 DEF Readable
    <3>2. ForceLen' = Len(file)
      BY <1>1, <2>1, <3>1 DEF ForceLen
    <3>3. Len(InForce') = Len(InForce) /\ \A i \in 1 .. Len(InForce') : InForce'[i] = InForce[i]
      BY <2>1, <2>2, <2>3, <3>2
    <3> QED
      BY <2>2, <2>3, <3>3, SeqEqual
  <2>5. CASE line.form = "whole"
    <3>1. Readable'
      BY <1>0, <1>1, <2>1, <2>5 DEF Readable
    <3>2. ForceLen' = Len(file) + 1
      BY <1>1, <2>1, <3>1 DEF ForceLen
    <3>3. /\ Append(InForce, request[p]) \in Seq(Requests)
          /\ Len(Append(InForce, request[p])) = Len(file) + 1
          /\ \A i \in 1 .. Len(file) : Append(InForce, request[p])[i] = file[i].request
          /\ Append(InForce, request[p])[Len(file) + 1] = request[p]
      BY <1>0, <2>2, AppendProperties
    <3>4. \A i \in 1 .. Len(file) + 1 : InForce'[i] = Append(InForce, request[p])[i]
      BY <1>1, <1>3, <2>1, <2>3, <3>2, <3>3
    <3>5. InForce' = Append(InForce, request[p])
      BY <2>3, <3>2, <3>3, <3>4, SeqEqual
    <3>6. \A s \in Abstract!Applied : Key[s] # Key[request[p]]
      <4>1. DOMAIN InForce = 1 .. Len(file)
        BY <2>2, LenProperties
      <4> QED
        BY <1>0, <1>1, <2>2, <4>1 DEF Abstract!Applied
    <3> QED
      BY <1>0, <3>5, <3>6 DEF Abstract!Apply
  <2> QED
    BY <1>3, <2>4, <2>5
<1> QED
  BY <1>2, <1>3, CleanWrites

\* A return tells the caller of a command that is in force.
LEMMA ReturnRefines ==
  ASSUME VisibleInv, NEW p \in Processes, Return(p)
  PROVE  Abstract!Acknowledge(request[p])
<1>1. pc[p] = "rebuilding" /\ file' = file /\ acked' = acked \cup {request[p]}
  BY DEF Return
<1>2. InForce' = InForce
  BY <1>1 DEF InForce, Readable
<1>3. TypeOK /\ Readable /\ Recorded(request[p])
  BY <1>1 DEF VisibleInv, RebuildersUpToDate
<1>4. PICK i \in DOMAIN file : /\ Key[file[i].request] = Key[request[p]]
                               /\ Body[file[i].request] = Body[request[p]]
  BY <1>3 DEF Recorded
<1>5. i \in DOMAIN InForce /\ InForce[i] = file[i].request
  <2>1. DOMAIN file = 1 .. Len(file)
    BY <1>3, LenProperties DEF TypeOK
  <2>2. /\ InForce \in Seq(Requests) /\ Len(InForce) = Len(file)
        /\ \A j \in 1 .. Len(file) : InForce[j] = file[j].request
    BY <1>3, InForceFacts DEF ForceLen
  <2> QED
    BY <2>1, <2>2, LenProperties
<1>6. InForce[i] \in Abstract!Applied
  BY <1>5 DEF Abstract!Applied
<1>7. Abstract!Same(request[p], InForce[i])
  BY <1>4, <1>5 DEF Abstract!Same
<1> QED
  BY <1>1, <1>2, <1>6, <1>7 DEF Abstract!Acknowledge

\* Every other step is invisible to the callers.
LEMMA OthersStutter ==
  ASSUME NEW p \in Processes, Quiet(p), ~Return(p)
  PROVE  InForce' = InForce /\ acked' = acked
<1>1. file' = file
  BY QuietKeepsFile
<1>2. acked' = acked
  BY DEF Quiet, Acquire, LoadError, Refuse, Conflict, Reuse, Sync, AcquireAgain,
     WriteView, Crash, Raise, Dies
<1> QED
  BY <1>1, <1>2 DEF InForce, Readable

\* _append_event and rebuild_task, run by any number of processes that retry
\* and die, implement the exactly-once log of CommandLog.
THEOREM LedgerImplementsLog ==
  ASSUME ~PowerLoss, "unterminated" \notin CrashOutcomes
  PROVE  Spec => ImplementsCommandLog
<1> DEFINE Inv == VisibleInv /\ OnlyLastTorn
<1>1. Init => Inv
  <2>1. Init => OnlyLastTorn
    BY DEF Init, OnlyLastTorn
  <2> QED
    BY <2>1, VisibleInit
<1>2. Inv /\ [Next]_vars => Inv'
  BY VisibleStep, TornStep DEF VisibleInv
<1>3. Init => Abstract!LogInit
  <2>1. ASSUME Init
        PROVE  InForce = <<>> /\ acked = {}
    <3>1. TypeOK /\ file = <<>> /\ acked = {}
      BY <2>1, TypesInit DEF Init
    <3>2. Len(file) = 0
      BY <3>1, EmptySeq
    <3>3. InForce \in Seq(Requests) /\ Len(InForce) = 0
      <4>1. Readable
        BY <3>1 DEF Readable
      <4> QED
        BY <3>1, <3>2, <4>1, InForceFacts DEF ForceLen
    <3> QED
      BY <3>1, <3>3, EmptySeq
  <2> QED
    BY <2>1 DEF Abstract!LogInit
<1>4. Inv /\ [Next]_vars => [Abstract!LogNext]_(Abstract!logVars)
  <2>1. SUFFICES ASSUME Inv, [Next]_vars
                 PROVE  [Abstract!LogNext]_(Abstract!logVars)
    OBVIOUS
  <2>2. ASSUME NEW p \in Processes, Writes(p)
        PROVE  [Abstract!LogNext]_(Abstract!logVars)
    <3>1. TypeOK /\ OnlyLastTorn
      BY <2>1 DEF VisibleInv
    <3>2. request[p] \in Requests /\ acked' = acked
      BY <2>2, <3>1, WritesOneLine DEF Writes, Write, CrashInWrite, Dies
    <3>3. InForce' = InForce \/ Abstract!Apply(request[p])
      BY <2>1, <2>2, <3>1, WriteRefines
    <3> QED
      BY <3>2, <3>3 DEF Abstract!LogNext, Abstract!logVars
  <2>3. ASSUME NEW p \in Processes, Return(p)
        PROVE  [Abstract!LogNext]_(Abstract!logVars)
    <3>1. request[p] \in Requests
      BY <2>1, <2>3 DEF VisibleInv, TypeOK, Return
    <3> QED
      BY <2>1, <2>3, <3>1, ReturnRefines DEF Abstract!LogNext
  <2>4. ASSUME InForce' = InForce, acked' = acked
        PROVE  [Abstract!LogNext]_(Abstract!logVars)
    BY <2>4 DEF Abstract!logVars
  <2>5. CASE UNCHANGED vars
    BY <2>4, <2>5 DEF vars, InForce, Readable
  <2>6. ~PowerFailure
    BY DEF PowerFailure
  <2> QED
    BY <2>1, <2>2, <2>3, <2>4, <2>5, <2>6, StepCases, OthersStutter
<1> QED
  BY <1>1, <1>2, <1>3, <1>4, PTL DEF Spec, ImplementsCommandLog, Abstract!LogSpec

-----------------------------------------------------------------------------
(***************************************************************************)
(* Conflicts.  Late = {} says that no validate callback extends the        *)
(* payload; the payload of a retry is then the one in the ledger.          *)
(***************************************************************************)

\* Every step keeps the conflicts real.
LEMMA ConflictStep ==
  ASSUME TypeOK, ConflictIsReal, ~PowerLoss, Late = {}, [Next]_vars
  PROVE  ConflictIsReal'
<1> DEFINE Clash(i, r) == /\ Key[file[i].request] = Key[r]
                          /\ Body[file[i].request] # Body[r]
<1>0. SUFFICES ASSUME NEW q \in Processes, reply'[q] = "conflict"
               PROVE  \E i \in DOMAIN file' : /\ Key[file'[i].request] = Key[request'[q]]
                                              /\ Body[file'[i].request] # Body[request'[q]]
  BY DEF ConflictIsReal, Existing
<1>1. SUFFICES request'[q] = request[q] /\ \E i \in DOMAIN file : Clash(i, request[q])
  <2>1. \A i \in DOMAIN file : i \in DOMAIN file' /\ file'[i].request = file[i].request
    BY LinesStay
  <2> QED
    BY <2>1
<1>2. CASE reply[q] = "conflict" /\ request'[q] = request[q]
  BY <1>2 DEF ConflictIsReal, Existing
<1>3. CASE Conflict(q)
  BY <1>3 DEF Conflict, Raise, SameCommand, Existing
<1>4. ASSUME NEW p \in Processes, Quiet(p), ~Conflict(q)
      PROVE  reply[q] = "conflict" /\ request'[q] = request[q]
  <2>1. ASSUME NEW r \in Requests, Acquire(p, r)
        PROVE  reply[q] = "conflict" /\ request'[q] = request[q]
    BY <1>0, <2>1 DEF TypeOK, Acquire
  <2>2. CASE LoadError(p) \/ Refuse(p) \/ (Conflict(p) /\ p # q) \/ Return(p)
    BY <1>0, <2>2 DEF TypeOK, LoadError, Refuse, Conflict, Return, Raise
  <2>3. CASE Reuse(p) \/ Sync(p) \/ AcquireAgain(p) \/ WriteView(p) \/ Crash(p)
    BY <1>0, <2>3 DEF Reuse, Sync, AcquireAgain, WriteView, Crash, Dies
  <2> QED
    BY <1>4, <2>1, <2>2, <2>3 DEF Quiet
<1>5. ASSUME NEW p \in Processes, Writes(p)
      PROVE  reply[q] = "conflict" /\ request'[q] = request[q]
  BY <1>0, <1>5 DEF Writes, Write, CrashInWrite, Dies
<1>6. CASE UNCHANGED vars
  BY <1>0, <1>2, <1>6 DEF vars
<1>7. ~PowerFailure
  BY DEF PowerFailure
<1> QED
  BY <1>2, <1>3, <1>4, <1>5, <1>6, <1>7, StepCases

\* IdempotencyConflict is raised for a key only when the ledger holds another
\* command under it, whenever no validate callback extends a payload.
THEOREM ConflictsAreReal ==
  ASSUME ~PowerLoss, Late = {}
  PROVE  Spec => []ConflictIsReal
<1>1. Init => TypeOK /\ ConflictIsReal
  BY TypesInit DEF Init, ConflictIsReal
<1>2. TypeOK /\ ConflictIsReal /\ [Next]_vars => TypeOK' /\ ConflictIsReal'
  BY TypesStep, ConflictStep
<1> QED
  BY <1>1, <1>2, PTL DEF Spec

-----------------------------------------------------------------------------
(***************************************************************************)
(* Success and the power.  As long as no process dies inside the lock, the *)
(* whole file is on disk whenever nobody is between a write and its fsync; *)
(* so a command that is found in the file by another process is on disk    *)
(* when that process reports it, although it does not sync it again.       *)
(***************************************************************************)

\* An event with the key of r is on disk.
Synced(r) == \E i \in DOMAIN file : Key[file[i].request] = Key[r] /\ i <= durable

NothingTorn == \A i \in DOMAIN file : file[i].form # "unterminated"

FileSynced == (\A p \in Processes : pc[p] # "written") => durable = Len(file)

WrittenInFile == \A p \in Processes : pc[p] = "written" => Existing(request[p]) # {}

ReportsSynced ==
  /\ \A p \in Processes : pc[p] \in {"appended", "rebuilding"} => Synced(request[p])
  /\ \A r \in acked : Synced(r)

DurableInv ==
  /\ TypeOK /\ LockedSteps /\ NothingTorn
  /\ FileSynced /\ WrittenInFile /\ ReportsSynced

\* Initially nothing is written and nothing reported.
LEMMA DurableInit ==
  ASSUME Init
  PROVE  DurableInv
<1>1. Len(file) = 0 /\ DOMAIN file = {} /\ durable = 0 /\ acked = {}
  BY DEF Init
<1>2. \A p \in Processes : pc[p] = "idle"
  BY DEF Init
<1> QED
  BY <1>1, <1>2, TypesInit
     DEF DurableInv, NothingTorn, FileSynced, WrittenInFile, ReportsSynced

\* What is on disk stays there, whatever happens.
LEMMA SyncedStays ==
  ASSUME DurableInv, ~ProcessCrash, [Next]_vars, NEW r, Synced(r)
  PROVE  \E i \in DOMAIN file' : Key[file'[i].request] = Key[r] /\ i <= durable'
<1>0. /\ Len(file) \in Nat /\ Len(file') \in Nat
      /\ DOMAIN file = 1 .. Len(file) /\ DOMAIN file' = 1 .. Len(file')
      /\ durable \in 0 .. Len(file) /\ durable' \in 0 .. Len(file') /\ file \in Seq(Lines)
  <2>1. file \in Seq(Lines) /\ file' \in Seq(Lines)
        /\ durable \in 0 .. Len(file) /\ durable' \in 0 .. Len(file')
    BY TypesStep DEF DurableInv, TypeOK
  <2> QED
    BY <2>1, LenProperties
<1>1. PICK i \in 1 .. Len(file) : Key[file[i].request] = Key[r] /\ i <= durable
  BY <1>0 DEF Synced
<1>2. CASE file' = file /\ durable' \in {durable, Len(file)}
  BY <1>0, <1>1, <1>2
<1>3. ASSUME NEW p \in Processes, Writes(p), durable' = durable
      PROVE  \E k \in DOMAIN file' : Key[file'[k].request] = Key[r] /\ k <= durable'
  <2>1. TypeOK
    BY DEF DurableInv
  <2>2. \/ file' = file
        \/ Spoils(file, file')
        \/ \E line \in Lines : /\ line.request = request[p]
                               /\ Extends(file, file', line)
    BY <1>3, <2>1, WritesOneLine
  <2>3. i \in 1 .. Len(file') /\ file'[i].request = file[i].request
    <3>1. CASE file' = file
      BY <1>1, <3>1
    <3>2. CASE Spoils(file, file')
      BY <1>0, <1>1, <3>2 DEF Spoils
    <3>3. ASSUME NEW line \in Lines, Extends(file, file', line)
          PROVE  i \in 1 .. Len(file') /\ file'[i].request = file[i].request
      BY <1>0, <1>1, <3>3 DEF Extends
    <3> QED
      BY <2>2, <3>1, <3>2, <3>3
  <2> QED
    BY <1>0, <1>1, <1>3, <2>3
<1>4. CASE PowerFailure
  <2>1. PICK n \in durable .. Len(file) : file' = SubSeq(file, 1, n) /\ durable' = n
    BY <1>4 DEF PowerFailure
  <2>2. n \in 0 .. Len(file) /\ durable <= n
    BY <1>0, <2>1
  <2>3. Len(file') = n /\ \A k \in 1 .. n : file'[k] = file[k]
    BY <1>0, <2>1, <2>2, SubSeqProperties
  <2>4. i \in 1 .. n
    BY <1>0, <1>1, <2>2
  <2> QED
    BY <1>0, <1>1, <2>1, <2>3, <2>4
<1>5. ASSUME NEW p \in Processes, Quiet(p)
      PROVE  file' = file /\ durable' \in {durable, Len(file)}
  BY <1>5 DEF Quiet, Acquire, LoadError, Refuse, Conflict, Reuse, Sync, SyncedLines,
              AcquireAgain, WriteView, Return, Crash, Raise
<1>6. ASSUME NEW p \in Processes, Writes(p)
      PROVE  durable' = durable
  BY <1>6 DEF Writes, Write, CrashInWrite
<1>7. CASE UNCHANGED vars
  BY <1>2, <1>7 DEF vars
<1> QED
  BY <1>2, <1>3, <1>4, <1>5, <1>6, <1>7, StepCases

\* A written line adds an event with its key.
LEMMA WriteAdds ==
  ASSUME DurableInv, NEW p \in Processes, Write(p)
  PROVE  /\ file' \in Seq(Lines) /\ Len(file') = Len(file) + 1
         /\ \A i \in 1 .. Len(file) : file'[i] = file[i]
         /\ file'[Len(file) + 1] = EventLine(request[p])
<1>1. file \in Seq(Lines) /\ request[p] \in Requests
  BY DEF DurableInv, TypeOK, Write
<1>2. EventLine(request[p]) \in Lines
  BY <1>1, LineTypes
<1>3. file' = WithLine(EventLine(request[p]))
  BY DEF Write
<1>4. /\ file' \in Seq(Lines)
      /\ Extends(file, file', EventLine(request[p])) \/ Spoils(file, file')
  BY <1>1, <1>2, <1>3, WithLineFacts
<1>5. ~Spoils(file, file')
  <2>1. Len(file) \in Nat /\ DOMAIN file = 1 .. Len(file)
    BY <1>1, LenProperties
  <2>2. ASSUME Spoils(file, file') PROVE FALSE
    <3>1. Len(file) # 0 /\ file[Len(file)].form = "unterminated"
      BY <2>2 DEF Spoils
    <3>2. Len(file) \in DOMAIN file
      BY <2>1, <3>1
    <3> QED
      BY <3>1, <3>2 DEF DurableInv, NothingTorn
  <2> QED
    BY <2>2
<1> QED
  BY <1>4, <1>5 DEF Extends

\* Every step of a world where processes do not die keeps the invariant.
LEMMA DurableStep ==
  ASSUME DurableInv, ~ProcessCrash, [Next]_vars
  PROVE  DurableInv'
<1>0. /\ TypeOK' /\ LockedSteps' /\ TypeOK /\ LockedSteps
      /\ pc \in [Processes -> {"idle", "appending", "written", "appended", "rebuilding"}]
      /\ request \in [Processes -> Requests \cup {None}]
  BY TypesStep, LockStep DEF DurableInv, TypeOK
<1>1. /\ Len(file) \in Nat /\ DOMAIN file = 1 .. Len(file)
      /\ durable \in 0 .. Len(file) /\ file \in Seq(Lines)
  BY LenProperties DEF DurableInv, TypeOK
<1>2. \A r : Synced(r) => Synced(r)'
  BY SyncedStays DEF Synced
<1>3. \A p, q \in Processes :
        pc[p] \in {"appending", "written", "rebuilding"} /\ pc[q] = "written" => p = q
  BY <1>0 DEF LockedSteps
<1>4. CASE UNCHANGED vars
  BY <1>0, <1>2, <1>4
     DEF DurableInv, NothingTorn, FileSynced, WrittenInFile, ReportsSynced, Existing, vars
<1>5. ASSUME NEW p \in Processes, pc' = [pc EXCEPT ![p] = pc'[p]],
             file' = file, durable' = durable, request' = [request EXCEPT ![p] = request'[p]],
             pc[p] # "written", pc'[p] # "written",
             pc'[p] \in {"appended", "rebuilding"} => Synced(request'[p]),
             \A r \in acked' : r \in acked \/ Synced(r)
      PROVE  DurableInv'
  <2>1. NothingTorn'
    BY <1>5 DEF DurableInv, NothingTorn
  <2>2. \A q \in Processes : q # p => pc'[q] = pc[q] /\ request'[q] = request[q]
    BY <1>0, <1>5
  <2>3. FileSynced'
    BY <1>5, <2>2 DEF DurableInv, FileSynced
  <2>4. WrittenInFile'
    BY <1>5, <2>2 DEF DurableInv, WrittenInFile, Existing
  <2>5. ReportsSynced'
    BY <1>2, <1>5, <2>2 DEF DurableInv, ReportsSynced
  <2> QED
    BY <1>0, <2>1, <2>3, <2>4, <2>5 DEF DurableInv
<1>6. ASSUME NEW p \in Processes, Quiet(p), ~Sync(p)
      PROVE  DurableInv'
  <2>1. CASE \E r \in Requests : Acquire(p, r)
    BY <1>0, <1>5, <2>1 DEF Acquire
  <2>2. CASE LoadError(p) \/ Refuse(p) \/ Conflict(p)
    BY <1>0, <1>5, <2>2 DEF LoadError, Refuse, Conflict, Raise, Leave
  <2>3. CASE Reuse(p)
    <3>1. durable = Len(file)
      BY <1>3, <2>3 DEF DurableInv, FileSynced, Reuse
    <3>2. Synced(request[p])
      BY <1>1, <2>3, <3>1 DEF Reuse, Existing, Synced
    <3> QED
      BY <1>0, <1>5, <2>3, <3>2 DEF Reuse
  <2>4. CASE AcquireAgain(p)
    <3>1. Synced(request[p])
      BY <2>4 DEF AcquireAgain, DurableInv, ReportsSynced
    <3> QED
      BY <1>0, <1>5, <2>4, <3>1 DEF AcquireAgain
  <2>5. CASE WriteView(p)
    <3>1. Synced(request[p])
      BY <2>5 DEF WriteView, DurableInv, ReportsSynced
    <3> QED
      BY <1>0, <1>5, <2>5, <3>1 DEF WriteView
  <2>6. CASE Return(p)
    <3>1. Synced(request[p])
      BY <2>6 DEF Return, DurableInv, ReportsSynced
    <3> QED
      BY <1>0, <1>5, <2>6, <3>1 DEF Return, Leave
  <2>7. ~Crash(p)
    BY DEF Crash, Dies
  <2> QED
    BY <1>6, <2>1, <2>2, <2>3, <2>4, <2>5, <2>6, <2>7 DEF Quiet
<1>7. ASSUME NEW p \in Processes, Sync(p)
      PROVE  DurableInv'
  <2>1. /\ file' = file /\ durable' = Len(file) /\ request' = request /\ acked' = acked
        /\ pc[p] = "written" /\ pc' = [pc EXCEPT ![p] = "appended"]
    BY <1>7 DEF Sync, SyncedLines
  <2>2. NothingTorn' /\ FileSynced'
    BY <2>1 DEF DurableInv, NothingTorn, FileSynced
  <2>3. WrittenInFile'
    BY <1>0, <2>1 DEF DurableInv, WrittenInFile, Existing
  <2>4. Synced(request[p])'
    BY <1>1, <2>1 DEF DurableInv, WrittenInFile, Existing, Synced
  <2>5. ReportsSynced'
    BY <1>0, <1>2, <2>1, <2>4 DEF DurableInv, ReportsSynced
  <2> QED
    BY <1>0, <2>2, <2>3, <2>5 DEF DurableInv
<1>8. ASSUME NEW p \in Processes, Writes(p)
      PROVE  DurableInv'
  <2>1. Write(p)
    BY <1>8 DEF Writes, CrashInWrite, Dies
  <2>2. /\ pc[p] = "appending" /\ pc' = [pc EXCEPT ![p] = "written"]
        /\ UNCHANGED <<durable, request, acked>>
    BY <2>1 DEF Write
  <2>3. /\ file' \in Seq(Lines) /\ Len(file') = Len(file) + 1
        /\ \A i \in 1 .. Len(file) : file'[i] = file[i]
        /\ file'[Len(file) + 1] = EventLine(request[p])
    BY <2>1, WriteAdds
  <2>4. DOMAIN file' = 1 .. Len(file) + 1
    BY <2>3, LenProperties
  <2>5. NothingTorn'
    <3>1. ASSUME NEW i \in 1 .. Len(file) + 1 PROVE file'[i].form # "unterminated"
      <4>1. CASE i = Len(file) + 1
        BY <2>3, <4>1 DEF EventLine
      <4>2. CASE i \in 1 .. Len(file)
        BY <1>1, <2>3, <4>2 DEF DurableInv, NothingTorn
      <4> QED
        BY <1>1, <4>1, <4>2
    <3> QED
      BY <2>4, <3>1 DEF NothingTorn
  <2>6. FileSynced'
    BY <1>0, <2>2 DEF FileSynced
  <2>7. WrittenInFile'
    <3>1. \A q \in Processes : pc'[q] = "written" => q = p
      BY <1>0, <1>3, <2>2
    <3>2. Len(file) + 1 \in DOMAIN file' /\ file'[Len(file) + 1].request = request[p]
      BY <1>1, <2>3, <2>4 DEF EventLine
    <3> QED
      BY <2>2, <3>1, <3>2 DEF WrittenInFile, Existing
  <2>8. ReportsSynced'
    BY <1>0, <1>2, <2>2 DEF DurableInv, ReportsSynced
  <2> QED
    BY <1>0, <2>5, <2>6, <2>7, <2>8 DEF DurableInv
<1>9. CASE PowerFailure
  <2>1. PICK n \in durable .. Len(file) : file' = SubSeq(file, 1, n) /\ durable' = n
    BY <1>9 DEF PowerFailure
  <2>2. n \in 0 .. Len(file)
    BY <1>1, <2>1
  <2>3. Len(file') = n /\ DOMAIN file' = 1 .. n /\ \A i \in 1 .. n : file'[i] = file[i]
    BY <1>1, <2>1, <2>2, SubSeqProperties
  <2>4. NothingTorn' /\ FileSynced'
    <3>1. \A i \in 1 .. n : i \in DOMAIN file
      BY <1>1, <2>2
    <3>2. NothingTorn'
      BY <2>3, <3>1 DEF DurableInv, NothingTorn
    <3> QED
      BY <2>1, <2>3, <3>2 DEF FileSynced
  <2>5. \A q \in Processes : pc'[q] = "idle"
    BY <1>9 DEF PowerFailure
  <2>6. WrittenInFile' /\ ReportsSynced'
    BY <1>2, <1>9, <2>5 DEF PowerFailure, DurableInv, WrittenInFile, ReportsSynced
  <2> QED
    BY <1>0, <2>4, <2>6 DEF DurableInv
<1> QED
  BY <1>4, <1>6, <1>7, <1>8, <1>9, StepCases

\* A caller that was told of success finds its command in the ledger after
\* any number of power failures, as long as no process dies on its own.
THEOREM SuccessIsDurable == ASSUME ~ProcessCrash PROVE Spec => []AckedDurable
<1>1. Init => DurableInv
  BY DurableInit
<1>2. DurableInv /\ [Next]_vars => DurableInv'
  BY DurableStep
<1>3. DurableInv => AckedDurable
  BY DEF DurableInv, ReportsSynced, Synced, AckedDurable, Existing
<1> QED
  BY <1>1, <1>2, <1>3, PTL DEF Spec

=============================================================================
