------------------------- MODULE ProjectTruthProofs -------------------------
(***************************************************************************)
(* Theorems about ProjectTruth, for every number of processes, facts,      *)
(* requests, snapshots and deaths.                                         *)
(***************************************************************************)
EXTENDS ProjectTruth, SequenceTheorems, TLAPS

(* The state, typed. *)

KeyNames == {RequestKey[r] : r \in Requests} \cup RollbackNames \cup {None}
KeyType == [kind : {"plain", "agent", "rollback"}, name : KeyNames, of : Nat, at : Nat]
FactType == {NoFact} \cup [value : Values, at : Nat]
SnapType == [generation : Nat, facts : [Facts -> FactType], agent : Manifest,
             key : KeyType \cup {None}, body : Body \cup {None}, madeFor : Nat,
             line : Seq(Nat)]
Binding == [snapshot : Nat, revision : Nat]
ReceiptType == [key : KeyType, body : Body, snapshot : Nat, previous : Nat]
CallType == [pc : CallPoints, key : KeyType \cup {None}, body : Body \cup Binding \cup {None},
             expected : Nat, target : Nat]

Shape ==
  /\ snaps \in Seq(SnapType)
  /\ receipts \in SUBSET ReceiptType
  /\ prepared \in SUBSET Nat
  /\ pointer \in Nat
  /\ lock \in Processes \cup {None}
  /\ call \in [Processes -> CallType]
  /\ bindings \in SUBSET Binding
  /\ passed \in SUBSET [binding : Binding, at : Nat]
  /\ deaths \in 0 .. MaxDeaths

----------------------------------------------------------------------------
(* The invariant. *)

Ids == 1 .. Len(snaps)
Line(s) == snaps[s].line
Parent(s) == Line(s)[Len(Line(s)) - 1]

\* The line of a snapshot leads from the first snapshot to it, and every
\* snapshot on it has the line up to there.
LineOk(s) ==
  /\ Len(Line(s)) >= 1 /\ Line(s)[1] = 1 /\ Line(s)[Len(Line(s))] = s
  /\ snaps[s].generation = Len(Line(s)) - 1
  /\ \A i \in 1 .. Len(Line(s)) :
       /\ Line(s)[i] \in 1 .. s
       /\ Len(Line(Line(s)[i])) = i
       /\ \A j \in 1 .. i : Line(Line(s)[i])[j] = Line(s)[j]

\* How a snapshot other than the first comes from its parent.
MadeOk(s) ==
  LET new == snaps[s]
      before == snaps[Parent(s)]
  IN  /\ new.key \in KeyType /\ new.body \in Body
      /\ new.madeFor = before.generation
      /\ ManifestFollows(new.body, before) /\ Authorized(new.body, before)
      /\ new.agent = IF new.body.agent = None THEN before.agent ELSE new.body.agent
      /\ \A f \in Facts : new.body.writes[f] = "keep" => new.facts[f] = before.facts[f]
      /\ new.key.kind = "rollback" =>
           /\ new.body.agent = None
           /\ InLine(Parent(s), new.key.of)
           /\ \A f \in Facts : new.facts[f].value = snaps[new.key.of].facts[f].value

\* Along a line the revision of the manifest grows whenever it changes.
AgentLine(s) ==
  \A i \in 1 .. Len(Line(s)) :
    LET earlier == snaps[Line(s)[i]].agent
    IN  /\ earlier.revision <= snaps[s].agent.revision
        /\ earlier.revision = snaps[s].agent.revision => earlier = snaps[s].agent

SnapOk(s) == LineOk(s) /\ AgentLine(s) /\ (s > 1 => MadeOk(s))

\* A receipt names its snapshot and the one before it.
ReceiptOk(r) ==
  /\ r.snapshot \in Ids /\ r.snapshot > 1
  /\ r.previous = Parent(r.snapshot)
  /\ r.key = snaps[r.snapshot].key /\ r.body = snaps[r.snapshot].body

UniqueReceipts == \A r1, r2 \in receipts : r1.key = r2.key => r1 = r2

\* Every snapshot of the canonical history but the first has its receipt and
\* its event.
PointerOk ==
  /\ pointer \in Ids
  /\ \A i \in 2 .. Len(Line(pointer)) :
       /\ Line(pointer)[i] \in prepared
       /\ \E r \in receipts : r.snapshot = Line(pointer)[i]

\* The writes of a rollback, made for the snapshot the call expects.
RollbackOk(c) ==
  c.key.kind = "rollback" =>
    /\ c.body.agent = None
    /\ InLine(c.expected, c.key.of)
    /\ c.body.writes = Restore(c.expected, c.key.of)

Committing == {"receipt", "event", "pointer"}

\* What process p, in call c, knows of the store.
Knows(p, c) ==
  /\ lock = p <=> c.pc \in Locked
  /\ c.expected \in {0} \cup Ids /\ c.target \in {0} \cup Ids
  /\ c.pc \in {"ready", "check", "return"} \cup Committing => c.key \in KeyType /\ c.body \in Body
  /\ c.pc \in {"ready", "check"} => c.expected \in Ids /\ RollbackOk(c)
  /\ c.pc \in Committing =>
       /\ c.target \in Ids /\ c.target > 1
       /\ Parent(c.target) = pointer
       /\ snaps[c.target].key = c.key /\ snaps[c.target].body = c.body
  /\ c.pc = "receipt" => \A r \in receipts : r.key # c.key
  /\ c.pc \in {"event", "pointer"} => \E r \in receipts : r.snapshot = c.target
  /\ c.pc = "pointer" => c.target \in prepared
  /\ c.pc = "return" =>
       \E i \in 2 .. Len(Line(pointer)) :
         snaps[Line(pointer)[i]].key = c.key /\ snaps[Line(pointer)[i]].body = c.body
  /\ c.pc = "leased" => c.expected = pointer
  /\ c.pc = "validating" => c.body \in bindings /\ InLine(pointer, c.body.snapshot)

CallOk(p) == \A c \in {call[p]} : Knows(p, c)

\* What WorkItems are bound to.
BindingOk(b) ==
  /\ b.snapshot \in Ids
  /\ snaps[b.snapshot].agent.status = "active"
  /\ snaps[b.snapshot].agent.revision = b.revision

PassedOk(v) ==
  /\ v.binding \in bindings /\ v.at \in Ids
  /\ snaps[v.at].agent = snaps[v.binding.snapshot].agent

Inv ==
  /\ Shape
  /\ \A s \in Ids : SnapOk(s)
  /\ \A r \in receipts : ReceiptOk(r)
  /\ UniqueReceipts
  /\ PointerOk
  /\ prepared \subseteq Ids
  /\ \A p \in Processes : CallOk(p)
  /\ \A b \in bindings : BindingOk(b)
  /\ \A v \in passed : PassedOk(v)

----------------------------------------------------------------------------
(* Lines of snapshots. *)

\* A call that is in nothing.
LEMMA IdleType == Idle \in CallType /\ Idle.pc = "idle" /\ Idle.expected = 0 /\ Idle.target = 0
BY DEF Idle, CallType, CallPoints

\* Snapshots and their lines are typed.
LEMMA SnapFacts ==
  ASSUME Shape
  PROVE  /\ Len(snaps) \in Nat
         /\ \A s \in Ids : /\ s \in Nat /\ snaps[s] \in SnapType
                           /\ Line(s) \in Seq(Nat) /\ Len(Line(s)) \in Nat
                           /\ DOMAIN Line(s) = 1 .. Len(Line(s))
<1>1. Len(snaps) \in Nat /\ snaps \in [1 .. Len(snaps) -> SnapType]
  BY LenProperties DEF Shape
<1>2. \A s \in Ids : s \in Nat /\ snaps[s] \in SnapType
  BY <1>1 DEF Ids
<1>3. \A s \in Ids : Line(s) \in Seq(Nat)
  BY <1>2 DEF SnapType, Line
<1> QED
  BY <1>1, <1>2, <1>3, LenProperties

\* The parent of a snapshot has the line without its end.
LEMMA ParentFacts ==
  ASSUME Shape, NEW s \in Ids, s > 1, LineOk(s)
  PROVE  /\ Len(Line(s)) \in Nat /\ Len(Line(s)) >= 2
         /\ Parent(s) \in Ids /\ Parent(s) = Line(s)[Len(Line(s)) - 1]
         /\ Len(Line(Parent(s))) = Len(Line(s)) - 1
         /\ \A j \in 1 .. Len(Line(s)) - 1 : Line(Parent(s))[j] = Line(s)[j]
<1> DEFINE n == Len(Line(s))
<1>1. n \in Nat /\ s \in Nat /\ Len(snaps) \in Nat /\ s <= Len(snaps)
  BY SnapFacts DEF Ids
<1>2. n >= 1 /\ Line(s)[1] = 1 /\ Line(s)[n] = s
  BY DEF LineOk
<1>3. n >= 2
  BY <1>1, <1>2
<1>4. \A i \in 1 .. n :
        /\ Line(s)[i] \in 1 .. s /\ Len(Line(Line(s)[i])) = i
        /\ \A j \in 1 .. i : Line(Line(s)[i])[j] = Line(s)[j]
  BY DEF LineOk
<1>5. n - 1 \in 1 .. n
  BY <1>1, <1>3
<1>6. Parent(s) = Line(s)[n - 1]
  BY DEF Parent
<1>7. Parent(s) \in 1 .. s /\ Len(Line(Parent(s))) = n - 1
  BY <1>4, <1>5, <1>6
<1>8. \A j \in 1 .. n - 1 : Line(Parent(s))[j] = Line(s)[j]
  BY <1>4, <1>5, <1>6
<1> QED
  BY <1>1, <1>3, <1>6, <1>7, <1>8 DEF Ids

\* What is on the line of a snapshot has that line up to itself, and at its
\* place only.
LEMMA OnLine ==
  ASSUME Shape, NEW s \in Ids, LineOk(s), NEW i \in 1 .. Len(Line(s))
  PROVE  /\ Line(s)[i] \in Ids /\ Line(s)[i] \in 1 .. s
         /\ Len(Line(Line(s)[i])) = i
         /\ \A j \in 1 .. i : Line(Line(s)[i])[j] = Line(s)[j]
         /\ i > 1 => Line(s)[i] > 1 /\ Parent(Line(s)[i]) = Line(s)[i - 1]
<1> DEFINE t == Line(s)[i]
<1>1. Len(snaps) \in Nat /\ s \in Nat /\ s <= Len(snaps) /\ Len(Line(s)) \in Nat /\ i \in Nat
  BY SnapFacts DEF Ids
<1>2. t \in 1 .. s /\ Len(Line(t)) = i /\ \A j \in 1 .. i : Line(t)[j] = Line(s)[j]
  BY DEF LineOk
<1>3. t \in Ids
  BY <1>1, <1>2 DEF Ids
<1>4. ASSUME i > 1 PROVE t > 1
  <2>1. 1 \in 1 .. Len(Line(s)) /\ Line(s)[1] = 1
    BY <1>1 DEF LineOk
  <2>2. Len(Line(1)) = 1
    BY <2>1 DEF LineOk
  <2>3. t # 1
    BY <1>1, <1>2, <1>4, <2>2
  <2> QED
    BY <1>1, <1>2, <2>3
<1>5. ASSUME i > 1 PROVE Parent(t) = Line(s)[i - 1]
  <2>1. i - 1 \in 1 .. i
    BY <1>1, <1>5
  <2>2. Parent(t) = Line(t)[i - 1]
    BY <1>2 DEF Parent
  <2> QED
    BY <1>2, <2>1, <2>2
<1> QED
  BY <1>2, <1>3, <1>4, <1>5

----------------------------------------------------------------------------
(* Snapshot files are added and never changed. *)

\* The snapshot files after a step: the old ones, and maybe more.
Grows ==
  /\ snaps' \in Seq(SnapType)
  /\ Len(snaps) <= Len(snaps')
  /\ \A s \in Ids : snaps'[s] = snaps[s]

\* What is known of a snapshot stays known.
LEMMA SnapOkKept ==
  ASSUME Inv, Grows, NEW s \in Ids
  PROVE  /\ s \in Ids' /\ Line(s)' = Line(s) /\ SnapOk(s)'
<1>0. Shape /\ SnapOk(s) /\ snaps'[s] = snaps[s]
  BY DEF Inv, Grows
<1>1. Len(snaps) \in Nat /\ Len(snaps') \in Nat /\ Len(snaps) <= Len(snaps') /\ s \in Nat
  BY <1>0, SnapFacts, LenProperties DEF Grows, Ids
<1>2. s \in Ids'
  BY <1>1 DEF Ids
<1>3. Line(s)' = Line(s)
  BY <1>0 DEF Line
<1>4. \A i \in 1 .. Len(Line(s)) :
        /\ Line(s)[i] \in Ids
        /\ snaps'[Line(s)[i]] = snaps[Line(s)[i]]
  BY <1>0, OnLine DEF SnapOk, Grows
<1>5. LineOk(s)'
  <2>1. PICK L : L = Line(s)
    OBVIOUS
  <2>2. \A i \in 1 .. Len(L) : snaps'[L[i]].line = snaps[L[i]].line
    BY <1>4, <2>1
  <2>3. /\ Len(L) >= 1 /\ L[1] = 1 /\ L[Len(L)] = s
        /\ snaps[s].generation = Len(L) - 1
        /\ \A i \in 1 .. Len(L) :
             /\ L[i] \in 1 .. s
             /\ Len(snaps[L[i]].line) = i
             /\ \A j \in 1 .. i : snaps[L[i]].line[j] = L[j]
    BY <1>0, <2>1 DEF LineOk, SnapOk, Line
  <2>4. snaps'[s].line = L /\ snaps'[s].generation = snaps[s].generation
    BY <1>0, <2>1 DEF Line
  <2>5. \A i \in 1 .. Len(L) : /\ Len(snaps'[L[i]].line) = i
                              /\ \A j \in 1 .. i : snaps'[L[i]].line[j] = L[j]
    BY <2>2, <2>3
  <2> QED
    BY <2>3, <2>4, <2>5 DEF LineOk, Line
<1>6. AgentLine(s)'
  BY <1>0, <1>3, <1>4 DEF AgentLine, SnapOk, Line
<1>7. ASSUME s > 1 PROVE MadeOk(s)'
  <2> DEFINE q == Parent(s)
  <2>1. q \in Ids /\ LineOk(s) /\ MadeOk(s)
    BY <1>0, <1>7, ParentFacts DEF SnapOk
  <2>2. Parent(s)' = Parent(s)
    BY <1>3 DEF Parent
  <2> HIDE DEF q
  <2>3. snaps'[q] = snaps[q] /\ snaps[q].line = Line(q)
    BY <2>1 DEF Grows, Line
  <2>4. LineOk(q)
    BY <2>1 DEF Inv, SnapOk
  <2>5. InLine(q, snaps[s].key.of) => snaps[s].key.of \in Ids
    <3> SUFFICES ASSUME InLine(q, snaps[s].key.of) PROVE snaps[s].key.of \in Ids
      OBVIOUS
    <3>1. PICK i \in DOMAIN Line(q) : Line(q)[i] = snaps[s].key.of
      BY DEF InLine, Line
    <3>2. i \in 1 .. Len(Line(q))
      BY <1>0, <2>1, <3>1, SnapFacts
    <3> QED
      BY <1>0, <2>1, <2>4, <3>1, <3>2, OnLine
  <2>6. InLine(q, snaps[s].key.of) => snaps'[snaps[s].key.of] = snaps[snaps[s].key.of]
    BY <2>5 DEF Grows
  <2>7. InLine(q, snaps[s].key.of) =>
          \E i \in DOMAIN snaps'[q].line : snaps'[q].line[i] = snaps[s].key.of
    BY <2>3 DEF InLine
  <2>8. /\ snaps[s].key \in KeyType /\ snaps[s].body \in Body
        /\ snaps[s].madeFor = snaps[q].generation
        /\ ManifestFollows(snaps[s].body, snaps[q]) /\ Authorized(snaps[s].body, snaps[q])
        /\ snaps[s].agent = IF snaps[s].body.agent = None THEN snaps[q].agent
                            ELSE snaps[s].body.agent
        /\ \A f \in Facts : snaps[s].body.writes[f] = "keep" => snaps[s].facts[f] = snaps[q].facts[f]
        /\ snaps[s].key.kind = "rollback" =>
             /\ snaps[s].body.agent = None
             /\ InLine(q, snaps[s].key.of)
             /\ \A f \in Facts : snaps[s].facts[f].value = snaps[snaps[s].key.of].facts[f].value
    BY <2>1 DEF MadeOk, q
  <2>9. Parent(s)' = q
    BY <2>2 DEF q
  <2>10. /\ ManifestFollows(snaps'[s].body, snaps'[q]) /\ Authorized(snaps'[s].body, snaps'[q])
    BY <1>0, <2>3, <2>8
  <2> QED
    BY <1>0, <2>3, <2>6, <2>7, <2>8, <2>9, <2>10 DEF MadeOk, InLine, ManifestFollows, Authorized
<1> QED
  BY <1>0, <1>2, <1>3, <1>5, <1>6, <1>7 DEF SnapOk

\* The snapshot that a body makes of the current one.
LEMMA ChangedFacts ==
  ASSUME Inv, NEW body \in Body, NEW key \in KeyType, NEW madeFor \in Nat
  PROVE  LET new == Changed(body, key, madeFor)
         IN  /\ new \in SnapType
             /\ new.generation = Current.generation + 1
             /\ new.agent = IF body.agent = None THEN Current.agent ELSE body.agent
             /\ new.key = key /\ new.body = body /\ new.madeFor = madeFor
             /\ new.line = Append(Line(pointer), Len(snaps) + 1)
             /\ \A f \in Facts :
                  /\ body.writes[f] \in Values \cup {"keep", "remove"}
                  /\ body.writes[f] = "keep" => new.facts[f] = Current.facts[f]
                  /\ body.writes[f] = "remove" => new.facts[f] = NoFact
                  /\ body.writes[f] \in Values =>
                       new.facts[f] = Revision(body.writes[f], Len(snaps) + 1)
<1> DEFINE n == Len(snaps) + 1
           facts == [f \in Facts |->
                       CASE body.writes[f] = "keep" -> Current.facts[f]
                         [] body.writes[f] = "remove" -> NoFact
                         [] OTHER -> Revision(body.writes[f], n)]
           new == Changed(body, key, madeFor)
<1>1. pointer \in Ids /\ Current \in SnapType /\ n \in Nat /\ Current.line = Line(pointer)
  BY SnapFacts DEF Inv, PointerOk, Current, Line
<1>2. new = [generation |-> Current.generation + 1, facts |-> facts,
             agent |-> IF body.agent = None THEN Current.agent ELSE body.agent,
             key |-> key, body |-> body, madeFor |-> madeFor,
             line |-> Append(Current.line, n)]
  BY DEF Changed
<1>3. \A f \in Facts : body.writes[f] \in Values \cup {"keep", "remove"}
  BY DEF Body, Writes
<1>4. ASSUME NEW f \in Facts
      PROVE  /\ body.writes[f] = "keep" => facts[f] = Current.facts[f]
             /\ body.writes[f] = "remove" => facts[f] = NoFact
             /\ body.writes[f] \in Values => facts[f] = Revision(body.writes[f], n)
             /\ facts[f] \in FactType
  <2>1. Current.facts[f] \in FactType
    BY <1>1 DEF SnapType
  <2>2. CASE body.writes[f] = "keep"
    <3>1. facts[f] = Current.facts[f]
      BY <2>2
    <3> QED
      BY <2>1, <2>2, <3>1, TruthAssumption
  <2>3. CASE body.writes[f] = "remove"
    <3>1. facts[f] = NoFact
      BY <2>3
    <3> QED
      BY <2>3, <3>1, TruthAssumption DEF FactType
  <2>4. CASE body.writes[f] \in Values
    <3>1. body.writes[f] # "keep" /\ body.writes[f] # "remove"
      BY <2>4, TruthAssumption
    <3>2. facts[f] = Revision(body.writes[f], n)
      BY <3>1
    <3> QED
      BY <1>1, <2>4, <3>1, <3>2 DEF FactType, Revision
  <2> QED
    BY <1>3, <2>2, <2>3, <2>4
<1>5. facts \in [Facts -> FactType]
  BY <1>4
<1>6. Append(Current.line, n) \in Seq(Nat)
  BY <1>1, AppendProperties DEF SnapType
<1>7. (IF body.agent = None THEN Current.agent ELSE body.agent) \in Manifest
  BY <1>1 DEF Body, SnapType
<1> HIDE DEF facts, n, new
<1>8. new \in SnapType
  BY <1>1, <1>2, <1>5, <1>6, <1>7 DEF SnapType
<1>9. /\ new.generation = Current.generation + 1
      /\ new.agent = IF body.agent = None THEN Current.agent ELSE body.agent
      /\ new.key = key /\ new.body = body /\ new.madeFor = madeFor
      /\ new.line = Append(Line(pointer), n) /\ new.facts = facts
  BY <1>1, <1>2
<1> QED
  BY <1>3, <1>4, <1>8, <1>9 DEF n, new

\* The values that a rollback writes are those of its target.
LEMMA RestoreFacts ==
  ASSUME Inv, NEW target \in Ids, NEW s \in Ids
  PROVE  /\ Restore(s, target) \in Writes
         /\ \A f \in Facts :
              LET w == Restore(s, target)[f]
              IN  /\ w = "keep" => snaps[s].facts[f] = snaps[target].facts[f]
                  /\ w = "remove" => snaps[target].facts[f] = NoFact
                  /\ w \in Values => snaps[target].facts[f].value = w
<1>1. snaps[target] \in SnapType /\ snaps[s] \in SnapType
  BY SnapFacts DEF Inv
<1>2. ASSUME NEW f \in Facts
      PROVE  LET w == Restore(s, target)[f]
             IN  /\ w \in Values \cup {"keep", "remove"}
                 /\ w = "keep" => snaps[s].facts[f] = snaps[target].facts[f]
                 /\ w = "remove" => snaps[target].facts[f] = NoFact
                 /\ w \in Values => snaps[target].facts[f].value = w
  <2> DEFINE w == Restore(s, target)[f]
             there == snaps[target].facts[f]
  <2>1. w = IF there = snaps[s].facts[f] THEN "keep"
            ELSE IF there = NoFact THEN "remove" ELSE there.value
    BY DEF Restore
  <2>2. there \in FactType
    BY <1>1 DEF SnapType
  <2>3. there # NoFact => there.value \in Values
    BY <2>2 DEF FactType
  <2> HIDE DEF w, there
  <2>4. "keep" \notin Values /\ "remove" \notin Values
    BY TruthAssumption
  <2>5. CASE there = snaps[s].facts[f]
    <3>1. w = "keep"
      BY <2>1, <2>5
    <3> QED
      BY <2>4, <2>5, <3>1 DEF w, there
  <2>6. CASE there # snaps[s].facts[f] /\ there = NoFact
    <3>1. w = "remove"
      BY <2>1, <2>6
    <3> QED
      BY <2>4, <2>6, <3>1 DEF w, there
  <2>7. CASE there # snaps[s].facts[f] /\ there # NoFact
    <3>1. w = there.value /\ w \in Values
      BY <2>1, <2>3, <2>7
    <3> QED
      BY <2>4, <3>1 DEF w, there
  <2> QED
    BY <2>5, <2>6, <2>7
<1>3. Restore(s, target) \in Writes
  <2>1. Restore(s, target) = [f \in Facts |-> Restore(s, target)[f]]
    BY DEF Restore
  <2> QED
    BY <1>2, <2>1 DEF Writes
<1> QED
  BY <1>2, <1>3

\* The snapshot written by a commit is sound.
LEMMA NewSnapshot ==
  ASSUME Inv, NEW p \in Processes, WriteSnapshot(p), NEW n, n = Len(snaps) + 1
  PROVE  /\ Grows /\ n \in Nat /\ n > 1
         /\ Ids' = Ids \cup {n} /\ n \notin Ids
         /\ Parent(n)' = pointer
         /\ snaps'[n].key = call[p].key /\ snaps'[n].body = call[p].body
         /\ SnapOk(n)'
<1> DEFINE c == call[p]
           new == Changed(c.body, c.key, snaps[c.expected].generation)
           old == Line(pointer)
           k == Len(old)
<1>1. c.pc = "check" /\ CallOk(p) /\ Shape
  BY DEF WriteSnapshot, At, Inv
<1>2. c.key \in KeyType /\ c.body \in Body /\ c.expected \in Ids /\ RollbackOk(c)
  BY <1>1 DEF CallOk, Knows
<1>3. /\ c.expected = pointer /\ ManifestFollows(c.body, Current) /\ Authorized(c.body, Current)
      /\ snaps' = Append(snaps, new)
  BY DEF WriteSnapshot, Acceptable
<1>4. /\ pointer \in Ids /\ SnapOk(pointer) /\ Current \in SnapType
      /\ Len(snaps) \in Nat /\ old \in Seq(Nat) /\ k \in Nat /\ Current = snaps[pointer]
  BY <1>1, SnapFacts DEF Inv, PointerOk, Current
<1>5. snaps[c.expected].generation \in Nat /\ snaps[c.expected].generation = Current.generation
  BY <1>3, <1>4 DEF SnapType
<1>6. /\ new \in SnapType
      /\ new.generation = Current.generation + 1
      /\ new.agent = IF c.body.agent = None THEN Current.agent ELSE c.body.agent
      /\ new.key = c.key /\ new.body = c.body /\ new.madeFor = Current.generation
      /\ new.line = Append(old, n)
      /\ \A f \in Facts :
           /\ c.body.writes[f] \in Values \cup {"keep", "remove"}
           /\ c.body.writes[f] = "keep" => new.facts[f] = Current.facts[f]
           /\ c.body.writes[f] = "remove" => new.facts[f] = NoFact
           /\ c.body.writes[f] \in Values => new.facts[f] = Revision(c.body.writes[f], n)
  BY <1>2, <1>5, ChangedFacts
<1> HIDE DEF new
<1>7. /\ snaps' \in Seq(SnapType) /\ Len(snaps') = n
      /\ \A s \in 1 .. Len(snaps) : snaps'[s] = snaps[s]
      /\ snaps'[n] = new
  <2>1. snaps \in Seq(SnapType)
    BY <1>1 DEF Shape
  <2> QED
    BY <1>3, <1>6, <2>1, AppendProperties
<1>8. Grows /\ n \in Nat /\ n > 1 /\ Ids' = Ids \cup {n} /\ n \notin Ids
  <2>1. Len(snaps) >= 1
    BY <1>4 DEF Ids
  <2> QED
    BY <1>4, <1>7, <2>1 DEF Grows, Ids
<1>9. /\ Line(n)' = Append(old, n) /\ Append(old, n) \in Seq(Nat) /\ Len(Append(old, n)) = k + 1
      /\ \A i \in 1 .. k : Append(old, n)[i] = old[i]
      /\ Append(old, n)[k + 1] = n
  BY <1>4, <1>6, <1>7, <1>8, AppendProperties DEF Line
<1>10. k >= 1 /\ old[1] = 1 /\ old[k] = pointer /\ Current.generation = k - 1
  BY <1>4 DEF SnapOk, LineOk
<1>11. Parent(n)' = pointer
  BY <1>4, <1>9, <1>10 DEF Parent
<1>12. \A i \in 1 .. k : /\ old[i] \in Ids /\ old[i] \in 1 .. pointer /\ Len(Line(old[i])) = i
                         /\ \A j \in 1 .. i : Line(old[i])[j] = old[j]
                         /\ snaps'[old[i]] = snaps[old[i]]
  BY <1>1, <1>4, <1>8, OnLine DEF SnapOk, Grows
<1>13. LineOk(n)'
  <2> DEFINE L == Append(old, n)
  <2>1. snaps'[n].line = L /\ snaps'[n].generation = k
    BY <1>4, <1>6, <1>7, <1>10 DEF SnapType
  <2>2. ASSUME NEW i \in 1 .. k + 1
        PROVE  /\ L[i] \in 1 .. n /\ Len(snaps'[L[i]].line) = i
               /\ \A j \in 1 .. i : snaps'[L[i]].line[j] = L[j]
    <3>1. CASE i = k + 1
      BY <1>8, <1>9, <2>1, <3>1
    <3>2. CASE i # k + 1
      <4>1. i \in 1 .. k
        BY <1>4, <3>2
      <4>2. L[i] = old[i] /\ snaps'[L[i]].line = Line(old[i])
        BY <1>9, <1>12, <4>1 DEF Line
      <4>3. old[i] \in 1 .. n
        BY <1>4, <1>12, <4>1 DEF Ids
      <4>4. \A j \in 1 .. i : j \in 1 .. k /\ L[j] = old[j]
        BY <1>4, <1>9, <4>1
      <4> HIDE DEF L
      <4> QED
        BY <1>12, <4>1, <4>2, <4>3, <4>4
    <3> QED
      BY <3>1, <3>2
  <2>3. L[1] = 1
    BY <1>4, <1>9, <1>10
  <2>4. Len(L) = k + 1 /\ L[k + 1] = n
    BY <1>9
  <2> HIDE DEF L
  <2> QED
    BY <1>4, <2>1, <2>2, <2>3, <2>4 DEF LineOk, Line
<1>14. AgentLine(n)'
  <2> DEFINE L == Append(old, n)
  <2>1. snaps'[n].line = L /\ snaps'[n].agent = new.agent /\ Len(L) = k + 1
    BY <1>6, <1>7, <1>9
  <2>2. new.agent \in Manifest /\ Current.agent \in Manifest
    BY <1>4, <1>6 DEF SnapType
  <2>3. new.agent = Current.agent \/ new.agent.revision = Current.agent.revision + 1
    BY <1>3, <1>6 DEF ManifestFollows
  <2>4. ASSUME NEW i \in 1 .. k + 1
        PROVE  /\ snaps'[L[i]].agent.revision <= new.agent.revision
               /\ snaps'[L[i]].agent.revision = new.agent.revision =>
                    snaps'[L[i]].agent = new.agent
    <3>1. CASE i = k + 1
      BY <1>7, <1>9, <2>2, <3>1 DEF Manifest
    <3>2. CASE i # k + 1
      <4>1. i \in 1 .. k
        BY <1>4, <3>2
      <4> DEFINE a == snaps[old[i]].agent
      <4>2. snaps'[L[i]].agent = a
        BY <1>9, <1>12, <4>1
      <4>3. a.revision <= Current.agent.revision
            /\ (a.revision = Current.agent.revision => a = Current.agent)
        BY <1>4, <4>1 DEF SnapOk, AgentLine
      <4>4. a \in Manifest
        BY <1>1, <1>12, <4>1, SnapFacts DEF SnapType
      <4> HIDE DEF a, L
      <4>5. a.revision \in Nat /\ new.agent.revision \in Nat /\ Current.agent.revision \in Nat
        BY <2>2, <4>4 DEF Manifest
      <4> QED
        BY <2>3, <4>2, <4>3, <4>5
    <3> QED
      BY <3>1, <3>2
  <2> HIDE DEF L
  <2> QED
    BY <2>1, <2>4 DEF AgentLine, Line
<1>15. MadeOk(n)'
  <2>1. snaps'[pointer] = Current
    BY <1>4, <1>8 DEF Grows
  <2>2. ASSUME c.key.kind = "rollback"
        PROVE  /\ c.body.agent = None
               /\ \E i \in DOMAIN Current.line : Current.line[i] = c.key.of
               /\ \A f \in Facts : new.facts[f].value = snaps'[c.key.of].facts[f].value
    <3>1. /\ c.body.agent = None /\ InLine(pointer, c.key.of)
          /\ c.body.writes = Restore(pointer, c.key.of)
      BY <1>2, <1>3, <2>2 DEF RollbackOk
    <3>2. c.key.of \in Ids /\ snaps'[c.key.of] = snaps[c.key.of]
      <4>1. PICK i \in DOMAIN old : old[i] = c.key.of
        BY <3>1 DEF InLine, Line
      <4>2. i \in 1 .. k
        BY <1>4, <4>1, LenProperties
      <4> QED
        BY <1>12, <4>1, <4>2
    <3>3. ASSUME NEW f \in Facts
          PROVE  new.facts[f].value = snaps[c.key.of].facts[f].value
      <4> DEFINE w == c.body.writes[f]
      <4>1. /\ w = "keep" => Current.facts[f] = snaps[c.key.of].facts[f]
            /\ w = "remove" => snaps[c.key.of].facts[f] = NoFact
            /\ w \in Values => snaps[c.key.of].facts[f].value = w
        BY <1>4, <3>1, <3>2, RestoreFacts
      <4>2. /\ w \in Values \cup {"keep", "remove"}
            /\ w = "keep" => new.facts[f] = Current.facts[f]
            /\ w = "remove" => new.facts[f] = NoFact
            /\ w \in Values => new.facts[f] = Revision(w, n)
        BY <1>6
      <4>3. w \in Values => new.facts[f].value = w
        BY <4>2 DEF Revision
      <4> HIDE DEF w
      <4> QED
        BY <4>1, <4>2, <4>3
    <3> QED
      BY <1>4, <3>1, <3>2, <3>3 DEF InLine
  <2>3. Parent(n)' = pointer
    BY <1>11
  <2> DEFINE m == snaps'[n]
  <2>4. m.key = c.key /\ m.body = c.body /\ m.facts = new.facts
    BY <1>6, <1>7
  <2>5. m.key \in KeyType /\ m.body \in Body /\ m.madeFor = snaps'[pointer].generation
    BY <1>2, <1>6, <1>7, <2>1, <2>4
  <2>6. ManifestFollows(m.body, snaps'[pointer]) /\ Authorized(m.body, snaps'[pointer])
    BY <1>3, <2>1, <2>4
  <2>7. m.agent = IF m.body.agent = None THEN snaps'[pointer].agent ELSE m.body.agent
    BY <1>6, <1>7, <2>1, <2>4
  <2>8. \A f \in Facts : m.body.writes[f] = "keep" => m.facts[f] = snaps'[pointer].facts[f]
    BY <1>6, <2>1, <2>4
  <2>9. m.key.kind = "rollback" =>
          /\ m.body.agent = None
          /\ \E i \in DOMAIN snaps'[pointer].line : snaps'[pointer].line[i] = m.key.of
          /\ \A f \in Facts : m.facts[f].value = snaps'[m.key.of].facts[f].value
    BY <2>1, <2>2, <2>4
  <2> HIDE DEF c, new, old, k
  <2> QED
    BY <2>3, <2>5, <2>6, <2>7, <2>8, <2>9 DEF MadeOk, InLine, ManifestFollows, Authorized
<1> QED
  BY <1>6, <1>7, <1>8, <1>11, <1>13, <1>14, <1>15 DEF SnapOk

----------------------------------------------------------------------------
(* Who does what. *)

Step(p) == Start(p) \/ Acquire(p) \/ UnderLock(p) \/ FinishValidation(p) \/ Die(p)

\* A step that changes nothing of the store.
Reads(p) ==
  \/ Start(p) \/ Acquire(p) \/ FinishValidation(p) \/ Die(p)
  \/ Recover(p) \/ Refuse(p) \/ Return(p) \/ Bind(p)

\* The steps of a process.
LEMMA StepCases ==
  ASSUME NEW p \in Processes, Step(p)
  PROVE  \/ Reads(p) /\ UNCHANGED Store
         \/ WriteSnapshot(p) \/ WriteReceipt(p) \/ AppendEvent(p) \/ MovePointer(p)
<1>1. ASSUME Start(p) PROVE UNCHANGED Store
  BY <1>1 DEF Start, Commit, ChangeAgent, Rollback, Prepare, RollbackAgain, StartValidation,
     AcquireLease
<1>2. ASSUME Acquire(p) \/ FinishValidation(p) \/ Die(p) PROVE UNCHANGED Store
  BY <1>2 DEF Acquire, FinishValidation, Die
<1>3. ASSUME Recover(p) \/ Refuse(p) \/ Return(p) \/ Bind(p) PROVE UNCHANGED Store
  BY <1>3 DEF Recover, Refuse, Return, Bind
<1> QED
  BY <1>1, <1>2, <1>3 DEF Step, UnderLock, Reads

\* A step of the store is one of a process.
LEMMA NextCases ==
  ASSUME [Next]_vars
  PROVE  (\E p \in Processes : Step(p)) \/ UNCHANGED vars
BY DEF Next, Step

\* What a commit knows when it writes a file: it holds the lock.
LEMMA WriterKnows ==
  ASSUME Inv, NEW p \in Processes
  PROVE  /\ WriteSnapshot(p) => lock = p /\ lock' = p
         /\ WriteReceipt(p) =>
              /\ lock = p /\ lock' = p /\ call[p].pc = "receipt"
              /\ call[p].key \in KeyType /\ call[p].body \in Body
              /\ call[p].target \in Ids /\ call[p].target > 1
              /\ Parent(call[p].target) = pointer
              /\ snaps[call[p].target].key = call[p].key
              /\ snaps[call[p].target].body = call[p].body
              /\ \A r \in receipts : r.key # call[p].key
         /\ AppendEvent(p) => /\ lock = p /\ lock' = p /\ call[p].pc = "event"
                              /\ call[p].target \in Ids
         /\ MovePointer(p) =>
              /\ lock = p /\ lock' = p /\ call[p].pc = "pointer"
              /\ call[p].target \in Ids /\ call[p].target > 1
              /\ Parent(call[p].target) = pointer
              /\ snaps[call[p].target].key = call[p].key
              /\ snaps[call[p].target].body = call[p].body
              /\ call[p].target \in prepared
              /\ \E r \in receipts : r.snapshot = call[p].target
<1>1. Knows(p, call[p])
  BY DEF Inv, CallOk
<1>2. WriteSnapshot(p) => call[p].pc = "check" /\ lock' = lock
  BY DEF WriteSnapshot, At
<1>3. WriteReceipt(p) => call[p].pc = "receipt" /\ lock' = lock
  BY DEF WriteReceipt, At
<1>4. AppendEvent(p) => call[p].pc = "event" /\ lock' = lock
  BY DEF AppendEvent, At
<1>5. MovePointer(p) => call[p].pc = "pointer" /\ lock' = lock
  BY DEF MovePointer, At
<1> QED
  BY <1>1, <1>2, <1>3, <1>4, <1>5 DEF Knows, Locked, Committing

\* Only a scheduler binds WorkItems, and only a validation passes.
LEMMA OnlyBindBinds ==
  ASSUME [Next]_vars
  PROVE  /\ bindings' = bindings \/ \E p \in Processes : Bind(p)
         /\ passed' = passed \/ \E p \in Processes : FinishValidation(p)
<1>1. ASSUME NEW p \in Processes, Start(p) PROVE UNCHANGED <<bindings, passed>>
  BY <1>1 DEF Start, Commit, ChangeAgent, Rollback, Prepare, RollbackAgain, StartValidation,
     AcquireLease, Rest
<1>2. ASSUME NEW p \in Processes, Acquire(p) \/ Die(p) PROVE UNCHANGED <<bindings, passed>>
  BY <1>2 DEF Acquire, Die, Rest
<1>3. ASSUME NEW p \in Processes, UnderLock(p), ~Bind(p) PROVE UNCHANGED <<bindings, passed>>
  BY <1>3 DEF UnderLock, Recover, Refuse, Return, WriteSnapshot, WriteReceipt, AppendEvent,
     MovePointer, Rest
<1>4. ASSUME NEW p \in Processes, Bind(p) PROVE passed' = passed
  BY <1>4 DEF Bind
<1>5. ASSUME NEW p \in Processes, FinishValidation(p) PROVE bindings' = bindings
  BY <1>5 DEF FinishValidation
<1>6. CASE UNCHANGED vars
  BY <1>6 DEF vars
<1> QED
  BY <1>1, <1>2, <1>3, <1>4, <1>5, <1>6 DEF Next

\* Files are added to the store and never removed.
LEMMA StoreGrows ==
  ASSUME Inv, [Next]_vars
  PROVE  /\ Grows /\ receipts \subseteq receipts' /\ prepared \subseteq prepared'
         /\ bindings \subseteq bindings' /\ Ids \subseteq Ids'
<1>0. snaps' = snaps => Grows
  BY SnapFacts DEF Inv, Shape, Grows
<1>1. Grows /\ receipts \subseteq receipts' /\ prepared \subseteq prepared'
  <2>1. CASE UNCHANGED vars
    BY <1>0, <2>1 DEF vars
  <2>2. ASSUME NEW p \in Processes, Step(p)
        PROVE  Grows /\ receipts \subseteq receipts' /\ prepared \subseteq prepared'
    <3>1. CASE UNCHANGED Store
      BY <1>0, <3>1 DEF Store
    <3>2. CASE WriteSnapshot(p)
      <4>1. PICK n : n = Len(snaps) + 1
        OBVIOUS
      <4>2. Grows
        BY <3>2, <4>1, NewSnapshot
      <4> QED
        BY <3>2, <4>2 DEF WriteSnapshot
    <3>3. CASE WriteReceipt(p)
      BY <1>0, <3>3 DEF WriteReceipt
    <3>4. CASE AppendEvent(p)
      BY <1>0, <3>4 DEF AppendEvent
    <3>5. CASE MovePointer(p)
      BY <1>0, <3>5 DEF MovePointer
    <3> QED
      BY <2>2, <3>1, <3>2, <3>3, <3>4, <3>5, StepCases
  <2> QED
    BY <2>1, <2>2, NextCases
<1>2. bindings \subseteq bindings'
  <2>1. ASSUME NEW p \in Processes, Bind(p) PROVE bindings \subseteq bindings'
    BY <2>1 DEF Bind
  <2> QED
    BY <2>1, OnlyBindBinds
<1>3. Ids \subseteq Ids'
  BY <1>1, SnapOkKept
<1> QED
  BY <1>1, <1>2, <1>3

\* Snapshots stay sound.
LEMMA SnapsStep ==
  ASSUME Inv, [Next]_vars
  PROVE  \A s \in Ids' : SnapOk(s)'
<1> SUFFICES ASSUME NEW s \in Ids' PROVE SnapOk(s)'
  OBVIOUS
<1>1. CASE s \in Ids
  BY <1>1, StoreGrows, SnapOkKept
<1>2. CASE s \notin Ids
  <2>1. snaps' # snaps
    BY <1>2 DEF Ids
  <2>2. PICK p \in Processes : WriteSnapshot(p)
    BY <2>1, NextCases, StepCases
       DEF vars, Store, WriteReceipt, AppendEvent, MovePointer
  <2>3. PICK n : n = Len(snaps) + 1
    OBVIOUS
  <2>4. Ids' = Ids \cup {n} /\ SnapOk(n)'
    BY <2>2, <2>3, NewSnapshot
  <2>5. s = n
    BY <1>2, <2>4
  <2> QED
    BY <2>4, <2>5
<1> QED
  BY <1>1, <1>2

\* Receipts stay true.
LEMMA ReceiptsStep ==
  ASSUME Inv, [Next]_vars
  PROVE  /\ \A r \in receipts' : ReceiptOk(r)'
         /\ UniqueReceipts' /\ receipts' \in SUBSET ReceiptType
<1>1. ASSUME NEW r, r.snapshot \in Ids, ReceiptOk(r) PROVE ReceiptOk(r)'
  <2>1. PICK s : s = r.snapshot
    OBVIOUS
  <2>2. s \in Ids' /\ Line(s)' = Line(s) /\ snaps'[s] = snaps[s]
    BY <1>1, <2>1, StoreGrows, SnapOkKept DEF Grows
  <2>3. Parent(s)' = Parent(s)
    BY <2>2 DEF Parent
  <2> QED
    BY <1>1, <2>1, <2>2, <2>3 DEF ReceiptOk
<1>2. CASE receipts' = receipts
  BY <1>1, <1>2 DEF Inv, ReceiptOk, UniqueReceipts, Shape
<1>3. ASSUME NEW p \in Processes, WriteReceipt(p)
      PROVE  /\ \A r \in receipts' : ReceiptOk(r)'
             /\ UniqueReceipts' /\ receipts' \in SUBSET ReceiptType
  <2>1. PICK new : new = [key |-> call[p].key, body |-> call[p].body,
                          snapshot |-> call[p].target, previous |-> pointer]
    OBVIOUS
  <2>2. receipts' = receipts \cup {new}
    BY <1>3, <2>1 DEF WriteReceipt
  <2>3. /\ new.snapshot \in Ids /\ new.snapshot > 1 /\ Parent(new.snapshot) = new.previous
        /\ snaps[new.snapshot].key = new.key /\ snaps[new.snapshot].body = new.body
        /\ new.key \in KeyType /\ new.body \in Body
        /\ \A r \in receipts : r.key # new.key
    BY <1>3, <2>1, WriterKnows
  <2>4. ReceiptOk(new)
    BY <2>3 DEF ReceiptOk
  <2>5. new \in ReceiptType
    <3>1. call[p].target \in Nat /\ pointer \in Nat
      BY DEF Inv, Shape, CallType
    <3>2. call[p].key \in KeyType /\ call[p].body \in Body
      BY <1>3, WriterKnows
    <3> QED
      BY <2>1, <3>1, <3>2 DEF ReceiptType
  <2>6. \A r \in receipts' : ReceiptOk(r)'
    BY <1>1, <2>2, <2>3, <2>4 DEF Inv, ReceiptOk
  <2>7. UniqueReceipts'
    BY <2>2, <2>3 DEF UniqueReceipts, Inv
  <2> QED
    BY <2>2, <2>5, <2>6, <2>7 DEF Inv, Shape
<1> QED
  BY <1>2, <1>3, NextCases, StepCases
     DEF vars, Store, WriteSnapshot, AppendEvent, MovePointer

\* The canonical history only grows at its end, and stays complete.
LEMMA PointerStep ==
  ASSUME Inv, [Next]_vars
  PROVE  /\ PointerOk' /\ prepared' \subseteq Ids'
         /\ pointer \in Ids /\ pointer' \in Ids
         /\ Len(Line(pointer)) <= Len(Line(pointer)')
         /\ \A i \in 1 .. Len(Line(pointer)) : (Line(pointer)')[i] = Line(pointer)[i]
         /\ pointer' # pointer => \E p \in Processes : MovePointer(p)
<1>0. /\ Shape /\ PointerOk /\ pointer \in Ids /\ LineOk(pointer) /\ prepared \subseteq Ids
      /\ Len(Line(pointer)) \in Nat
  BY SnapFacts DEF Inv, PointerOk, SnapOk
<1>1. /\ \A s \in Ids : snaps'[s].line = Line(s) /\ snaps'[s] = snaps[s]
      /\ receipts \subseteq receipts' /\ prepared \subseteq prepared' /\ Ids \subseteq Ids'
  BY StoreGrows DEF Grows, Line
<1>2. ASSUME pointer' = pointer, prepared' \subseteq Ids'
      PROVE  /\ PointerOk' /\ Len(Line(pointer)) <= Len(Line(pointer)')
             /\ \A i \in 1 .. Len(Line(pointer)) : (Line(pointer)')[i] = Line(pointer)[i]
  <2>1. Line(pointer)' = Line(pointer)
    BY <1>0, <1>1, <1>2 DEF Line
  <2> QED
    BY <1>0, <1>1, <1>2, <2>1 DEF PointerOk
<1>3. ASSUME pointer' = pointer, prepared' = prepared
      PROVE  /\ PointerOk' /\ prepared' \subseteq Ids'
             /\ Len(Line(pointer)) <= Len(Line(pointer)')
             /\ \A i \in 1 .. Len(Line(pointer)) : (Line(pointer)')[i] = Line(pointer)[i]
  BY <1>0, <1>1, <1>2, <1>3
<1>4. ASSUME NEW p \in Processes, AppendEvent(p)
      PROVE  pointer' = pointer /\ prepared' \subseteq Ids'
  BY <1>0, <1>1, <1>4, WriterKnows DEF AppendEvent
<1>5. ASSUME NEW p \in Processes, MovePointer(p)
      PROVE  /\ PointerOk' /\ prepared' \subseteq Ids' /\ pointer' \in Ids
             /\ Len(Line(pointer)) <= Len(Line(pointer)')
             /\ \A i \in 1 .. Len(Line(pointer)) : (Line(pointer)')[i] = Line(pointer)[i]
  <2>1. PICK t : t = call[p].target
    OBVIOUS
  <2>2. /\ t \in Ids /\ t > 1 /\ Parent(t) = pointer /\ t \in prepared
        /\ \E r \in receipts : r.snapshot = t
        /\ pointer' = t /\ prepared' = prepared
    BY <1>5, <2>1, WriterKnows DEF MovePointer
  <2>3. LineOk(t)
    BY <2>2 DEF Inv, SnapOk
  <2> DEFINE new == Line(t)
             old == Line(pointer)
  <2>4. /\ Len(new) \in Nat /\ Len(new) >= 2 /\ Len(old) = Len(new) - 1
        /\ \A j \in 1 .. Len(new) - 1 : old[j] = new[j]
    BY <1>0, <2>2, <2>3, ParentFacts
  <2>5. new[Len(new)] = t
    BY <2>3 DEF LineOk
  <2>6. Line(pointer)' = new
    BY <1>1, <2>2 DEF Line
  <2>7. ASSUME NEW i \in 2 .. Len(new)
        PROVE  new[i] \in prepared /\ \E r \in receipts : r.snapshot = new[i]
    <3>1. CASE i = Len(new)
      BY <2>2, <2>5, <3>1
    <3>2. CASE i # Len(new)
      <4>1. i \in 2 .. Len(old) /\ i \in 1 .. Len(new) - 1
        BY <2>4, <3>2
      <4>2. new[i] = old[i]
        BY <2>4, <4>1
      <4> QED
        BY <1>0, <4>1, <4>2 DEF PointerOk
    <3> QED
      BY <3>1, <3>2
  <2> HIDE DEF new, old
  <2>8. PointerOk'
    BY <1>1, <2>2, <2>6, <2>7 DEF PointerOk
  <2>9. /\ Len(old) <= Len(new) /\ \A i \in 1 .. Len(old) : new[i] = old[i]
    BY <2>4
  <2> QED
    BY <1>0, <1>1, <2>2, <2>6, <2>8, <2>9 DEF new, old
<1>6. CASE \E p \in Processes : MovePointer(p)
  BY <1>0, <1>5, <1>6
<1>7. CASE \E p \in Processes : AppendEvent(p)
  BY <1>0, <1>2, <1>4, <1>7
<1>8. CASE UNCHANGED <<pointer, prepared>>
  BY <1>0, <1>3, <1>8
<1> QED
  BY <1>6, <1>7, <1>8, NextCases, StepCases DEF vars, Store, WriteSnapshot, WriteReceipt

----------------------------------------------------------------------------
(* What the processes know. *)

\* A step takes the lock only when it is free and releases only its own.
LEMMA LockStep ==
  ASSUME Inv, NEW p \in Processes, Step(p)
  PROVE  /\ lock' = lock \/ (lock \in {p, None} /\ lock' \in {p, None})
         /\ \A q \in Processes : q # p => call'[q] = call[q]
<1>1. call \in [Processes -> CallType] /\ (call[p].pc \in Locked => lock = p)
  BY DEF Inv, Shape, CallOk, Knows
<1>2. ASSUME NEW c, call' = [call EXCEPT ![p] = c] PROVE \A q \in Processes : q # p => call'[q] = call[q]
  BY <1>1, <1>2
<1>3. CASE Start(p)
  BY <1>1, <1>3 DEF Start, Commit, ChangeAgent, Rollback, Prepare, RollbackAgain, StartValidation,
     AcquireLease
<1>4. CASE Acquire(p) \/ FinishValidation(p) \/ Die(p)
  BY <1>1, <1>4 DEF Acquire, FinishValidation, Die, Goto
<1>5. CASE Recover(p) \/ Refuse(p) \/ Return(p) \/ Bind(p)
  <2>1. call[p].pc \in Locked
    BY <1>5 DEF Recover, Refuse, Return, Bind, At, Locked
  <2> QED
    BY <1>1, <1>5, <2>1 DEF Recover, Refuse, Return, Bind, Leave, Goto
<1>6. CASE WriteSnapshot(p) \/ WriteReceipt(p) \/ AppendEvent(p) \/ MovePointer(p)
  BY <1>1, <1>6 DEF WriteSnapshot, WriteReceipt, AppendEvent, MovePointer, Goto
<1> QED
  BY <1>3, <1>4, <1>5, <1>6 DEF Step, UnderLock

\* Nobody writes while another process holds the lock.
LEMMA OthersKeep ==
  ASSUME Inv, NEW p \in Processes, Step(p), NEW q \in Processes, q # p
  PROVE  /\ call'[q] = call[q]
         /\ lock' = q <=> lock = q
         /\ lock = q => UNCHANGED Store
<1>1. call'[q] = call[q] /\ (lock' = lock \/ (lock \in {p, None} /\ lock' \in {p, None}))
  BY LockStep
<1>2. q # None
  BY TruthAssumption
<1>3. lock = q => UNCHANGED Store
  BY StepCases, WriterKnows
<1> QED
  BY <1>1, <1>2, <1>3

\* What is on the line of a snapshot is a snapshot and stays on it.
LEMMA InLineKept ==
  ASSUME Inv, [Next]_vars, NEW s \in Ids, NEW t
  PROVE  InLine(s, t) => t \in Ids /\ snaps'[t] = snaps[t] /\ InLine(s, t)'
<1> SUFFICES ASSUME InLine(s, t) PROVE t \in Ids /\ snaps'[t] = snaps[t] /\ InLine(s, t)'
  OBVIOUS
<1>1. snaps'[s] = snaps[s] /\ Shape /\ LineOk(s)
  BY StoreGrows DEF Grows, Inv, SnapOk
<1>2. PICK i \in DOMAIN Line(s) : Line(s)[i] = t
  BY DEF InLine, Line
<1>3. t \in Ids
  BY <1>1, <1>2, SnapFacts, OnLine
<1>4. InLine(s, t)'
  BY <1>1 DEF InLine
<1> QED
  BY <1>3, <1>4, StoreGrows DEF Grows

\* What was in the canonical history stays in it.
LEMMA InHistoryKept ==
  ASSUME Inv, [Next]_vars, NEW t, InLine(pointer, t)
  PROVE  InLine(pointer, t)'
<1>1. PICK s : s = pointer'
  OBVIOUS
<1>2. /\ pointer \in Ids /\ s \in Ids
      /\ Len(Line(pointer)) <= Len(Line(pointer)')
      /\ \A i \in 1 .. Len(Line(pointer)) : (Line(pointer)')[i] = Line(pointer)[i]
  BY <1>1, PointerStep
<1>3. snaps'[s] = snaps[s] /\ Line(pointer)' = Line(s)
  BY <1>1, <1>2, StoreGrows DEF Grows, Line
<1>4. /\ DOMAIN Line(pointer) = 1 .. Len(Line(pointer)) /\ DOMAIN Line(s) = 1 .. Len(Line(s))
      /\ Len(Line(pointer)) \in Nat /\ Len(Line(s)) \in Nat
  BY <1>2, SnapFacts DEF Inv
<1>5. PICK i \in DOMAIN Line(pointer) : Line(pointer)[i] = t
  BY DEF InLine, Line
<1>6. i \in DOMAIN Line(s) /\ Line(s)[i] = t
  BY <1>2, <1>3, <1>4, <1>5
<1> QED
  BY <1>1, <1>3, <1>6 DEF InLine, Line

\* The writes of a rollback stay those made for the expected snapshot.
LEMMA RollbackOkKept ==
  ASSUME Inv, [Next]_vars, NEW c, c.expected \in Ids, RollbackOk(c)
  PROVE  RollbackOk(c)'
<1> SUFFICES ASSUME c.key.kind = "rollback"
             PROVE  /\ c.body.agent = None
                    /\ InLine(c.expected, c.key.of)'
                    /\ c.body.writes = Restore(c.expected, c.key.of)'
  BY DEF RollbackOk
<1>1. PICK s : s = c.expected
  OBVIOUS
<1>2. PICK t : t = c.key.of
  OBVIOUS
<1>3. c.body.agent = None /\ InLine(s, t) /\ c.body.writes = Restore(s, t) /\ s \in Ids
  BY <1>1, <1>2 DEF RollbackOk
<1>4. snaps'[t] = snaps[t] /\ InLine(s, t)' /\ snaps'[s] = snaps[s]
  BY <1>3, InLineKept, StoreGrows DEF Grows
<1>5. Restore(s, t)' = Restore(s, t)
  BY <1>4 DEF Restore
<1> QED
  BY <1>1, <1>2, <1>3, <1>4, <1>5

\* What a process knows stays true as long as nobody writes or takes the lock
\* while it has the lock.
LEMMA KnowsKept ==
  ASSUME Inv, [Next]_vars, NEW q \in Processes, NEW c, c = call[q],
         lock' = q <=> lock = q, lock = q => UNCHANGED Store
  PROVE  Knows(q, c)'
<1>1. Knows(q, c)
  BY DEF Inv, CallOk
<1>2. lock' = q <=> c.pc \in Locked
  BY <1>1 DEF Knows
<1>3. /\ Ids \subseteq Ids' /\ bindings \subseteq bindings'
      /\ \A s \in Ids : snaps'[s] = snaps[s] /\ Line(s)' = Line(s)
  BY StoreGrows DEF Grows, Line
<1>4. c.pc \in {"ready", "check"} => c.expected \in Ids' /\ RollbackOk(c)'
  BY <1>1, <1>3, RollbackOkKept DEF Knows
<1>5. c.pc \in Locked => /\ snaps' = snaps /\ receipts' = receipts /\ prepared' = prepared
                         /\ pointer' = pointer
  BY <1>1 DEF Knows, Store
<1>6. c.pc = "validating" => c.body \in bindings' /\ InLine(pointer, c.body.snapshot)'
  <2> SUFFICES ASSUME c.pc = "validating"
               PROVE  c.body \in bindings' /\ InLine(pointer, c.body.snapshot)'
    OBVIOUS
  <2>1. PICK t : t = c.body.snapshot
    OBVIOUS
  <2>2. InLine(pointer, t)'
    BY <1>1, <2>1, InHistoryKept DEF Knows
  <2> QED
    BY <1>1, <1>3, <2>1, <2>2 DEF Knows
<1>7. CASE c.pc \in Locked
  <2>1. Line(pointer)' = Line(pointer)
    BY <1>5, <1>7 DEF Line
  <2>2. Parent(c.target)' = Parent(c.target)
    BY <1>5, <1>7 DEF Line, Parent
  <2> QED
    BY <1>1, <1>2, <1>3, <1>4, <1>5, <1>6, <1>7, <2>1, <2>2 DEF Knows, Locked, Committing
<1>8. CASE c.pc \notin Locked
  BY <1>1, <1>2, <1>3, <1>4, <1>6, <1>8 DEF Knows, Locked, Committing
<1> QED
  BY <1>7, <1>8

\* What p knows in the call it is in after a step.
LEMMA KnowsCall ==
  ASSUME NEW p, NEW d, d = call'[p], Knows(p, d)'
  PROVE  CallOk(p)'
BY DEF CallOk

\* A process outside any call knows nothing.
LEMMA KnowsIdle ==
  ASSUME NEW p \in Processes, lock' # p, NEW d, d = call'[p],
         d.pc = "idle", d.expected = 0, d.target = 0
  PROVE  Knows(p, d)'
BY DEF Knows, Locked, Committing

\* A change set that is ready is typed and was made for the current snapshot.
LEMMA PrepareKnows ==
  ASSUME Inv, NEW p \in Processes, NEW key \in KeyType, NEW body \in Body,
         Prepare(p, key, body),
         key.kind = "rollback" =>
           /\ body.agent = None /\ InLine(pointer, key.of)
           /\ body.writes = Restore(pointer, key.of),
         NEW d, d = call'[p]
  PROVE  d \in CallType /\ Knows(p, d)'
<1>1. /\ call \in [Processes -> CallType] /\ pointer \in Nat /\ pointer \in Ids
      /\ call[p].pc = "idle" /\ (lock = p <=> call[p].pc \in Locked)
  BY DEF Inv, Shape, PointerOk, CallOk, Knows, Prepare, At
<1>2. d = [pc |-> "ready", key |-> key, body |-> body, expected |-> pointer, target |-> 0]
  BY <1>1 DEF Prepare, Idle
<1>3. d \in CallType
  BY <1>1, <1>2 DEF CallType, CallPoints
<1>4. /\ snaps' = snaps /\ receipts' = receipts /\ prepared' = prepared /\ pointer' = pointer
      /\ lock' = lock
  BY DEF Prepare, Store
<1>5. RollbackOk(d)
  BY <1>2 DEF RollbackOk
<1>6. RollbackOk(d)'
  BY <1>4, <1>5 DEF RollbackOk, InLine, Restore
<1>7. lock' # p
  BY <1>1, <1>4 DEF Locked
<1>8. /\ d.pc = "ready" /\ d.key \in KeyType /\ d.body \in Body /\ d.expected \in Ids'
      /\ d.target = 0
  BY <1>1, <1>2, <1>4 DEF Ids
<1> QED
  BY <1>3, <1>6, <1>7, <1>8 DEF Knows, Locked, Committing

\* The calls that a process may start.
LEMMA StartKnows ==
  ASSUME Inv, NEW p \in Processes, Start(p), NEW d, d = call'[p]
  PROVE  d \in CallType /\ Knows(p, d)'
<1>1. /\ call \in [Processes -> CallType] /\ pointer \in Nat /\ pointer \in Ids
      /\ Current.agent \in Manifest /\ (lock = p <=> call[p].pc \in Locked)
  BY SnapFacts DEF Inv, Shape, PointerOk, CallOk, Knows, Current, SnapType
<1>2. ASSUME NEW r \in Requests, Commit(p, r) PROVE d \in CallType /\ Knows(p, d)'
  <2> DEFINE key == IdemKey("plain", RequestKey[r], 0, 0)
  <2>1. key \in KeyType /\ key.kind = "plain"
    BY DEF IdemKey, KeyType, KeyNames
  <2>2. RequestBody[r] \in Body
    BY TruthAssumption
  <2>3. Prepare(p, key, RequestBody[r])
    BY <1>2 DEF Commit
  <2> HIDE DEF key
  <2> QED
    BY <2>1, <2>2, <2>3, PrepareKnows
<1>3. ASSUME NEW m \in Successors(Current.agent), ChangeAgent(p, m)
      PROVE  d \in CallType /\ Knows(p, d)'
  <2> DEFINE key == IdemKey("agent", None, m.revision, pointer)
             body == [actor |-> "operator", writes |-> NoWrites, agent |-> m]
  <2>1. m \in Manifest
    BY <1>1, TruthAssumption DEF Successors, Manifest
  <2>2. key \in KeyType /\ key.kind = "agent"
    BY <1>1, <2>1 DEF IdemKey, KeyType, KeyNames, Manifest
  <2>3. NoWrites \in Writes
    BY DEF NoWrites, Writes
  <2>4. body \in Body
    BY <2>1, <2>3 DEF Body, Actors
  <2>5. Prepare(p, key, body)
    BY <1>3 DEF ChangeAgent
  <2> HIDE DEF key, body
  <2> QED
    BY <2>2, <2>4, <2>5, PrepareKnows
<1>4. ASSUME NEW target \in DOMAIN snaps, NEW name \in RollbackNames, NEW actor \in Actors,
             Rollback(p, target, name, actor)
      PROVE  d \in CallType /\ Knows(p, d)'
  <2> DEFINE key == RollbackKey(target, name)
             body == [actor |-> actor, writes |-> Restore(pointer, target), agent |-> None]
  <2>1. target \in Ids /\ target \in Nat
    BY LenProperties DEF Inv, Shape, Ids
  <2>2. key \in KeyType /\ key.of = target
    BY <2>1 DEF RollbackKey, IdemKey, KeyType, KeyNames
  <2>3. Restore(pointer, target) \in Writes
    BY <1>1, <2>1, RestoreFacts
  <2>4. body \in Body /\ body.agent = None /\ body.writes = Restore(pointer, target)
    BY <2>3 DEF Body
  <2>5. Prepare(p, key, body) /\ InLine(pointer, target)
    BY <1>4 DEF Rollback
  <2> HIDE DEF key, body
  <2> QED
    BY <2>2, <2>4, <2>5, PrepareKnows
<1>5. ASSUME NEW r \in receipts, RollbackAgain(p, r) PROVE d \in CallType /\ Knows(p, d)'
  <2>1. /\ snaps' = snaps /\ receipts' = receipts /\ prepared' = prepared /\ pointer' = pointer
        /\ lock' = lock /\ bindings' = bindings /\ d = call[p] /\ d.pc = "idle"
    BY <1>5 DEF RollbackAgain, Store, Rest, At
  <2>2. Knows(p, d) /\ d \in CallType
    BY <1>1, <2>1 DEF Inv, CallOk
  <2> QED
    BY <2>1, <2>2 DEF Knows, Ids, Locked, Committing
<1>6. ASSUME NEW b \in bindings, StartValidation(p, b) PROVE d \in CallType /\ Knows(p, d)'
  <2>1. /\ snaps' = snaps /\ pointer' = pointer /\ lock' = lock /\ bindings' = bindings
        /\ call[p].pc = "idle" /\ b.snapshot = pointer /\ b \in Binding
    BY <1>6 DEF StartValidation, Store, Rest, At, Inv, Shape
  <2>2. d = [pc |-> "validating", key |-> None, body |-> b, expected |-> pointer, target |-> 0]
    BY <1>1, <1>6, <2>1 DEF StartValidation, Idle
  <2>3. d \in CallType
    BY <1>1, <2>1, <2>2 DEF CallType, CallPoints
  <2>4. InLine(pointer, pointer)
    <3>1. Len(Line(pointer)) \in DOMAIN Line(pointer) /\ Line(pointer)[Len(Line(pointer))] = pointer
      BY <1>1, SnapFacts DEF Inv, SnapOk, LineOk
    <3> QED
      BY <3>1 DEF InLine, Line
  <2>5. InLine(pointer, d.body.snapshot)' /\ d.body \in bindings'
    BY <2>1, <2>2, <2>4 DEF InLine
  <2>6. /\ lock' # p /\ d.pc = "validating" /\ d.expected \in Ids' /\ d.target = 0
    BY <1>1, <2>1, <2>2 DEF Locked, Ids
  <2> QED
    BY <2>3, <2>5, <2>6 DEF Knows, Locked, Committing
<1>7. ASSUME AcquireLease(p) PROVE d \in CallType /\ Knows(p, d)'
  <2>1. snaps' = snaps /\ pointer' = pointer /\ lock' = p
    BY <1>7 DEF AcquireLease, Store
  <2>2. d = [pc |-> "leased", key |-> None, body |-> None, expected |-> pointer, target |-> 0]
    BY <1>1, <1>7 DEF AcquireLease, Idle
  <2>3. d \in CallType
    BY <1>1, <2>2 DEF CallType, CallPoints, Locked
  <2>4. d.pc = "leased" /\ d.expected \in Ids' /\ d.target = 0 /\ d.expected = pointer'
    BY <1>1, <2>1, <2>2 DEF Ids
  <2> QED
    BY <2>1, <2>3, <2>4 DEF Knows, Locked, Committing
<1> QED
  BY <1>2, <1>3, <1>4, <1>5, <1>6, <1>7 DEF Start

\* Points of a call.
LEMMA Points == {"check", "receipt", "event", "pointer", "return"} \subseteq CallPoints
BY DEF CallPoints, Locked

\* A call goes on at a point, with a target.
Resumes(p, pc, t) == call' = [call EXCEPT ![p].pc = pc, ![p].target = t]

\* A call that goes on keeps its parts.
LEMMA CallGoesOn ==
  ASSUME Inv, NEW p \in Processes, NEW pc \in CallPoints, NEW t \in Nat,
         NEW d, d = call'[p], Resumes(p, pc, t)
  PROVE  /\ d \in CallType /\ d.pc = pc /\ d.target = t
         /\ d.key = call[p].key /\ d.body = call[p].body /\ d.expected = call[p].expected
<1>1. call \in [Processes -> CallType] /\ call[p] \in CallType
  BY DEF Inv, Shape
<1>2. d = [pc |-> pc, key |-> call[p].key, body |-> call[p].body,
           expected |-> call[p].expected, target |-> t]
  BY <1>1 DEF CallType, Resumes
<1> QED
  BY <1>1, <1>2 DEF CallType

\* So does one that only moves to another point.
LEMMA GotoGoesOn ==
  ASSUME Inv, NEW p \in Processes, NEW pc \in CallPoints, NEW d, d = call'[p], Goto(p, pc)
  PROVE  /\ d \in CallType /\ d.pc = pc /\ d.target = call[p].target
         /\ d.key = call[p].key /\ d.body = call[p].body /\ d.expected = call[p].expected
<1>1. call \in [Processes -> CallType] /\ call[p] \in CallType
  BY DEF Inv, Shape
<1>2. d = [pc |-> pc, key |-> call[p].key, body |-> call[p].body,
           expected |-> call[p].expected, target |-> call[p].target]
  BY <1>1 DEF CallType, Goto
<1> QED
  BY <1>1, <1>2 DEF CallType

\* A call that ends.
LEMMA LeaveKnows ==
  ASSUME Inv, NEW p \in Processes, NEW d, d = call'[p], call' = [call EXCEPT ![p] = Idle],
         lock' # p
  PROVE  d \in CallType /\ Knows(p, d)'
<1>1. d = Idle
  BY DEF Inv, Shape
<1> QED
  BY <1>1, IdleType, KnowsIdle

\* The commit that finds a receipt of its key.
LEMMA RecoverKnows ==
  ASSUME Inv, NEW p \in Processes, Recover(p), NEW d, d = call'[p]
  PROVE  d \in CallType /\ Knows(p, d)'
<1> DEFINE c == call[p]
<1>1. /\ snaps' = snaps /\ receipts' = receipts /\ prepared' = prepared /\ pointer' = pointer
      /\ c.pc = "check"
  BY DEF Recover, Store, At
<1>2. /\ lock = p /\ c.key \in KeyType /\ c.body \in Body
      /\ c.expected \in {0} \cup Ids /\ c.target \in {0} \cup Ids
  BY <1>1 DEF Inv, CallOk, Knows, Locked
<1>3. c \in CallType /\ c.target \in Nat
  BY DEF Inv, Shape, CallType
<1>4. PICK r \in ReceiptsOf(p) :
        IF r.body = call[p].body /\ InLine(pointer, r.snapshot)
        THEN Goto(p, "return") /\ UNCHANGED lock
        ELSE IF r.body = call[p].body /\ pointer = r.previous
             THEN /\ call' = [call EXCEPT ![p].pc = "event", ![p].target = r.snapshot]
                  /\ UNCHANGED lock
             ELSE Leave(p)
  BY DEF Recover
<1>5. r \in receipts /\ r.key = c.key /\ ReceiptOk(r) /\ r \in ReceiptType
  BY <1>4 DEF ReceiptsOf, Inv, Shape
<1>6. ASSUME r.body = c.body, InLine(pointer, r.snapshot), Goto(p, "return"), lock' = lock
      PROVE  d \in CallType /\ Knows(p, d)'
  <2>1. /\ d \in CallType /\ d.pc = "return" /\ d.target = c.target
        /\ d.key = c.key /\ d.body = c.body /\ d.expected = c.expected
    BY <1>6, Points, GotoGoesOn
  <2>2. pointer \in Ids /\ LineOk(pointer) /\ Shape
    BY DEF Inv, PointerOk, SnapOk
  <2>3. PICK i \in DOMAIN Line(pointer) : Line(pointer)[i] = r.snapshot
    BY <1>6 DEF InLine, Line
  <2>4. i # 1 /\ i \in 1 .. Len(Line(pointer)) /\ Len(Line(pointer)) \in Nat
    BY <1>5, <2>2, <2>3, SnapFacts DEF LineOk, ReceiptOk
  <2>5. i \in 2 .. Len(Line(pointer))
    BY <2>4
  <2>6. snaps[Line(pointer)[i]].key = c.key /\ snaps[Line(pointer)[i]].body = c.body
    BY <1>5, <1>6, <2>3 DEF ReceiptOk
  <2>7. \E j \in 2 .. Len(Line(pointer)') :
          snaps'[(Line(pointer)')[j]].key = d.key /\ snaps'[(Line(pointer)')[j]].body = d.body
    BY <1>1, <2>1, <2>5, <2>6 DEF Line
  <2> QED
    BY <1>1, <1>2, <1>6, <2>1, <2>7 DEF Knows, Ids, Locked, Committing
<1>7. ASSUME r.body = c.body, pointer = r.previous, lock' = lock,
             Resumes(p, "event", r.snapshot)
      PROVE  d \in CallType /\ Knows(p, d)'
  <2>1. r.snapshot \in Nat
    BY <1>5 DEF ReceiptType
  <2>2. /\ d \in CallType /\ d.pc = "event" /\ d.target = r.snapshot
        /\ d.key = c.key /\ d.body = c.body /\ d.expected = c.expected
    BY <1>7, <2>1, Points, CallGoesOn
  <2>3. /\ d.target \in Ids /\ d.target > 1 /\ Parent(d.target) = pointer
        /\ snaps[d.target].key = d.key /\ snaps[d.target].body = d.body
    BY <1>5, <1>7, <2>2 DEF ReceiptOk
  <2>4. Ids' = Ids /\ Parent(d.target)' = Parent(d.target)
    BY <1>1 DEF Ids, Parent, Line
  <2> QED
    BY <1>1, <1>2, <1>5, <1>7, <2>2, <2>3, <2>4 DEF Knows, Locked, Committing
<1>8. ASSUME Leave(p) PROVE d \in CallType /\ Knows(p, d)'
  <2>1. lock' # p
    BY <1>8, TruthAssumption DEF Leave
  <2> QED
    BY <1>8, <2>1, LeaveKnows DEF Leave
<1> QED
  BY <1>4, <1>6, <1>7, <1>8 DEF Resumes

\* The commit that writes its files.
LEMMA WriterGoesOn ==
  ASSUME Inv, NEW p \in Processes, NEW d, d = call'[p],
         WriteSnapshot(p) \/ WriteReceipt(p) \/ AppendEvent(p) \/ MovePointer(p)
  PROVE  d \in CallType /\ Knows(p, d)'
<1> DEFINE c == call[p]
<1>0. /\ Knows(p, c) /\ c.target \in Nat /\ Shape /\ lock = p /\ lock' = p
      /\ c.expected \in {0} \cup Ids /\ c.target \in {0} \cup Ids
  BY WriterKnows DEF Inv, Shape, CallOk, CallType, Knows
<1>1. CASE WriteSnapshot(p)
  <2>1. PICK n : n = Len(snaps) + 1
    OBVIOUS
  <2>2. /\ Grows /\ n \in Nat /\ n > 1
        /\ Ids' = Ids \cup {n} /\ n \notin Ids
        /\ Parent(n)' = pointer
        /\ snaps'[n].key = c.key /\ snaps'[n].body = c.body
    BY <1>1, <2>1, NewSnapshot
  <2>3. /\ c.pc = "check" /\ receipts' = receipts /\ pointer' = pointer
        /\ Resumes(p, "receipt", n)
        /\ \A r \in receipts : r.key # c.key
    BY <1>1, <2>1 DEF WriteSnapshot, At, ReceiptsOf, Resumes
  <2>4. /\ d \in CallType /\ d.pc = "receipt" /\ d.target = n
        /\ d.key = c.key /\ d.body = c.body /\ d.expected = c.expected
    BY <2>2, <2>3, Points, CallGoesOn
  <2>5. c.key \in KeyType /\ c.body \in Body
    BY <1>0, <2>3 DEF Knows
  <2>6. Parent(d.target)' = pointer'
    BY <2>2, <2>3, <2>4 DEF Parent, Line
  <2>7. /\ d.target \in Ids' /\ d.target > 1 /\ d.expected \in {0} \cup Ids'
        /\ snaps'[d.target].key = d.key /\ snaps'[d.target].body = d.body
        /\ d.key \in KeyType /\ d.body \in Body /\ \A r \in receipts' : r.key # d.key
    BY <1>0, <2>2, <2>3, <2>4, <2>5
  <2> QED
    BY <1>0, <2>4, <2>6, <2>7 DEF Knows, Locked, Committing
<1>2. CASE WriteReceipt(p)
  <2>1. /\ c.key \in KeyType /\ c.body \in Body /\ c.target \in Ids /\ c.target > 1
        /\ Parent(c.target) = pointer
        /\ snaps[c.target].key = c.key /\ snaps[c.target].body = c.body
    BY <1>2, WriterKnows
  <2>2. snaps' = snaps /\ pointer' = pointer /\ Goto(p, "event")
    BY <1>2 DEF WriteReceipt
  <2>3. \E r \in receipts' : r.snapshot = c.target
    <3>1. PICK new : new = [key |-> call[p].key, body |-> call[p].body,
                            snapshot |-> call[p].target, previous |-> pointer]
      OBVIOUS
    <3>2. new \in receipts' /\ new.snapshot = c.target
      BY <1>2, <3>1 DEF WriteReceipt
    <3> QED
      BY <3>2
  <2>4. /\ d \in CallType /\ d.pc = "event" /\ d.target = c.target
        /\ d.key = c.key /\ d.body = c.body /\ d.expected = c.expected
    BY <2>2, Points, GotoGoesOn
  <2>5. Ids' = Ids /\ Parent(d.target)' = Parent(c.target)
    BY <2>2, <2>4 DEF Ids, Parent, Line
  <2> QED
    BY <1>0, <2>1, <2>2, <2>3, <2>4, <2>5 DEF Knows, Locked, Committing
<1>3. CASE AppendEvent(p)
  <2>1. c.pc = "event"
    BY <1>3 DEF AppendEvent, At
  <2>2. /\ c.key \in KeyType /\ c.body \in Body /\ c.target \in Ids /\ c.target > 1
        /\ Parent(c.target) = pointer
        /\ snaps[c.target].key = c.key /\ snaps[c.target].body = c.body
        /\ \E r \in receipts : r.snapshot = c.target
    BY <1>0, <2>1 DEF Knows, Committing
  <2>3. /\ snaps' = snaps /\ pointer' = pointer /\ receipts' = receipts /\ Goto(p, "pointer")
        /\ c.target \in prepared'
    BY <1>3 DEF AppendEvent
  <2>4. /\ d \in CallType /\ d.pc = "pointer" /\ d.target = c.target
        /\ d.key = c.key /\ d.body = c.body /\ d.expected = c.expected
    BY <2>3, Points, GotoGoesOn
  <2>5. Ids' = Ids /\ Parent(d.target)' = Parent(c.target)
    BY <2>3, <2>4 DEF Ids, Parent, Line
  <2> QED
    BY <1>0, <2>2, <2>3, <2>4, <2>5 DEF Knows, Locked, Committing
<1>4. CASE MovePointer(p)
  <2>1. /\ c.pc = "pointer" /\ c.target \in Ids /\ c.target > 1
        /\ snaps[c.target].key = c.key /\ snaps[c.target].body = c.body
        /\ c.key \in KeyType /\ c.body \in Body
    BY <1>0, <1>4, WriterKnows DEF Knows, Committing
  <2>2. snaps' = snaps /\ pointer' = c.target /\ Goto(p, "return")
    BY <1>4 DEF MovePointer
  <2>3. /\ d \in CallType /\ d.pc = "return" /\ d.target = c.target
        /\ d.key = c.key /\ d.body = c.body /\ d.expected = c.expected
    BY <2>2, Points, GotoGoesOn
  <2>4. LineOk(c.target)
    BY <2>1 DEF Inv, SnapOk
  <2>5. /\ Len(Line(c.target)) \in 2 .. Len(Line(c.target))
        /\ Line(c.target)[Len(Line(c.target))] = c.target
    BY <1>0, <2>1, <2>4, ParentFacts DEF LineOk
  <2>6. Line(pointer)' = Line(c.target)
    BY <2>2 DEF Line
  <2>7. \E j \in 2 .. Len(Line(pointer)') :
          snaps'[(Line(pointer)')[j]].key = d.key /\ snaps'[(Line(pointer)')[j]].body = d.body
    BY <2>1, <2>2, <2>3, <2>5, <2>6
  <2> QED
    BY <1>0, <2>1, <2>2, <2>3, <2>7 DEF Knows, Ids, Locked, Committing
<1> QED
  BY <1>1, <1>2, <1>3, <1>4

\* What a process knows after a step of its own.
LEMMA OwnStep ==
  ASSUME Inv, NEW p \in Processes, Step(p), NEW d, d = call'[p]
  PROVE  d \in CallType /\ Knows(p, d)'
<1>1. call[p].target \in Nat /\ Knows(p, call[p])
  BY DEF Inv, Shape, CallOk, CallType
<1>2. CASE Start(p)
  BY <1>2, StartKnows
<1>3. CASE Acquire(p)
  <2> DEFINE c == call[p]
  <2>1. /\ snaps' = snaps /\ pointer' = pointer /\ lock' = p /\ c.pc = "ready" /\ Goto(p, "check")
    BY <1>3 DEF Acquire, Store, At
  <2>2. /\ d \in CallType /\ d.pc = "check" /\ d.target = c.target
        /\ d.key = c.key /\ d.body = c.body /\ d.expected = c.expected
    BY <2>1, Points, GotoGoesOn
  <2>3. /\ c.key \in KeyType /\ c.body \in Body /\ c.expected \in Ids /\ RollbackOk(c)
        /\ c.target \in {0} \cup Ids
    BY <1>1, <2>1 DEF Knows
  <2>4. RollbackOk(d)
    BY <2>2, <2>3 DEF RollbackOk
  <2>5. RollbackOk(d)' /\ Ids' = Ids
    BY <2>1, <2>4 DEF RollbackOk, InLine, Restore, Ids
  <2> QED
    BY <2>1, <2>2, <2>3, <2>5 DEF Knows, Locked, Committing
<1>4. CASE Refuse(p) \/ Return(p) \/ Bind(p)
  <2>1. lock' # p /\ call' = [call EXCEPT ![p] = Idle]
    BY <1>4, TruthAssumption DEF Refuse, Return, Bind, Leave
  <2> QED
    BY <2>1, LeaveKnows
<1>5. CASE FinishValidation(p)
  <2>1. lock' # p /\ call' = [call EXCEPT ![p] = Idle]
    BY <1>1, <1>5 DEF FinishValidation, At, Knows, Locked
  <2> QED
    BY <2>1, LeaveKnows
<1>6. CASE Die(p)
  <2>1. lock' # p /\ call' = [call EXCEPT ![p] = Idle]
    BY <1>6, TruthAssumption DEF Die
  <2> QED
    BY <2>1, LeaveKnows
<1>7. CASE Recover(p)
  BY <1>7, RecoverKnows
<1>8. CASE WriteSnapshot(p) \/ WriteReceipt(p) \/ AppendEvent(p) \/ MovePointer(p)
  BY <1>8, WriterGoesOn
<1> QED
  BY <1>2, <1>3, <1>4, <1>5, <1>6, <1>7, <1>8 DEF Step, UnderLock

\* What WorkItems are bound to, and what validations saw, stays true.
LEMMA BindingsStep ==
  ASSUME Inv, [Next]_vars
  PROVE  /\ \A b \in bindings' : BindingOk(b)' /\ b \in Binding
         /\ \A v \in passed' : PassedOk(v)' /\ v \in [binding : Binding, at : Nat]
<1>1. /\ Ids \subseteq Ids' /\ bindings \subseteq bindings'
      /\ \A s \in Ids : snaps'[s] = snaps[s]
      /\ pointer \in Ids /\ Current = snaps[pointer] /\ Current \in SnapType /\ pointer \in Nat
  BY StoreGrows, SnapFacts DEF Grows, Inv, PointerOk, Current, Shape
<1>2. \A b \in bindings : BindingOk(b)' /\ b \in Binding /\ b.snapshot \in Ids
  BY <1>1 DEF Inv, BindingOk, Shape
<1>3. \A v \in passed : PassedOk(v)' /\ v \in [binding : Binding, at : Nat]
  BY <1>1, <1>2 DEF Inv, PassedOk, Shape
<1>4. ASSUME NEW p \in Processes, Bind(p)
      PROVE  \A b \in bindings' : BindingOk(b)' /\ b \in Binding
  <2>1. call[p].expected = pointer /\ snaps' = snaps
    BY <1>4 DEF Bind, At, Store, Inv, CallOk, Knows
  <2>2. PICK b : b = [snapshot |-> pointer, revision |-> Current.agent.revision]
    OBVIOUS
  <2>3. bindings' = bindings \/ (Current.agent.status = "active" /\ bindings' = bindings \cup {b})
    BY <1>4, <2>1, <2>2 DEF Bind
  <2>4. Current.agent.revision \in Nat
    BY <1>1 DEF SnapType, Manifest
  <2>5. b \in Binding /\ b.snapshot = pointer /\ b.revision = Current.agent.revision
    BY <1>1, <2>2, <2>4 DEF Binding
  <2>6. Current.agent.status = "active" => BindingOk(b)'
    BY <1>1, <2>1, <2>5 DEF BindingOk
  <2> QED
    BY <1>2, <2>3, <2>5, <2>6
<1>5. ASSUME NEW p \in Processes, FinishValidation(p)
      PROVE  \A v \in passed' : PassedOk(v)' /\ v \in [binding : Binding, at : Nat]
  <2> DEFINE b == call[p].body
  <2>1. b \in bindings /\ InLine(pointer, b.snapshot)
    BY <1>5 DEF FinishValidation, At, Inv, CallOk, Knows
  <2>2. BindingOk(b) /\ b \in Binding
    BY <2>1 DEF Inv, Shape
  <2>3. PICK v : v = [binding |-> b, at |-> pointer]
    OBVIOUS
  <2>4. passed' = passed \/ (AgentStillBound(b) /\ passed' = passed \cup {v})
    BY <1>5, <2>3 DEF FinishValidation
  <2>5. v \in [binding : Binding, at : Nat] /\ v.binding = b /\ v.at = pointer
    BY <1>1, <2>2, <2>3
  <2>6. AgentStillBound(b) => snaps[pointer].agent = snaps[b.snapshot].agent
    <3>1. PICK i \in DOMAIN Line(pointer) : Line(pointer)[i] = b.snapshot
      BY <2>1 DEF InLine, Line
    <3>2. i \in 1 .. Len(Line(pointer)) /\ AgentLine(pointer)
      BY <1>1, <3>1, SnapFacts DEF Inv, SnapOk
    <3>3. snaps[b.snapshot].agent.revision = snaps[pointer].agent.revision =>
            snaps[b.snapshot].agent = snaps[pointer].agent
      BY <3>1, <3>2 DEF AgentLine
    <3> QED
      BY <1>1, <2>2, <3>3 DEF AgentStillBound, BindingOk
  <2>7. AgentStillBound(b) => PassedOk(v)'
    BY <1>1, <2>1, <2>2, <2>5, <2>6 DEF PassedOk, BindingOk
  <2> HIDE DEF b
  <2> QED
    BY <1>3, <2>4, <2>5, <2>7
<1> QED
  BY <1>2, <1>3, <1>4, <1>5, OnlyBindBinds

\* The call, the lock and the deaths keep their types.
LEMMA ControlStep ==
  ASSUME Inv, NEW p \in Processes, Step(p)
  PROVE  /\ call' \in [Processes -> CallType]
         /\ lock' \in Processes \cup {None}
         /\ deaths' \in 0 .. MaxDeaths
<1>1. PICK d : d = call'[p]
  OBVIOUS
<1>2. d \in CallType /\ call \in [Processes -> CallType] /\ lock \in Processes \cup {None}
      /\ deaths \in 0 .. MaxDeaths
  BY <1>1, OwnStep DEF Inv, Shape
<1>3. DOMAIN call' = Processes /\ call' = [q \in Processes |-> call'[q]]
  BY <1>2 DEF Step, Start, Commit, ChangeAgent, Rollback, Prepare, RollbackAgain, StartValidation,
     AcquireLease, Acquire, FinishValidation, Die, UnderLock, Recover, Refuse, Return, Bind, Leave,
     Goto, WriteSnapshot, WriteReceipt, AppendEvent, MovePointer
<1>4. \A q \in Processes : call'[q] \in CallType
  BY <1>1, <1>2, LockStep
<1>5. lock' \in Processes \cup {None}
  BY <1>2, LockStep
<1>6. deaths' = deaths \/ (deaths < MaxDeaths /\ deaths' = deaths + 1)
  BY DEF Step, Start, Commit, ChangeAgent, Rollback, Prepare, RollbackAgain, StartValidation,
     AcquireLease, Acquire, FinishValidation, Die, UnderLock, Recover, Refuse, Return, Bind,
     WriteSnapshot, WriteReceipt, AppendEvent, MovePointer, Rest
<1>7. deaths' \in 0 .. MaxDeaths
  BY <1>2, <1>6, TruthAssumption
<1> QED
  BY <1>3, <1>4, <1>5, <1>7

\* The invariant holds at first.
LEMMA InvInit ==
  ASSUME Init PROVE Inv
<1>1. Genesis \in SnapType
  <2>1. [f \in Facts |-> NoFact] \in [Facts -> FactType]
    BY DEF FactType
  <2>2. Unregistered \in Manifest
    BY DEF Unregistered, Manifest, AgentStatuses
  <2>3. <<1>> \in Seq(Nat)
    OBVIOUS
  <2> QED
    BY <2>1, <2>2, <2>3 DEF Genesis, SnapType
<1>2. /\ snaps = <<Genesis>> /\ receipts = {} /\ prepared = {} /\ pointer = 1 /\ lock = None
      /\ call = [p \in Processes |-> Idle] /\ bindings = {} /\ passed = {} /\ deaths = 0
  BY DEF Init
<1>3. snaps \in Seq(SnapType) /\ Len(snaps) = 1 /\ snaps[1] = Genesis
  BY <1>1, <1>2
<1>4. Shape
  BY <1>2, <1>3, IdleType, TruthAssumption DEF Shape
<1>5. Ids = {1} /\ Line(1) = <<1>> /\ snaps[1].generation = 0
  BY <1>3 DEF Ids, Line, Genesis
<1>6. Len(Line(1)) = 1 /\ Line(1)[1] = 1
  BY <1>5
<1>7. LineOk(1)
  <2>0. PICK n : n = Len(Line(1))
    OBVIOUS
  <2>4. n = 1
    BY <1>6, <2>0
  <2>1. n = 1 /\ \A i \in 1 .. n : i = 1
    BY <2>4
  <2>2. \A j \in 1 .. 1 : Line(Line(1)[1])[j] = Line(1)[j]
    BY <1>6
  <2>3. Line(1)[1] \in 1 .. 1 /\ Len(Line(Line(1)[1])) = 1 /\ snaps[1].generation = Len(Line(1)) - 1
    BY <1>5, <1>6
  <2> QED
    BY <1>6, <2>0, <2>1, <2>2, <2>3 DEF LineOk
<1>8. AgentLine(1)
  <2>1. snaps[1].agent.revision = 0
    BY <1>3 DEF Genesis, Unregistered
  <2> QED
    BY <1>6, <2>1 DEF AgentLine
<1>9. \A s \in Ids : SnapOk(s)
  BY <1>5, <1>7, <1>8 DEF SnapOk
<1>10. PointerOk
  <2>1. Line(pointer) = Line(1) /\ pointer \in Ids
    BY <1>2, <1>5
  <2>2. PICK n : n = Len(Line(pointer))
    OBVIOUS
  <2>4. n = 1
    BY <1>6, <2>1, <2>2
  <2>3. \A i \in 2 .. n : FALSE
    BY <2>4
  <2> QED
    BY <2>1, <2>2, <2>3 DEF PointerOk
<1>11. \A p \in Processes : CallOk(p)
  <2> SUFFICES ASSUME NEW p \in Processes PROVE CallOk(p)
    OBVIOUS
  <2>1. call[p] = Idle /\ lock # p
    BY <1>2, TruthAssumption
  <2> QED
    BY <2>1, IdleType DEF CallOk, Knows, Locked, Committing
<1> QED
  BY <1>2, <1>4, <1>9, <1>10, <1>11 DEF Inv, UniqueReceipts

\* Every step keeps the invariant.
LEMMA InvStep ==
  ASSUME Inv, [Next]_vars PROVE Inv'
<1>1. \A s \in Ids' : SnapOk(s)'
  BY SnapsStep
<1>2. (\A r \in receipts' : ReceiptOk(r)') /\ UniqueReceipts' /\ receipts' \in SUBSET ReceiptType
  BY ReceiptsStep
<1>3. PointerOk' /\ prepared' \subseteq Ids' /\ pointer' \in Ids
  BY PointerStep
<1>4. /\ \A b \in bindings' : BindingOk(b)' /\ b \in Binding
      /\ \A v \in passed' : PassedOk(v)' /\ v \in [binding : Binding, at : Nat]
  BY BindingsStep
<1>5. /\ call' \in [Processes -> CallType] /\ lock' \in Processes \cup {None}
      /\ deaths' \in 0 .. MaxDeaths
  <2>1. CASE UNCHANGED vars
    BY <2>1 DEF vars, Inv, Shape
  <2> QED
    BY <2>1, ControlStep, NextCases
<1>6. \A p \in Processes : CallOk(p)'
  <2>1. ASSUME UNCHANGED vars, NEW p \in Processes PROVE CallOk(p)'
    <3>1. PICK d : d = call[p]
      OBVIOUS
    <3>2. d = call'[p] /\ lock' = lock /\ UNCHANGED Store
      BY <2>1, <3>1 DEF vars, Store
    <3>3. Knows(p, d)'
      BY <3>1, <3>2, KnowsKept
    <3> QED
      BY <3>2, <3>3, KnowsCall
  <2>2. ASSUME NEW q \in Processes, Step(q), NEW p \in Processes PROVE CallOk(p)'
    <3>1. PICK d : d = call'[p]
      OBVIOUS
    <3>2. Knows(p, d)'
      <4>1. CASE p = q
        BY <2>2, <3>1, <4>1, OwnStep
      <4>2. CASE p # q
        <5>1. d = call[p] /\ (lock' = p <=> lock = p) /\ (lock = p => UNCHANGED Store)
          BY <2>2, <3>1, <4>2, OthersKeep
        <5> QED
          BY <5>1, KnowsKept
      <4> QED
        BY <4>1, <4>2
    <3> QED
      BY <3>1, <3>2, KnowsCall
  <2> QED
    BY <2>1, <2>2, NextCases
<1>7. snaps' \in Seq(SnapType) /\ pointer' \in Nat
  BY <1>3, StoreGrows, SnapFacts DEF Grows, Inv
<1>8. prepared' \in SUBSET Nat
  <2>1. Len(snaps') \in Nat
    BY <1>7, LenProperties
  <2> QED
    BY <1>3, <2>1 DEF Ids
<1>9. Shape'
  BY <1>2, <1>4, <1>5, <1>7, <1>8 DEF Shape
<1> QED
  BY <1>1, <1>2, <1>3, <1>4, <1>6, <1>9 DEF Inv

\* The invariant holds in every reachable state.
LEMMA InvHolds == Spec => []Inv
<1>1. Init => Inv
  BY InvInit
<1>2. Inv /\ [Next]_vars => Inv'
  BY InvStep
<1> QED
  BY <1>1, <1>2, PTL DEF Spec

----------------------------------------------------------------------------
(* What follows from the invariant. *)

\* The snapshots of the canonical history, and the one before each.
LEMMA HistoryFacts ==
  ASSUME Inv
  PROVE  /\ pointer \in Ids /\ LineOk(pointer) /\ History = Line(pointer)
         /\ Len(History) \in Nat /\ Len(History) >= 1
         /\ DOMAIN History = 1 .. Len(History) /\ History \in Seq(Nat)
         /\ \A i \in 1 .. Len(History) :
              /\ History[i] \in Ids /\ LineOk(History[i])
              /\ Len(Line(History[i])) = i
              /\ \A j \in 1 .. i : Line(History[i])[j] = History[j]
         /\ \A i \in 1 .. Len(History) :
              i # 1 => /\ History[i] > 1 /\ Parent(History[i]) = History[i - 1]
                       /\ i - 1 \in 1 .. Len(History) /\ MadeOk(History[i])
<1>1. pointer \in Ids /\ LineOk(pointer) /\ History = Line(pointer) /\ Shape
  BY DEF Inv, PointerOk, SnapOk, History, Current, Line
<1>2. /\ Len(History) \in Nat /\ Len(History) >= 1
      /\ DOMAIN History = 1 .. Len(History) /\ History \in Seq(Nat)
  BY <1>1, SnapFacts DEF LineOk
<1>3. ASSUME NEW i \in 1 .. Len(History)
      PROVE  /\ History[i] \in Ids /\ LineOk(History[i]) /\ SnapOk(History[i])
             /\ Len(Line(History[i])) = i
             /\ \A j \in 1 .. i : Line(History[i])[j] = History[j]
             /\ i > 1 => History[i] > 1 /\ Parent(History[i]) = History[i - 1]
  <2>1. /\ History[i] \in Ids
        /\ Len(Line(History[i])) = i
        /\ \A j \in 1 .. i : Line(History[i])[j] = History[j]
        /\ i > 1 => History[i] > 1 /\ Parent(History[i]) = History[i - 1]
    BY <1>1, OnLine
  <2>2. SnapOk(History[i]) /\ LineOk(History[i])
    BY <2>1 DEF Inv, SnapOk
  <2> QED
    BY <2>1, <2>2
<1>4. ASSUME NEW i \in 1 .. Len(History), i # 1
      PROVE  /\ History[i] > 1 /\ Parent(History[i]) = History[i - 1]
             /\ i - 1 \in 1 .. Len(History) /\ MadeOk(History[i])
  <2>1. i > 1 /\ i - 1 \in 1 .. Len(History)
    BY <1>2, <1>4
  <2> QED
    BY <1>3, <2>1 DEF SnapOk
<1> QED
  BY <1>1, <1>2, <1>3, <1>4

\* The store, the calls and the bindings keep their types: what receipts,
\* calls, bindings and validations name are snapshots that exist, and a
\* process is at a point of a call that holds .commit.lock exactly when it
\* holds it.
THEOREM TruthTypes == Spec => []TypeOK
<1>1. ASSUME Inv PROVE TypeOK
  <2>1. DOMAIN snaps = Ids /\ Shape
    BY <1>1, LenProperties DEF Inv, Shape, Ids
  <2>2. pointer \in DOMAIN snaps /\ prepared \subseteq DOMAIN snaps
    BY <1>1, <2>1 DEF Inv, PointerOk
  <2>3. ASSUME NEW s \in DOMAIN snaps
        PROVE  /\ snaps[s].generation \in Nat /\ snaps[s].agent \in Manifest
               /\ \A f \in Facts : snaps[s].facts[f].value \in Values \cup {None}
    <3>1. snaps[s] \in SnapType
      BY <2>1, SnapFacts
    <3>2. snaps[s].generation \in Nat /\ snaps[s].agent \in Manifest
          /\ \A f \in Facts : snaps[s].facts[f] \in FactType
      BY <3>1 DEF SnapType
    <3>3. ASSUME NEW x \in FactType PROVE x.value \in Values \cup {None}
      BY <3>3 DEF FactType, NoFact
    <3> QED
      BY <3>2, <3>3
  <2>4. ASSUME NEW r \in receipts
        PROVE  r.snapshot \in DOMAIN snaps /\ r.previous \in DOMAIN snaps
    <3>1. r.snapshot \in Ids /\ r.snapshot > 1 /\ r.previous = Parent(r.snapshot)
      BY <1>1, <2>4 DEF Inv, ReceiptOk
    <3>2. LineOk(r.snapshot)
      BY <1>1, <3>1 DEF Inv, SnapOk
    <3> QED
      BY <2>1, <3>1, <3>2, ParentFacts
  <2>5. \A p \in Processes :
          /\ call[p].pc \in CallPoints
          /\ call[p].expected \in {0} \cup DOMAIN snaps
          /\ call[p].target \in {0} \cup DOMAIN snaps
          /\ lock = p <=> call[p].pc \in Locked
    BY <1>1, <2>1 DEF Inv, CallOk, Knows, Shape, CallType
  <2>6. bindings \subseteq [snapshot : DOMAIN snaps, revision : Nat]
    <3> SUFFICES ASSUME NEW b \in bindings PROVE b \in [snapshot : DOMAIN snaps, revision : Nat]
      OBVIOUS
    <3>1. b \in Binding /\ b.snapshot \in Ids
      BY <1>1, <2>1 DEF Inv, BindingOk, Shape
    <3> QED
      BY <2>1, <3>1 DEF Binding
  <2>7. passed \subseteq [binding : bindings, at : DOMAIN snaps]
    <3> SUFFICES ASSUME NEW v \in passed PROVE v \in [binding : bindings, at : DOMAIN snaps]
      OBVIOUS
    <3>1. v \in [binding : Binding, at : Nat] /\ v.binding \in bindings /\ v.at \in Ids
      BY <1>1, <2>1 DEF Inv, PassedOk, Shape
    <3> QED
      BY <2>1, <3>1
  <2> QED
    BY <2>1, <2>2, <2>3, <2>4, <2>5, <2>6, <2>7 DEF TypeOK, Shape
<1> QED
  BY <1>1, InvHolds, PTL

\* Whatever processes die between the snapshot, the receipt, the event and
\* the pointer, and whoever completes their commits, every snapshot of the
\* canonical history extends its parent's history and has its receipt and
\* its event.
THEOREM TruthHistory == Spec => []HistoryComplete
<1>1. ASSUME Inv PROVE HistoryComplete
  <2> SUFFICES ASSUME NEW i \in DOMAIN History
               PROVE  /\ snaps[History[i]].generation = i - 1
                      /\ snaps[History[i]].line = SubSeq(History, 1, i)
                      /\ i > 1 => /\ History[i] \in prepared
                                  /\ \E r \in receipts :
                                       /\ r.key = snaps[History[i]].key
                                       /\ r.body = snaps[History[i]].body
                                       /\ r.snapshot = History[i] /\ r.previous = History[i - 1]
    BY DEF HistoryComplete
  <2>1. PICK s : s = History[i]
    OBVIOUS
  <2>2. /\ i \in 1 .. Len(History) /\ s \in Ids /\ LineOk(s) /\ Len(Line(s)) = i /\ i \in Nat
        /\ \A j \in 1 .. i : Line(s)[j] = History[j]
        /\ History \in Seq(Nat) /\ Len(History) \in Nat
    BY <1>1, <2>1, HistoryFacts
  <2>3. snaps[s].generation = i - 1
    BY <2>2 DEF LineOk
  <2>4. Line(s) = SubSeq(History, 1, i)
    <3>1. \A j \in 1 .. i : History[j] \in Nat
      BY <2>2, ElementOfSeq
    <3>2. /\ SubSeq(History, 1, i) \in Seq(Nat) /\ Len(SubSeq(History, 1, i)) = i
          /\ \A j \in 1 .. i : SubSeq(History, 1, i)[j] = History[j]
      BY <2>2, <3>1, SubSeqProperties
    <3>3. Line(s) \in Seq(Nat)
      BY <1>1, <2>2, SnapFacts DEF Inv
    <3> QED
      BY <2>2, <3>2, <3>3, SeqEqual
  <2>5. ASSUME i > 1
        PROVE  /\ s \in prepared
               /\ \E r \in receipts : /\ r.key = snaps[s].key /\ r.body = snaps[s].body
                                      /\ r.snapshot = s /\ r.previous = History[i - 1]
    <3>0. History = Line(pointer) /\ i # 1 /\ i \in 2 .. Len(History)
      BY <1>1, <2>2, <2>5, HistoryFacts
    <3>1. i \in 2 .. Len(Line(pointer)) /\ Line(pointer)[i] = s /\ Parent(s) = History[i - 1]
      BY <1>1, <2>1, <2>2, <3>0, HistoryFacts
    <3>2. s \in prepared
      BY <1>1, <3>1 DEF Inv, PointerOk
    <3>3. PICK r \in receipts : r.snapshot = s
      BY <1>1, <3>1 DEF Inv, PointerOk
    <3>4. ReceiptOk(r)
      BY <1>1 DEF Inv
    <3> QED
      BY <3>1, <3>2, <3>3, <3>4 DEF ReceiptOk
  <2> QED
    BY <2>1, <2>3, <2>4, <2>5 DEF Line
<1> QED
  BY <1>1, InvHolds, PTL

\* A rollback in force brought back its target's values and left the agent's
\* manifest alone, whatever was committed between its unlocked reads and its
\* commit.
THEOREM RollbacksRestore == Spec => []RollbackRestores
<1>1. ASSUME Inv PROVE RollbackRestores
  <2> SUFFICES ASSUME NEW i \in DOMAIN History \ {1}, snaps[History[i]].key.kind = "rollback"
               PROVE  LET s == snaps[History[i]]
                      IN  /\ InLine(pointer, s.key.of)
                          /\ \A f \in Facts : s.facts[f].value = snaps[s.key.of].facts[f].value
                          /\ s.agent = snaps[History[i - 1]].agent
    BY DEF RollbackRestores
  <2>1. PICK s : s = History[i]
    OBVIOUS
  <2>2. /\ i \in 1 .. Len(History) /\ i # 1 /\ Len(History) \in Nat
        /\ Parent(s) = History[i - 1] /\ i - 1 \in 1 .. Len(History) /\ MadeOk(s)
        /\ DOMAIN History = 1 .. Len(History) /\ History = Line(pointer)
    BY <1>1, <2>1, HistoryFacts
  <2>3. PICK q : q = Parent(s)
    OBVIOUS
  <2>4. /\ snaps[s].body.agent = None /\ InLine(q, snaps[s].key.of)
        /\ \A f \in Facts : snaps[s].facts[f].value = snaps[snaps[s].key.of].facts[f].value
        /\ snaps[s].agent = snaps[q].agent
    BY <2>1, <2>2, <2>3 DEF MadeOk
  <2>5. /\ q \in Ids /\ Len(Line(q)) = i - 1 /\ \A j \in 1 .. i - 1 : Line(q)[j] = History[j]
    BY <1>1, <2>2, <2>3, HistoryFacts
  <2>6. PICK j \in DOMAIN Line(q) : Line(q)[j] = snaps[s].key.of
    BY <2>4 DEF InLine, Line
  <2>7. j \in 1 .. i - 1
    BY <1>1, <2>5, <2>6, SnapFacts DEF Inv
  <2>8. j \in DOMAIN Line(pointer) /\ Line(pointer)[j] = snaps[s].key.of
    BY <2>2, <2>5, <2>6, <2>7
  <2>9. InLine(pointer, snaps[s].key.of)
    BY <2>8 DEF InLine, Line
  <2> QED
    BY <2>1, <2>2, <2>3, <2>4, <2>9
<1> QED
  BY <1>1, InvHolds, PTL

\* Along the canonical history the agent's manifest changes only to its next
\* revision, and what the agent wrote, a rollback or a commit completed by
\* another process included, was within the scope of the active manifest
\* that it was applied to.
THEOREM AgentIsGoverned == Spec => []AgentGoverned
<1>1. ASSUME Inv PROVE AgentGoverned
  <2> SUFFICES ASSUME NEW i \in DOMAIN History \ {1}
               PROVE  LET s == snaps[History[i]]
                          before == snaps[History[i - 1]]
                      IN  /\ s.agent # before.agent => s.agent.revision = before.agent.revision + 1
                          /\ s.body.actor = "agent" =>
                               /\ before.agent.status = "active" /\ s.agent = before.agent
                               /\ \A f \in Facts \ before.agent.scope : s.facts[f] = before.facts[f]
    BY DEF AgentGoverned
  <2>1. PICK s : s = History[i]
    OBVIOUS
  <2>2. Parent(s) = History[i - 1] /\ MadeOk(s)
    BY <1>1, <2>1, HistoryFacts
  <2>3. PICK q : q = Parent(s)
    OBVIOUS
  <2>4. /\ ManifestFollows(snaps[s].body, snaps[q]) /\ Authorized(snaps[s].body, snaps[q])
        /\ snaps[s].agent = IF snaps[s].body.agent = None THEN snaps[q].agent
                            ELSE snaps[s].body.agent
        /\ \A f \in Facts : snaps[s].body.writes[f] = "keep" => snaps[s].facts[f] = snaps[q].facts[f]
    BY <2>2, <2>3 DEF MadeOk
  <2>5. snaps[s].agent # snaps[q].agent => snaps[s].agent.revision = snaps[q].agent.revision + 1
    BY <2>4 DEF ManifestFollows
  <2>6. snaps[s].body.actor = "agent" =>
          /\ snaps[q].agent.status = "active" /\ snaps[s].agent = snaps[q].agent
          /\ \A f \in Facts \ snaps[q].agent.scope : snaps[s].facts[f] = snaps[q].facts[f]
    BY <2>4 DEF Authorized
  <2> QED
    BY <2>1, <2>2, <2>3, <2>5, <2>6
<1> QED
  BY <1>1, InvHolds, PTL

\* A WorkItem is bound to the revision of its snapshot, and a binding that
\* passes validation still has the whole manifest in force, although both
\* the scheduler and the validation read twice.
THEOREM BindingsAreValid == Spec => []BindingsHold
<1>1. ASSUME Inv PROVE BindingsHold
  BY <1>1 DEF Inv, BindingOk, PassedOk, BindingsHold
<1> QED
  BY <1>1, InvHolds, PTL

----------------------------------------------------------------------------
(* The store implements the register. *)

\* The change sets on the line of a snapshot.
ChangeSet == [key : KeyType, body : Body, madeFor : Nat]
ChangesOf(s) ==
  [i \in 1 .. Len(Line(s)) - 1 |->
     [key |-> snaps[Line(s)[i + 1]].key, body |-> snaps[Line(s)[i + 1]].body,
      madeFor |-> snaps[Line(s)[i + 1]].madeFor]]

\* They are as many as the line has links.
LEMMA ChangesFacts ==
  ASSUME Inv, NEW s \in Ids
  PROVE  /\ ChangesOf(s) \in Seq(ChangeSet)
         /\ Len(ChangesOf(s)) = Len(Line(s)) - 1
         /\ DOMAIN ChangesOf(s) = 1 .. Len(Line(s)) - 1
         /\ \A i \in 1 .. Len(Line(s)) - 1 :
              /\ i + 1 \in 2 .. Len(Line(s))
              /\ ChangesOf(s)[i].key = snaps[Line(s)[i + 1]].key
              /\ ChangesOf(s)[i].body = snaps[Line(s)[i + 1]].body
              /\ ChangesOf(s)[i].madeFor = snaps[Line(s)[i + 1]].madeFor
<1>1. PICK n : n = Len(Line(s)) - 1
  OBVIOUS
<1>2. n \in Nat /\ Shape /\ LineOk(s) /\ Len(Line(s)) = n + 1
  <2>1. Shape /\ LineOk(s)
    BY DEF Inv, SnapOk
  <2>2. Len(Line(s)) \in Nat /\ Len(Line(s)) >= 1
    BY <2>1, SnapFacts DEF LineOk
  <2> QED
    BY <1>1, <2>1, <2>2
<1>3. \A i \in 1 .. n : i + 1 \in 1 .. Len(Line(s)) /\ i + 1 > 1 /\ i + 1 \in 2 .. Len(Line(s))
  BY <1>2
<1>4. ASSUME NEW i \in 1 .. n
      PROVE  LET t == Line(s)[i + 1]
             IN  [key |-> snaps[t].key, body |-> snaps[t].body, madeFor |-> snaps[t].madeFor]
                   \in ChangeSet
  <2>1. PICK t : t = Line(s)[i + 1]
    OBVIOUS
  <2>2. t \in Ids /\ t > 1
    BY <1>2, <1>3, <2>1, OnLine
  <2>3. snaps[t] \in SnapType /\ snaps[t].key \in KeyType /\ snaps[t].body \in Body
    BY <1>2, <2>2, SnapFacts DEF Inv, SnapOk, MadeOk
  <2>4. snaps[t].madeFor \in Nat
    BY <2>3 DEF SnapType
  <2> QED
    BY <2>1, <2>3, <2>4 DEF ChangeSet
<1>5. /\ ChangesOf(s) = [i \in 1 .. n |->
           [key |-> snaps[Line(s)[i + 1]].key, body |-> snaps[Line(s)[i + 1]].body,
            madeFor |-> snaps[Line(s)[i + 1]].madeFor]]
  BY <1>1 DEF ChangesOf
<1>6. ChangesOf(s) \in [1 .. n -> ChangeSet]
  BY <1>4, <1>5
<1>7. ChangesOf(s) \in Seq(ChangeSet) /\ Len(ChangesOf(s)) = n /\ DOMAIN ChangesOf(s) = 1 .. n
  <2>1. ChangesOf(s) \in Seq(ChangeSet)
    BY <1>2, <1>6
  <2> QED
    BY <1>2, <1>6, <2>1, LenProperties
<1>8. ASSUME NEW i \in 1 .. n
      PROVE  /\ i + 1 \in 2 .. Len(Line(s))
             /\ ChangesOf(s)[i].key = snaps[Line(s)[i + 1]].key
             /\ ChangesOf(s)[i].body = snaps[Line(s)[i + 1]].body
             /\ ChangesOf(s)[i].madeFor = snaps[Line(s)[i + 1]].madeFor
  <2>1. ChangesOf(s)[i] = [key |-> snaps[Line(s)[i + 1]].key, body |-> snaps[Line(s)[i + 1]].body,
                           madeFor |-> snaps[Line(s)[i + 1]].madeFor]
    BY <1>5
  <2> QED
    BY <1>3, <2>1
<1> QED
  BY <1>1, <1>7, <1>8

\* The change sets in force are those on the line of the current snapshot.
LEMMA InForceIs == ChangeSetsInForce = ChangesOf(pointer)
BY DEF ChangeSetsInForce, ChangesOf, History, Current, Line

\* A step that leaves the pointer leaves the change sets in force.
LEMMA InForceKept ==
  ASSUME Inv, [Next]_vars, pointer' = pointer
  PROVE  ChangeSetsInForce' = ChangeSetsInForce
<1>1. /\ pointer \in Ids /\ LineOk(pointer) /\ Shape
      /\ \A s \in Ids : snaps'[s] = snaps[s]
  BY StoreGrows DEF Inv, PointerOk, SnapOk, Grows
<1>2. /\ Len(Line(pointer)) \in Nat
      /\ \A i \in 1 .. Len(Line(pointer)) : snaps'[Line(pointer)[i]] = snaps[Line(pointer)[i]]
  BY <1>1, SnapFacts, OnLine
<1>3. Line(pointer)' = Line(pointer) /\ History = Line(pointer) /\ History' = Line(pointer)
  BY <1>1 DEF Line, History, Current
<1>4. \A i \in 1 .. Len(Line(pointer)) - 1 :
        snaps'[Line(pointer)[i + 1]] = snaps[Line(pointer)[i + 1]]
  BY <1>2
<1> QED
  BY <1>3, <1>4 DEF ChangeSetsInForce

\* The move of the pointer is where a change set takes effect: on the state
\* it was made for, and under a key that no change set in force has.
LEMMA MoveRefines ==
  ASSUME Inv, NEW p \in Processes, MovePointer(p)
  PROVE  Register!Apply
<1>1. PICK t : t = call[p].target
  OBVIOUS
<1>2. /\ t \in Ids /\ t > 1 /\ Parent(t) = pointer
      /\ snaps' = snaps /\ pointer' = t /\ told' = told
      /\ \E r \in receipts : r.snapshot = t
  BY <1>1, WriterKnows DEF MovePointer
<1> DEFINE old == Line(pointer)
           new == Line(t)
<1>3. SnapOk(t) /\ LineOk(t) /\ MadeOk(t) /\ Shape /\ pointer \in Ids /\ LineOk(pointer)
  BY <1>2 DEF Inv, SnapOk, PointerOk
<1>4. /\ Len(new) \in Nat /\ Len(new) >= 2 /\ Len(old) = Len(new) - 1 /\ new[Len(new)] = t
      /\ \A j \in 1 .. Len(new) - 1 : old[j] = new[j]
  BY <1>2, <1>3, ParentFacts DEF LineOk
<1>5. snaps[t].madeFor = Len(old) - 1
  BY <1>2, <1>3 DEF MadeOk, LineOk
<1> DEFINE h == ChangesOf(pointer)
           g == ChangesOf(t)
<1>6. ChangeSetsInForce = h /\ ChangeSetsInForce' = g
  BY <1>2, InForceIs DEF ChangeSetsInForce, ChangesOf, History, Current, Line
<1>7. /\ Len(h) = Len(old) - 1 /\ DOMAIN h = 1 .. Len(old) - 1
      /\ \A i \in 1 .. Len(old) - 1 : i + 1 \in 2 .. Len(old) /\ h[i].key = snaps[old[i + 1]].key
      /\ Len(g) = Len(new) - 1 /\ DOMAIN g = 1 .. Len(new) - 1
      /\ \A i \in 1 .. Len(new) - 1 : /\ g[i].key = snaps[new[i + 1]].key
                                      /\ g[i].madeFor = snaps[new[i + 1]].madeFor
  BY <1>2, <1>3, ChangesFacts
<1>8. \A i \in 1 .. Len(old) - 1 : g[i] = h[i]
  <2>1. \A i \in 1 .. Len(old) - 1 : i \in 1 .. Len(new) - 1 /\ new[i + 1] = old[i + 1]
    BY <1>4
  <2> QED
    BY <2>1 DEF ChangesOf
<1>9. /\ Len(g) \in 1 .. Len(new) - 1 /\ new[Len(g) + 1] = t
  BY <1>4, <1>7
<1>10. g[Len(g)].key = snaps[t].key /\ g[Len(g)].madeFor = Len(h)
  BY <1>5, <1>7, <1>9
<1>11. ASSUME NEW i \in 1 .. Len(old) - 1, h[i].key = snaps[t].key PROVE FALSE
  <2>1. PICK u : u = old[i + 1]
    OBVIOUS
  <2>2. i + 1 \in 1 .. Len(old) /\ i + 1 \in 2 .. Len(old)
    BY <1>4, <1>7
  <2>3. Len(Line(u)) = i + 1 /\ u \in Ids
    BY <1>3, <2>1, <2>2, OnLine
  <2>4. PICK r1 \in receipts : r1.snapshot = u
    BY <2>1, <2>2 DEF Inv, PointerOk
  <2>5. PICK r2 \in receipts : r2.snapshot = t
    BY <1>2
  <2>6. r1.key = r2.key
    <3>1. h[i].key = snaps[u].key
      BY <1>7, <2>1
    <3>2. r1.key = snaps[u].key /\ r2.key = snaps[t].key
      BY <2>4, <2>5 DEF Inv, ReceiptOk
    <3> QED
      BY <1>11, <3>1, <3>2
  <2>7. u = t
    BY <2>4, <2>5, <2>6 DEF Inv, UniqueReceipts
  <2> QED
    BY <1>4, <2>2, <2>3, <2>7
<1> HIDE DEF h, g, old, new
<1>12. g[Len(g)].key \notin Register!KeysOf(h)
  BY <1>7, <1>10, <1>11 DEF Register!KeysOf
<1>13. Len(g) = Len(h) + 1 /\ \A i \in DOMAIN h : g[i] = h[i]
  BY <1>4, <1>7, <1>8
<1> QED
  BY <1>2, <1>6, <1>10, <1>12, <1>13 DEF Register!Apply

\* A receipt is handed out only for a change set in force.
LEMMA TellRefines ==
  ASSUME Inv, [Next]_vars, NEW i \in 2 .. Len(Line(pointer)), pointer' = pointer,
         NEW key, NEW body, snaps[Line(pointer)[i]].key = key, snaps[Line(pointer)[i]].body = body,
         told' = told \cup {[key |-> key, body |-> body]}
  PROVE  Register!Tell
<1>1. pointer \in Ids /\ ChangeSetsInForce' = ChangeSetsInForce
  BY InForceKept DEF Inv, PointerOk
<1>2. Len(Line(pointer)) \in Nat
  BY <1>1, SnapFacts DEF Inv
<1>3. PICK j : j = i - 1
  OBVIOUS
<1>4. j \in 1 .. Len(Line(pointer)) - 1 /\ j + 1 = i
  BY <1>2, <1>3
<1> DEFINE h == ChangeSetsInForce
<1>5. j \in DOMAIN h /\ h[j].key = key /\ h[j].body = body
  BY <1>1, <1>4, ChangesFacts, InForceIs
<1> HIDE DEF h
<1>6. told' = told \cup {[key |-> h[j].key, body |-> h[j].body]}
  BY <1>5
<1> QED
  BY <1>1, <1>5, <1>6 DEF Register!Tell, h

\* Callers see a register: a change set takes effect once, on the state it
\* was made for, with the move of project_truth.yml, nothing in force is ever
\* taken back by a death, a retry or a completion, and a receipt is returned
\* only for a change set in force.
THEOREM StoreImplementsRegister == Spec => ImplementsRegister
<1>1. Init => Register!RegisterInit
  <2> SUFFICES ASSUME Init PROVE ChangeSetsInForce = <<>> /\ told = {}
    BY DEF Register!RegisterInit
  <2>1. Inv /\ snaps = <<Genesis>> /\ pointer = 1 /\ told = {}
    BY InvInit DEF Init
  <2>2. Line(pointer) = <<1>> /\ pointer \in Ids
    BY <2>1 DEF Line, Genesis, Inv, PointerOk
  <2>3. Len(Line(pointer)) = 1
    BY <2>2
  <2>4. ChangeSetsInForce \in Seq(ChangeSet) /\ Len(ChangeSetsInForce) = Len(Line(pointer)) - 1
    BY <2>1, <2>2, ChangesFacts, InForceIs
  <2>5. Len(ChangeSetsInForce) = 0
    BY <2>3, <2>4
  <2> QED
    BY <2>1, <2>4, <2>5, EmptySeq
<1>2. Inv /\ [Next]_vars => [Register!RegisterNext]_(Register!registerVars)
  <2>1. SUFFICES ASSUME Inv, [Next]_vars
                 PROVE  [Register!RegisterNext]_(Register!registerVars)
    OBVIOUS
  <2>2. ASSUME NEW p \in Processes, MovePointer(p)
        PROVE  [Register!RegisterNext]_(Register!registerVars)
    BY <2>1, <2>2, MoveRefines DEF Register!RegisterNext
  <2>3. ASSUME NEW p \in Processes, Return(p)
        PROVE  [Register!RegisterNext]_(Register!registerVars)
    <3>1. PICK i \in 2 .. Len(Line(pointer)) :
            snaps[Line(pointer)[i]].key = call[p].key /\ snaps[Line(pointer)[i]].body = call[p].body
      BY <2>1, <2>3 DEF Return, At, Inv, CallOk, Knows
    <3>2. pointer' = pointer /\ told' = told \cup {[key |-> call[p].key, body |-> call[p].body]}
      BY <2>3 DEF Return, Store
    <3> QED
      BY <2>1, <3>1, <3>2, TellRefines DEF Register!RegisterNext
  <2>4. ASSUME NEW p \in Processes, NEW r \in receipts, RollbackAgain(p, r)
        PROVE  [Register!RegisterNext]_(Register!registerVars)
    <3>1. /\ pointer' = pointer /\ told' = told \cup {[key |-> r.key, body |-> r.body]}
          /\ InLine(pointer, r.snapshot)
      BY <2>4 DEF RollbackAgain, Store
    <3>2. ReceiptOk(r) /\ pointer \in Ids /\ LineOk(pointer) /\ Shape
      BY <2>1, <2>4 DEF Inv, PointerOk, SnapOk
    <3>3. PICK i \in DOMAIN Line(pointer) : Line(pointer)[i] = r.snapshot
      BY <3>1 DEF InLine, Line
    <3>4. i # 1 /\ i \in 1 .. Len(Line(pointer)) /\ Len(Line(pointer)) \in Nat
      BY <3>2, <3>3, SnapFacts DEF LineOk, ReceiptOk
    <3>5. i \in 2 .. Len(Line(pointer))
      BY <3>4
    <3>6. snaps[Line(pointer)[i]].key = r.key /\ snaps[Line(pointer)[i]].body = r.body
      BY <3>2, <3>3 DEF ReceiptOk
    <3> QED
      BY <2>1, <3>1, <3>5, <3>6, TellRefines DEF Register!RegisterNext
  <2>5. ASSUME pointer' = pointer, told' = told
        PROVE  [Register!RegisterNext]_(Register!registerVars)
    BY <2>1, <2>5, InForceKept DEF Register!registerVars
  <2>6. \/ \E p \in Processes : MovePointer(p) \/ Return(p) \/ \E r \in receipts : RollbackAgain(p, r)
        \/ told' = told
    BY <2>1 DEF Next, vars, Start, Commit, ChangeAgent, Rollback, Prepare, StartValidation,
       AcquireLease, Acquire, FinishValidation, Die, UnderLock, Recover, Refuse, Bind,
       WriteSnapshot, WriteReceipt, AppendEvent
  <2>7. pointer' = pointer \/ \E p \in Processes : MovePointer(p)
    BY <2>1, PointerStep
  <2> QED
    BY <2>2, <2>3, <2>4, <2>5, <2>6, <2>7
<1> QED
  BY <1>1, <1>2, InvHolds, PTL DEF Spec, ImplementsRegister, Register!RegisterSpec

=============================================================================
