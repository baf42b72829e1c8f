-------------------------- MODULE CommandApi_proofs --------------------------
(***************************************************************************)
(* Proofs about the command endpoints, for any finite number of threads,   *)
(* any configurations, keys, requests and endpoints, with handlers that    *)
(* interleave at every step and servers that die at any point.             *)
(***************************************************************************)
EXTENDS CommandApi, ListLemmas

(* The handlers *)

\* What a handler under way has done by the step it has come to.
HandlerOK(h) ==
    /\ h.kind = "validate" => h.key \in Keys /\ h.shape \in Shapes /\ h.type \in Types
    /\ h.kind = "gate" => h.type \in GatedCommands
    /\ h.pc \in {"number", "enter"} => h.kind = "validate"
    /\ h.pc = "enter" => h.id # 0
    /\ h.pc \in {"record", "log", "latest", "validate", "gate"} =>
          h.type \in CommandType /\ h.record # 0
    /\ h.pc \in {"validate", "gate"} => h.kind = h.pc

\* Its entry is in the ledger.
Entered(h, list) ==
    h.kind = "validate" /\ h.pc \notin {"number", "enter"} =>
        \E n \in DOMAIN list : list[n].id = h.id

\* Its record is in the log.
Logged(h, log) ==
    h.pc \in {"latest", "validate", "gate"} => \E m \in DOMAIN log : log[m] = RecordOf(h)

HandlersOK ==
    \A t \in Threads : thread[t] # Idle =>
        HandlerOK(thread[t]) /\ Entered(thread[t], ledger) /\ Logged(thread[t], jsonl)

IndexKnown == \A k \in DOMAIN byKey : \E n \in DOMAIN ledger : ledger[n].id = byKey[k].id

TInv == TypeOK /\ HandlersOK /\ IndexKnown

\* The lists only grow, and an entry keeps its id.
Kept ==
    /\ \A n \in DOMAIN ledger : n \in DOMAIN ledger' /\ ledger'[n].id = ledger[n].id
    /\ \A m \in DOMAIN jsonl : m \in DOMAIN jsonl' /\ jsonl'[m] = jsonl[m]

\* record_decision finds the entry of the handler's command.
LEMMA EntryFound ==
    ASSUME NEW id, ledger \in Seq(Entry), \E n \in DOMAIN ledger : ledger[n].id = id
    PROVE  LET n == SelectInSeq(ledger, LAMBDA e : e.id = id) IN
           n \in DOMAIN ledger /\ ledger[n].id = id
<1> DEFINE I == {i \in 1 .. Len(ledger) : ledger[i].id = id}
<1>1. I \subseteq Nat /\ I # {}
  OBVIOUS
<1>2. SelectInSeq(ledger, LAMBDA e : e.id = id) = Min(I)
  BY <1>1 DEF SelectInSeq
<1>3. Min(I) \in I
  BY <1>1, LeastNumber
<1> QED
  BY <1>2, <1>3

\* A handler under way is a record of HandlerState.
LEMMA HandlerType ==
    ASSUME TInv, NEW t \in Threads, thread[t].pc # "idle"
    PROVE  /\ thread[t] \in HandlerState
           /\ HandlerOK(thread[t]) /\ Entered(thread[t], ledger) /\ Logged(thread[t], jsonl)
BY DEF TInv, TypeOK, HandlersOK, Idle

\* Its record is an audit record once it is numbered.
LEMMA RecordType ==
    ASSUME TInv, NEW t \in Threads, thread[t].pc \in {"record", "log", "latest"}
    PROVE  RecordOf(thread[t]) \in AuditRecord
BY HandlerType DEF HandlerOK, HandlerState, RecordOf, AuditRecord

\* Every thread but t stays where it is.
Others(t) == \A u \in Threads \ {t} : thread'[u] = thread[u]

\* A step that moves one handler keeps the other handlers' part of the invariant.
LEMMA HandlersKept ==
    ASSUME TInv, NEW t \in Threads, Others(t), Kept,
           thread'[t] # Idle =>
               /\ HandlerOK(thread'[t])
               /\ Entered(thread'[t], ledger') /\ Logged(thread'[t], jsonl')
    PROVE  HandlersOK'
<1> SUFFICES ASSUME NEW u \in Threads, thread'[u] # Idle
             PROVE  /\ HandlerOK(thread'[u])
                    /\ Entered(thread'[u], ledger') /\ Logged(thread'[u], jsonl')
  BY DEF HandlersOK
<1>1. CASE u = t
  BY <1>1
<1>2. CASE u # t
  <2>1. thread'[u] = thread[u]
    BY <1>2 DEF Others
  <2>2. HandlerOK(thread[u]) /\ Entered(thread[u], ledger) /\ Logged(thread[u], jsonl)
    BY <2>1 DEF TInv, HandlersOK
  <2>3. Entered(thread[u], ledger') /\ Logged(thread[u], jsonl')
    BY <2>2 DEF Entered, Logged, Kept
  <2> QED
    BY <2>1, <2>2, <2>3
<1> QED
  BY <1>1, <1>2

\* Where the threads are after one of them moved.
LEMMA Moved ==
    ASSUME TInv, NEW t \in Threads
    PROVE  \A s \in {Idle} \cup HandlerState : Go(t, s) =>
               /\ thread' \in [Threads -> {Idle} \cup HandlerState]
               /\ thread'[t] = s
               /\ Others(t)
BY DEF TInv, TypeOK, Go, Others

\* A call starts a handler and leaves the lists alone.
LEMMA CallTInv ==
    ASSUME TInv, NEW t \in Threads,
           (\E r \in Requests : Receive(t, r)) \/ (\E c \in GatedCommands : CallGated(t, c))
    PROVE  TInv'
<1> DEFINE Started(s) == HandlerOK(s) /\ Entered(s, ledger) /\ Logged(s, jsonl)
<1>1. UNCHANGED <<config, ledger, byKey, audit, jsonl, latest, performed>>
  BY DEF Receive, CallGated
<1>2. \E s \in HandlerState : Go(t, s) /\ Started(s)
  <2>1. ASSUME NEW c \in GatedCommands, CallGated(t, c)
        PROVE  \E s \in HandlerState : Go(t, s) /\ Started(s)
    <3> DEFINE g == Handler("evaluate", "gate", c, NoKey, NoKey)
    <3>1. g \in HandlerState
      BY DEF Handler, HandlerState
    <3>2. Started(g)
      BY DEF Handler, HandlerOK, Entered, Logged
    <3> QED
      BY <2>1, <3>1, <3>2 DEF CallGated
  <2>2. ASSUME NEW r \in Requests, Receive(t, r)
        PROVE  \E s \in HandlerState : Go(t, s) /\ Started(s)
    <3> DEFINE n == Handler("number", "validate", r.type, r.key, ShapeOf[r.payload])
               e == [Handler("evaluate", "validate", r.type, r.key, ShapeOf[r.payload])
                        EXCEPT !.id = byKey[r.key].id]
    <3>1. r.key \in Keys /\ r.type \in Types /\ ShapeOf[r.payload] \in Shapes
      BY ApiAssumption DEF Types, Shapes
    <3>2. CASE Go(t, n)
      <4>1. n \in HandlerState
        BY <3>1 DEF Handler, HandlerState
      <4>2. Started(n)
        BY <3>1 DEF Handler, HandlerOK, Entered, Logged
      <4> QED
        BY <3>2, <4>1, <4>2
    <3>3. CASE r.key \in DOMAIN byKey /\ Go(t, e)
      <4>1. byKey[r.key].id \in Nat
        BY <3>3 DEF TInv, TypeOK, Entry
      <4>2. \E m \in DOMAIN ledger : ledger[m].id = byKey[r.key].id
        BY <3>3 DEF TInv, IndexKnown
      <4>3. e \in HandlerState
        BY <3>1, <4>1 DEF Handler, HandlerState
      <4>4. Started(e)
        BY <3>1, <4>2 DEF Handler, HandlerOK, Entered, Logged
      <4> QED
        BY <3>3, <4>3, <4>4
    <3> QED
      BY <2>2, <3>2, <3>3 DEF Receive
  <2> QED
    BY <2>1, <2>2
<1>3. PICK s \in HandlerState : Go(t, s) /\ Started(s)
  BY <1>2
<1>4. /\ thread' \in [Threads -> {Idle} \cup HandlerState]
      /\ thread'[t] = s /\ Others(t)
  BY <1>3, Moved
<1>5. HandlersOK'
  BY <1>1, <1>3, <1>4, HandlersKept DEF Kept
<1> QED
  BY <1>1, <1>4, <1>5 DEF TInv, TypeOK, IndexKnown

\* The entry a handler writes, and where its decision goes.
LEMMA DecideFacts ==
    ASSUME TInv, NEW t \in Threads, Decide(t)
    PROVE  \E n \in DOMAIN ledger :
              LET u == Decided(ledger[n], thread[t]) IN
              /\ ledger[n].id = thread[t].id
              /\ u \in Entry /\ u.id = ledger[n].id
              /\ u.audit = thread[t].record
              /\ u.status = IF thread[t].accepted THEN "accepted" ELSE "rejected"
              /\ ledger' = [ledger EXCEPT ![n] = u]
              /\ byKey' = Indexed(u)
<1> DEFINE h == thread[t]
           n == SelectInSeq(ledger, LAMBDA e : e.id = h.id)
           u == Decided(ledger[n], h)
<1>1. /\ h \in HandlerState /\ h.pc = "validate" /\ h.kind = "validate"
      /\ \E m \in DOMAIN ledger : ledger[m].id = h.id
  BY HandlerType DEF Decide, At, HandlerOK, Entered
<1>2. n \in DOMAIN ledger /\ ledger[n].id = h.id
  BY <1>1, EntryFound DEF TInv, TypeOK
<1>3. ledger[n] \in Entry
  BY <1>2 DEF TInv, TypeOK
<1>4. u \in Entry /\ u.id = ledger[n].id /\ u.audit = h.record
      /\ u.status = IF h.accepted THEN "accepted" ELSE "rejected"
  BY <1>1, <1>3 DEF Decided, Entry, Status, HandlerState
<1>5. ledger' = [ledger EXCEPT ![n] = u] /\ byKey' = Indexed(u)
  BY DEF Decide
<1> QED
  BY <1>2, <1>4, <1>5

\* The index after an entry was put in.
LEMMA IndexedType ==
    ASSUME TInv, NEW e \in Entry
    PROVE  /\ DOMAIN Indexed(e) = {e.key} \cup DOMAIN byKey
           /\ DOMAIN Indexed(e) \subseteq Keys
           /\ Indexed(e) \in [DOMAIN Indexed(e) -> Entry]
           /\ \A k \in DOMAIN Indexed(e) :
                 Indexed(e)[k] = IF k = e.key THEN e ELSE byKey[k]
BY DEF Indexed, TInv, TypeOK, Entry

\* Every step of a handler keeps the invariant and what the lists have.
LEMMA HandlerStepTInv ==
    ASSUME TInv, NEW t \in Threads, HandlerStep(t)
    PROVE  TInv' /\ Kept
<1> DEFINE h == thread[t]
<1>1. /\ h \in HandlerState
      /\ HandlerOK(h) /\ Entered(h, ledger) /\ Logged(h, jsonl)
  BY HandlerType DEF HandlerStep, NumberEntry, EnterEntry, EvaluateUnknown, Evaluate, AppendRecord,
     AppendLog, WriteLatest, Decide, Perform, MalformedIntent, At
<1>2. /\ ledger \in Seq(Entry) /\ Len(ledger) \in Nat
      /\ audit \in Seq(AuditRecord) /\ Len(audit) \in Nat
      /\ jsonl \in Seq(AuditRecord) /\ latest \in Seq(AuditRecord)
  BY DEF TInv, TypeOK
<1>3. CASE NumberEntry(t)
  <2> DEFINE s == [h EXCEPT !.pc = "enter", !.id = Len(ledger) + 1]
  <2>1. Go(t, s) /\ UNCHANGED <<config, ledger, byKey, audit, jsonl, latest, performed>>
    BY <1>3 DEF NumberEntry
  <2>0. h.pc = "number" /\ Len(ledger) + 1 \in Nat \ {0}
    BY <1>2, <1>3 DEF NumberEntry, At
  <2>2. s \in HandlerState /\ HandlerOK(s) /\ Entered(s, ledger) /\ Logged(s, jsonl)
    <3>1. s \in HandlerState
      BY <1>1, <2>0 DEF HandlerState
    <3>2. HandlerOK(s)
      BY <1>1, <2>0 DEF HandlerState, HandlerOK
    <3> QED
      BY <1>1, <3>1, <3>2 DEF HandlerState, Entered, Logged
  <2>3. thread' \in [Threads -> {Idle} \cup HandlerState] /\ thread'[t] = s /\ Others(t)
    BY <2>1, <2>2, Moved
  <2>4. Kept
    BY <2>1 DEF Kept
  <2>5. HandlersOK'
    BY <2>1, <2>2, <2>3, <2>4, HandlersKept
  <2> QED
    BY <2>1, <2>3, <2>4, <2>5 DEF TInv, TypeOK, IndexKnown
<1>4. CASE EnterEntry(t)
  <2> DEFINE e == [id |-> h.id, key |-> h.key, type |-> h.type, shape |-> h.shape,
                   status |-> "received", audit |-> 0]
             s == [h EXCEPT !.pc = "evaluate"]
  <2>1. /\ Go(t, s) /\ ledger' = Append(ledger, e) /\ byKey' = Indexed(e)
        /\ UNCHANGED <<config, audit, jsonl, latest, performed>>
    BY <1>4 DEF EnterEntry, GoTo
  <2>2. h.pc = "enter" /\ h.kind = "validate"
    BY <1>1, <1>4 DEF EnterEntry, At, HandlerOK
  <2>3. e \in Entry
    BY <1>1, <2>2 DEF HandlerOK, HandlerState, Entry, Status
  <2>4. /\ ledger' \in Seq(Entry)
        /\ DOMAIN ledger' = 1 .. Len(ledger) + 1 /\ DOMAIN ledger = 1 .. Len(ledger)
        /\ ledger'[Len(ledger) + 1] = e
        /\ \A n \in DOMAIN ledger : ledger'[n] = ledger[n]
    BY <1>2, <2>1, <2>3, AppendElements
  <2>5. Kept
    BY <1>2, <2>1, <2>4 DEF Kept
  <2>6. s \in HandlerState /\ HandlerOK(s) /\ Logged(s, jsonl')
    BY <1>1, <2>2 DEF HandlerState, HandlerOK, Logged
  <2>7. Entered(s, ledger')
    <3>1. s.id = h.id /\ e.id = h.id /\ e.type = h.type /\ s.type = h.type
      BY <1>1, <2>2 DEF HandlerState
    <3>2. Len(ledger) + 1 \in DOMAIN ledger'
      BY <1>2, <2>4
    <3> QED
      BY <2>4, <3>1, <3>2 DEF Entered
  <2>8. thread' \in [Threads -> {Idle} \cup HandlerState] /\ thread'[t] = s /\ Others(t)
    BY <2>1, <2>6, Moved
  <2>9. HandlersOK'
    BY <2>5, <2>6, <2>7, <2>8, HandlersKept
  <2>10. IndexKnown'
    <3> SUFFICES ASSUME NEW k \in DOMAIN byKey'
                 PROVE  \E n \in DOMAIN ledger' : ledger'[n].id = byKey'[k].id
      BY DEF IndexKnown
    <3>1. byKey'[k] = IF k = e.key THEN e ELSE byKey[k]
      BY <2>1, <2>3, IndexedType
    <3>2. k = e.key \/ k \in DOMAIN byKey
      BY <2>1, <2>3, IndexedType
    <3>3. CASE k = e.key
      <4>1. Len(ledger) + 1 \in DOMAIN ledger'
        BY <1>2, <2>4
      <4> QED
        BY <2>4, <3>1, <3>3, <4>1
    <3>4. CASE k # e.key /\ k \in DOMAIN byKey
      <4>1. PICK n \in DOMAIN ledger : ledger[n].id = byKey[k].id
        BY <3>4 DEF TInv, IndexKnown
      <4> QED
        BY <2>5, <3>1, <3>4, <4>1 DEF Kept
    <3> QED
      BY <3>2, <3>3, <3>4
  <2>11. DOMAIN byKey' \subseteq Keys /\ byKey' \in [DOMAIN byKey' -> Entry]
    BY <2>1, <2>3, IndexedType
  <2> QED
    BY <2>1, <2>4, <2>5, <2>8, <2>9, <2>10, <2>11 DEF TInv, TypeOK
<1>5. CASE EvaluateUnknown(t) \/ Perform(t) \/ MalformedIntent(t)
  <2>1. Go(t, Idle) /\ UNCHANGED <<config, ledger, byKey, audit, jsonl, latest>>
    BY <1>5 DEF EvaluateUnknown, Perform, MalformedIntent
  <2>2. thread' \in [Threads -> {Idle} \cup HandlerState] /\ thread'[t] = Idle /\ Others(t)
    BY <2>1, Moved
  <2>3. Kept
    BY <2>1 DEF Kept
  <2>4. HandlersOK'
    BY <2>2, <2>3, HandlersKept
  <2>5. performed' \in [GatedCommands \cup UngatedCommands -> Nat]
    <3>1. CASE Perform(t)
      <4>1. h.type \in GatedCommands
        BY <1>1, <3>1 DEF Perform, At, HandlerOK
      <4> QED
        BY <3>1, <4>1 DEF Perform, TInv, TypeOK
    <3> QED
      BY <1>5, <3>1 DEF EvaluateUnknown, MalformedIntent, TInv, TypeOK
  <2> QED
    BY <2>1, <2>2, <2>3, <2>4, <2>5 DEF TInv, TypeOK, IndexKnown
<1>6. CASE Evaluate(t)
  <2> DEFINE s == [h EXCEPT !.pc = "record", !.record = Len(audit) + 1, !.accepted = Verdict(h)]
  <2>1. Go(t, s) /\ UNCHANGED <<config, ledger, byKey, audit, jsonl, latest, performed>>
    BY <1>6 DEF Evaluate
  <2>2. \A v \in BOOLEAN : [h EXCEPT !.pc = "record", !.record = Len(audit) + 1, !.accepted = v]
                               \in HandlerState
    <3>1. Len(audit) + 1 \in Nat
      BY <1>2
    <3>2. \A n \in Nat, v \in BOOLEAN :
              [h EXCEPT !.pc = "record", !.record = n, !.accepted = v] \in HandlerState
      BY <1>1 DEF HandlerState
    <3> QED
      BY <3>1, <3>2
  <2>3. s \in HandlerState
    <3>1. Verdict(h) \in BOOLEAN
      BY DEF Verdict, EvaluateCommand
    <3> QED
      BY <2>2, <3>1, Zenon
  <2>4. HandlerOK(s) /\ Entered(s, ledger) /\ Logged(s, jsonl)
    BY <1>1, <1>2, <1>6 DEF Evaluate, At, HandlerState, HandlerOK, Entered, Logged
  <2>5. thread' \in [Threads -> {Idle} \cup HandlerState] /\ thread'[t] = s /\ Others(t)
    BY <2>1, <2>3, Moved
  <2>6. Kept
    BY <2>1 DEF Kept
  <2>7. HandlersOK'
    BY <2>1, <2>4, <2>5, <2>6, HandlersKept
  <2> QED
    BY <2>1, <2>5, <2>6, <2>7 DEF TInv, TypeOK, IndexKnown
<1>7. CASE AppendRecord(t)
  <2> DEFINE s == [h EXCEPT !.pc = "log"]
  <2>1. /\ Go(t, s) /\ audit' = Append(audit, RecordOf(h))
        /\ UNCHANGED <<config, ledger, byKey, jsonl, latest, performed>>
    BY <1>7 DEF AppendRecord, GoTo
  <2>2. audit' \in Seq(AuditRecord)
    BY <1>2, <1>7, <2>1, RecordType, AppendElements DEF AppendRecord, At
  <2>3. s \in HandlerState /\ HandlerOK(s) /\ Entered(s, ledger) /\ Logged(s, jsonl)
    BY <1>1, <1>7 DEF AppendRecord, At, HandlerState, HandlerOK, Entered, Logged
  <2>4. thread' \in [Threads -> {Idle} \cup HandlerState] /\ thread'[t] = s /\ Others(t)
    BY <2>1, <2>3, Moved
  <2>5. Kept
    BY <2>1 DEF Kept
  <2>6. HandlersOK'
    BY <2>1, <2>3, <2>4, <2>5, HandlersKept
  <2> QED
    BY <2>1, <2>2, <2>4, <2>5, <2>6 DEF TInv, TypeOK, IndexKnown
<1>8. CASE AppendLog(t)
  <2> DEFINE s == [h EXCEPT !.pc = "latest"]
  <2>1. /\ Go(t, s) /\ jsonl' = Append(jsonl, RecordOf(h))
        /\ UNCHANGED <<config, ledger, byKey, audit, latest, performed>>
    BY <1>8 DEF AppendLog, GoTo
  <2>2. /\ jsonl' \in Seq(AuditRecord)
        /\ Len(jsonl) + 1 \in DOMAIN jsonl' /\ jsonl'[Len(jsonl) + 1] = RecordOf(h)
        /\ \A m \in DOMAIN jsonl : m \in DOMAIN jsonl' /\ jsonl'[m] = jsonl[m]
    BY <1>2, <1>8, <2>1, RecordType, AppendElements DEF AppendLog, At
  <2>3. s \in HandlerState /\ HandlerOK(s) /\ Entered(s, ledger) /\ RecordOf(s) = RecordOf(h)
    BY <1>1, <1>8 DEF AppendLog, At, HandlerState, HandlerOK, Entered, RecordOf
  <2>4. Logged(s, jsonl')
    BY <2>2, <2>3 DEF Logged
  <2>5. thread' \in [Threads -> {Idle} \cup HandlerState] /\ thread'[t] = s /\ Others(t)
    BY <2>1, <2>3, Moved
  <2>6. Kept
    BY <2>1, <2>2 DEF Kept
  <2>7. HandlersOK'
    BY <2>1, <2>3, <2>4, <2>5, <2>6, HandlersKept
  <2> QED
    BY <2>1, <2>2, <2>5, <2>6, <2>7 DEF TInv, TypeOK, IndexKnown
<1>9. CASE WriteLatest(t)
  <2> DEFINE s == [h EXCEPT !.pc = h.kind]
  <2>1. /\ Go(t, s) /\ latest' = audit
        /\ UNCHANGED <<config, ledger, byKey, audit, jsonl, performed>>
    BY <1>9 DEF WriteLatest, GoTo
  <2>2. s \in HandlerState /\ HandlerOK(s) /\ Entered(s, ledger) /\ RecordOf(s) = RecordOf(h)
    BY <1>1, <1>9 DEF WriteLatest, At, HandlerState, HandlerOK, Entered, RecordOf
  <2>3. Logged(s, jsonl)
    BY <1>1, <1>9, <2>2 DEF WriteLatest, At, Logged
  <2>4. thread' \in [Threads -> {Idle} \cup HandlerState] /\ thread'[t] = s /\ Others(t)
    BY <2>1, <2>2, Moved
  <2>5. Kept
    BY <2>1 DEF Kept
  <2>6. HandlersOK'
    BY <2>1, <2>2, <2>3, <2>4, <2>5, HandlersKept
  <2> QED
    BY <2>1, <2>4, <2>5, <2>6 DEF TInv, TypeOK, IndexKnown
<1>10. CASE Decide(t)
  <2>1. /\ Go(t, Idle)
        /\ UNCHANGED <<config, audit, jsonl, latest, performed>>
    BY <1>10 DEF Decide
  <2>2. PICK n \in DOMAIN ledger : \E e \in Entry :
           /\ e.id = ledger[n].id
           /\ ledger' = [ledger EXCEPT ![n] = e] /\ byKey' = Indexed(e)
    BY <1>10, DecideFacts
  <2>3. PICK e \in Entry :
           /\ e.id = ledger[n].id
           /\ ledger' = [ledger EXCEPT ![n] = e] /\ byKey' = Indexed(e)
    BY <2>2
  <2>4. /\ ledger' \in Seq(Entry) /\ DOMAIN ledger' = DOMAIN ledger
        /\ \A m \in DOMAIN ledger : ledger'[m] = IF m = n THEN e ELSE ledger[m]
    BY <1>2, <2>3, ExceptElements
  <2>5. Kept
    BY <2>1, <2>3, <2>4 DEF Kept
  <2>6. thread' \in [Threads -> {Idle} \cup HandlerState] /\ thread'[t] = Idle /\ Others(t)
    BY <2>1, Moved
  <2>7. HandlersOK'
    BY <2>5, <2>6, HandlersKept
  <2>8. IndexKnown'
    <3> SUFFICES ASSUME NEW k \in DOMAIN byKey'
                 PROVE  \E m \in DOMAIN ledger' : ledger'[m].id = byKey'[k].id
      BY DEF IndexKnown
    <3>1. byKey'[k] = IF k = e.key THEN e ELSE byKey[k]
      BY <2>3, IndexedType
    <3>2. k = e.key \/ k \in DOMAIN byKey
      BY <2>3, IndexedType
    <3>3. \A m \in DOMAIN ledger : m \in DOMAIN ledger' /\ ledger'[m].id = ledger[m].id
      BY <2>3, <2>4
    <3> QED
      BY <2>3, <3>1, <3>2, <3>3 DEF TInv, IndexKnown
  <2>9. DOMAIN byKey' \subseteq Keys /\ byKey' \in [DOMAIN byKey' -> Entry]
    BY <2>3, IndexedType
  <2> QED
    BY <2>1, <2>4, <2>5, <2>6, <2>7, <2>8, <2>9 DEF TInv, TypeOK
<1> QED
  BY <1>3, <1>4, <1>5, <1>6, <1>7, <1>8, <1>9, <1>10 DEF HandlerStep

\* A restarted server has no handlers and serves the log.
LEMMA RestartTInv == ASSUME TInv, Restart PROVE TInv'
<1>1. ledger' = <<>> /\ byKey' = <<>> /\ thread' = [t \in Threads |-> Idle]
  BY DEF Restart
<1>2. <<>> \in Seq(Entry) /\ DOMAIN <<>> = {} /\ <<>> \in [{} -> Entry]
  OBVIOUS
<1>3. HandlersOK'
  BY <1>1 DEF HandlersOK
<1>4. IndexKnown'
  BY <1>1, <1>2 DEF IndexKnown
<1>5. TypeOK'
  BY <1>1, <1>2 DEF Restart, TInv, TypeOK
<1> QED
  BY <1>3, <1>4, <1>5 DEF TInv

LEMMA NextTInv == TInv /\ [Next]_vars => TInv'
<1> SUFFICES ASSUME TInv, [Next]_vars PROVE TInv'
  OBVIOUS
<1>1. CASE UNCHANGED vars
  BY <1>1 DEF vars, TInv, TypeOK, HandlersOK, IndexKnown
<1>2. ASSUME NEW t \in Threads,
             \/ \E r \in Requests : Receive(t, r)
             \/ \E c \in GatedCommands \cap Endpoints : CallGated(t, c)
      PROVE  TInv'
  BY <1>2, CallTInv
<1>3. ASSUME NEW t \in Threads, HandlerStep(t) PROVE TInv'
  BY <1>3, HandlerStepTInv
<1>4. ASSUME NEW c \in UngatedCommands, CallUngated(c) PROVE TInv'
  BY <1>4 DEF CallUngated, TInv, TypeOK, HandlersOK, IndexKnown
<1>5. CASE Restart
  BY <1>5, RestartTInv
<1> QED
  BY <1>1, <1>2, <1>3, <1>4, <1>5 DEF Next

LEMMA InitTInv == Init => TInv
<1> SUFFICES ASSUME Init PROVE TInv
  OBVIOUS
<1>1. <<>> \in Seq(Entry) /\ <<>> \in Seq(AuditRecord) /\ DOMAIN <<>> = {} /\ <<>> \in [{} -> Entry]
  OBVIOUS
<1>2. TypeOK
  BY <1>1 DEF Init, TypeOK
<1>3. HandlersOK /\ IndexKnown
  BY <1>1 DEF Init, HandlersOK, IndexKnown
<1> QED
  BY <1>2, <1>3 DEF TInv

\* What a handler has done so far is where it left it, whatever the other handlers
\* did since: its entry has its id, its record is in the log.
THEOREM HandlersCorrect == Spec => []TInv
BY InitTInv, NextTInv, PTL DEF Spec

\* The lists, the index and the handlers of the endpoints keep their types.
THEOREM TypeCorrect == Spec => []TypeOK
BY HandlersCorrect, PTL DEF TInv

-----------------------------------------------------------------------------
(* Decisions *)

\* An entry is marked decided only when the log has its record: the handler has
\* logged it two steps before, and the log never loses a line.
THEOREM DecisionsDurableCorrect == Spec => []DecisionsDurable
<1>1. Init => DecisionsDurable
  BY DEF Init, DecisionsDurable
<1>2. TInv /\ DecisionsDurable /\ [Next]_vars => DecisionsDurable'
  <2> SUFFICES ASSUME TInv, DecisionsDurable, [Next]_vars,
                      NEW n \in DOMAIN ledger', ledger'[n].status # "received"
               PROVE  \E m \in DOMAIN jsonl' :
                          jsonl'[m].id = ledger'[n].audit
                          /\ jsonl'[m].decision = ledger'[n].status
    BY DEF DecisionsDurable
  <2>1. ASSUME n \in DOMAIN ledger, ledger'[n] = ledger[n],
               \A m \in DOMAIN jsonl : m \in DOMAIN jsonl' /\ jsonl'[m] = jsonl[m]
        PROVE  \E m \in DOMAIN jsonl' :
                   jsonl'[m].id = ledger'[n].audit /\ jsonl'[m].decision = ledger'[n].status
    BY <2>1 DEF DecisionsDurable
  <2>2. CASE ledger' = ledger /\ jsonl' = jsonl
    BY <2>1, <2>2
  <2>3. ASSUME NEW t \in Threads, HandlerStep(t)
        PROVE  \E m \in DOMAIN jsonl' :
                   jsonl'[m].id = ledger'[n].audit /\ jsonl'[m].decision = ledger'[n].status
    <3>0. Kept
      BY <2>3, HandlerStepTInv
    <3>1. CASE EnterEntry(t)
      <4> DEFINE e == [id |-> thread[t].id, key |-> thread[t].key, type |-> thread[t].type,
                       shape |-> thread[t].shape, status |-> "received", audit |-> 0]
      <4>1. ledger' = Append(ledger, e) /\ ledger \in Seq(Entry)
        BY <3>1 DEF EnterEntry, TInv, TypeOK
      <4>2. n # Len(ledger) + 1
        BY <4>1
      <4> QED
        BY <2>1, <3>0, <4>1, <4>2 DEF Kept
    <3>2. CASE Decide(t)
      <4>1. PICK k \in DOMAIN ledger : \E u \in Entry :
               /\ u.audit = thread[t].record
               /\ u.status = IF thread[t].accepted THEN "accepted" ELSE "rejected"
               /\ ledger' = [ledger EXCEPT ![k] = u]
        BY <3>2, DecideFacts
      <4>2. CASE n = k
        <5>1. thread[t].pc = "validate" /\ Logged(thread[t], jsonl) /\ jsonl' = jsonl
          BY <3>2, HandlerType DEF Decide, At
        <5>2. PICK m \in DOMAIN jsonl : jsonl[m] = RecordOf(thread[t])
          BY <5>1 DEF Logged
        <5>3. /\ ledger'[n].audit = thread[t].record
              /\ ledger'[n].status = IF thread[t].accepted THEN "accepted" ELSE "rejected"
          BY <4>1, <4>2 DEF TInv, TypeOK
        <5> QED
          BY <5>1, <5>2, <5>3 DEF RecordOf
      <4>3. CASE n # k
        <5>1. n \in DOMAIN ledger /\ ledger'[n] = ledger[n]
          BY <4>1, <4>3 DEF TInv, TypeOK
        <5> QED
          BY <2>1, <3>0, <5>1 DEF Kept
      <4> QED
        BY <4>2, <4>3
    <3>3. CASE ~EnterEntry(t) /\ ~Decide(t)
      <4>1. ledger' = ledger
        BY <2>3, <3>3 DEF HandlerStep, NumberEntry, EvaluateUnknown, Evaluate, AppendRecord,
           AppendLog, WriteLatest, Perform, MalformedIntent
      <4> QED
        BY <2>1, <3>0, <4>1 DEF Kept
    <3> QED
      BY <3>1, <3>2, <3>3
  <2>4. CASE Restart
    BY <2>4 DEF Restart
  <2> QED
    BY <2>2, <2>3, <2>4 DEF Next, Receive, CallGated, CallUngated, vars
<1> QED
  BY <1>1, <1>2, HandlersCorrect, PTL DEF Spec

-----------------------------------------------------------------------------
(* Effects *)

\* A handler that carries an acceptance of c which is in the log.
Passing(h, c) ==
    h.pc \in {"latest", "gate"} /\ h.kind = "gate" /\ h.type = c /\ h.accepted

Passed(c) == {t \in Threads : Passing(thread[t], c)}

AcceptedRows(c) == {n \in DOMAIN jsonl : jsonl[n].type = c /\ jsonl[n].decision = "accepted"}

\* Every effect of a gated command, and every handler about to have one, has an
\* accepted record of its own in the log.
EffectsCovered ==
    \A c \in GatedCommands :
        performed[c] + Cardinality(Passed(c)) <= Cardinality(AcceptedRows(c))

LEMMA PassedFinite ==
    ASSUME NEW c
    PROVE  IsFiniteSet(Passed(c)) /\ Cardinality(Passed(c)) \in Nat
<1>1. Passed(c) \in SUBSET Threads /\ IsFiniteSet(Threads)
  BY ApiAssumption DEF Passed
<1> QED
  BY <1>1, FS_Subset, FS_CardinalityType

LEMMA RowsFinite ==
    ASSUME TypeOK, NEW c
    PROVE  IsFiniteSet(AcceptedRows(c)) /\ Cardinality(AcceptedRows(c)) \in Nat
<1>1. AcceptedRows(c) \in SUBSET (1 .. Len(jsonl)) /\ Len(jsonl) \in Nat
  BY DEF AcceptedRows, TypeOK
<1>2. IsFiniteSet(1 .. Len(jsonl))
  BY <1>1, FS_Interval
<1> QED
  BY <1>1, <1>2, FS_Subset, FS_CardinalityType

\* A step of one handler changes the count of acceptances carried by what it does
\* to its own.
LEMMA PassedMoved ==
    ASSUME NEW t \in Threads, Others(t), NEW c
    PROVE  Cardinality(Passed(c)') =
               Cardinality(Passed(c)) + (IF Passing(thread'[t], c) THEN 1 ELSE 0)
                                      - (IF Passing(thread[t], c) THEN 1 ELSE 0)
<1>1. Passed(c)' \ {t} = Passed(c) \ {t}
  BY DEF Passed, Others
<1>2. /\ t \in Passed(c)' <=> Passing(thread'[t], c)
      /\ t \in Passed(c) <=> Passing(thread[t], c)
  BY DEF Passed
<1> QED
  BY <1>1, <1>2, PassedFinite, CountMoved

\* A line added to the log adds one row if it is an acceptance of c.
LEMMA RowsAppended ==
    ASSUME TypeOK, NEW t \in Threads, jsonl' = Append(jsonl, RecordOf(thread[t])), NEW c
    PROVE  Cardinality(AcceptedRows(c)') =
               Cardinality(AcceptedRows(c))
                   + (IF thread[t].type = c /\ thread[t].accepted THEN 1 ELSE 0)
<1> DEFINE x == Len(jsonl) + 1
<1>1. /\ Len(jsonl) \in Nat /\ DOMAIN jsonl = 1 .. Len(jsonl) /\ DOMAIN jsonl' = 1 .. x
      /\ jsonl'[x] = RecordOf(thread[t])
      /\ \A n \in DOMAIN jsonl : jsonl'[n] = jsonl[n]
  BY DEF TypeOK
<1>2. x \notin AcceptedRows(c)
  BY <1>1 DEF AcceptedRows
<1>3. AcceptedRows(c)' \ {x} = AcceptedRows(c) \ {x}
  BY <1>1 DEF AcceptedRows
<1>4. x \in AcceptedRows(c)' <=> thread[t].type = c /\ thread[t].accepted
  BY <1>1 DEF AcceptedRows, RecordOf
<1> QED
  BY <1>2, <1>3, <1>4, RowsFinite, CountMoved

\* A handler's step performs only what it carries, and carries only what it logged.
LEMMA StepCovered ==
    ASSUME TInv, EffectsCovered, NEW t \in Threads, HandlerStep(t)
    PROVE  EffectsCovered'
<1> DEFINE h == thread[t]
<1> SUFFICES ASSUME NEW c \in GatedCommands
             PROVE  performed'[c] + Cardinality(Passed(c)') <= Cardinality(AcceptedRows(c)')
  BY DEF EffectsCovered
<1>1. /\ performed[c] \in Nat /\ performed \in [GatedCommands \cup UngatedCommands -> Nat]
      /\ Cardinality(Passed(c)) \in Nat /\ Cardinality(AcceptedRows(c)) \in Nat
      /\ performed[c] + Cardinality(Passed(c)) <= Cardinality(AcceptedRows(c))
  BY PassedFinite, RowsFinite DEF EffectsCovered, TInv, TypeOK
<1>2. h \in HandlerState /\ HandlerOK(h)
  BY HandlerType DEF HandlerStep, NumberEntry, EnterEntry, EvaluateUnknown, Evaluate, AppendRecord,
     AppendLog, WriteLatest, Decide, Perform, MalformedIntent, At
<1>3. Others(t)
  BY DEF HandlerStep, NumberEntry, EnterEntry, EvaluateUnknown, Evaluate, AppendRecord,
     AppendLog, WriteLatest, Decide, Perform, MalformedIntent, Go, GoTo, Others, TInv, TypeOK
<1>4. Cardinality(Passed(c)') =
          Cardinality(Passed(c)) + (IF Passing(thread'[t], c) THEN 1 ELSE 0)
                                 - (IF Passing(h, c) THEN 1 ELSE 0)
  BY <1>3, PassedMoved
<1>5. CASE NumberEntry(t) \/ EnterEntry(t) \/ EvaluateUnknown(t) \/ Evaluate(t) \/ AppendRecord(t)
           \/ Decide(t) \/ WriteLatest(t)
  <2>1. performed' = performed /\ jsonl' = jsonl
    BY <1>5 DEF NumberEntry, EnterEntry, EvaluateUnknown, Evaluate, AppendRecord, Decide, WriteLatest
  <2>2. Passing(thread'[t], c) => Passing(h, c)
    <3>1. CASE WriteLatest(t)
      <4>1. h.pc = "latest" /\ thread'[t] = [h EXCEPT !.pc = h.kind]
        BY <3>1 DEF WriteLatest, At, Go, GoTo, TInv, TypeOK
      <4> QED
        BY <1>2, <4>1 DEF Passing, HandlerState
    <3>2. CASE ~WriteLatest(t)
      <4>1. thread'[t].pc \in {"idle", "enter", "evaluate", "record", "log"}
        <5> USE <1>2 DEF Go, GoTo, Idle, HandlerState, TInv, TypeOK
        <5>1. CASE NumberEntry(t)
          BY <5>1 DEF NumberEntry
        <5>2. CASE EnterEntry(t) \/ AppendRecord(t)
          BY <5>2 DEF EnterEntry, AppendRecord
        <5>3. CASE Evaluate(t)
          BY <5>3 DEF Evaluate
        <5>4. CASE EvaluateUnknown(t) \/ Decide(t)
          <6>1. Go(t, Idle)
            BY <5>4 DEF EvaluateUnknown, Decide
          <6> QED
            BY <6>1
        <5> QED
          BY <1>5, <3>2, <5>1, <5>2, <5>3, <5>4
      <4> QED
        BY <4>1 DEF Passing
    <3> QED
      BY <3>1, <3>2
  <2>3. AcceptedRows(c)' = AcceptedRows(c)
    BY <2>1 DEF AcceptedRows
  <2> QED
    BY <1>1, <1>4, <2>1, <2>2, <2>3
<1>6. CASE AppendLog(t)
  <2>1. /\ performed' = performed /\ jsonl' = Append(jsonl, RecordOf(h))
        /\ h.pc = "log" /\ thread'[t] = [h EXCEPT !.pc = "latest"]
    BY <1>6 DEF AppendLog, At, Go, GoTo, TInv, TypeOK
  <2>2. Cardinality(AcceptedRows(c)') =
            Cardinality(AcceptedRows(c)) + (IF h.type = c /\ h.accepted THEN 1 ELSE 0)
    BY <2>1, RowsAppended DEF TInv
  <2>3. Passing(thread'[t], c) => h.type = c /\ h.accepted
    BY <1>2, <2>1 DEF Passing, HandlerState
  <2>4. ~Passing(h, c)
    BY <2>1 DEF Passing
  <2> QED
    BY <1>1, <1>4, <2>1, <2>2, <2>3, <2>4
<1>7. CASE Perform(t) \/ MalformedIntent(t)
  <2>1. /\ h.pc = "gate" /\ thread'[t] = Idle /\ jsonl' = jsonl
        /\ performed' = IF Perform(t) /\ h.accepted
                        THEN [performed EXCEPT ![h.type] = @ + 1] ELSE performed
    BY <1>7 DEF Perform, MalformedIntent, At, Go, TInv, TypeOK
  <2>2. h.kind = "gate" /\ ~Passing(thread'[t], c)
    BY <1>2, <2>1 DEF HandlerOK, Passing, Idle
  <2>3. AcceptedRows(c)' = AcceptedRows(c)
    BY <2>1 DEF AcceptedRows
  <2>4. CASE h.type = c /\ h.accepted
    <3>1. Passing(h, c)
      BY <2>1, <2>2, <2>4 DEF Passing
    <3>2. performed'[c] <= performed[c] + 1 /\ performed'[c] \in Nat
      BY <1>1, <2>1, <2>4
    <3> QED
      BY <1>1, <1>4, <2>2, <2>3, <3>1, <3>2
  <2>5. CASE ~(h.type = c /\ h.accepted)
    <3>1. ~Passing(h, c)
      BY <2>5 DEF Passing
    <3>2. performed'[c] = performed[c]
      BY <1>1, <2>1, <2>5
    <3> QED
      BY <1>1, <1>4, <2>2, <2>3, <3>1, <3>2
  <2> QED
    BY <2>4, <2>5
<1> QED
  BY <1>5, <1>6, <1>7 DEF HandlerStep

\* No gated command takes effect more often than the log has it accepted, for any
\* number of threads and any crashes: a handler logs its acceptance before it
\* performs, and performs once.
THEOREM GatedEffectsLoggedCorrect == Spec => []GatedEffectsLogged
<1>1. Init => EffectsCovered
  <2> SUFFICES ASSUME Init, NEW c \in GatedCommands
               PROVE  performed[c] + Cardinality(Passed(c)) <= Cardinality(AcceptedRows(c))
    BY DEF EffectsCovered
  <2>1. Passed(c) = {} /\ AcceptedRows(c) = {} /\ performed[c] = 0
    BY DEF Init, Passed, Passing, Idle, AcceptedRows
  <2> QED
    BY <2>1, FS_EmptySet
<1>2. TInv /\ EffectsCovered /\ [Next]_vars => EffectsCovered'
  <2> SUFFICES ASSUME TInv, EffectsCovered, [Next]_vars PROVE EffectsCovered'
    OBVIOUS
  <2>1. ASSUME NEW t \in Threads, HandlerStep(t) PROVE EffectsCovered'
    BY <2>1, StepCovered
  <2>2. ASSUME NEW t \in Threads,
               \/ \E r \in Requests : Receive(t, r)
               \/ \E c \in GatedCommands \cap Endpoints : CallGated(t, c)
        PROVE  EffectsCovered'
    <3>1. /\ At(t, "idle") /\ performed' = performed /\ jsonl' = jsonl
          /\ Others(t) /\ thread'[t].pc \in {"number", "evaluate"}
      <4> USE DEF Handler, Go, Others, TInv, TypeOK
      <4>1. ASSUME NEW r \in Requests, Receive(t, r) PROVE <3>1
        BY <4>1 DEF Receive
      <4>2. ASSUME NEW c \in GatedCommands, CallGated(t, c) PROVE <3>1
        BY <4>2 DEF CallGated
      <4> QED
        BY <2>2, <4>1, <4>2
    <3>2. \A c \in GatedCommands : Passed(c)' = Passed(c) /\ AcceptedRows(c)' = AcceptedRows(c)
      BY <3>1 DEF At, Passed, Passing, Others, AcceptedRows
    <3> QED
      BY <3>1, <3>2 DEF EffectsCovered
  <2>3. ASSUME NEW c \in UngatedCommands, CallUngated(c) PROVE EffectsCovered'
    <3>1. \A g \in GatedCommands : performed'[g] = performed[g]
      BY <2>3 DEF CallUngated, GatedCommands, UngatedCommands, TInv, TypeOK
    <3>2. \A g \in GatedCommands : Passed(g)' = Passed(g) /\ AcceptedRows(g)' = AcceptedRows(g)
      BY <2>3 DEF CallUngated, Passed, AcceptedRows
    <3> QED
      BY <3>1, <3>2 DEF EffectsCovered
  <2>4. CASE Restart
    <3> SUFFICES ASSUME NEW c \in GatedCommands
                 PROVE  performed'[c] + Cardinality(Passed(c)') <= Cardinality(AcceptedRows(c)')
      BY DEF EffectsCovered
    <3>1. Passed(c)' = {} /\ performed' = performed /\ AcceptedRows(c)' = AcceptedRows(c)
      BY <2>4 DEF Restart, Passed, Passing, Idle, AcceptedRows
    <3>2. /\ performed[c] \in Nat /\ Cardinality(Passed(c)) \in Nat
          /\ Cardinality(AcceptedRows(c)) \in Nat
          /\ performed[c] + Cardinality(Passed(c)) <= Cardinality(AcceptedRows(c))
      BY PassedFinite, RowsFinite DEF EffectsCovered, TInv, TypeOK
    <3> QED
      BY <3>1, <3>2, FS_EmptySet
  <2>5. CASE UNCHANGED vars
    BY <2>5 DEF vars, EffectsCovered, Passed, AcceptedRows
  <2> QED
    BY <2>1, <2>2, <2>3, <2>4, <2>5 DEF Next
<1>3. TInv /\ EffectsCovered => GatedEffectsLogged
  <2> SUFFICES ASSUME TInv, EffectsCovered, NEW c \in GatedCommands
               PROVE  performed[c] <=
                          Rows(jsonl, LAMBDA r : r.type = c /\ r.decision = "accepted")
    BY DEF GatedEffectsLogged
  <2>1. Rows(jsonl, LAMBDA r : r.type = c /\ r.decision = "accepted")
            = Cardinality(AcceptedRows(c))
    BY DEF Rows, AcceptedRows
  <2>2. /\ performed[c] \in Nat /\ Cardinality(Passed(c)) \in Nat
        /\ Cardinality(AcceptedRows(c)) \in Nat
        /\ performed[c] + Cardinality(Passed(c)) <= Cardinality(AcceptedRows(c))
    BY PassedFinite, RowsFinite DEF EffectsCovered, TInv, TypeOK
  <2> QED
    BY <2>1, <2>2
<1> QED
  BY <1>1, <1>2, <1>3, HandlersCorrect, PTL DEF Spec

-----------------------------------------------------------------------------
(* The audit log *)

\* The handlers that carry r: it is served and not yet in the log.
Carrying(r) == {t \in Threads : thread[t].pc = "log" /\ RecordOf(thread[t]) = r}

Places(log, r) == {n \in DOMAIN log : log[n] = r}

\* Whatever is in the log or about to be is served as often.
LogCovered ==
    \A r \in AuditRecord :
        Cardinality(Places(jsonl, r)) + Cardinality(Carrying(r)) <= Cardinality(Places(audit, r))

LEMMA PlacesFinite ==
    ASSUME NEW log \in Seq(AuditRecord), NEW r
    PROVE  IsFiniteSet(Places(log, r)) /\ Cardinality(Places(log, r)) \in Nat
<1>1. Places(log, r) \in SUBSET (1 .. Len(log)) /\ Len(log) \in Nat
  BY DEF Places
<1>2. IsFiniteSet(1 .. Len(log))
  BY <1>1, FS_Interval
<1> QED
  BY <1>1, <1>2, FS_Subset, FS_CardinalityType

LEMMA PlacesAppended ==
    ASSUME NEW log \in Seq(AuditRecord), NEW e \in AuditRecord, NEW r
    PROVE  Cardinality(Places(Append(log, e), r)) =
               Cardinality(Places(log, r)) + (IF e = r THEN 1 ELSE 0)
<1> DEFINE x == Len(log) + 1
<1>1. /\ Len(log) \in Nat /\ DOMAIN log = 1 .. Len(log) /\ DOMAIN Append(log, e) = 1 .. x
      /\ Append(log, e)[x] = e
      /\ \A n \in DOMAIN log : Append(log, e)[n] = log[n]
  BY AppendElements
<1>2. x \notin Places(log, r)
  BY <1>1 DEF Places
<1>3. Places(Append(log, e), r) \ {x} = Places(log, r) \ {x}
  BY <1>1 DEF Places
<1>4. x \in Places(Append(log, e), r) <=> e = r
  BY <1>1 DEF Places
<1> QED
  BY <1>2, <1>3, <1>4, PlacesFinite, CountMoved

LEMMA CarryingFinite ==
    ASSUME NEW r
    PROVE  IsFiniteSet(Carrying(r)) /\ Cardinality(Carrying(r)) \in Nat
<1>1. Carrying(r) \in SUBSET Threads /\ IsFiniteSet(Threads)
  BY ApiAssumption DEF Carrying
<1> QED
  BY <1>1, FS_Subset, FS_CardinalityType

\* A step of one handler changes who carries r by that handler.
LEMMA CarryingMoved ==
    ASSUME NEW t \in Threads, Others(t), NEW r
    PROVE  Cardinality(Carrying(r)') =
               Cardinality(Carrying(r))
                   + (IF thread'[t].pc = "log" /\ RecordOf(thread'[t]) = r THEN 1 ELSE 0)
                   - (IF thread[t].pc = "log" /\ RecordOf(thread[t]) = r THEN 1 ELSE 0)
<1>1. Carrying(r)' \ {t} = Carrying(r) \ {t}
  BY DEF Carrying, Others
<1>2. /\ t \in Carrying(r)' <=> thread'[t].pc = "log" /\ RecordOf(thread'[t]) = r
      /\ t \in Carrying(r) <=> thread[t].pc = "log" /\ RecordOf(thread[t]) = r
  BY DEF Carrying
<1> QED
  BY <1>1, <1>2, CarryingFinite, CountMoved

\* Appending keeps what was there as a prefix.
LEMMA AppendPrefix ==
    ASSUME NEW log \in Seq(AuditRecord), NEW e \in AuditRecord
    PROVE  /\ Len(Append(log, e)) = Len(log) + 1
           /\ Log!IsPrefix(log, Append(log, e))
           /\ Log!Last(Append(log, e)) = e
BY DEF Log!IsPrefix, Log!Last

\* A record is served before it is carried, and carried until it is in the log.
LEMMA AppendRecordIsRecord ==
    ASSUME TInv, LogCovered, NEW t \in Threads, AppendRecord(t)
    PROVE  Log!Record /\ LogCovered'
<1> DEFINE h == thread[t]
           e == RecordOf(h)
<1>1. /\ h.pc = "record" /\ h \in HandlerState /\ e \in AuditRecord
      /\ audit \in Seq(AuditRecord) /\ audit' = Append(audit, e) /\ jsonl' = jsonl
      /\ thread'[t] = [h EXCEPT !.pc = "log"] /\ Others(t)
  BY HandlerType, RecordType DEF AppendRecord, At, Go, GoTo, Others, TInv, TypeOK
<1>2. thread'[t].pc = "log" /\ RecordOf(thread'[t]) = e
  BY <1>1 DEF HandlerState, RecordOf
<1>3. Log!Record
  BY <1>1, AppendPrefix DEF Log!Record
<1>4. ASSUME NEW r \in AuditRecord
      PROVE  Cardinality(Places(jsonl, r)') + Cardinality(Carrying(r)')
                 <= Cardinality(Places(audit, r)')
  <2>1. Cardinality(Carrying(r)') = Cardinality(Carrying(r)) + (IF e = r THEN 1 ELSE 0)
    <3>1. Cardinality(Carrying(r)') =
              Cardinality(Carrying(r))
                  + (IF thread'[t].pc = "log" /\ RecordOf(thread'[t]) = r THEN 1 ELSE 0)
                  - (IF h.pc = "log" /\ RecordOf(h) = r THEN 1 ELSE 0)
      BY <1>1, CarryingMoved
    <3> HIDE DEF h
    <3> QED
      BY <1>1, <1>2, <3>1, CarryingFinite
  <2>2. Cardinality(Places(audit, r)') = Cardinality(Places(audit, r)) + (IF e = r THEN 1 ELSE 0)
    BY <1>1, PlacesAppended
  <2>3. Places(jsonl, r)' = Places(jsonl, r)
    BY <1>1
  <2>4. /\ Cardinality(Places(jsonl, r)) \in Nat /\ Cardinality(Places(audit, r)) \in Nat
        /\ Cardinality(Carrying(r)) \in Nat
        /\ Cardinality(Places(jsonl, r)) + Cardinality(Carrying(r)) <= Cardinality(Places(audit, r))
    BY <1>1, PlacesFinite, CarryingFinite DEF LogCovered, TInv, TypeOK
  <2> QED
    BY <2>1, <2>2, <2>3, <2>4
<1> QED
  BY <1>3, <1>4 DEF LogCovered

LEMMA AppendLogIsStore ==
    ASSUME TInv, LogCovered, NEW t \in Threads, AppendLog(t)
    PROVE  Log!Store /\ LogCovered'
<1> DEFINE h == thread[t]
           e == RecordOf(h)
<1>1. /\ h.pc = "log" /\ h \in HandlerState /\ e \in AuditRecord
      /\ audit \in Seq(AuditRecord) /\ jsonl \in Seq(AuditRecord)
      /\ jsonl' = Append(jsonl, e) /\ audit' = audit
      /\ thread'[t] = [h EXCEPT !.pc = "latest"] /\ Others(t)
  BY HandlerType, RecordType DEF AppendLog, At, Go, GoTo, Others, TInv, TypeOK
<1>2. thread'[t].pc = "latest"
  BY <1>1 DEF HandlerState
<1>3. ASSUME NEW r \in AuditRecord
      PROVE  /\ Cardinality(Places(jsonl, r)) \in Nat /\ Cardinality(Places(audit, r)) \in Nat
             /\ Cardinality(Carrying(r)) \in Nat
             /\ Cardinality(Places(jsonl, r)) + Cardinality(Carrying(r))
                    <= Cardinality(Places(audit, r))
  BY <1>1, PlacesFinite, CarryingFinite DEF LogCovered
<1>4. Log!Store
  <2>1. Cardinality(Carrying(e)) # 0
    <3>1. t \in Carrying(e)
      BY <1>1 DEF Carrying
    <3> QED
      BY <3>1, CarryingFinite, FS_EmptySet
  <2>2. Cardinality(Places(jsonl, e)) < Cardinality(Places(audit, e))
    BY <1>1, <1>3, <2>1
  <2>3. Places(audit, e) # {}
    <3>1. Cardinality(Places(audit, e)) # 0
      BY <1>1, <1>3, <2>2
    <3> QED
      BY <3>1, FS_EmptySet
  <2>4. e \in Log!Range(audit)
    BY <2>3 DEF Places, Log!Range
  <2>5. Log!Occurrences(jsonl, e) < Log!Occurrences(audit, e)
    <3>1. \A S : Log!Cardinality(S) = Cardinality(S)
      BY DEF Log!Cardinality, Cardinality
    <3> QED
      BY <2>2, <3>1 DEF Log!Occurrences, Places
  <2> QED
    BY <1>1, <2>4, <2>5 DEF Log!Store
<1>5. ASSUME NEW r \in AuditRecord
      PROVE  Cardinality(Places(jsonl, r)') + Cardinality(Carrying(r)')
                 <= Cardinality(Places(audit, r)')
  <2>1. Cardinality(Carrying(r)') = Cardinality(Carrying(r)) - (IF e = r THEN 1 ELSE 0)
    <3>1. Cardinality(Carrying(r)') =
              Cardinality(Carrying(r))
                  + (IF thread'[t].pc = "log" /\ RecordOf(thread'[t]) = r THEN 1 ELSE 0)
                  - (IF h.pc = "log" /\ RecordOf(h) = r THEN 1 ELSE 0)
      BY <1>1, CarryingMoved
    <3> HIDE DEF h
    <3> QED
      BY <1>1, <1>2, <3>1, CarryingFinite
  <2>2. Cardinality(Places(jsonl, r)') = Cardinality(Places(jsonl, r)) + (IF e = r THEN 1 ELSE 0)
    BY <1>1, PlacesAppended
  <2>3. Places(audit, r)' = Places(audit, r)
    BY <1>1
  <2> QED
    BY <1>3, <2>1, <2>2, <2>3
<1> QED
  BY <1>4, <1>5 DEF LogCovered

\* Every other step of a handler leaves the lists and the carried records alone.
LEMMA OtherStepsStutter ==
    ASSUME TInv, LogCovered, NEW t \in Threads, HandlerStep(t), ~AppendRecord(t), ~AppendLog(t)
    PROVE  UNCHANGED <<audit, jsonl>> /\ LogCovered'
<1> DEFINE h == thread[t]
<1>1. /\ h.pc \notin {"idle", "record", "log"} /\ h \in HandlerState /\ HandlerOK(h)
      /\ UNCHANGED <<audit, jsonl>>
  BY HandlerType DEF HandlerStep, NumberEntry, EnterEntry, EvaluateUnknown, Evaluate, WriteLatest,
     Decide, Perform, MalformedIntent, At
<1>2. Others(t) /\ thread'[t].pc \in {"idle", "enter", "evaluate", "record", "validate", "gate"}
  <2> USE <1>1 DEF Go, GoTo, Idle, HandlerState, TInv, TypeOK, Others
  <2>1. CASE NumberEntry(t)
    BY <2>1 DEF NumberEntry
  <2>2. CASE EnterEntry(t)
    BY <2>2 DEF EnterEntry
  <2>3. CASE Evaluate(t)
    BY <2>3 DEF Evaluate
  <2>4. CASE WriteLatest(t)
    BY <2>4 DEF WriteLatest
  <2>5. CASE EvaluateUnknown(t) \/ Decide(t) \/ Perform(t) \/ MalformedIntent(t)
    <3>1. Go(t, Idle)
      BY <2>5 DEF EvaluateUnknown, Decide, Perform, MalformedIntent
    <3> QED
      BY <3>1
  <2> QED
    BY <2>1, <2>2, <2>3, <2>4, <2>5 DEF HandlerStep
<1>3. \A r : Carrying(r)' = Carrying(r)
  BY <1>1, <1>2 DEF Carrying, Others, Idle
<1> QED
  BY <1>1, <1>3 DEF LogCovered

\* However many threads interleave and wherever the server dies, the recorder is an
\* audit log: AppendRecord serves, AppendLog stores, Restart reloads, and every other
\* step leaves the list and the file alone.
THEOREM RecorderIsAuditLog == Spec => ImplementsAuditLog
<1>1. Init => Log!Init
  BY DEF Init, Log!Init
<1>2. Init => LogCovered
  <2> SUFFICES ASSUME Init, NEW r \in AuditRecord
               PROVE  Cardinality(Places(jsonl, r)) + Cardinality(Carrying(r))
                          <= Cardinality(Places(audit, r))
    BY DEF LogCovered
  <2>1. Places(jsonl, r) = {} /\ Places(audit, r) = {} /\ Carrying(r) = {}
    BY DEF Init, Places, Carrying, Idle
  <2> QED
    BY <2>1, FS_EmptySet
<1>3. TInv /\ LogCovered /\ [Next]_vars => LogCovered' /\ [Log!Next]_<<audit, jsonl>>
  <2> SUFFICES ASSUME TInv, LogCovered, [Next]_vars
               PROVE  LogCovered' /\ [Log!Next]_<<audit, jsonl>>
    OBVIOUS
  <2>1. ASSUME NEW t \in Threads, HandlerStep(t)
        PROVE  LogCovered' /\ [Log!Next]_<<audit, jsonl>>
    BY <2>1, AppendRecordIsRecord, AppendLogIsStore, OtherStepsStutter DEF Log!Next
  <2>2. ASSUME NEW t \in Threads,
               \/ \E r \in Requests : Receive(t, r)
               \/ \E c \in GatedCommands \cap Endpoints : CallGated(t, c)
        PROVE  LogCovered' /\ [Log!Next]_<<audit, jsonl>>
    <3>1. /\ At(t, "idle") /\ audit' = audit /\ jsonl' = jsonl
          /\ Others(t) /\ thread'[t].pc \in {"number", "evaluate"}
      <4> USE DEF Handler, Go, Others, TInv, TypeOK
      <4>1. ASSUME NEW r \in Requests, Receive(t, r) PROVE <3>1
        BY <4>1 DEF Receive
      <4>2. ASSUME NEW c \in GatedCommands, CallGated(t, c) PROVE <3>1
        BY <4>2 DEF CallGated
      <4> QED
        BY <2>2, <4>1, <4>2
    <3>2. \A r : Carrying(r)' = Carrying(r)
      BY <3>1 DEF At, Carrying, Others
    <3> QED
      BY <3>1, <3>2 DEF LogCovered
  <2>3. ASSUME NEW c \in UngatedCommands, CallUngated(c)
        PROVE  LogCovered' /\ [Log!Next]_<<audit, jsonl>>
    <3>1. audit' = audit /\ jsonl' = jsonl /\ thread' = thread
      BY <2>3 DEF CallUngated
    <3> QED
      BY <3>1 DEF LogCovered, Carrying
  <2>4. CASE Restart
    <3>1. audit' = jsonl /\ jsonl' = jsonl /\ thread' = [t \in Threads |-> Idle]
      BY <2>4 DEF Restart
    <3>2. \A r : Carrying(r)' = {}
      BY <3>1 DEF Carrying, Idle
    <3>3. LogCovered'
      <4> SUFFICES ASSUME NEW r \in AuditRecord
                   PROVE  Cardinality(Places(jsonl, r)') + Cardinality(Carrying(r)')
                              <= Cardinality(Places(audit, r)')
        BY DEF LogCovered
      <4>1. Cardinality(Places(jsonl, r)) \in Nat
        BY PlacesFinite DEF TInv, TypeOK
      <4>2. Places(jsonl, r)' = Places(jsonl, r) /\ Places(audit, r)' = Places(jsonl, r)
        BY <3>1
      <4> QED
        BY <3>2, <4>1, <4>2, FS_EmptySet
    <3> QED
      BY <3>1, <3>3 DEF Log!Next, Log!Reload
  <2>5. CASE UNCHANGED vars
    BY <2>5 DEF vars, LogCovered, Carrying
  <2> QED
    BY <2>1, <2>2, <2>3, <2>4, <2>5 DEF Next
<1> QED
  BY <1>1, <1>2, <1>3, HandlersCorrect, PTL DEF Spec, ImplementsAuditLog, Log!Spec

-----------------------------------------------------------------------------
(* Keys *)

\* Two entries, or an entry and a handler, are about the same request: the command's id,
\* the key and what payload_fingerprint sees.
SameRequest(e, f) == e.id = f.id /\ e.key = f.key /\ e.type = f.type /\ e.shape = f.shape

\* A handler past the lookup is about an entry of the list.
AboutEntry(h, list) ==
    h.kind = "validate" /\ h.pc \notin {"number", "enter"} =>
        \E n \in DOMAIN list : SameRequest(list[n], h)

\* What is left of KeyNamesEntry when ids and keys repeat on threads: the index has,
\* under every key, a request of the list with that key, every request of the list has
\* its key in the index, and a handler works on a request of the list.
KeyNamesRequest ==
    /\ \A k \in DOMAIN byKey : byKey[k].key = k
                               /\ \E n \in DOMAIN ledger : SameRequest(ledger[n], byKey[k])
    /\ \A n \in DOMAIN ledger : ledger[n].key \in DOMAIN byKey
    /\ \A t \in Threads : thread[t] # Idle => AboutEntry(thread[t], ledger)

\* An entry keeps its request.
RequestsKept ==
    \A n \in DOMAIN ledger : n \in DOMAIN ledger' /\ SameRequest(ledger'[n], ledger[n])

\* A step that moves one handler keeps what the others are about.
LEMMA AboutKept ==
    ASSUME KeyNamesRequest, NEW t \in Threads, Others(t), RequestsKept,
           thread'[t] # Idle => AboutEntry(thread'[t], ledger')
    PROVE  \A u \in Threads : thread'[u] # Idle => AboutEntry(thread'[u], ledger')
<1> SUFFICES ASSUME NEW u \in Threads, thread'[u] # Idle, u # t
             PROVE  AboutEntry(thread'[u], ledger')
  OBVIOUS
<1>1. thread'[u] = thread[u]
  BY DEF Others
<1>2. AboutEntry(thread[u], ledger)
  BY <1>1 DEF KeyNamesRequest
<1>3. AboutEntry(thread[u], ledger')
  BY <1>2 DEF AboutEntry, RequestsKept, SameRequest
<1> QED
  BY <1>1, <1>3

\* A step that leaves the list and the index alone, and moves a handler on.
LEMMA ListAlone ==
    ASSUME TInv, KeyNamesRequest, NEW t \in Threads, UNCHANGED <<ledger, byKey>>,
           NEW s \in {Idle} \cup HandlerState, Go(t, s),
           s # Idle => AboutEntry(s, ledger)
    PROVE  KeyNamesRequest'
<1>1. thread'[t] = s /\ Others(t)
  BY Moved
<1>2. RequestsKept
  BY DEF RequestsKept, SameRequest
<1>3. \A u \in Threads : thread'[u] # Idle => AboutEntry(thread'[u], ledger')
  BY <1>1, <1>2, AboutKept
<1> QED
  BY <1>3 DEF KeyNamesRequest

\* A new entry, or another state of an entry, and its key.
LEMMA EntryIndexed ==
    ASSUME TInv, KeyNamesRequest, NEW e \in Entry, RequestsKept, byKey' = Indexed(e),
           \E n \in DOMAIN ledger' : ledger'[n] = e,
           \A n \in DOMAIN ledger' : n \in DOMAIN ledger \/ ledger'[n] = e
    PROVE  /\ \A k \in DOMAIN byKey' :
                 byKey'[k].key = k /\ \E n \in DOMAIN ledger' : SameRequest(ledger'[n], byKey'[k])
           /\ \A n \in DOMAIN ledger' : ledger'[n].key \in DOMAIN byKey'
<1>1. /\ DOMAIN byKey' = {e.key} \cup DOMAIN byKey
      /\ \A k \in DOMAIN byKey' : byKey'[k] = IF k = e.key THEN e ELSE byKey[k]
  BY IndexedType
<1>2. ASSUME NEW k \in DOMAIN byKey'
      PROVE  byKey'[k].key = k /\ \E n \in DOMAIN ledger' : SameRequest(ledger'[n], byKey'[k])
  <2>1. CASE k = e.key
    BY <1>1, <2>1 DEF SameRequest
  <2>2. CASE k # e.key
    <3>1. k \in DOMAIN byKey /\ byKey'[k] = byKey[k]
      BY <1>1, <2>2
    <3>2. byKey[k].key = k
      BY <3>1 DEF KeyNamesRequest
    <3>3. PICK n \in DOMAIN ledger : SameRequest(ledger[n], byKey[k])
      BY <3>1 DEF KeyNamesRequest
    <3>4. n \in DOMAIN ledger' /\ SameRequest(ledger'[n], byKey[k])
      BY <3>3 DEF RequestsKept, SameRequest
    <3> QED
      BY <3>1, <3>2, <3>4
  <2> QED
    BY <2>1, <2>2
<1>3. ASSUME NEW n \in DOMAIN ledger' PROVE ledger'[n].key \in DOMAIN byKey'
  <2>1. CASE n \in DOMAIN ledger
    BY <1>1, <2>1 DEF RequestsKept, SameRequest, KeyNamesRequest
  <2>2. CASE ledger'[n] = e
    BY <1>1, <2>2
  <2> QED
    BY <2>1, <2>2
<1> QED
  BY <1>2, <1>3

\* A handler enters its request under its key.
LEMMA EnterRequest ==
    ASSUME TInv, KeyNamesRequest, NEW t \in Threads, EnterEntry(t)
    PROVE  KeyNamesRequest'
<1> DEFINE h == thread[t]
           e == [id |-> h.id, key |-> h.key, type |-> h.type, shape |-> h.shape,
                 status |-> "received", audit |-> 0]
           s == [h EXCEPT !.pc = "evaluate"]
<1>1. h \in HandlerState /\ h.pc = "enter" /\ HandlerOK(h) /\ h.kind = "validate"
  BY HandlerType DEF EnterEntry, At, HandlerOK
<1>2. e \in Entry /\ s \in HandlerState
  BY <1>1 DEF Entry, Status, HandlerState, HandlerOK
<1>3. ledger \in Seq(Entry) /\ ledger' = Append(ledger, e) /\ byKey' = Indexed(e) /\ Go(t, s)
  BY DEF EnterEntry, GoTo, TInv, TypeOK
<1>4. SameRequest(e, s)
  BY <1>1 DEF SameRequest, HandlerState
<1> HIDE DEF e, s, h
<1>5. /\ Len(ledger) + 1 \in DOMAIN ledger' /\ ledger'[Len(ledger) + 1] = e
      /\ \A n \in DOMAIN ledger : n \in DOMAIN ledger' /\ ledger'[n] = ledger[n]
      /\ \A n \in DOMAIN ledger' : n \in DOMAIN ledger \/ n = Len(ledger) + 1
  BY <1>2, <1>3
<1>6. RequestsKept
  BY <1>5 DEF RequestsKept, SameRequest
<1>7. thread'[t] = s /\ Others(t)
  BY <1>2, <1>3, Moved
<1>8. AboutEntry(s, ledger')
  BY <1>4, <1>5 DEF AboutEntry
<1>9. \A u \in Threads : thread'[u] # Idle => AboutEntry(thread'[u], ledger')
  BY <1>6, <1>7, <1>8, AboutKept
<1>10. /\ \E n \in DOMAIN ledger' : ledger'[n] = e
       /\ \A n \in DOMAIN ledger' : n \in DOMAIN ledger \/ ledger'[n] = e
  BY <1>5
<1> QED
  BY <1>2, <1>3, <1>6, <1>9, <1>10, EntryIndexed DEF KeyNamesRequest

\* A decision changes no entry's request, whichever entry of its id it finds.
LEMMA DecideRequest ==
    ASSUME TInv, KeyNamesRequest, NEW t \in Threads, Decide(t)
    PROVE  KeyNamesRequest'
<1>1. PICK n \in DOMAIN ledger :
         LET u == Decided(ledger[n], thread[t]) IN
         u \in Entry /\ ledger' = [ledger EXCEPT ![n] = u] /\ byKey' = Indexed(u)
  BY DecideFacts
<1> DEFINE u == Decided(ledger[n], thread[t])
<1>2. ledger \in Seq(Entry) /\ ledger[n] \in Entry
  BY DEF TInv, TypeOK
<1>3. SameRequest(u, ledger[n])
  BY <1>2 DEF SameRequest, Decided, Entry
<1>4. u \in Entry /\ ledger' = [ledger EXCEPT ![n] = u] /\ byKey' = Indexed(u)
  BY <1>1
<1> HIDE DEF u
<1>5. /\ DOMAIN ledger' = DOMAIN ledger /\ ledger'[n] = u
      /\ \A m \in DOMAIN ledger : m # n => ledger'[m] = ledger[m]
  BY <1>2, <1>4
<1>6. RequestsKept
  BY <1>3, <1>5 DEF RequestsKept, SameRequest
<1>7. thread'[t] = Idle /\ Others(t)
  BY Moved DEF Decide
<1>8. \A v \in Threads : thread'[v] # Idle => AboutEntry(thread'[v], ledger')
  BY <1>6, <1>7, AboutKept
<1>9. /\ \E m \in DOMAIN ledger' : ledger'[m] = u
      /\ \A m \in DOMAIN ledger' : m \in DOMAIN ledger \/ ledger'[m] = u
  BY <1>5
<1> QED
  BY <1>4, <1>6, <1>8, <1>9, EntryIndexed DEF KeyNamesRequest

\* The other steps of a handler.
LEMMA OtherRequest ==
    ASSUME TInv, KeyNamesRequest, NEW t \in Threads,
           HandlerStep(t), ~EnterEntry(t), ~Decide(t)
    PROVE  KeyNamesRequest'
<1> DEFINE h == thread[t]
<1>1. h \in HandlerState /\ HandlerOK(h)
  BY HandlerType DEF HandlerStep, NumberEntry, EnterEntry, EvaluateUnknown, Evaluate, AppendRecord,
     AppendLog, WriteLatest, Decide, Perform, MalformedIntent, At
<1>2. h # Idle => AboutEntry(h, ledger)
  BY DEF KeyNamesRequest
<1>3. UNCHANGED <<ledger, byKey>>
  BY DEF HandlerStep, NumberEntry, EvaluateUnknown, Evaluate, AppendRecord, AppendLog,
     WriteLatest, Perform, MalformedIntent
<1>4. CASE NumberEntry(t)
  <2> DEFINE s == [h EXCEPT !.pc = "enter", !.id = Len(ledger) + 1]
  <2>1. s \in HandlerState /\ s.pc = "enter"
    <3>1. Len(ledger) + 1 \in Nat
      BY DEF TInv, TypeOK
    <3> QED
      BY <1>1, <3>1 DEF HandlerState
  <2>2. Go(t, s)
    BY <1>4 DEF NumberEntry
  <2> HIDE DEF s
  <2> QED
    BY <1>3, <2>1, <2>2, ListAlone DEF AboutEntry
<1>5. CASE Go(t, Idle)
  BY <1>3, <1>5, ListAlone
<1>6. ASSUME NEW s \in HandlerState, Go(t, s), SameRequest(s, h), s.kind = h.kind,
             h.pc \in {"evaluate", "record", "log", "latest"}
      PROVE  KeyNamesRequest'
  <2>1. AboutEntry(s, ledger)
    BY <1>2, <1>6 DEF AboutEntry, SameRequest, Idle
  <2> QED
    BY <1>3, <1>6, <2>1, ListAlone
<1>7. CASE Evaluate(t)
  <2> DEFINE s == [h EXCEPT !.pc = "record", !.record = Len(audit) + 1, !.accepted = Verdict(h)]
  <2>1. Go(t, s) /\ h.pc = "evaluate"
    BY <1>7 DEF Evaluate, At
  <2>2. s \in HandlerState /\ SameRequest(s, h) /\ s.kind = h.kind
    <3>1. Len(audit) + 1 \in Nat
      BY DEF TInv, TypeOK
    <3>2. Verdict(h) \in BOOLEAN
      BY DEF Verdict
    <3> HIDE DEF h
    <3> QED
      BY <1>1, <3>1, <3>2 DEF HandlerState, SameRequest
  <2> HIDE DEF s
  <2> QED
    BY <1>6, <2>1, <2>2
<1>8. CASE AppendRecord(t) \/ AppendLog(t) \/ WriteLatest(t)
  <2>1. PICK pc \in {"log", "latest", h.kind} : GoTo(t, pc)
    BY <1>8 DEF AppendRecord, AppendLog, WriteLatest
  <2> DEFINE s == [h EXCEPT !.pc = pc]
  <2>2. Go(t, s) /\ h.pc \in {"record", "log", "latest"}
    BY <1>8, <2>1 DEF AppendRecord, AppendLog, WriteLatest, At, GoTo
  <2>3. s \in HandlerState /\ SameRequest(s, h) /\ s.kind = h.kind
    BY <1>1 DEF HandlerState, SameRequest
  <2> HIDE DEF s
  <2> QED
    BY <1>6, <2>2, <2>3
<1>9. EvaluateUnknown(t) \/ Perform(t) \/ MalformedIntent(t) => Go(t, Idle)
  BY DEF EvaluateUnknown, Perform, MalformedIntent
<1> QED
  BY <1>4, <1>5, <1>7, <1>8, <1>9 DEF HandlerStep

\* A call of an endpoint starts with the request its key has in the index.
LEMMA CallRequest ==
    ASSUME TInv, KeyNamesRequest, NEW t \in Threads,
           (\E r \in Requests : Receive(t, r)) \/ (\E c \in GatedCommands : CallGated(t, c))
    PROVE  KeyNamesRequest'
<1>1. UNCHANGED <<ledger, byKey>>
  BY DEF Receive, CallGated
<1>2. ASSUME NEW c \in GatedCommands, CallGated(t, c) PROVE KeyNamesRequest'
  <2> DEFINE g == Handler("evaluate", "gate", c, NoKey, NoKey)
  <2>1. g \in HandlerState /\ g.kind = "gate"
    BY DEF Handler, HandlerState
  <2>2. Go(t, g)
    BY <1>2 DEF CallGated
  <2> HIDE DEF g
  <2> QED
    BY <1>1, <2>1, <2>2, ListAlone DEF AboutEntry
<1>3. ASSUME NEW r \in Requests, Receive(t, r) PROVE KeyNamesRequest'
  <2> DEFINE shape == ShapeOf[r.payload]
             s == Handler("number", "validate", r.type, r.key, shape)
             e == [Handler("evaluate", "validate", r.type, r.key, shape)
                      EXCEPT !.id = byKey[r.key].id]
  <2>1. r.key \in Keys /\ r.type \in Types /\ shape \in Shapes
    BY ApiAssumption DEF Types, Shapes
  <2>2. CASE Go(t, s)
    <3>1. s \in HandlerState /\ s.pc = "number"
      BY <2>1 DEF Handler, HandlerState
    <3> HIDE DEF s
    <3> QED
      BY <1>1, <2>2, <3>1, ListAlone DEF AboutEntry
  <2>3. CASE /\ r.key \in DOMAIN byKey /\ byKey[r.key].type = r.type
             /\ byKey[r.key].shape = shape /\ Go(t, e)
    <3>1. byKey[r.key].id \in Nat
      BY <2>3 DEF TInv, TypeOK, Entry
    <3>2. e \in HandlerState
      BY <2>1, <3>1 DEF Handler, HandlerState
    <3>3. e.id = byKey[r.key].id /\ e.key = r.key /\ e.type = r.type /\ e.shape = shape
      BY DEF Handler
    <3>4. byKey[r.key].key = r.key
          /\ \E n \in DOMAIN ledger : SameRequest(ledger[n], byKey[r.key])
      BY <2>3 DEF KeyNamesRequest
    <3> HIDE DEF e
    <3>5. AboutEntry(e, ledger)
      BY <2>3, <3>3, <3>4 DEF AboutEntry, SameRequest
    <3> QED
      BY <1>1, <2>3, <3>2, <3>5, ListAlone
  <2> QED
    BY <1>3, <2>2, <2>3 DEF Receive
<1> QED
  BY <1>2, <1>3

\* On any threads a key in the index names a request that was made under this key, so a
\* retry is never answered for another command or another shape of payload; and no
\* entry of the list has lost its key.
THEOREM KeyNamesRequestCorrect == Spec => []KeyNamesRequest
<1>1. Init => KeyNamesRequest
  BY DEF Init, KeyNamesRequest
<1>2. TInv /\ KeyNamesRequest /\ [Next]_vars => KeyNamesRequest'
  <2> SUFFICES ASSUME TInv, KeyNamesRequest, [Next]_vars PROVE KeyNamesRequest'
    OBVIOUS
  <2>1. ASSUME NEW t \in Threads, HandlerStep(t) PROVE KeyNamesRequest'
    BY <2>1, EnterRequest, DecideRequest, OtherRequest
  <2>2. ASSUME NEW t \in Threads,
               \/ \E r \in Requests : Receive(t, r)
               \/ \E c \in GatedCommands \cap Endpoints : CallGated(t, c)
        PROVE  KeyNamesRequest'
    BY <2>2, CallRequest
  <2>3. CASE UNCHANGED <<ledger, byKey, thread>>
    BY <2>3 DEF KeyNamesRequest
  <2>4. CASE Restart
    <3>1. ledger' = <<>> /\ byKey' = <<>> /\ \A t \in Threads : thread'[t] = Idle
      BY <2>4 DEF Restart
    <3> QED
      BY <3>1 DEF KeyNamesRequest
  <2> QED
    BY <2>1, <2>2, <2>3, <2>4 DEF Next, CallUngated, vars
<1> QED
  BY <1>1, <1>2, HandlersCorrect, PTL DEF Spec

-----------------------------------------------------------------------------
(***************************************************************************)
(* When one handler runs at a time: what the ledger, its index, the audit  *)
(* records and latest.json say of each other, for any configurations,      *)
(* keys, requests and endpoints and with servers that die at any step of a *)
(* handler.  Two handlers can number their entries or records alike, so    *)
(* none of this is claimed of more.                                        *)
(***************************************************************************)
OneThread == \A t, u \in Threads : t = u

\* Entries are numbered by their place, and the index has each of them under its key.
LedgerOK(list, index) ==
    /\ \A n \in DOMAIN list :
          /\ list[n].id = n
          /\ list[n].key \in DOMAIN index /\ index[list[n].key] = list[n]
    /\ \A k \in DOMAIN index :
          /\ index[k].key = k
          /\ \E n \in DOMAIN list : list[n] = index[k]

\* Records are numbered by their line, and latest.json is a beginning of the log.
LogOK(log, newest) ==
    /\ \A n \in DOMAIN log : log[n].id = n
    /\ Len(newest) <= Len(log) /\ \A n \in DOMAIN newest : newest[n] = log[n]

\* What the only handler knows of the lists.
Place(h, list, index, log) ==
    /\ h.pc \in {"number", "enter"} => h.key \notin DOMAIN index
    /\ h.pc = "enter" => h.id = Len(list) + 1
    /\ h.kind = "validate" /\ h.pc \notin {"number", "enter"} =>
          h.id \in DOMAIN list /\ list[h.id].type = h.type
    /\ h.pc \in {"record", "log"} => h.record = Len(log) + 1

\* The served records are those of the log, but for the one being logged.
Served(h, list, log) == list = IF h.pc = "log" THEN Append(log, RecordOf(h)) ELSE log

SInv ==
    /\ LedgerOK(ledger, byKey)
    /\ LogOK(jsonl, latest)
    /\ AuditLinked
    /\ \A t \in Threads :
          /\ thread[t] # Idle => Place(thread[t], ledger, byKey, jsonl)
          /\ Served(thread[t], audit, jsonl)

\* The only handler's step leaves nothing else to check.
LEMMA OnlyHandler ==
    ASSUME OneThread, NEW t \in Threads,
           LedgerOK(ledger, byKey)', LogOK(jsonl, latest)', AuditLinked',
           thread'[t] # Idle => Place(thread'[t], ledger', byKey', jsonl'),
           Served(thread'[t], audit', jsonl')
    PROVE  SInv'
<1>1. \A u \in Threads : u = t
  BY DEF OneThread
<1> QED
  BY <1>1 DEF SInv

\* A decision stays linked when records are added and nothing is decided.
LEMMA LinkKept ==
    ASSUME AuditLinked,
           \A n \in DOMAIN ledger' : ledger'[n].status # "received" =>
               n \in DOMAIN ledger /\ ledger'[n] = ledger[n],
           \A m \in DOMAIN audit : m \in DOMAIN audit' /\ audit'[m] = audit[m]
    PROVE  AuditLinked'
<1> SUFFICES ASSUME NEW n \in DOMAIN ledger', ledger'[n].status # "received"
             PROVE  \E m \in DOMAIN audit' : /\ audit'[m].id = ledger'[n].audit
                                             /\ audit'[m].type = ledger'[n].type
                                             /\ audit'[m].decision = ledger'[n].status
  BY DEF AuditLinked
<1>1. PICK m \in DOMAIN audit : /\ audit[m].id = ledger[n].audit
                                /\ audit[m].type = ledger[n].type
                                /\ audit[m].decision = ledger[n].status
  BY DEF AuditLinked
<1> QED
  BY <1>1

\* A handler of its own starts with a new key or with the entry of its key.
LEMMA CallSInv ==
    ASSUME OneThread, TInv, SInv, NEW t \in Threads,
           (\E r \in Requests : Receive(t, r)) \/ (\E c \in GatedCommands : CallGated(t, c))
    PROVE  SInv'
<1>1. At(t, "idle") /\ UNCHANGED <<config, ledger, byKey, audit, jsonl, latest, performed>>
  BY DEF Receive, CallGated
<1>2. LedgerOK(ledger, byKey)' /\ LogOK(jsonl, latest)' /\ AuditLinked' /\ audit' = jsonl'
  BY <1>1 DEF SInv, AuditLinked, Served, At
<1>3. Place(thread'[t], ledger, byKey, jsonl) /\ thread'[t].pc # "log"
  <2> USE DEF Go, TInv, TypeOK
  <2>1. ASSUME NEW c \in GatedCommands, CallGated(t, c) PROVE <1>3
    BY <2>1 DEF CallGated, Handler, Place
  <2>2. ASSUME NEW r \in Requests, Receive(t, r) PROVE <1>3
    <3>1. CASE r.key \notin DOMAIN byKey
      BY <2>2, <3>1 DEF Receive, Handler, Place
    <3>2. CASE r.key \in DOMAIN byKey
      <4> DEFINE s == [Handler("evaluate", "validate", r.type, r.key, ShapeOf[r.payload])
                          EXCEPT !.id = byKey[r.key].id]
      <4>1. thread'[t] = s /\ byKey[r.key].type = r.type
        BY <2>2, <3>2 DEF Receive
      <4>2. PICK n \in DOMAIN ledger : ledger[n] = byKey[r.key] /\ ledger[n].id = n
        BY <3>2 DEF SInv, LedgerOK
      <4>3. s.pc = "evaluate" /\ s.kind = "validate" /\ s.id = n /\ s.type = r.type
        BY <4>2 DEF Handler
      <4> QED
        BY <4>1, <4>2, <4>3 DEF Place
    <3> QED
      BY <3>1, <3>2
  <2> QED
    BY <2>1, <2>2
<1>4. Served(thread'[t], audit', jsonl')
  BY <1>2, <1>3 DEF Served
<1> QED
  BY <1>1, <1>2, <1>3, <1>4, OnlyHandler

\* A new entry has the next number and a key of its own.
LEMMA EnterSInv ==
    ASSUME OneThread, TInv, SInv, NEW t \in Threads, EnterEntry(t)
    PROVE  SInv'
<1> DEFINE h == thread[t]
           e == [id |-> h.id, key |-> h.key, type |-> h.type, shape |-> h.shape,
                 status |-> "received", audit |-> 0]
           x == Len(ledger) + 1
<1>1. /\ h.pc = "enter" /\ h \in HandlerState /\ h.kind = "validate"
      /\ Place(h, ledger, byKey, jsonl) /\ Served(h, audit, jsonl) /\ h.key \in Keys
  BY HandlerType DEF EnterEntry, At, HandlerOK, SInv, Idle
<1>2. /\ ledger' = Append(ledger, e) /\ byKey' = Indexed(e)
      /\ UNCHANGED <<config, audit, jsonl, latest, performed>>
      /\ thread'[t] = [h EXCEPT !.pc = "evaluate"]
  BY DEF EnterEntry, GoTo, Go, TInv, TypeOK
<1>3. e \in Entry
  BY <1>1, HandlerType DEF HandlerOK, HandlerState, Entry, Status, Place
<1>4. /\ Len(ledger) \in Nat /\ DOMAIN ledger = 1 .. Len(ledger) /\ DOMAIN ledger' = 1 .. x
      /\ \A n \in DOMAIN ledger : ledger'[n] = ledger[n]
      /\ ledger'[x] = e
  BY <1>2, <1>3, AppendElements DEF TInv, TypeOK
<1>5. /\ DOMAIN byKey' = {h.key} \cup DOMAIN byKey
      /\ byKey'[h.key] = e /\ \A k \in DOMAIN byKey : byKey'[k] = byKey[k]
      /\ h.key \notin DOMAIN byKey /\ h.id = x
  BY <1>1, <1>2, <1>3, IndexedType DEF Place
<1>6. LedgerOK(ledger', byKey')
  <2>0. LedgerOK(ledger, byKey)
    BY DEF SInv
  <2>1. ASSUME NEW n \in DOMAIN ledger'
        PROVE  /\ ledger'[n].id = n
               /\ ledger'[n].key \in DOMAIN byKey' /\ byKey'[ledger'[n].key] = ledger'[n]
    <3>1. CASE n = x
      <4>1. e.id = x /\ e.key = h.key
        BY <1>5
      <4> QED
        BY <1>4, <1>5, <3>1, <4>1
    <3>2. CASE n # x
      <4>1. n \in DOMAIN ledger /\ ledger'[n] = ledger[n]
        BY <1>4, <3>2
      <4> QED
        BY <1>5, <2>0, <4>1 DEF LedgerOK
    <3> QED
      BY <3>1, <3>2
  <2>2. ASSUME NEW k \in DOMAIN byKey'
        PROVE  byKey'[k].key = k /\ \E n \in DOMAIN ledger' : ledger'[n] = byKey'[k]
    <3>1. CASE k = h.key
      <4>1. e.key = h.key /\ x \in DOMAIN ledger'
        BY <1>4
      <4> QED
        BY <1>4, <1>5, <3>1, <4>1
    <3>2. CASE k # h.key
      <4>1. k \in DOMAIN byKey /\ byKey'[k] = byKey[k]
        BY <1>5, <3>2
      <4>2. PICK n \in DOMAIN ledger : ledger[n] = byKey[k] /\ byKey[k].key = k
        BY <2>0, <4>1 DEF LedgerOK
      <4> QED
        BY <1>4, <4>1, <4>2
    <3> QED
      BY <3>1, <3>2
  <2> QED
    BY <2>1, <2>2 DEF LedgerOK
<1>7. AuditLinked'
  <2>1. \A n \in DOMAIN ledger' : ledger'[n].status # "received" => n \in DOMAIN ledger
    BY <1>4
  <2> QED
    BY <1>2, <1>4, <2>1, LinkKept DEF SInv
<1>8. thread'[t].pc = "evaluate" /\ thread'[t].id = x /\ thread'[t].type = h.type
  BY <1>1, <1>2, <1>5 DEF HandlerState
<1>9. Place(thread'[t], ledger', byKey', jsonl') /\ Served(thread'[t], audit', jsonl')
  BY <1>1, <1>2, <1>4, <1>8 DEF Place, Served
<1>10. LogOK(jsonl', latest')
  BY <1>2 DEF SInv
<1> QED
  BY <1>6, <1>7, <1>9, <1>10, OnlyHandler

\* A record is served under the number of its line, and the line is that record.
LEMMA RecordSInv ==
    ASSUME OneThread, TInv, SInv, NEW t \in Threads,
           Evaluate(t) \/ AppendRecord(t) \/ AppendLog(t) \/ WriteLatest(t)
    PROVE  SInv'
<1> DEFINE h == thread[t]
<1>1. /\ h.pc \in {"evaluate", "record", "log", "latest"}
      /\ h \in HandlerState /\ Place(h, ledger, byKey, jsonl) /\ Served(h, audit, jsonl)
      /\ ledger' = ledger /\ byKey' = byKey
  BY HandlerType DEF Evaluate, AppendRecord, AppendLog, WriteLatest, At, SInv, Idle
<1>2. LedgerOK(ledger', byKey')
  BY <1>1 DEF SInv
<1>3. /\ audit \in Seq(AuditRecord) /\ jsonl \in Seq(AuditRecord) /\ latest \in Seq(AuditRecord)
      /\ Len(jsonl) \in Nat /\ LogOK(jsonl, latest) /\ AuditLinked
  BY DEF TInv, TypeOK, SInv
<1>4. CASE Evaluate(t)
  <2>1. /\ h.pc = "evaluate" /\ UNCHANGED <<audit, jsonl, latest>>
        /\ thread'[t] = [h EXCEPT !.pc = "record", !.record = Len(audit) + 1,
                                  !.accepted = Verdict(h)]
    BY <1>4 DEF Evaluate, At, Go, TInv, TypeOK
  <2>2. /\ thread'[t].pc = "record" /\ thread'[t].record = Len(jsonl) + 1
        /\ thread'[t].kind = h.kind /\ thread'[t].id = h.id /\ thread'[t].type = h.type
    BY <1>1, <2>1 DEF HandlerState, Served
  <2>3. Place(thread'[t], ledger', byKey', jsonl') /\ Served(thread'[t], audit', jsonl')
    BY <1>1, <2>1, <2>2 DEF Place, Served
  <2>4. AuditLinked'
    BY <1>1, <1>3, <2>1 DEF AuditLinked
  <2> QED
    BY <1>2, <1>3, <2>1, <2>3, <2>4, OnlyHandler
<1>5. CASE AppendRecord(t)
  <2>1. /\ h.pc = "record" /\ UNCHANGED <<jsonl, latest>>
        /\ audit' = Append(audit, RecordOf(h)) /\ thread'[t] = [h EXCEPT !.pc = "log"]
        /\ RecordOf(h) \in AuditRecord
    BY <1>5, RecordType DEF AppendRecord, At, Go, GoTo, TInv, TypeOK
  <2>2. /\ thread'[t].pc = "log" /\ thread'[t].record = h.record /\ thread'[t].kind = h.kind
        /\ thread'[t].id = h.id /\ thread'[t].type = h.type /\ RecordOf(thread'[t]) = RecordOf(h)
    BY <1>1, <2>1 DEF HandlerState, RecordOf
  <2>3. Place(thread'[t], ledger', byKey', jsonl') /\ Served(thread'[t], audit', jsonl')
    BY <1>1, <2>1, <2>2 DEF Place, Served
  <2>4. AuditLinked'
    BY <1>1, <1>3, <2>1, LinkKept, AppendElements
  <2> QED
    BY <1>2, <1>3, <2>1, <2>3, <2>4, OnlyHandler
<1>6. CASE AppendLog(t)
  <2>1. /\ h.pc = "log" /\ UNCHANGED <<audit, latest>>
        /\ jsonl' = Append(jsonl, RecordOf(h)) /\ thread'[t] = [h EXCEPT !.pc = "latest"]
        /\ RecordOf(h) \in AuditRecord
    BY <1>6, RecordType DEF AppendLog, At, Go, GoTo, TInv, TypeOK
  <2>2. /\ thread'[t].pc = "latest" /\ thread'[t].kind = h.kind
        /\ thread'[t].id = h.id /\ thread'[t].type = h.type
    BY <1>1, <2>1 DEF HandlerState
  <2>3. Place(thread'[t], ledger', byKey', jsonl') /\ Served(thread'[t], audit', jsonl')
    BY <1>1, <2>1, <2>2 DEF Place, Served
  <2>4. RecordOf(h).id = Len(jsonl) + 1
    BY <1>1, <2>1 DEF Place, RecordOf
  <2>5. LogOK(jsonl', latest')
    <3>1. /\ Len(jsonl') = Len(jsonl) + 1 /\ DOMAIN jsonl' = 1 .. Len(jsonl) + 1
          /\ DOMAIN jsonl = 1 .. Len(jsonl) /\ jsonl'[Len(jsonl) + 1] = RecordOf(h)
          /\ \A n \in DOMAIN jsonl : jsonl'[n] = jsonl[n]
      BY <1>3, <2>1
    <3>2. DOMAIN latest = 1 .. Len(latest) /\ Len(latest) \in Nat
      BY <1>3
    <3> QED
      BY <1>3, <2>1, <2>4, <3>1, <3>2 DEF LogOK
  <2>6. AuditLinked'
    BY <1>1, <1>3, <2>1 DEF AuditLinked
  <2> QED
    BY <1>2, <2>3, <2>5, <2>6, OnlyHandler
<1>7. CASE WriteLatest(t)
  <2>1. /\ h.pc = "latest" /\ UNCHANGED <<audit, jsonl>> /\ latest' = audit
        /\ thread'[t] = [h EXCEPT !.pc = h.kind]
    BY <1>7 DEF WriteLatest, At, Go, GoTo, TInv, TypeOK
  <2>2. /\ thread'[t].pc \in {"validate", "gate"} /\ thread'[t].kind = h.kind
        /\ thread'[t].id = h.id /\ thread'[t].type = h.type
    BY <1>1, <2>1 DEF HandlerState
  <2>3. Place(thread'[t], ledger', byKey', jsonl') /\ Served(thread'[t], audit', jsonl')
    BY <1>1, <2>1, <2>2 DEF Place, Served
  <2>4. latest' = jsonl'
    BY <1>1, <2>1 DEF Served
  <2>5. LogOK(jsonl', latest')
    <3>1. Len(jsonl) \in Nat /\ DOMAIN jsonl = 1 .. Len(jsonl) /\ LogOK(jsonl, latest)
      BY <1>3 DEF SInv
    <3> QED
      BY <2>1, <2>4, <3>1 DEF LogOK
  <2>6. AuditLinked'
    BY <1>1, <1>3, <2>1 DEF AuditLinked
  <2> QED
    BY <1>2, <2>3, <2>5, <2>6, OnlyHandler
<1> QED
  BY <1>4, <1>5, <1>6, <1>7

\* The decision goes to the handler's own entry, in the list and in the index.
LEMMA DecideSInv ==
    ASSUME OneThread, TInv, SInv, NEW t \in Threads, Decide(t)
    PROVE  SInv'
<1> DEFINE h == thread[t]
<1>1. /\ h.pc = "validate" /\ h \in HandlerState /\ h.kind = "validate"
      /\ Place(h, ledger, byKey, jsonl) /\ Served(h, audit, jsonl) /\ Logged(h, jsonl)
  BY HandlerType DEF Decide, At, HandlerOK, SInv, Idle
<1>2. PICK n \in DOMAIN ledger : \E u \in Entry :
         /\ u = Decided(ledger[n], h) /\ ledger[n].id = h.id /\ u.id = ledger[n].id
         /\ u.audit = h.record
         /\ u.status = IF h.accepted THEN "accepted" ELSE "rejected"
         /\ ledger' = [ledger EXCEPT ![n] = u] /\ byKey' = Indexed(u)
  BY DecideFacts
<1>3. PICK u \in Entry :
         /\ u = Decided(ledger[n], h) /\ ledger[n].id = h.id /\ u.id = ledger[n].id
         /\ u.audit = h.record
         /\ u.status = IF h.accepted THEN "accepted" ELSE "rejected"
         /\ ledger' = [ledger EXCEPT ![n] = u] /\ byKey' = Indexed(u)
  BY <1>2
<1>4. ledger[n] \in Entry /\ u.key = ledger[n].key /\ u.type = ledger[n].type
  <2>1. ledger[n] \in Entry
    BY DEF TInv, TypeOK
  <2> QED
    BY <1>3, <2>1 DEF Decided, Entry
<1>5. /\ DOMAIN ledger' = DOMAIN ledger /\ ledger'[n] = u
      /\ \A m \in DOMAIN ledger : m # n => ledger'[m] = ledger[m]
  BY <1>3, ExceptElements DEF TInv, TypeOK
<1>6. u.key \in DOMAIN byKey
  BY <1>4 DEF SInv, LedgerOK
<1>7. /\ DOMAIN byKey' = DOMAIN byKey
      /\ \A k \in DOMAIN byKey : byKey'[k] = IF k = u.key THEN u ELSE byKey[k]
  <2>1. byKey' = Indexed(u)
    BY <1>3
  <2>2. DOMAIN Indexed(u) = {u.key} \cup DOMAIN byKey
        /\ \A k \in DOMAIN Indexed(u) : Indexed(u)[k] = IF k = u.key THEN u ELSE byKey[k]
    BY IndexedType
  <2>3. DOMAIN Indexed(u) = DOMAIN byKey
    BY <1>6, <2>2
  <2> QED
    BY <2>1, <2>2, <2>3
<1>8. LedgerOK(ledger', byKey')
  <2>0. LedgerOK(ledger, byKey)
    BY DEF SInv
  <2>1. \A m \in DOMAIN ledger : ledger[m].key = u.key => m = n
    BY <1>4, <2>0 DEF LedgerOK
  <2>2. ASSUME NEW m \in DOMAIN ledger'
        PROVE  /\ ledger'[m].id = m
               /\ ledger'[m].key \in DOMAIN byKey' /\ byKey'[ledger'[m].key] = ledger'[m]
    BY <1>3, <1>4, <1>5, <1>6, <1>7, <2>0, <2>1 DEF LedgerOK
  <2>3. ASSUME NEW k \in DOMAIN byKey'
        PROVE  /\ byKey'[k].key = k
               /\ \E m \in DOMAIN ledger' : ledger'[m] = byKey'[k]
    <3>1. CASE k = u.key
      BY <1>5, <1>7, <3>1
    <3>2. CASE k # u.key
      <4>1. PICK m \in DOMAIN ledger : ledger[m] = byKey[k] /\ byKey[k].key = k
        BY <1>7, <2>0 DEF LedgerOK
      <4>2. m # n
        BY <1>4, <3>2, <4>1
      <4> QED
        BY <1>5, <1>7, <3>2, <4>1, <4>2
    <3> QED
      BY <3>1, <3>2
  <2> QED
    BY <2>2, <2>3 DEF LedgerOK
<1>9. UNCHANGED <<audit, jsonl, latest>> /\ thread'[t] = Idle
  <2>1. Go(t, Idle) /\ UNCHANGED <<audit, jsonl, latest>>
    BY DEF Decide
  <2> QED
    BY <2>1, Moved
<1>10. AuditLinked'
  <2> SUFFICES ASSUME NEW m \in DOMAIN ledger', ledger'[m].status # "received"
               PROVE  \E r \in DOMAIN audit' : /\ audit'[r].id = ledger'[m].audit
                                               /\ audit'[r].type = ledger'[m].type
                                               /\ audit'[r].decision = ledger'[m].status
    BY DEF AuditLinked
  <2>1. CASE m = n
    <3>1. PICK r \in DOMAIN jsonl : jsonl[r] = RecordOf(h)
      BY <1>1 DEF Logged
    <3>2. audit' = jsonl
      BY <1>1, <1>9 DEF Served
    <3>3. ledger[n].type = h.type
      <4>1. h.id \in DOMAIN ledger /\ ledger[h.id].type = h.type
        BY <1>1 DEF Place
      <4>2. ledger[n].id = n /\ ledger[n].id = h.id
        BY <1>3 DEF SInv, LedgerOK
      <4> QED
        BY <4>1, <4>2
    <3> QED
      BY <1>3, <1>4, <1>5, <2>1, <3>1, <3>2, <3>3 DEF RecordOf
  <2>2. CASE m # n
    BY <1>5, <1>9, <2>2 DEF SInv, AuditLinked
  <2> QED
    BY <2>1, <2>2
<1>11. Served(thread'[t], audit', jsonl')
  BY <1>1, <1>9 DEF Served, Idle
<1>12. LogOK(jsonl', latest')
  BY <1>9 DEF SInv
<1> QED
  BY <1>8, <1>9, <1>10, <1>11, <1>12, OnlyHandler

LEMMA NextSInv == ASSUME OneThread PROVE TInv /\ SInv /\ [Next]_vars => SInv'
<1> SUFFICES ASSUME TInv, SInv, [Next]_vars PROVE SInv'
  OBVIOUS
<1>1. CASE UNCHANGED vars
  BY <1>1 DEF vars, SInv, AuditLinked
<1>2. ASSUME NEW t \in Threads,
             (\E r \in Requests : Receive(t, r)) \/ (\E c \in GatedCommands : CallGated(t, c))
      PROVE  SInv'
  BY <1>2, CallSInv
<1>3. ASSUME NEW t \in Threads, NumberEntry(t) PROVE SInv'
  <2> DEFINE h == thread[t]
  <2>1. /\ h.pc = "number" /\ h \in HandlerState
        /\ Place(h, ledger, byKey, jsonl) /\ Served(h, audit, jsonl)
    BY <1>3, HandlerType DEF NumberEntry, At, SInv, Idle
  <2>2. /\ thread'[t] = [h EXCEPT !.pc = "enter", !.id = Len(ledger) + 1]
        /\ UNCHANGED <<config, ledger, byKey, audit, jsonl, latest, performed>>
    BY <1>3 DEF NumberEntry, Go, TInv, TypeOK
  <2>3. thread'[t].pc = "enter" /\ thread'[t].id = Len(ledger) + 1 /\ thread'[t].key = h.key
    BY <2>1, <2>2 DEF HandlerState
  <2>4. Place(thread'[t], ledger', byKey', jsonl') /\ Served(thread'[t], audit', jsonl')
    BY <2>1, <2>2, <2>3 DEF Place, Served
  <2>5. LedgerOK(ledger', byKey') /\ LogOK(jsonl', latest') /\ AuditLinked'
    BY <2>2 DEF SInv, AuditLinked
  <2> QED
    BY <2>4, <2>5, OnlyHandler
<1>4. ASSUME NEW t \in Threads, EnterEntry(t) PROVE SInv'
  BY <1>4, EnterSInv
<1>5. ASSUME NEW t \in Threads,
             Evaluate(t) \/ AppendRecord(t) \/ AppendLog(t) \/ WriteLatest(t)
      PROVE  SInv'
  BY <1>5, RecordSInv
<1>6. ASSUME NEW t \in Threads, Decide(t) PROVE SInv'
  BY <1>6, DecideSInv
<1>7. ASSUME NEW t \in Threads, EvaluateUnknown(t) \/ Perform(t) \/ MalformedIntent(t)
      PROVE  SInv'
  <2>1. /\ thread[t].pc \in {"evaluate", "gate"}
        /\ UNCHANGED <<config, ledger, byKey, audit, jsonl, latest>> /\ thread'[t] = Idle
    BY <1>7 DEF EvaluateUnknown, Perform, MalformedIntent, At, Go, TInv, TypeOK
  <2>2. LedgerOK(ledger', byKey') /\ LogOK(jsonl', latest') /\ AuditLinked'
    BY <2>1 DEF SInv, AuditLinked
  <2>3. Served(thread'[t], audit', jsonl')
    BY <2>1 DEF SInv, Served, Idle
  <2> QED
    BY <2>1, <2>2, <2>3, OnlyHandler
<1>8. ASSUME NEW c \in UngatedCommands, CallUngated(c) PROVE SInv'
  BY <1>8 DEF CallUngated, SInv, AuditLinked
<1>9. CASE Restart
  <2>1. /\ ledger' = <<>> /\ byKey' = <<>> /\ audit' = jsonl /\ jsonl' = jsonl
        /\ latest' = latest /\ \A t \in Threads : thread'[t] = Idle
    BY <1>9 DEF Restart
  <2>2. LedgerOK(ledger', byKey') /\ AuditLinked'
    BY <2>1 DEF LedgerOK, AuditLinked
  <2>3. LogOK(jsonl', latest') /\ \A t \in Threads : Served(thread'[t], audit', jsonl')
    BY <2>1 DEF SInv, Served, Idle
  <2> QED
    BY <2>1, <2>2, <2>3 DEF SInv
<1> QED
  BY <1>1, <1>2, <1>3, <1>4, <1>5, <1>6, <1>7, <1>8, <1>9 DEF Next, HandlerStep

\* One handler at a time, the lists, the index, the log and latest.json agree
\* between any two accesses of the handler, wherever a server dies.
THEOREM SerialHandlersCorrect == ASSUME OneThread PROVE Spec => []SInv
<1>1. Init => SInv
  BY DEF Init, SInv, LedgerOK, LogOK, AuditLinked, Served, Idle
<1> QED
  BY <1>1, NextSInv, HandlersCorrect, PTL DEF Spec

\* One handler at a time, a decided entry names an audit record of its own command
\* and decision: record_decision and the recorder number by the same list.
THEOREM AuditLinkedCorrect == ASSUME OneThread PROVE Spec => []AuditLinked
BY SerialHandlersCorrect, PTL DEF SInv

\* One handler at a time, an idempotency key names one entry and the index gives it
\* as the list has it: record_received looks before it numbers.
THEOREM KeyNamesEntryCorrect == ASSUME OneThread PROVE Spec => []KeyNamesEntry
<1>1. SInv => KeyNamesEntry
  BY DEF SInv, LedgerOK, KeyNamesEntry
<1> QED
  BY <1>1, SerialHandlersCorrect, PTL

\* One handler at a time, latest.json is a beginning of the log and record ids are
\* the line numbers, wherever a server dies: the log is written before latest.json.
THEOREM LatestBehindLogCorrect == ASSUME OneThread PROVE Spec => []LatestBehindLog
<1>1. TypeOK /\ SInv => LatestBehindLog
  BY DEF TypeOK, SInv, LogOK, LatestBehindLog, IsPrefix
<1> QED
  BY <1>1, SerialHandlersCorrect, TypeCorrect, PTL
=============================================================================
