------------------------------ MODULE CommandApi ------------------------------
(***************************************************************************)
(* The command endpoints of the API (apps/api/fastapi_app.py and           *)
(* apps/api/server.py) with the command ledger (services/audit/ledger.py)  *)
(* and the file-backed audit recorder (services/audit/records.py).         *)
(*                                                                         *)
(* Handlers are plain functions that the web server runs on a pool of      *)
(* threads without a lock: each handler takes one step per access to the   *)
(* shared state that another handler can come between (a list and its      *)
(* index are written in one step: handlers read one or the other).  The    *)
(* ledger lives in memory, the audit records also in a JSONL file that a   *)
(* restarted server reads back, and in latest.json.                        *)
(***************************************************************************)
EXTENDS CommandGate, FiniteSets, SequencesExt

CONSTANTS
    Threads,    \* threads that run handlers
    Configs,    \* the environments the server is started with
    Keys,       \* idempotency keys
    Requests,   \* bodies sent to the validation endpoint: [key, type, payload]
    Payloads,   \* request payloads
    ShapeOf,    \* Payloads -> what payload_fingerprint sees of them
    Endpoints,  \* the commands whose endpoints clients call
    MaxRecords  \* bound: audit records

ASSUME ApiAssumption ==
    /\ IsFiniteSet(Threads)
    /\ Configs \subseteq RuntimeConfig
    /\ \A r \in Requests : r.key \in Keys /\ r.payload \in Payloads
    /\ MaxRecords \in Nat

\* What an endpoint does under which command of the catalog, through _command_gate
\* (or live_readonly_account_payload) and without.
GatedCommands == {"submit_paper_order", "get_live_readonly_account"}

UngatedCommands ==
    {"reset_paper_portfolio", "cancel_order_intent", "activate_panic_halt",
     "panic_cancel_open_orders", "panic_flatten_positions", "create_strategy_session",
     "pause_strategy_session", "stop_strategy_session"}

VARIABLES
    config,     \* load_runtime_config()
    ledger,     \* _entries
    byKey,      \* _by_idempotency_key
    audit,      \* the recorder's _records
    jsonl,      \* audit/records.jsonl
    latest,     \* audit/latest.json
    thread,     \* each thread's handler
    performed   \* how often each command took effect

vars == <<config, ledger, byKey, audit, jsonl, latest, thread, performed>>

\* CommandLedgerEntry and AuditRecord; 0 is "no audit record".
Status == {"received", "accepted", "rejected"}

Types == CommandType \cup {r.type : r \in Requests}

Shapes == {ShapeOf[p] : p \in Payloads}

Entry == [id: Nat \ {0}, key: Keys, type: Types, shape: Shapes, status: Status, audit: Nat]

NoKey == "no key"

AuditRecord == [id: Nat \ {0}, type: CommandType, decision: {"accepted", "rejected"},
                key: Keys \cup {NoKey}]

Idle == [pc |-> "idle"]

\* A handler under way: the command, the entry's id, the record's number, the verdict.
HandlerState ==
    [pc: {"number", "enter", "evaluate", "record", "log", "latest", "validate", "gate"},
     kind: {"validate", "gate"}, type: Types \cup GatedCommands, key: Keys \cup {NoKey},
     shape: Shapes \cup {NoKey}, id: Nat, record: Nat, accepted: BOOLEAN]

TypeOK ==
    /\ config \in Configs
    /\ ledger \in Seq(Entry)
    /\ DOMAIN byKey \subseteq Keys
    /\ byKey \in [DOMAIN byKey -> Entry]
    /\ {audit, jsonl, latest} \subseteq Seq(AuditRecord)
    /\ thread \in [Threads -> {Idle} \cup HandlerState]
    /\ performed \in [GatedCommands \cup UngatedCommands -> Nat]

Init ==
    /\ config \in Configs
    /\ ledger = <<>>
    /\ byKey = <<>>
    /\ audit = <<>>
    /\ jsonl = <<>>
    /\ latest = <<>>
    /\ thread = [t \in Threads |-> Idle]
    /\ performed = [c \in GatedCommands \cup UngatedCommands |-> 0]

-----------------------------------------------------------------------------
At(t, pc) == thread[t].pc = pc

Go(t, state) == thread' = [thread EXCEPT ![t] = state]

GoTo(t, pc) == Go(t, [thread[t] EXCEPT !.pc = pc])

\* _by_idempotency_key[entry.idempotency_key] = entry.
Indexed(e) == [k \in {e.key} \cup DOMAIN byKey |-> IF k = e.key THEN e ELSE byKey[k]]

\* Every handler that is under way may still add a record.
Room == Len(audit) + Cardinality({t \in Threads : ~At(t, "idle")}) < MaxRecords

Handler(pc, kind, type, key, shape) ==
    [pc |-> pc, kind |-> kind, type |-> type, key |-> key, shape |-> shape,
     id |-> 0, record |-> 0, accepted |-> FALSE]

\* POST /commands/validate, record_received: the key is looked up.  A key used for
\* another command or another shape is answered 409 and changes nothing.
Receive(t, r) ==
    LET shape == ShapeOf[r.payload]
    IN  /\ At(t, "idle") /\ Room
        /\ \/ /\ r.key \notin DOMAIN byKey
              /\ Go(t, Handler("number", "validate", r.type, r.key, shape))
           \/ /\ r.key \in DOMAIN byKey
              /\ byKey[r.key].type = r.type /\ byKey[r.key].shape = shape
              /\ Go(t, [Handler("evaluate", "validate", r.type, r.key, shape)
                           EXCEPT !.id = byKey[r.key].id])
        /\ UNCHANGED <<config, ledger, byKey, audit, jsonl, latest, performed>>

\* Mutant: ids are counted from the entries there are.
NumberEntryFromZero(t) ==
    /\ At(t, "number")
    /\ Go(t, [thread[t] EXCEPT !.pc = "enter", !.id = Len(ledger)])
    /\ UNCHANGED <<config, ledger, byKey, audit, jsonl, latest, performed>>

\* command_id from len(self._entries) + 1.
NumberEntry(t) ==
    /\ At(t, "number")
    /\ Go(t, [thread[t] EXCEPT !.pc = "enter", !.id = Len(ledger) + 1])
    /\ UNCHANGED <<config, ledger, byKey, audit, jsonl, latest, performed>>

EnterEntry(t) ==
    LET h == thread[t]
        e == [id |-> h.id, key |-> h.key, type |-> h.type, shape |-> h.shape,
              status |-> "received", audit |-> 0]
    IN  /\ At(t, "enter")
        /\ ledger' = Append(ledger, e)
        /\ byKey' = Indexed(e)
        /\ GoTo(t, "evaluate")
        /\ UNCHANGED <<config, audit, jsonl, latest, performed>>

-----------------------------------------------------------------------------
\* CommandRequest.from_mapping raises on an unknown command type.
EvaluateUnknown(t) ==
    /\ At(t, "evaluate")
    /\ thread[t].type \notin CommandType
    /\ Go(t, Idle)
    /\ UNCHANGED <<config, ledger, byKey, audit, jsonl, latest, performed>>

\* The verdict: the validation endpoint has no fee model, the gated endpoints do.
Verdict(h) ==
    /\ EvaluateCommand(config, h.type, h.kind = "gate")
    /\ h.kind = "gate" /\ h.type = "get_live_readonly_account" => config.readonlyKeys

\* evaluate_command, and the record's number from len(self._records) + 1.
Evaluate(t) ==
    /\ At(t, "evaluate")
    /\ thread[t].type \in CommandType
    /\ Go(t, [thread[t] EXCEPT !.pc = "record", !.record = Len(audit) + 1,
                               !.accepted = Verdict(thread[t])])
    /\ UNCHANGED <<config, ledger, byKey, audit, jsonl, latest, performed>>

RecordOf(h) ==
    [id |-> h.record, type |-> h.type, key |-> h.key,
     decision |-> IF h.accepted THEN "accepted" ELSE "rejected"]

\* Mutant: latest.json is written before the log.
AppendRecordLatestFirst(t) ==
    /\ At(t, "record")
    /\ audit' = Append(audit, RecordOf(thread[t]))
    /\ latest' = audit'
    /\ GoTo(t, "log")
    /\ UNCHANGED <<config, ledger, byKey, jsonl, performed>>

AppendRecord(t) ==
    /\ At(t, "record")
    /\ audit' = Append(audit, RecordOf(thread[t]))
    /\ GoTo(t, "log")
    /\ UNCHANGED <<config, ledger, byKey, jsonl, latest, performed>>

\* Mutant: an accepted decision is not logged.
AppendLogRejections(t) ==
    /\ At(t, "log")
    /\ jsonl' = IF thread[t].accepted THEN jsonl ELSE Append(jsonl, RecordOf(thread[t]))
    /\ GoTo(t, "latest")
    /\ UNCHANGED <<config, ledger, byKey, audit, latest, performed>>

\* Mutant: the line is the last record of the list.
AppendLogNewest(t) ==
    /\ At(t, "log")
    /\ jsonl' = Append(jsonl, Last(audit))
    /\ GoTo(t, "latest")
    /\ UNCHANGED <<config, ledger, byKey, audit, latest, performed>>

AppendLog(t) ==
    /\ At(t, "log")
    /\ jsonl' = Append(jsonl, RecordOf(thread[t]))
    /\ GoTo(t, "latest")
    /\ UNCHANGED <<config, ledger, byKey, audit, latest, performed>>

\* Mutant: the endpoint answers once the audit record is written.
WriteLatestAndAnswer(t) ==
    /\ At(t, "latest")
    /\ latest' = audit
    /\ Go(t, Idle)
    /\ UNCHANGED <<config, ledger, byKey, audit, jsonl, performed>>

\* A handler then goes on as its kind does: "validate" decides, "gate" performs.
WriteLatest(t) ==
    /\ At(t, "latest")
    /\ latest' = audit
    /\ GoTo(t, thread[t].kind)
    /\ UNCHANGED <<config, ledger, byKey, audit, jsonl, performed>>

-----------------------------------------------------------------------------
Decided(e, h) ==
    [e EXCEPT !.status = IF h.accepted THEN "accepted" ELSE "rejected", !.audit = h.record]

\* Mutant: the decision goes to the entry received last.
DecideNewest(t) ==
    LET u == Decided(ledger[Len(ledger)], thread[t])
    IN  /\ At(t, "validate")
        /\ ledger' = [ledger EXCEPT ![Len(ledger)] = u]
        /\ byKey' = Indexed(u)
        /\ Go(t, Idle)
        /\ UNCHANGED <<config, audit, jsonl, latest, performed>>

\* Mutant: the key's index keeps the entry as received.
DecideUnindexed(t) ==
    LET n == SelectInSeq(ledger, LAMBDA e : e.id = thread[t].id)
    IN  /\ At(t, "validate")
        /\ ledger' = [ledger EXCEPT ![n] = Decided(@, thread[t])]
        /\ Go(t, Idle)
        /\ UNCHANGED <<config, byKey, audit, jsonl, latest, performed>>

\* The ledger's record_decision: the first entry with the command's id.
Decide(t) ==
    LET n == SelectInSeq(ledger, LAMBDA e : e.id = thread[t].id)
        u == Decided(ledger[n], thread[t])
    IN  /\ At(t, "validate")
        /\ ledger' = [ledger EXCEPT ![n] = u]
        /\ byKey' = Indexed(u)
        /\ Go(t, Idle)
        /\ UNCHANGED <<config, audit, jsonl, latest, performed>>

\* An endpoint behind the gate: evaluated, audited, then carried out.
CallGated(t, c) ==
    /\ At(t, "idle") /\ Room
    /\ Go(t, Handler("evaluate", "gate", c, NoKey, NoKey))
    /\ UNCHANGED <<config, ledger, byKey, audit, jsonl, latest, performed>>

\* Mutant: the verdict is recorded and ignored.
PerformAlways(t) ==
    /\ At(t, "gate")
    /\ performed' = [performed EXCEPT ![thread[t].type] = @ + 1]
    /\ Go(t, Idle)
    /\ UNCHANGED <<config, ledger, byKey, audit, jsonl, latest>>

Perform(t) ==
    /\ At(t, "gate")
    /\ performed' = IF thread[t].accepted
                    THEN [performed EXCEPT ![thread[t].type] = @ + 1]
                    ELSE performed
    /\ Go(t, Idle)
    /\ UNCHANGED <<config, ledger, byKey, audit, jsonl, latest>>

\* PaperOrderIntent.from_mapping raises after the order was let through.
MalformedIntent(t) ==
    /\ At(t, "gate")
    /\ thread[t].accepted /\ thread[t].type = "submit_paper_order"
    /\ Go(t, Idle)
    /\ UNCHANGED <<config, ledger, byKey, audit, jsonl, latest, performed>>

\* An endpoint that is carried out at once, once per run of this model.
CallUngated(c) ==
    /\ performed[c] = 0
    /\ performed' = [performed EXCEPT ![c] = @ + 1]
    /\ UNCHANGED <<config, ledger, byKey, audit, jsonl, latest, thread>>

\* The server dies with its handlers; the new one reads the audit log back.
Restart ==
    /\ config' \in Configs
    /\ ledger' = <<>>
    /\ byKey' = <<>>
    /\ audit' = jsonl
    /\ thread' = [t \in Threads |-> Idle]
    /\ UNCHANGED <<jsonl, latest, performed>>

HandlerStep(t) ==
    \/ NumberEntry(t) \/ EnterEntry(t)
    \/ EvaluateUnknown(t) \/ Evaluate(t)
    \/ AppendRecord(t) \/ AppendLog(t) \/ WriteLatest(t)
    \/ Decide(t) \/ Perform(t) \/ MalformedIntent(t)

Next ==
    \/ \E t \in Threads :
          \/ \E r \in Requests : Receive(t, r)
          \/ \E c \in GatedCommands \cap Endpoints : CallGated(t, c)
          \/ HandlerStep(t)
    \/ \E c \in UngatedCommands \cap Endpoints : CallUngated(c)
    \/ Restart

Spec == Init /\ [][Next]_vars

\* A handler never waits for another one: its thread runs it to its end unless the
\* server dies.
FairSpec == Spec /\ \A t \in Threads : WF_vars(HandlerStep(t))
-----------------------------------------------------------------------------
Rows(log, P(_)) == Cardinality({n \in DOMAIN log : P(log[n])})

\* Every decided entry names an audit record of its own command with its decision:
\* of a retry, the record of the last one.
AuditLinked ==
    \A n \in DOMAIN ledger : ledger[n].status # "received" =>
        \E m \in DOMAIN audit :
            /\ audit[m].id = ledger[n].audit
            /\ audit[m].type = ledger[n].type
            /\ audit[m].decision = ledger[n].status

\* An idempotency key names one entry: the index gives the entry as the list has
\* it, and no second entry has the key or the id.
KeyNamesEntry ==
    /\ \A k \in DOMAIN byKey : \E n \in DOMAIN ledger : ledger[n] = byKey[k]
    /\ \A m, n \in DOMAIN ledger :
          m # n => ledger[m].key # ledger[n].key /\ ledger[m].id # ledger[n].id

\* latest.json lags behind the log but never shows what the log lost, wherever the
\* server dies; record ids are the positions in the log.
LatestBehindLog ==
    /\ IsPrefix(latest, jsonl)
    /\ \A n \in DOMAIN jsonl : jsonl[n].id = n

\* Handlers may interleave and the server may die: an entry is marked decided only
\* when the log has a record with that number and that decision.
DecisionsDurable ==
    \A n \in DOMAIN ledger : ledger[n].status # "received" =>
        \E m \in DOMAIN jsonl :
            jsonl[m].id = ledger[n].audit /\ jsonl[m].decision = ledger[n].status

\* Behind the gate nothing happens before its acceptance is in the log, across
\* threads and restarts: no gated command took effect more often than it was
\* logged as accepted.
GatedEffectsLogged ==
    \A c \in GatedCommands :
        performed[c] <= Rows(jsonl, LAMBDA r : r.type = c /\ r.decision = "accepted")

\* One handler at a time, a received command that the catalog knows is eventually
\* decided under its key, unless the server dies and forgets the key.
ReceivedIsDecided ==
    \A k \in Keys :
        (k \in DOMAIN byKey /\ byKey[k].status = "received" /\ byKey[k].type \in CommandType)
            ~> (k \in DOMAIN byKey => byKey[k].status # "received")

Log == INSTANCE AuditLog WITH records <- audit, stored <- jsonl

\* However handlers interleave and wherever the server dies, the recorder is an
\* audit log: the file only grows, by records that were served and by each of them
\* once, and a restarted server serves what the file has.
ImplementsAuditLog == Log!Spec
=============================================================================
