------------------------- MODULE PaperExchangeThreads -------------------------
(***************************************************************************)
(* The paper exchange (services/paper_exchange/exchange.py) as the server  *)
(* really runs it: ThreadingHTTPServer and FastAPI's thread pool call the  *)
(* handlers of one InMemoryPaperExchange from several threads, and the     *)
(* exchange has no lock.  A handler is a sequence of steps, one for each   *)
(* access to a shared attribute whose place between the other threads'     *)
(* accesses can matter, and ends with _persist_state, one step per file.   *)
(*                                                                         *)
(* The decisions and updates are those of PaperExchange, evaluated on what *)
(* the thread has read.  Freshness is left out (age 0): a handler reads    *)
(* the clock once, and lapses are checked in PaperExchange.                *)
(***************************************************************************)
EXTENDS PaperRisk

CONSTANTS
    Threads,  \* server threads
    Stored,   \* whether the exchange was given a state store
    MaxCalls  \* bound: requests

ASSUME ThreadAssumption == Stored \in BOOLEAN /\ MaxCalls \in Nat

VARIABLES
    account, orders, events, halted, riskState,  \* as in PaperExchange
    thread,  \* each thread's handler: where it is and what it has read
    files,   \* the four files of the state store
    calls    \* requests so far: bounds the model, not the program

memory == <<account, orders, events, halted, riskState>>
vars == <<account, orders, events, halted, riskState, thread, files, calls>>

\* Bounds of PaperExchange that MaxCalls requests cannot reach.
MaxOrders == MaxCalls
MaxEvents == MaxCalls * (MaxCalls + 2)

Exchange == INSTANCE PaperExchange
                WITH age <- 0, snapshot <- <<>>, cursor <- 0, disk <- <<>>

\* The files in the order _persist_state writes them, and what each is given.
FileOrder == <<"orders", "reconciliation", "portfolio", "latest">>

PayloadOf(file, acct, os, es, h) ==
    CASE file = "orders"         -> os
      [] file = "reconciliation" -> es
      [] file = "portfolio"      -> acct
      [] file = "latest"         -> [orders |-> Len(os), events |-> Len(es),
                                     account |-> acct, halted |-> h]

Payload(file) == PayloadOf(file, account, orders, events, halted)

Idle == [pc |-> "idle"]

\* Where a handler goes after its last change of the memory.
Saving == IF Stored THEN [pc |-> "save"] ELSE Idle

Init ==
    /\ Exchange!Boot(account, orders, events, halted, riskState, 0)
    /\ thread = [t \in Threads |-> Idle]
    /\ files = [f \in {FileOrder[k] : k \in 1 .. 4} |->
                    PayloadOf(f, DefaultAccount, <<>>, <<>>, FALSE)]
    /\ calls = 0

-----------------------------------------------------------------------------
At(t, pc) == thread[t].pc = pc

Go(t, state) == thread' = [thread EXCEPT ![t] = state]

\* A request arrives at an idle thread.
Called(t) == At(t, "idle") /\ calls < MaxCalls /\ calls' = calls + 1

Logging(order, status, then) ==
    [pc |-> "log", order |-> order, status |-> status, then |-> then]

Swapping(list, then) == [pc |-> "swap", list |-> list, then |-> then]

\* The list comprehension of cancel_order and _fill_order: every item with the
\* order's id is replaced.
Rebuilt(o) == [n \in DOMAIN orders |-> IF orders[n].id = o.id THEN o ELSE orders[n]]

\* self._orders = ...: whatever happened to the list since it was read is lost.
SwapOrders(t) ==
    /\ At(t, "swap")
    /\ orders' = thread[t].list
    /\ Go(t, thread[t].then)
    /\ UNCHANGED <<account, events, halted, riskState, files, calls>>

RecordEvent(t) ==
    /\ At(t, "log")
    /\ events' = Append(events, [order |-> thread[t].order, status |-> thread[t].status])
    /\ Go(t, thread[t].then)
    /\ UNCHANGED <<account, orders, halted, riskState, files, calls>>

-----------------------------------------------------------------------------
(* submit_order *)

Submit(t, i) ==
    /\ Called(t)
    /\ Go(t, [pc |-> "number", intent |-> i, accepted |-> Exchange!PreviewAccepts(i)])
    /\ UNCHANGED <<memory, files>>

NumberOrder(t) ==
    LET id == Len(orders) + 1 IN
    /\ At(t, "number")
    /\ Go(t, IF thread[t].accepted
             THEN [pc |-> "risk", intent |-> thread[t].intent, id |-> id]
             ELSE Logging(id, "REJECTED", Saving))
    /\ UNCHANGED <<memory, files, calls>>

EvaluateRisk(t) ==
    /\ At(t, "risk")
    /\ Go(t, IF RiskAccepts(account, 0, riskState, thread[t].intent)
             THEN [thread[t] EXCEPT !.pc = "append"]
             ELSE Logging(thread[t].id, "REJECTED", Saving))
    /\ UNCHANGED <<memory, files, calls>>

AppendOrder(t) ==
    /\ At(t, "append")
    /\ orders' = Append(orders, NewOrder(thread[t].id, thread[t].intent))
    /\ Go(t, Logging(thread[t].id, "RESTING", Saving))
    /\ UNCHANGED <<account, events, halted, riskState, files, calls>>

-----------------------------------------------------------------------------
(* process_open_orders *)

ProcessOpenOrders(t) ==
    /\ Called(t)
    /\ Go(t, [pc |-> "loop", snapshot |-> orders, cursor |-> 1])
    /\ UNCHANGED <<memory, files>>

Visited(t) == thread[t].snapshot[thread[t].cursor]

InLoop(t) == At(t, "loop") /\ thread[t].cursor <= Len(thread[t].snapshot)

Advanced(pass) == [pass EXCEPT !.cursor = @ + 1]

FillsVisited(o) == IsOpen(o) /\ PassQuantity(o) > 0

\* Mutant: the loop does not move on.
SkipOrderForever(t) ==
    /\ InLoop(t)
    /\ ~FillsVisited(Visited(t))
    /\ Go(t, thread[t])
    /\ UNCHANGED <<memory, files, calls>>

SkipOrder(t) ==
    /\ InLoop(t)
    /\ ~FillsVisited(Visited(t))
    /\ Go(t, Advanced(thread[t]))
    /\ UNCHANGED <<memory, files, calls>>

\* Mutant: the snapshot's quantity is filled into the order as it is now.
FillOrderCurrent(t) ==
    LET o == Visited(t)
        q == PassQuantity(o)
    IN  /\ InLoop(t)
        /\ FillsVisited(o)
        /\ Go(t, Swapping([n \in DOMAIN orders |->
                             IF orders[n].id = o.id THEN FilledOrder(orders[n], q) ELSE orders[n]],
                          [pc |-> "read account", order |-> o, quantity |-> q,
                           then |-> Advanced(thread[t])]))
        /\ UNCHANGED <<memory, files, calls>>

\* _fill_order: the snapshot's copy is filled and goes into the list as it is now.
FillOrder(t) ==
    LET o == Visited(t)
        q == PassQuantity(o)
    IN  /\ InLoop(t)
        /\ FillsVisited(o)
        /\ Go(t, Swapping(Rebuilt(FilledOrder(o, q)),
                          [pc |-> "read account", order |-> o, quantity |-> q,
                           then |-> Advanced(thread[t])]))
        /\ UNCHANGED <<memory, files, calls>>

\* self._account_state = apply_paper_fill(self._account_state, fill): read ...
ReadAccount(t) ==
    /\ At(t, "read account")
    /\ Go(t, [pc |-> "apply", order |-> thread[t].order, then |-> thread[t].then,
              account |-> ApplyPaperFill(account, thread[t].order.intent, thread[t].quantity),
              status |-> FilledOrder(thread[t].order, thread[t].quantity).status])
    /\ UNCHANGED <<memory, files, calls>>

\* ... and assigned.
ApplyFill(t) ==
    /\ At(t, "apply")
    /\ account' = thread[t].account
    /\ Go(t, Logging(thread[t].order.id,
                     IF thread[t].status = "FILLED" THEN "MATCHED" ELSE "PARTIALLY_FILLED",
                     thread[t].then))
    /\ UNCHANGED <<orders, events, halted, riskState, files, calls>>

\* Mutant: a pass is not saved.
EndPassUnsaved(t) ==
    /\ At(t, "loop") /\ thread[t].cursor > Len(thread[t].snapshot)
    /\ Go(t, Idle)
    /\ UNCHANGED <<memory, files, calls>>

EndPass(t) ==
    /\ At(t, "loop") /\ thread[t].cursor > Len(thread[t].snapshot)
    /\ Go(t, Saving)
    /\ UNCHANGED <<memory, files, calls>>

-----------------------------------------------------------------------------
(* cancel_order, expire_order *)

\* The first order with this id.
IsFirst(n, id) == orders[n].id = id /\ \A m \in 1 .. n - 1 : orders[m].id # id

\* Mutant: a closed order is cancelled too.
CancelOrderClosed(t, n) ==
    /\ Called(t)
    /\ IsFirst(n, orders[n].id)
    /\ Go(t, [pc |-> "rebuild", order |-> WithStatus(orders[n], "CANCELED")])
    /\ UNCHANGED <<memory, files>>

CancelOrder(t, n) ==
    /\ Called(t)
    /\ IsFirst(n, orders[n].id)
    /\ Go(t, IF IsOpen(orders[n])
             THEN [pc |-> "rebuild", order |-> WithStatus(orders[n], "CANCELED")]
             ELSE Logging(orders[n].id, "CANCELED", Saving))
    /\ UNCHANGED <<memory, files>>

RebuildOrders(t) ==
    /\ At(t, "rebuild")
    /\ Go(t, Swapping(Rebuilt(thread[t].order),
                      Logging(thread[t].order.id, "CANCELED", Saving)))
    /\ UNCHANGED <<memory, files, calls>>

ExpireOrder(t, n) ==
    /\ Called(t)
    /\ IsFirst(n, orders[n].id)
    /\ IsOpen(orders[n])
    /\ Go(t, [pc |-> "expire", index |-> n, order |-> WithStatus(orders[n], "EXPIRED")])
    /\ UNCHANGED <<memory, files>>

\* self._orders[index] = expired, on whatever list is there now.
ExpireAtIndex(t) ==
    LET n == thread[t].index
        o == thread[t].order
    IN  /\ At(t, "expire") /\ n <= Len(orders)
        /\ orders' = [orders EXCEPT ![n] = o]
        /\ Go(t, Logging(o.id, "EXPIRED", Saving))
        /\ UNCHANGED <<account, events, halted, riskState, files, calls>>

\* The list was cleared meanwhile: IndexError ends the handler.
ExpireIndexError(t) ==
    /\ At(t, "expire") /\ thread[t].index > Len(orders)
    /\ Go(t, Idle)
    /\ UNCHANGED <<memory, files, calls>>

-----------------------------------------------------------------------------
(* reset and the panic controls *)

Reset(t) ==
    /\ Called(t)
    /\ account' = DefaultAccount
    /\ Go(t, [pc |-> "clear orders"])
    /\ UNCHANGED <<orders, events, halted, riskState, files>>

ClearOrders(t) ==
    /\ At(t, "clear orders")
    /\ orders' = <<>>
    /\ Go(t, [pc |-> "clear events"])
    /\ UNCHANGED <<account, events, halted, riskState, files, calls>>

ClearEvents(t) ==
    /\ At(t, "clear events")
    /\ events' = <<>>
    /\ Go(t, [pc |-> "resume"])
    /\ UNCHANGED <<account, orders, halted, riskState, files, calls>>

ClearHalt(t) ==
    /\ At(t, "resume")
    /\ halted' = FALSE
    /\ Go(t, Saving)
    /\ UNCHANGED <<account, orders, events, riskState, files, calls>>

PanicHalt(t) ==
    /\ Called(t)
    /\ halted' = TRUE
    /\ Go(t, [pc |-> "veto"])
    /\ UNCHANGED <<account, orders, events, riskState, files>>

VetoOrders(t) ==
    /\ At(t, "veto")
    /\ riskState' = [DefaultRiskState EXCEPT !.panic = TRUE]
    /\ Go(t, Saving)
    /\ UNCHANGED <<account, orders, events, halted, files, calls>>

PanicCancelOpenOrders(t) ==
    /\ Called(t)
    /\ Go(t, Swapping([n \in DOMAIN orders |->
                         IF IsOpen(orders[n]) THEN WithStatus(orders[n], "CANCELED")
                         ELSE orders[n]],
                      Logging(Exchange!AllOrders, "CANCELED", Saving)))
    /\ UNCHANGED <<memory, files>>

PanicFlattenPositions(t) ==
    /\ Called(t)
    /\ account' = DefaultAccount
    /\ Go(t, Logging(Exchange!AllOrders, "MATCHED", Saving))
    /\ UNCHANGED <<orders, events, halted, riskState, files>>

-----------------------------------------------------------------------------
(* _persist_state: the payload of a file is read from the memory as it is  *)
(* when the one before has been written.                                   *)

Writing(k) == [pc |-> "write", file |-> k, data |-> Payload(FileOrder[k])]

BeginSave(t) ==
    /\ At(t, "save")
    /\ Go(t, Writing(1))
    /\ UNCHANGED <<memory, files, calls>>

WriteFile(t) ==
    LET k == thread[t].file IN
    /\ At(t, "write")
    /\ files' = [files EXCEPT ![FileOrder[k]] = thread[t].data]
    /\ Go(t, IF k < Len(FileOrder) THEN Writing(k + 1) ELSE Idle)
    /\ UNCHANGED <<memory, calls>>

\* The server dies at any step; a new one starts with its boot state.
Restart ==
    /\ Exchange!Boot(account', orders', events', halted', riskState', 0)
    /\ thread' = [t \in Threads |-> Idle]
    /\ UNCHANGED <<files, calls>>

Request(t) ==
    \/ \E i \in Intents : Submit(t, i)
    \/ ProcessOpenOrders(t)
    \/ \E n \in DOMAIN orders : CancelOrder(t, n) \/ ExpireOrder(t, n)
    \/ Reset(t)
    \/ PanicHalt(t)
    \/ PanicCancelOpenOrders(t)
    \/ PanicFlattenPositions(t)

HandlerStep(t) ==
    \/ NumberOrder(t) \/ EvaluateRisk(t) \/ AppendOrder(t)
    \/ SkipOrder(t) \/ FillOrder(t) \/ ReadAccount(t) \/ ApplyFill(t) \/ EndPass(t)
    \/ RebuildOrders(t) \/ SwapOrders(t)
    \/ ExpireAtIndex(t) \/ ExpireIndexError(t)
    \/ ClearOrders(t) \/ ClearEvents(t) \/ ClearHalt(t)
    \/ VetoOrders(t)
    \/ RecordEvent(t)
    \/ BeginSave(t) \/ WriteFile(t)

Next ==
    \/ \E t \in Threads : Request(t) \/ HandlerStep(t)
    \/ Restart

Spec == Init /\ [][Next]_vars
-----------------------------------------------------------------------------
ThreadPcs == {"idle", "number", "risk", "append", "loop", "read account", "apply", "rebuild",
              "swap", "expire", "clear orders", "clear events", "resume", "veto", "log",
              "save", "write"}

TypeOK ==
    /\ account \in Account
    /\ orders \in Seq(Order)
    /\ events \in Seq(Exchange!Event)
    /\ halted \in BOOLEAN
    /\ riskState \in RiskState
    /\ calls \in 0 .. MaxCalls
    /\ DOMAIN thread = Threads
    /\ \A t \in Threads : thread[t].pc \in ThreadPcs
    /\ files["orders"] \in Seq(Order)
    /\ files["reconciliation"] \in Seq(Exchange!Event)
    /\ files["portfolio"] \in Account
    /\ files["latest"] \in [orders: Nat, events: Nat, account: Account, halted: BOOLEAN]

\* However the threads interleave, an order's status, fills and filled quantity
\* belong together and no order is filled beyond its quantity: _fill_order computes
\* status, fills and quantity from one copy of the order and replaces it whole, so a
\* stale copy loses another thread's change but never mixes with it.
OrdersSound == \A n \in DOMAIN orders : LifecycleOf(orders[n])

\* What a handler may still put into the list: the list it is about to assign, and
\* the part of its snapshot that its pass has not visited.
Continuation(t) ==
    IF At(t, "swap") THEN thread[t].then.then
    ELSE IF thread[t].pc \in {"read account", "apply", "log"} THEN thread[t].then
    ELSE thread[t]

Carried(t) ==
    LET pass == Continuation(t) IN
    (IF At(t, "swap") THEN Range(thread[t].list) ELSE {})
    \cup (IF pass.pc = "loop" THEN {pass.snapshot[n] : n \in pass.cursor .. Len(pass.snapshot)} ELSE {})

FillUnderWay(t) ==
    \/ At(t, "swap") /\ thread[t].then.pc = "read account"
    \/ At(t, "read account")
    \/ At(t, "apply")

\* The exchange is panic-halted, and neither its list nor any handler under way
\* has an open order, an accepted one or a fill left.
Drained ==
    /\ riskState.panic
    /\ \A n \in DOMAIN orders : ~IsOpen(orders[n])
    /\ \A t \in Threads :
          /\ ~At(t, "append")
          /\ ~FillUnderWay(t)
          /\ \A o \in Carried(t) : ~IsOpen(o)

\* panic_halt and panic_cancel_open_orders do stop the exchange once the handlers
\* that were under way have drained: from then on no interleaving of requests, a
\* reset included, opens an order or moves a position other than by flattening it,
\* until the server is restarted.
StopIsFinal ==
    [][Drained /\ ~Restart =>
          Drained' /\ account'.books \in {account.books, DefaultAccount.books}]_vars

\* docs/architecture/system_design.md: "Terminal states should not be overwritten
\* without a corrective reconciliation record."  So no order is reported both as
\* completely filled and as expired.
TerminalOnce ==
    \A m, n \in DOMAIN events :
        events[m].status = "MATCHED" /\ events[n].status = "EXPIRED"
            => events[m].order # events[n].order
=============================================================================
