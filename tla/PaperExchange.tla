---------------------------- MODULE PaperExchange ----------------------------
(***************************************************************************)
(* The in-memory paper exchange (services/paper_exchange/exchange.py),     *)
(* one request handler at a time: submit, process, cancel, expire, reset   *)
(* and the panic controls, with the JSON snapshot every handler writes     *)
(* last and a server restart.                                              *)
(*                                                                         *)
(* process_open_orders is a loop over a snapshot of the order list, so it  *)
(* takes one step per order; no other handler runs meanwhile.  All the     *)
(* others are one step.  A request that is answered without touching any   *)
(* state (an unknown order id, expiring a closed order, preview) is a      *)
(* stuttering step.                                                        *)
(***************************************************************************)
EXTENDS PaperRisk

CONSTANTS
    MaxOrders,  \* bound: orders accepted since the last reset
    MaxEvents   \* bound: length of the reconciliation log

ASSUME BoundAssumption == MaxOrders \in Nat /\ MaxEvents \in Nat

VARIABLES
    account,    \* _account_state
    orders,     \* _orders
    events,     \* _reconciliation_events
    halted,     \* _halted
    riskState,  \* _risk_state
    age,        \* age of the account's freshness stamps, up to MaxAge + 1
    snapshot,   \* tuple(self._orders) of a running process_open_orders
    cursor,     \* 0, or the loop's position in the snapshot
    disk        \* what _persist_state last wrote

memory == <<account, orders, events, halted>>
vars == <<account, orders, events, halted, riskState, age, snapshot, cursor, disk>>

\* ReconciliationEvent: the order it names (AllOrders for the panic controls'
\* placeholder names) and its status.
AllOrders == 0

EventStatus == {"RESTING", "PARTIALLY_FILLED", "MATCHED", "CANCELED", "EXPIRED", "REJECTED"}

Event == [order: Nat, status: EventStatus]

TypeOK ==
    /\ account \in Account
    /\ orders \in Seq(Order)
    /\ events \in Seq(Event)
    /\ halted \in BOOLEAN
    /\ riskState \in RiskState
    /\ age \in 0 .. MaxAge + 1
    /\ snapshot \in Seq(Order)
    /\ cursor \in 0 .. Len(snapshot) + 1
    /\ disk \in Account \X Seq(Order) \X Seq(Event) \X BOOLEAN

BootMemory == <<DefaultAccount, <<>>, <<>>, FALSE>>

\* __init__: nothing is read back from disk.
Boot(acct, os, es, h, rs, a) ==
    /\ acct = DefaultAccount
    /\ os = <<>>
    /\ es = <<>>
    /\ h = FALSE
    /\ rs = DefaultRiskState
    /\ a = 0

Init ==
    /\ Boot(account, orders, events, halted, riskState, age)
    /\ snapshot = <<>>
    /\ cursor = 0
    /\ disk = BootMemory

-----------------------------------------------------------------------------
Idle == cursor = 0

\* Every open order may still add two events: keep room for them.
Room(k) ==
    Len(events) + k + 2 * Cardinality({n \in DOMAIN orders : IsOpen(orders[n])}) <= MaxEvents

Record(order, status) ==
    events' = Append(events, [order |-> order, status |-> status])

PersistState == disk' = memory'

NoPass == UNCHANGED <<snapshot, cursor>>

\* preview_order accepts.
PreviewAccepts(i) ==
    /\ ~halted
    /\ i.symbol \in Executable
    /\ ~IsStale(age)
    /\ FitsFilters(i)
    /\ i.limit
    /\ MakerFirst(i, Quotes[i.symbol])
    /\ ExpectedEdge(i, Quotes[i.symbol]) > 0

Accepts(i) == PreviewAccepts(i) /\ RiskAccepts(account, age, riskState, i)

NextOrderId == Len(orders) + 1

SubmitAccepted(i) ==
    /\ Idle /\ Len(orders) < MaxOrders /\ Room(3)
    /\ Accepts(i)
    /\ orders' = Append(orders, NewOrder(NextOrderId, i))
    /\ Record(NextOrderId, "RESTING")
    /\ UNCHANGED <<account, halted, riskState, age>>
    /\ NoPass
    /\ PersistState

\* The rejection is logged under the id the next accepted order will get.
SubmitRejected(i) ==
    /\ Idle /\ Room(1)
    /\ ~Accepts(i)
    /\ Record(NextOrderId, "REJECTED")
    /\ UNCHANGED <<account, orders, halted, riskState, age>>
    /\ NoPass
    /\ PersistState

-----------------------------------------------------------------------------
ProcessBegin ==
    /\ Idle
    /\ snapshot' = orders
    /\ cursor' = 1
    /\ UNCHANGED <<account, orders, events, halted, riskState, age, disk>>

\* Mutant: a pass does not look at the order's status.
ProcessFillAnyStatus ==
    /\ cursor \in 1 .. Len(snapshot)
    /\ LET o == snapshot[cursor]
           q == PassQuantity(o)
           u == FilledOrder(o, q)
       IN  /\ q > 0
           /\ orders' = [n \in DOMAIN orders |-> IF orders[n].id = o.id THEN u ELSE orders[n]]
           /\ account' = ApplyPaperFill(account, o.intent, q)
           /\ Record(o.id, IF u.status = "FILLED" THEN "MATCHED" ELSE "PARTIALLY_FILLED")
    /\ cursor' = cursor + 1
    /\ UNCHANGED <<halted, riskState, age, snapshot, disk>>

\* _fill_order on the snapshot's copy of the order.
ProcessFill ==
    /\ cursor \in 1 .. Len(snapshot)
    /\ LET o == snapshot[cursor]
           q == PassQuantity(o)
           u == FilledOrder(o, q)
       IN  /\ IsOpen(o)
           /\ q > 0
           /\ orders' = [n \in DOMAIN orders |-> IF orders[n].id = o.id THEN u ELSE orders[n]]
           /\ account' = ApplyPaperFill(account, o.intent, q)
           /\ Record(o.id, IF u.status = "FILLED" THEN "MATCHED" ELSE "PARTIALLY_FILLED")
    /\ cursor' = cursor + 1
    /\ UNCHANGED <<halted, riskState, age, snapshot, disk>>

ProcessSkip ==
    /\ cursor \in 1 .. Len(snapshot)
    /\ IsOpen(snapshot[cursor]) => PassQuantity(snapshot[cursor]) <= 0
    /\ cursor' = cursor + 1
    /\ UNCHANGED <<account, orders, events, halted, riskState, age, snapshot, disk>>

ProcessEnd ==
    /\ cursor = Len(snapshot) + 1
    /\ cursor' = 0
    /\ snapshot' = <<>>
    /\ UNCHANGED <<account, orders, events, halted, riskState, age>>
    /\ PersistState

-----------------------------------------------------------------------------
(* expire_order and cancel_order: an order's id is its position in the list *)
(* (OrderIds), so their first match and rebuild reach exactly the n-th order. *)

\* Mutant: an expiry is logged as a cancel.
ExpireOrderAsCancel(n) ==
    /\ Idle /\ Room(1)
    /\ IsOpen(orders[n])
    /\ orders' = [orders EXCEPT ![n] = WithStatus(@, "EXPIRED")]
    /\ Record(orders[n].id, "CANCELED")
    /\ UNCHANGED <<account, halted, riskState, age>>
    /\ NoPass
    /\ PersistState

\* Mutant: only filled orders are protected from expiry.
ExpireOrderClosed(n) ==
    /\ Idle /\ Room(1)
    /\ orders[n].status # "FILLED"
    /\ orders' = [orders EXCEPT ![n] = WithStatus(@, "EXPIRED")]
    /\ Record(orders[n].id, "EXPIRED")
    /\ UNCHANGED <<account, halted, riskState, age>>
    /\ NoPass
    /\ PersistState

ExpireOrder(n) ==
    /\ Idle /\ Room(1)
    /\ IsOpen(orders[n])
    /\ orders' = [orders EXCEPT ![n] = WithStatus(@, "EXPIRED")]
    /\ Record(orders[n].id, "EXPIRED")
    /\ UNCHANGED <<account, halted, riskState, age>>
    /\ NoPass
    /\ PersistState

\* The CANCELED event is logged whether or not the order was still open.
CancelOrder(n) ==
    /\ Idle /\ Room(1)
    /\ orders' = [orders EXCEPT ![n] = IF IsOpen(@) THEN WithStatus(@, "CANCELED") ELSE @]
    /\ Record(orders[n].id, "CANCELED")
    /\ UNCHANGED <<account, halted, riskState, age>>
    /\ NoPass
    /\ PersistState

\* Mutant: the positions outlive the orders that made them.
ResetKeepAccount ==
    /\ Idle
    /\ orders' = <<>>
    /\ events' = <<>>
    /\ halted' = FALSE
    /\ age' = 0
    /\ UNCHANGED <<account, riskState>>
    /\ NoPass
    /\ PersistState

\* Mutant: the risk state starts again with the rest.
ResetClearsRisk ==
    /\ Idle
    /\ account' = DefaultAccount
    /\ orders' = <<>>
    /\ events' = <<>>
    /\ halted' = FALSE
    /\ age' = 0
    /\ riskState' = DefaultRiskState
    /\ NoPass
    /\ PersistState

\* The risk state keeps whatever panic_halt put there.
Reset ==
    /\ Idle
    /\ account' = DefaultAccount
    /\ orders' = <<>>
    /\ events' = <<>>
    /\ halted' = FALSE
    /\ age' = 0
    /\ UNCHANGED riskState
    /\ NoPass
    /\ PersistState

PanicHalt ==
    /\ Idle
    /\ halted' = TRUE
    /\ riskState' = [DefaultRiskState EXCEPT !.panic = TRUE]
    /\ UNCHANGED <<account, orders, events, age>>
    /\ NoPass
    /\ PersistState

PanicCancelOpenOrders ==
    /\ Idle /\ Room(1)
    /\ orders' = [n \in DOMAIN orders |->
                    IF IsOpen(orders[n]) THEN WithStatus(orders[n], "CANCELED")
                    ELSE orders[n]]
    /\ Record(AllOrders, "CANCELED")
    /\ UNCHANGED <<account, halted, riskState, age>>
    /\ NoPass
    /\ PersistState

\* Positions are flattened by starting a new account; open orders stay.
PanicFlattenPositions ==
    /\ Idle /\ Room(1)
    /\ account' = DefaultAccount
    /\ age' = 0
    /\ Record(AllOrders, "MATCHED")
    /\ UNCHANGED <<orders, halted, riskState>>
    /\ NoPass
    /\ PersistState

\* Time passes; beyond MaxAge every age is equally stale.
Tick ==
    /\ age <= MaxAge
    /\ age' = age + 1
    /\ UNCHANGED <<account, orders, events, halted, riskState, snapshot, cursor, disk>>

\* The server process dies at any point and a new one starts.
Restart ==
    /\ Boot(account', orders', events', halted', riskState', age')
    /\ snapshot' = <<>>
    /\ cursor' = 0
    /\ UNCHANGED disk

Process == ProcessBegin \/ ProcessFill \/ ProcessSkip \/ ProcessEnd

Next ==
    \/ \E i \in Intents : SubmitAccepted(i) \/ SubmitRejected(i)
    \/ Process
    \/ \E n \in DOMAIN orders : ExpireOrder(n) \/ CancelOrder(n)
    \/ Reset
    \/ PanicHalt
    \/ PanicCancelOpenOrders
    \/ PanicFlattenPositions
    \/ Tick
    \/ Restart

Spec == Init /\ [][Next]_vars
-----------------------------------------------------------------------------
(* Safety invariants *)

\* Order ids are assigned as len(orders) + 1: each is the order's position, so no
\* two orders share one and _fill_order's rebuild replaces one order only.
OrderIds == \A n \in DOMAIN orders : orders[n].id = n

\* An order's status tells how much of it is filled, whatever passes, cancels,
\* expiries and panics it went through: never more than its quantity, FILLED
\* exactly when nothing remains, and in at most two fills (process_open_orders
\* completes a partially filled order).
OrderLifecycle == OrderIds /\ \A n \in DOMAIN orders : LifecycleOf(orders[n])

\* While a pass runs, the part of the snapshot still to be visited is current:
\* a fill is always computed from the order as it is.
SnapshotCurrent ==
    cursor > 0 =>
        /\ Len(snapshot) = Len(orders)
        /\ \A n \in cursor .. Len(snapshot) : snapshot[n] = orders[n]

\* A SELL on a LONG book or a BUY on a SHORT book can close more than is held;
\* the books still never go below zero (_updated_book clamps).
BooksNonNegative == \A k \in BookKeys : account.books[k].qty >= 0

\* Between requests the files hold what the server would answer, except that a
\* restarted server answers from its empty boot state until its first handler.
DiskCurrent == Idle => disk = memory \/ memory = BootMemory

-----------------------------------------------------------------------------
(* Action properties *)

NoOpenOrders == \A n \in DOMAIN orders : ~IsOpen(orders[n])

\* An order keeps its intent, its filled quantity never shrinks, and a closed
\* order is never changed again: not by a cancel, an expiry or a later pass.
OrdersMonotone ==
    [][\A n \in DOMAIN orders \cap DOMAIN orders' :
          /\ orders'[n].intent = orders[n].intent
          /\ orders'[n].filled >= orders[n].filled
          /\ ~IsOpen(orders[n]) => orders'[n] = orders[n]]_vars

\* panic_halt is for the life of the server process: no reset, flatten or lapse of
\* time clears the risk state's flag, and no order is accepted under it, even
\* when a reset has cleared _halted.  The escape is the restart itself: a reset
\* leaves the same account, orders, log and _halted behind.
PanicVeto ==
    [][riskState.panic /\ ~Restart =>
          riskState'.panic /\ Len(orders') <= Len(orders)]_vars

\* Halting and cancelling is a complete stop: with the exchange halted and no
\* order open, positions only change by being flattened, and no order reopens.
PanicSettles ==
    [][halted /\ NoOpenOrders =>
          /\ account'.books \in {account.books, DefaultAccount.books}
          /\ halted' => NoOpenOrders']_vars

\* A pass moves every order that was open when it began: a new order is at least
\* partly filled and a partly filled one is completed, so two passes close all.
PassProgress ==
    [][cursor > 0 /\ cursor' = 0 =>
          \A n \in DOMAIN snapshot \cap DOMAIN orders' :
             /\ orders'[n].status # "NEW"
             /\ snapshot[n].status = "PARTIALLY_FILLED" => orders'[n].status = "FILLED"]_vars

\* The stamps of the account's metadata and fees are set when it is created and
\* never renewed: once they lapse no order is accepted, and the exchange only trades
\* again from a new account, so no position is ever carried over a lapse.
StaleUntilFlat ==
    [][IsStale(age) =>
          /\ Len(orders') <= Len(orders)
          /\ IsStale(age') \/ account' = DefaultAccount]_vars

-----------------------------------------------------------------------------
(* What the documentation says of the exchange, and the code does not do *)

\* docs/risk/risk_principles.md: "Max symbol exposure: cap gross and
\* side-specific exposure per symbol."
SymbolExposureCapped ==
    \A s \in Executable : SymbolExposure(account, s) <= Limits.symbol
=============================================================================
