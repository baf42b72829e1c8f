----------------------------- MODULE PaperTrading -----------------------------
(***************************************************************************)
(* The vocabulary of the paper trading loop: what an order intent, a       *)
(* market quote, a symbol's filters and an order are, and the pure checks  *)
(* and estimates made from them (libs/schemas/paper_trading.py,            *)
(* libs/schemas/exchange_state.py, services/execution/policy.py and the    *)
(* module functions of services/paper_exchange/exchange.py).               *)
(*                                                                         *)
(* Decimals become integers: a quantity counts half lots (so that the half *)
(* fill of process_open_orders is exact, as it is in Decimal), a price     *)
(* counts ticks, rates are tenths of a basis point, and a notional is the  *)
(* product of the two integers.                                            *)
(***************************************************************************)
EXTENDS Integers, Sequences, FiniteSets

CONSTANTS
    Symbols,     \* the catalogued instruments, executable or not
    Executable,  \* those with the EXECUTABLE role: filters, fees, quote, books
    Filters,     \* Executable -> [tick, lot, minNotional]
    Quotes,      \* Executable -> the constant top of book
    Intents,     \* the order intents clients send
    MakerFee,    \* maker fee rate, tenths of a basis point
    TakerFee,    \* taker fee rate, tenths of a basis point
    TakerGate    \* the taker_gate_enabled argument of the exchange

Sides == {"BUY", "SELL"}

BookSides == {"LONG", "SHORT"}

\* PaperOrderIntent. "limit", "gtx": order_type is LIMIT, time_in_force is GTX.
\* "alpha" is expected_alpha_bps, "costs" slippage_bps + adverse_selection_bps.
Intent == [symbol: Symbols, side: Sides, book: BookSides, qty: Int, price: Int,
           limit: BOOLEAN, gtx: BOOLEAN, postOnly: BOOLEAN,
           allowTaker: BOOLEAN, alpha: Int, costs: Int]

Filter == [tick: Nat, lot: Nat, minNotional: Nat]

Quote == [bid: Nat, ask: Nat, bidSize: Nat, askSize: Nat,
          funding: Int, volatility: Nat]

ASSUME MarketAssumption ==
    /\ Executable \subseteq Symbols
    /\ Filters \in [Executable -> Filter]
    /\ \A s \in Executable : Filters[s].tick > 0 /\ Filters[s].lot > 0
    /\ Quotes \in [Executable -> Quote]
    /\ \A s \in Executable : Quotes[s].bidSize + Quotes[s].askSize > 0

ASSUME IntentAssumption == Intents \subseteq Intent

ASSUME FeeAssumption == MakerFee \in Nat \ {0} /\ TakerFee \in Nat /\ TakerGate \in BOOLEAN

\* A lot is a whole number of half lots: halving an aligned quantity is exact.
ASSUME HalfLotAssumption == \A s \in Executable : Filters[s].lot % 2 = 0

-----------------------------------------------------------------------------
Notional(i) == i.qty * i.price

IsMultiple(v, step) == step > 0 /\ v % step = 0

\* The filter checks of preview_order, for an executable symbol.
FitsFilters(i) ==
    /\ i.qty > 0
    /\ i.price > 0
    /\ IsMultiple(i.qty, Filters[i.symbol].lot)
    /\ IsMultiple(i.price, Filters[i.symbol].tick)
    /\ Notional(i) >= Filters[i.symbol].minNotional

WouldCross(i, q) ==
    IF i.side = "BUY" THEN i.price >= q.ask ELSE i.price <= q.bid

\* validate_maker_first_intent accepts.
MakerFirst(i, q) ==
    /\ i.gtx
    /\ i.postOnly
    /\ i.allowTaker => TakerGate
    /\ ~(i.postOnly /\ WouldCross(i, q))

AbsVal(n) == IF n < 0 THEN -n ELSE n

\* calculate_expected_edge: expected_edge_after_costs.
ExpectedEdge(i, q) ==
    Notional(i) * (i.alpha - MakerFee - (IF i.allowTaker THEN TakerFee ELSE 0)
                           - i.costs - AbsVal(q.funding))

\* The queue model, as a percentage multiplied by the two sizes' sum.
Depth(q) == q.bidSize + q.askSize

QueueFillProbability(i, q) ==
    LET base  == IF i.side = "BUY"
                 THEN IF i.price > q.bid THEN 78 ELSE IF i.price = q.bid THEN 58 ELSE 32
                 ELSE IF i.price < q.ask THEN 78 ELSE IF i.price = q.ask THEN 58 ELSE 32
        bonus == IF i.side = "BUY" THEN q.askSize - q.bidSize ELSE q.bidSize - q.askSize
        p     == base * Depth(q) + 15 * bonus
    IN  IF p > 95 * Depth(q) THEN 95 * Depth(q)
        ELSE IF p < 5 * Depth(q) THEN 5 * Depth(q) ELSE p

-----------------------------------------------------------------------------
OpenStatus == {"NEW", "PARTIALLY_FILLED"}

TerminalStatus == {"FILLED", "CANCELED", "EXPIRED"}

\* PaperOrder; a fill is its quantity (its price is the limit price).
Order == [id: Nat, intent: Intents, status: OpenStatus \cup TerminalStatus,
          fills: Seq(Int), filled: Int]

IsOpen(o) == o.status \in OpenStatus

\* The order submit_order appends.
NewOrder(id, i) ==
    [id |-> id, intent |-> i, status |-> "NEW", fills |-> <<>>, filled |-> 0]

\* replace(order, status=...).
WithStatus(o, status) == [o EXCEPT !.status = status]

FillsAddUp(o) ==
    \/ o.fills = <<>> /\ o.filled = 0
    \/ Len(o.fills) = 1 /\ o.filled = o.fills[1]
    \/ Len(o.fills) = 2 /\ o.filled = o.fills[1] + o.fills[2]

\* A sound order: its status tells how much of it is filled.  It is FILLED exactly
\* when nothing remains, and has at most two fills, because process_open_orders
\* completes a partially filled order.
LifecycleOf(o) ==
    /\ o.intent.symbol \in Executable
    /\ o.intent.qty > 0
    /\ FillsAddUp(o)
    /\ 0 <= o.filled /\ o.filled <= o.intent.qty
    /\ o.status = "FILLED" <=> o.filled = o.intent.qty
    /\ o.status = "NEW" => o.fills = <<>>
    /\ o.status = "PARTIALLY_FILLED" => Len(o.fills) = 1 /\ o.filled > 0

RemainingQuantity(o) ==
    IF o.intent.qty > o.filled THEN o.intent.qty - o.filled ELSE 0

\* Mutant: the half-fill branch is missing.
PassQuantityNoHalf(o) ==
    LET q == Quotes[o.intent.symbol]
        p == QueueFillProbability(o.intent, q)
    IN  IF p >= 60 * Depth(q) \/ o.status = "PARTIALLY_FILLED" THEN RemainingQuantity(o)
        ELSE 0

\* How much one pass of process_open_orders fills of an open order.
PassQuantity(o) ==
    LET q    == Quotes[o.intent.symbol]
        p    == QueueFillProbability(o.intent, q)
        half == o.intent.qty \div 2
        rest == RemainingQuantity(o)
    IN  IF p >= 60 * Depth(q) \/ o.status = "PARTIALLY_FILLED" THEN rest
        ELSE IF p >= 25 * Depth(q) THEN IF half < rest THEN half ELSE rest
        ELSE 0

\* Mutant: the order takes the reconciliation event's status.
FilledOrderEventStatus(o, quantity) ==
    [id     |-> o.id,
     intent |-> o.intent,
     status |-> IF o.filled + quantity >= o.intent.qty THEN "MATCHED" ELSE "PARTIALLY_FILLED",
     fills  |-> Append(o.fills, quantity),
     filled |-> o.filled + quantity]

\* Mutant: an order is complete only when more than its quantity is filled.
FilledOrderStrict(o, quantity) ==
    [id     |-> o.id,
     intent |-> o.intent,
     status |-> IF o.filled + quantity > o.intent.qty THEN "FILLED" ELSE "PARTIALLY_FILLED",
     fills  |-> Append(o.fills, quantity),
     filled |-> o.filled + quantity]

\* The order _fill_order stores in place of o.
FilledOrder(o, quantity) ==
    [id     |-> o.id,
     intent |-> o.intent,
     status |-> IF o.filled + quantity >= o.intent.qty THEN "FILLED" ELSE "PARTIALLY_FILLED",
     fills  |-> Append(o.fills, quantity),
     filled |-> o.filled + quantity]
=============================================================================
