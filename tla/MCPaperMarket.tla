---------------------------- MODULE MCPaperMarket ----------------------------
(***************************************************************************)
(* The market of the paper exchange's instances for TLC.  It is the        *)
(* default one, scaled down: notionals and limits in thousands of USDC,    *)
(* the book two ticks wide, the real top-of-book sizes.                    *)
(***************************************************************************)
EXTENDS Integers

MCSymbols == {"BTCUSDC", "ETHUSDC", "SYN_ETHBTC"}
MCExecutable == {"BTCUSDC", "ETHUSDC"}
MCFilters == [s \in MCExecutable |-> [tick |-> 1, lot |-> 2, minNotional |-> 6]]
MCQuotes ==
    [s \in MCExecutable |->
        IF s = "BTCUSDC"
        THEN [bid |-> 4, ask |-> 6, bidSize |-> 42, askSize |-> 38, funding |-> 8, volatility |-> 120]
        ELSE [bid |-> 4, ask |-> 6, bidSize |-> 90, askSize |-> 84, funding |-> 6, volatility |-> 150]]
MCBeta == [s \in MCExecutable |-> IF s = "BTCUSDC" THEN 4 ELSE 3]
MCLimits ==
    [leverage |-> 3, symbol |-> 50, sector |-> 75, correlated |-> 60, beta |-> 60,
     legImbalance |-> 25, gross |-> 100, dailyLoss |-> 1, drawdown |-> 1,
     spread |-> 4000, funding |-> 500, volatility |-> 1500, ordersPerMinute |-> 2]

Limit(symbol, side, book, qty, price) ==
    [symbol |-> symbol, side |-> side, book |-> book, qty |-> qty, price |-> price,
     limit |-> TRUE, gtx |-> TRUE, postOnly |-> TRUE, allowTaker |-> FALSE,
     alpha |-> 80, costs |-> 20]

\* Fills at once, fills by halves, and closes (or overcloses) the long book.
BuyInside == Limit("BTCUSDC", "BUY", "LONG", 4, 5)
BuyAtBid == Limit("BTCUSDC", "BUY", "LONG", 4, 4)
CloseAtAsk == Limit("BTCUSDC", "SELL", "LONG", 4, 6)
ShortInside == Limit("ETHUSDC", "SELL", "SHORT", 2, 5)

\* One intent per check of preview_order.
BadIntents ==
    {Limit("SYN_ETHBTC", "BUY", "LONG", 4, 5),
     Limit("BTCUSDC", "BUY", "LONG", 0, 5),
     Limit("BTCUSDC", "BUY", "LONG", 3, 5),
     Limit("BTCUSDC", "BUY", "LONG", 4, 0),
     Limit("BTCUSDC", "BUY", "LONG", 2, 2),
     Limit("BTCUSDC", "BUY", "LONG", 4, 6),
     Limit("BTCUSDC", "SELL", "LONG", 4, 4),
     [BuyInside EXCEPT !.limit = FALSE],
     [BuyInside EXCEPT !.gtx = FALSE],
     [BuyInside EXCEPT !.postOnly = FALSE],
     [BuyInside EXCEPT !.allowTaker = TRUE, !.alpha = 800],
     [BuyInside EXCEPT !.alpha = 38]}

MCIntents == {BuyInside, BuyAtBid, CloseAtAsk, ShortInside} \cup BadIntents
=============================================================================
