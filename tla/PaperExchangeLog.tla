--------------------------- MODULE PaperExchangeLog ---------------------------
(***************************************************************************)
(* The reconciliation log as a record of the exchange: replaying it gives  *)
(* back every order's status and the account.  The replays are the         *)
(* reference; the exchange keeps orders, account and log separately        *)
(* (services/paper_exchange/exchange.py).                                  *)
(***************************************************************************)
EXTENDS PaperExchange, SequencesExt

\* What an event makes of the status of the order with this id.
StatusAfter(id, status, e) ==
    CASE e.order = id /\ e.status = "RESTING"          -> "NEW"
      [] e.order = id /\ e.status = "PARTIALLY_FILLED" -> "PARTIALLY_FILLED"
      [] e.order = id /\ e.status = "MATCHED"          -> "FILLED"
      [] e.order = id /\ e.status = "EXPIRED"          -> "EXPIRED"
      [] e.order \in {id, AllOrders} /\ e.status = "CANCELED" /\ status \in OpenStatus
                                                        -> "CANCELED"
      [] OTHER                                          -> status

StatusFromLog(id) ==
    FoldLeft(LAMBDA status, e : StatusAfter(id, status, e), "UNKNOWN", events)

\* Replaying the log tells every order's status, and which ids were never orders.
LogReplaysOrders ==
    \A id \in 1 .. Len(orders) + 1 :
        StatusFromLog(id) = IF id \in DOMAIN orders THEN orders[id].status ELSE "UNKNOWN"

\* The fills logged up to position m, each the next fill of its order.
FillsOfOrder(id, m) ==
    Cardinality({k \in 1 .. m : events[k].order = id
                                /\ events[k].status \in {"PARTIALLY_FILLED", "MATCHED"}})

AccountAfter(acct, m) ==
    LET e == events[m] IN
    IF e.status \notin {"PARTIALLY_FILLED", "MATCHED"} THEN acct
    ELSE IF e.order = AllOrders THEN DefaultAccount
    ELSE ApplyPaperFill(acct, orders[e.order].intent,
                        orders[e.order].fills[FillsOfOrder(e.order, m)])

AccountFromLog ==
    FoldLeft(AccountAfter, DefaultAccount, [m \in 1 .. Len(events) |-> m])

\* Every fill reaches the portfolio exactly once and in the order of the log, and
\* nothing but a fill or a flatten does: replaying the log's fills since the last
\* flatten gives the position books and the wallet.
LogReplaysAccount == account = AccountFromLog
=============================================================================
