------------------------------ MODULE PaperRisk ------------------------------
(***************************************************************************)
(* The pre-trade risk engine of the paper exchange                         *)
(* (services/risk/paper.py): the limits, the risk state it consults, and   *)
(* the veto.                                                               *)
(***************************************************************************)
EXTENDS PortfolioAccounting

CONSTANTS
    Limits,   \* RiskLimits
    MaxAge    \* max_age_seconds of the account's Freshness stamps

RiskLimits == [leverage: Nat, symbol: Nat, sector: Nat, correlated: Nat, beta: Nat,
               legImbalance: Nat, gross: Nat, dailyLoss: Nat, drawdown: Nat,
               spread: Nat, funding: Nat, volatility: Nat, ordersPerMinute: Nat]

ASSUME RiskAssumption == Limits \in RiskLimits /\ MaxAge \in Nat

\* PaperRiskState.
RiskState == [dailyLoss: Nat, drawdown: Nat, orderCount: Nat,
              apiError: BOOLEAN, panic: BOOLEAN]

DefaultRiskState ==
    [dailyLoss |-> 0, drawdown |-> 0, orderCount |-> 0,
     apiError |-> FALSE, panic |-> FALSE]

\* Freshness.is_stale: strictly older than the maximum age.
IsStale(age) == age > MaxAge

\* spread_bps > max_abnormal_spread_bps, without the division by the mid price.
AbnormalSpread(q) == 20000 * (q.ask - q.bid) > Limits.spread * (q.ask + q.bid)

\* Mutant: the panic flag is not consulted.
KillSwitchNoPanic(rs) ==
    \/ rs.apiError
    \/ rs.dailyLoss >= Limits.dailyLoss
    \/ rs.drawdown >= Limits.drawdown
    \/ rs.orderCount >= Limits.ordersPerMinute

KillSwitch(rs) ==
    \/ rs.panic
    \/ rs.apiError
    \/ rs.dailyLoss >= Limits.dailyLoss
    \/ rs.drawdown >= Limits.drawdown
    \/ rs.orderCount >= Limits.ordersPerMinute

MarketHalt(q) ==
    \/ AbnormalSpread(q)
    \/ AbsVal(q.funding) > Limits.funding
    \/ q.volatility > Limits.volatility

\* The projections add the intent's notional to what the books hold now, whatever
\* the intent does to a book; orders that rest are not counted.
WithinExposure(acct, i) ==
    /\ SymbolExposure(acct, i.symbol) + Notional(i) <= Limits.symbol
    /\ SectorExposure(acct) + Notional(i) <= Limits.sector
    /\ BetaExposure(acct) + 4 * Notional(i) <= 4 * Limits.correlated
    /\ BetaExposure(acct) + 4 * Notional(i) <= 4 * Limits.beta
    /\ LegImbalance(acct) + Notional(i) <= Limits.legImbalance
    /\ GrossExposure(acct) + Notional(i) <= Limits.gross

\* A fee is paid in units of 1/WalletUnit of a notional unit.
WalletUnit == 100000

WithinLeverage(acct, i) ==
    /\ acct.wallet > 0
    /\ (GrossExposure(acct) + Notional(i)) * WalletUnit <= Limits.leverage * acct.wallet

\* evaluate_paper_order_risk accepts an intent whose preview was accepted.  The
\* account's hedge books, liquidation distance and margin flags are the default
\* account's constants and pass.
RiskAccepts(acct, age, rs, i) ==
    LET q == Quotes[i.symbol] IN
    /\ ~IsStale(age)
    /\ ~KillSwitch(rs)
    /\ ExpectedEdge(i, q) > 0
    /\ ~MarketHalt(q)
    /\ WithinExposure(acct, i)
    /\ WithinLeverage(acct, i)
=============================================================================
