------------------------- MODULE PortfolioAccounting -------------------------
(***************************************************************************)
(* The hedge-mode account: one position book per executable symbol and     *)
(* side, one collateral wallet, and what a fill does to them               *)
(* (services/portfolio/accounting.py), with the account the exchange       *)
(* starts from (libs/schemas/exchange_state.py).                           *)
(*                                                                         *)
(* A book keeps its quantity and its mark price; the code's notional is    *)
(* always their product.  The entry price feeds no decision and is left    *)
(* out.  The wallet counts units in which a fee is notional * MakerFee.    *)
(***************************************************************************)
EXTENDS PaperTrading, Functions

CONSTANTS
    InitialWallet,  \* the default account's USDC balance
    Beta            \* Executable -> beta weight, in quarters (BTC 4, ETH 3)

ASSUME AccountAssumption == InitialWallet \in Nat /\ Beta \in [Executable -> Nat]

BookKeys == Executable \X BookSides

Book == [qty: Int, mark: Int]

Account == [books: [BookKeys -> Book], wallet: Int]

DefaultAccount ==
    [books |-> [k \in BookKeys |-> [qty |-> 0, mark |-> 0]], wallet |-> InitialWallet]

BookIsIncrease(i) ==
    \/ i.side = "BUY" /\ i.book = "LONG"
    \/ i.side = "SELL" /\ i.book = "SHORT"

\* Mutant: closing more than is held is not clamped.
UpdatedBookUnclamped(book, i, quantity) ==
    [qty  |-> IF BookIsIncrease(i) THEN book.qty + quantity ELSE book.qty - quantity,
     mark |-> i.price]

\* _updated_book, for the book a fill of intent i names.
UpdatedBook(book, i, quantity) ==
    [qty  |-> IF BookIsIncrease(i) THEN book.qty + quantity
              ELSE IF book.qty > quantity THEN book.qty - quantity ELSE 0,
     mark |-> i.price]

\* apply_paper_fill: one book is updated and the maker fee debited.
ApplyPaperFill(acct, i, quantity) ==
    [books  |-> [acct.books EXCEPT ![<<i.symbol, i.book>>] = UpdatedBook(@, i, quantity)],
     wallet |-> acct.wallet - quantity * i.price * MakerFee]

-----------------------------------------------------------------------------
\* calculate_portfolio_exposure.
BookNotional(acct) == [k \in BookKeys |-> acct.books[k].qty * acct.books[k].mark]

ExposureOf(acct, keys) == SumFunctionOnSet(BookNotional(acct), keys)

SymbolExposure(acct, s) == ExposureOf(acct, {s} \X BookSides)

GrossExposure(acct) == ExposureOf(acct, BookKeys)

LongExposure(acct) == ExposureOf(acct, Executable \X {"LONG"})

ShortExposure(acct) == ExposureOf(acct, Executable \X {"SHORT"})

LegImbalance(acct) == AbsVal(LongExposure(acct) - ShortExposure(acct))

\* Every executable symbol belongs to the one sector, crypto_majors.
SectorExposure(acct) == GrossExposure(acct)

\* abs(beta_exposure), in quarters.
BetaExposure(acct) ==
    AbsVal(SumFunction([k \in BookKeys |->
               (IF k[2] = "LONG" THEN 1 ELSE -1) * Beta[k[1]] * BookNotional(acct)[k]]))
=============================================================================
