---------------------------- MODULE MCBacktesting ----------------------------
(***************************************************************************)
(* An instance for TLC.  The rows have both symbols at two timestamps, a   *)
(* second BTC row for the same timestamp with another price and a late     *)
(* receipt, a locked book, an empty book, a BTC leg with a bid of zero and *)
(* a symbol that no replay file may have.                                  *)
(***************************************************************************)
EXTENDS Backtesting, TLC

Symmetric == Permutations(Threads)

MCRows ==
    { Snapshot(BTC, 0, 20, 4, 6, 3, 1), Snapshot(BTC, 0, 300, 2, 6, 1, 3),
      Snapshot(ETH, 0, 10, 2, 3, 1, 3), Snapshot(BTC, 1000, 20, 5, 5, 2, 2),
      Snapshot(ETH, 1000, 10, 1, 3, 3, 1), Snapshot(ETH, 1000, 10, 2, 3, 0, 0),
      Snapshot(BTC, 1000, 10, 0, 2, 1, 1), Snapshot("ETHBTC", 0, 10, 1, 1, 1, 1) }
=============================================================================
