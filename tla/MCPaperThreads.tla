--------------------------- MODULE MCPaperThreads ---------------------------
(***************************************************************************)
(* Instances of the paper exchange for TLC, with handler threads: an order *)
(* that fills by halves, alone where every interleaving is looked at, and  *)
(* one that fills at once.                                                 *)
(***************************************************************************)
EXTENDS PaperExchangeThreads, MCPaperMarket, TLC

HalvedIntents == {BuyAtBid}
ThreadIntents == {BuyInside, BuyAtBid}
ThreadSymmetry == Permutations(Threads)
=============================================================================
