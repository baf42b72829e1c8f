--------------------------- MODULE MCPaperExchange ---------------------------
(***************************************************************************)
(* Instances of the paper exchange for TLC, one handler at a time.         *)
(***************************************************************************)
EXTENDS PaperExchangeLog, MCPaperMarket

BuyOnly == {BuyInside}
=============================================================================
