--------------------------- MODULE MCPaperSerial ---------------------------
(***************************************************************************)
(* An instance of the paper exchange on one thread for TLC: an order that  *)
(* fills at once, one that fills by halves, one that closes the position   *)
(* and one that is rejected.                                               *)
(***************************************************************************)
EXTENDS PaperExchangeSerial, MCPaperMarket

ASSUME SingleThread == OneThread

SerialIntents == {BuyInside, BuyAtBid, CloseAtAsk, [BuyInside EXCEPT !.gtx = FALSE]}
=============================================================================
