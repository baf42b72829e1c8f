-------------------------- MODULE MCCommandValidation --------------------------
(***************************************************************************)
(* The verdicts over every configuration for TLC; the orders sent to the   *)
(* testnet lane are those of the paper exchange, one for each check, and   *)
(* one with both quantity and price below zero.                            *)
(***************************************************************************)
EXTENDS CommandValidation, MCPaperMarket

TestnetIntents ==
    {BuyInside, CloseAtAsk, Limit("BTCUSDC", "BUY", "LONG", -4, -5)} \cup BadIntents
=============================================================================
