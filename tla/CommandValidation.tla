--------------------------- MODULE CommandValidation ---------------------------
(***************************************************************************)
(* The verdicts of a server over every configuration it can be started     *)
(* with: the validation endpoint (apps/api/server.py,                      *)
(* validate_command_payload) and the callers that bring a fee model        *)
(* (_command_gate, live_readonly_account_payload and                       *)
(* services/execution/binance_validation.py), with the translation of an   *)
(* order intent to a Binance payload (libs/binance_connector/usdm.py).     *)
(***************************************************************************)
EXTENDS CommandGate, PaperTrading

VARIABLES
    config,   \* load_runtime_config(): the environment, fixed for the process
    verdict   \* the last command evaluated, the answer and the Binance payload

vars == <<config, verdict>>

\* "payload": the order a Binance payload asks for, if there is one.
NoVerdict == [command |-> "none", accepted |-> FALSE, payload |-> {}]

Init == config \in RuntimeConfig /\ verdict = NoVerdict

Answer(t, accepted) ==
    /\ verdict' = [command |-> t, accepted |-> accepted, payload |-> {}]
    /\ UNCHANGED config

\* The validation endpoint has no fee model to offer.
ValidateCommand(t) == Answer(t, EvaluateCommand(config, t, FALSE))

GatedCommands ==
    {"submit_paper_order", "create_testnet_validation_session"}

GateCommand(t) == Answer(t, EvaluateCommand(config, t, TRUE))

LiveReadonlyAccount ==
    Answer("get_live_readonly_account",
           /\ EvaluateCommand(config, "get_live_readonly_account", TRUE)
           /\ config.readonlyKeys)

\* Mutant: the lot size is not checked.
MetadataAcceptsAnyLot(i) ==
    /\ i.symbol \in Executable
    /\ i.gtx
    /\ IsMultiple(i.price, Filters[i.symbol].tick)
    /\ Notional(i) >= Filters[i.symbol].minNotional

\* _metadata_errors is empty.
MetadataAccepts(i) ==
    /\ i.symbol \in Executable
    /\ i.gtx
    /\ IsMultiple(i.price, Filters[i.symbol].tick)
    /\ IsMultiple(i.qty, Filters[i.symbol].lot)
    /\ Notional(i) >= Filters[i.symbol].minNotional

\* validate_usdm_order_payload, called by the backend; "keys": testnet or legacy
\* credentials are present.
Translates(i, keys) ==
    /\ config.venue = "binance_testnet"
    /\ config.scope = "trading"
    /\ keys
    /\ i.postOnly /\ ~i.allowTaker
    /\ MetadataAccepts(i)

\* testnet_order_validation_payload: gate and translation are evaluated separately,
\* and the payload is part of the answer even when the gate rejects the command.
\* Whatever type the intent has, the payload is a limit order.
TestnetOrder(i, keys) ==
    /\ verdict' = [command |-> "submit_testnet_order",
                   accepted |-> EvaluateCommand(config, "submit_testnet_order", TRUE)
                                /\ Translates(i, keys),
                   payload |-> IF Translates(i, keys) THEN {[i EXCEPT !.limit = TRUE]} ELSE {}]
    /\ UNCHANGED config

Next ==
    \/ \E t \in CommandType : ValidateCommand(t)
    \/ \E t \in GatedCommands : GateCommand(t)
    \/ LiveReadonlyAccount
    \/ \E i \in Intents, keys \in BOOLEAN : TestnetOrder(i, keys)

Spec == Init /\ [][Next]_vars
-----------------------------------------------------------------------------
Accepted == verdict.accepted

Definition == CommandDefinition[verdict.command]

\* Paper and testnet commands are only ever accepted by a server that cannot trade
\* live: whatever the environment says, no accepted one coexists with the live
\* flag, an open live gate or live-trading permission.
SimulationNeverLive ==
    Accepted /\ Definition.effect \in {"simulated_trading", "internal_testnet_trading"} =>
        /\ ~config.live
        /\ config.gate \notin {"tiny_live", "armed"}
        /\ FailClosed(config)

\* No command that trades live is accepted by any configuration, and none is
\* accepted by one that is half way to live trading.
LiveSealed ==
    Accepted => /\ Definition.effect # "live_trading"
                /\ config.live => TradingAllowed(config)

\* Approving a model authorises nothing: as long as live trading is not enabled,
\* what is accepted is accepted at every MLOps approval state.
ApprovalAuthorisesNothing ==
    Accepted /\ ~config.live =>
        \A m \in MLOpsApprovalState :
            EvaluateCommand([config EXCEPT !.mlops = m], verdict.command, TRUE)

\* The Binance lane and the paper exchange check orders with code of their own: a
\* payload the connector would send is one whose order the paper exchange's filters
\* and maker-first policy (but for the live quote) let through, and it is only shown
\* where live trading is impossible.  Of quantities and prices below zero only the
\* paper exchange checks the sign.
PayloadFitsPaper ==
    \A i \in verdict.payload :
        /\ i.qty > 0 /\ i.price > 0 => FitsFilters(i)
        /\ i.limit
        /\ ~WouldCross(i, Quotes[i.symbol]) => MakerFirst(i, Quotes[i.symbol])
        /\ ~TradingAllowed(config)
=============================================================================
