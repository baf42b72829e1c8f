------------------------------ MODULE CommandGate ------------------------------
(***************************************************************************)
(* The command gate: the runtime configuration a server starts with        *)
(* (libs/config/runtime.py), the command catalog (libs/schemas/commands.py)*)
(* and the verdict evaluate_command gives (services/risk/gates.py).        *)
(*                                                                         *)
(* A requirement of the catalog is a set of allowed values, empty when     *)
(* anything is allowed, as the code's empty tuple.  Screens, owners and    *)
(* notes decide nothing and are left out.                                  *)
(***************************************************************************)
EXTENDS Integers, Sequences

OperatorMode == {"paper", "live"}
VenueTarget == {"internal_paper", "binance_testnet", "binance_live"}
CredentialScope == {"none", "read_only", "trading"}
TradingGate == {"locked", "approval_required", "tiny_live", "armed", "halted"}
AutonomyStage ==
    {"observe_only", "suggest_only", "human_approval", "paper_auto", "testnet_auto",
     "tiny_live_auto", "scaled_live_auto"}
MLOpsApprovalState ==
    {"research_candidate", "backtest_approved", "paper_approved", "testnet_validated",
     "live_readonly_validated", "live_trade_candidate", "live_trade_approved"}

\* RuntimeConfig; "live" is live_trading_enabled, "readonlyKeys" the presence of
\* read-only (or legacy) Binance credentials.
RuntimeConfig ==
    [mode: OperatorMode, venue: VenueTarget, scope: CredentialScope, gate: TradingGate,
     stage: AutonomyStage, mlops: MLOpsApprovalState, live: BOOLEAN, readonlyKeys: BOOLEAN]

DefaultConfig ==
    [mode |-> "paper", venue |-> "internal_paper", scope |-> "none", gate |-> "locked",
     stage |-> "observe_only", mlops |-> "research_candidate", live |-> FALSE,
     readonlyKeys |-> FALSE]

TradingAllowed(c) ==
    /\ c.live
    /\ c.mode = "live"
    /\ c.venue = "binance_live"
    /\ c.scope = "trading"
    /\ \/ c.gate = "tiny_live" /\ c.stage = "tiny_live_auto"
       \/ c.gate = "armed" /\ c.stage = "scaled_live_auto"
    /\ c.mlops = "live_trade_approved"

\* Mutant: an enabled live flag is not checked against the rest of the tuple.
ValidConfigLoose(c) ==
    /\ c.venue = "internal_paper" => c.scope = "none"
    /\ c.venue = "binance_live" => c.mode = "live"
    /\ c.gate \in {"tiny_live", "armed"} => c.live

\* validation_errors is empty.
ValidConfig(c) ==
    /\ c.venue = "internal_paper" => c.scope = "none"
    /\ c.venue = "binance_live" => c.mode = "live"
    /\ c.live => TradingAllowed(c)
    /\ c.gate \in {"tiny_live", "armed"} => c.live

FailClosed(c) == ~ValidConfig(c) \/ ~TradingAllowed(c)

-----------------------------------------------------------------------------
\* CommandDefinition: an effect and no requirement, not executable.
Cataloged(effect) ==
    [effect |-> effect, modes |-> {}, venues |-> {}, scopes |-> {}, gates |-> {},
     stages |-> {}, mlops |-> {}, affecting |-> FALSE, fee |-> FALSE, available |-> FALSE]

Available(def) == [def EXCEPT !.available = TRUE]

FeeModel(def) == [def EXCEPT !.fee = TRUE]

Affecting(def) == [def EXCEPT !.affecting = TRUE]

\* A row of the catalog.
Row(type, definition) == [type |-> type, definition |-> definition]

InspectCommands ==
    {Row(t, Available(Cataloged("read_only"))) :
        t \in {"get_system_status", "get_control_surface", "get_symbol_universe",
               "get_exchange_state", "get_account_state", "get_symbol_metadata",
               "get_fee_policy", "get_risk_status", "search_audit_records",
               "get_audit_record"}}

PaperOnly(stages) ==
    [Cataloged("simulated_trading") EXCEPT
        !.modes = {"paper"}, !.venues = {"internal_paper"}, !.scopes = {"none"},
        !.stages = stages, !.available = TRUE]

PaperCommands ==
    {Row("create_paper_session", PaperOnly({"human_approval", "paper_auto"})),
     Row("submit_paper_order", FeeModel(Affecting(PaperOnly({"human_approval", "paper_auto"})))),
     Row("reset_paper_portfolio", PaperOnly({}))}

TestnetOnly ==
    [Cataloged("internal_testnet_trading") EXCEPT
        !.modes = {"paper"}, !.venues = {"binance_testnet"}, !.scopes = {"trading"},
        !.stages = {"testnet_auto"}, !.available = TRUE]

TestnetCommands ==
    {Row("create_testnet_validation_session", TestnetOnly),
     Row("submit_testnet_order", FeeModel(Affecting(TestnetOnly)))}

\* A live command of the catalog, for one trading gate and one approval state.
LiveOnly(gate, mlops) ==
    [Cataloged("live_trading") EXCEPT
        !.modes = {"live"}, !.venues = {"binance_live"}, !.scopes = {"trading"},
        !.gates = {gate}, !.mlops = {mlops}]

LiveCommands ==
    {Row("get_live_readonly_account",
         [Cataloged("live_read_only") EXCEPT
             !.modes = {"live"}, !.venues = {"binance_live"}, !.scopes = {"read_only"},
             !.gates = {"locked"}, !.available = TRUE]),
     Row("request_live_approval", LiveOnly("approval_required", "live_trade_candidate")),
     Row("approve_live_gate", LiveOnly("approval_required", "live_trade_approved")),
     Row("approve_live_order_intent",
         FeeModel(Affecting([LiveOnly("tiny_live", "live_trade_approved") EXCEPT
                                !.stages = {"tiny_live_auto"}]))),
     Row("disable_live_trading", [Cataloged("panic") EXCEPT !.modes = {"live"}])}

ManualCommands ==
    {Row("create_manual_order_intent", FeeModel(Affecting(Cataloged("validation_only")))),
     Row("preview_order", Available(FeeModel(Cataloged("validation_only")))),
     Row("submit_order_intent", FeeModel(Affecting(Cataloged("validation_only")))),
     Row("cancel_order_intent", Available(Affecting(Cataloged("validation_only")))),
     Row("approve_command", Cataloged("model_governance")),
     Row("reject_command", Available(Cataloged("model_governance")))}

JobCommands ==
    {Row("create_training_job", Cataloged("background_job")),
     Row("create_evaluation_job", Cataloged("background_job")),
     Row("create_backtest_job", Available(FeeModel(Cataloged("background_job")))),
     Row("create_strategy_session",
         [Available(FeeModel(Cataloged("strategy_session"))) EXCEPT !.modes = {"paper"}]),
     Row("pause_strategy_session", Available(Cataloged("strategy_session"))),
     Row("stop_strategy_session", Available(Cataloged("strategy_session"))),
     Row("get_strategy_recommendations", Available(Cataloged("read_only")))}

RegistryCommands ==
    {Row(t, Available(Cataloged("read_only"))) :
        t \in {"get_model_registry", "get_feature_registry", "get_model_evaluations",
               "get_model_decision_record"}}

\* Mutant: a model's approval state opens a command.
ModelCommandsByApproval ==
    RegistryCommands \cup
    {Row("request_model_deployment",
         [Available(Cataloged("model_governance")) EXCEPT !.mlops = {"paper_approved"}])}

ModelCommands ==
    RegistryCommands \cup
    {Row("request_model_deployment",
         [Cataloged("model_governance") EXCEPT !.mlops = {"paper_approved"}]),
     Row("approve_model_stage", Cataloged("model_governance")),
     Row("disable_model_version", Cataloged("model_governance")),
     Row("preview_model_recommendation", Available(FeeModel(Cataloged("model_governance"))))}

PanicCommands ==
    {Row("activate_panic_halt", Cataloged("panic")),
     Row("panic_cancel_open_orders", Affecting(Cataloged("panic"))),
     Row("panic_flatten_positions", Affecting(Cataloged("panic")))}

\* _COMMAND_DEFINITIONS.
Catalog ==
    InspectCommands \cup PaperCommands \cup TestnetCommands \cup LiveCommands
        \cup ManualCommands \cup JobCommands \cup ModelCommands \cup PanicCommands

CommandType == {r.type : r \in Catalog}

\* _COMMAND_BY_TYPE; a type has one row.
CommandDefinition == [t \in CommandType |-> (CHOOSE r \in Catalog : r.type = t).definition]

-----------------------------------------------------------------------------
RequiresOneOf(actual, allowed) == allowed # {} => actual \in allowed

\* evaluate_command finds no reason against the command.
EvaluateCommand(c, t, feeModelAvailable) ==
    LET d == CommandDefinition[t] IN
    /\ ValidConfig(c)
    /\ RequiresOneOf(c.mode, d.modes)
    /\ RequiresOneOf(c.venue, d.venues)
    /\ RequiresOneOf(c.scope, d.scopes)
    /\ RequiresOneOf(c.gate, d.gates)
    /\ RequiresOneOf(c.stage, d.stages)
    /\ RequiresOneOf(c.mlops, d.mlops)
    /\ ~(d.affecting /\ c.stage = "observe_only")
    /\ d.effect = "live_trading" => TradingAllowed(c)
    /\ d.fee => feeModelAvailable
    /\ d.available
=============================================================================
