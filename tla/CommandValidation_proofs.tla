----------------------- MODULE CommandValidation_proofs -----------------------
(***************************************************************************)
(* Proofs about the verdicts of a server: for any market and any intents,  *)
(* over every configuration and every row of the catalog.                  *)
(***************************************************************************)
EXTENDS CommandValidation, TLAPS

\* What the proofs use of a catalog row: an available command neither trades live
\* nor asks for an approval, and a simulation asks for paper mode.
RowSafe(d) ==
    /\ d.available => d.effect # "live_trading" /\ d.mlops = {}
    /\ d.effect \in {"simulated_trading", "internal_testnet_trading"} => d.modes = {"paper"}

Effects ==
    {"read_only", "validation_only", "simulated_trading", "internal_testnet_trading",
     "live_read_only", "live_trading", "background_job", "strategy_session",
     "model_governance", "panic"}

Definitions ==
    [effect: Effects, modes: SUBSET OperatorMode, venues: SUBSET VenueTarget,
     scopes: SUBSET CredentialScope, gates: SUBSET TradingGate, stages: SUBSET AutonomyStage,
     mlops: SUBSET MLOpsApprovalState, affecting: BOOLEAN, fee: BOOLEAN, available: BOOLEAN]

\* What Available, FeeModel and Affecting leave alone.
LEMMA Modifiers ==
    ASSUME NEW d \in Definitions
    PROVE  /\ \A m \in {Available(d), FeeModel(d), Affecting(d)} :
                 m \in Definitions /\ m.effect = d.effect /\ m.modes = d.modes /\ m.mlops = d.mlops
           /\ FeeModel(d).available = d.available
           /\ Affecting(d).available = d.available
BY DEF Definitions, Available, FeeModel, Affecting

\* A row without requirements, with its modifiers, is safe unless it trades live or
\* simulates.
LEMMA PlainRow ==
    ASSUME NEW e \in Effects,
           e \notin {"live_trading", "simulated_trading", "internal_testnet_trading"}
    PROVE  LET d == Cataloged(e) IN
           /\ d \in Definitions /\ d.effect = e /\ d.modes = {} /\ d.mlops = {} /\ ~d.available
           /\ RowSafe(d) /\ RowSafe(FeeModel(d)) /\ RowSafe(Affecting(d)) /\ RowSafe(Available(d))
           /\ RowSafe(FeeModel(Affecting(d)))
           /\ RowSafe(Available(FeeModel(d)))
           /\ RowSafe(Available(Affecting(d)))
<1> DEFINE d == Cataloged(e)
<1>1. d \in Definitions /\ d.effect = e /\ d.modes = {} /\ d.mlops = {} /\ ~d.available
  BY DEF Cataloged, Definitions, Effects
<1> HIDE DEF d
<1> DEFINE Same(m) == m \in Definitions /\ m.effect = e /\ m.mlops = {}
<1>2. Same(d) /\ Same(FeeModel(d)) /\ Same(Affecting(d)) /\ Same(Available(d))
  BY <1>1, Modifiers
<1>3. Same(FeeModel(Affecting(d))) /\ Same(Available(FeeModel(d))) /\ Same(Available(Affecting(d)))
  BY <1>2, Modifiers
<1>4. \A m : Same(m) => RowSafe(m)
  BY DEF RowSafe
<1> HIDE DEF Same
<1> QED
  BY <1>1, <1>2, <1>3, <1>4 DEF d

Plain(e) ==
    /\ RowSafe(Cataloged(e)) /\ RowSafe(FeeModel(Cataloged(e)))
    /\ RowSafe(Affecting(Cataloged(e))) /\ RowSafe(Available(Cataloged(e)))
    /\ RowSafe(FeeModel(Affecting(Cataloged(e))))
    /\ RowSafe(Available(FeeModel(Cataloged(e))))
    /\ RowSafe(Available(Affecting(Cataloged(e))))

\* The effects of the rows that have no requirement.
LEMMA PlainRows ==
    /\ Plain("validation_only") /\ Plain("model_governance") /\ Plain("background_job")
    /\ Plain("strategy_session") /\ Plain("read_only") /\ Plain("panic")
BY PlainRow DEF Plain, Effects

\* A row is as safe as its definition.
LEMMA RowRule == \A t, d : RowSafe(d) => RowSafe(Row(t, d).definition)
<1>1. \A t, d : Row(t, d).definition = d
  BY DEF Row
<1> QED
  BY <1>1

\* The read-only rows and the registries.
LEMMA InspectRows == \A r \in InspectCommands \cup RegistryCommands : RowSafe(r.definition)
BY DEF InspectCommands, RegistryCommands, Row, Available, Cataloged, RowSafe

\* The rows of the paper exchange.
LEMMA PaperRows == \A r \in PaperCommands : RowSafe(r.definition)
<1>1. ASSUME NEW S \in SUBSET AutonomyStage
      PROVE  LET d == PaperOnly(S) IN
             /\ d \in Definitions /\ d.effect = "simulated_trading"
             /\ d.modes = {"paper"} /\ d.mlops = {}
  <2> DEFINE c == Cataloged("simulated_trading")
  <2>1. c \in Definitions /\ c.effect = "simulated_trading" /\ c.mlops = {}
    BY DEF Cataloged, Definitions, Effects
  <2>2. PaperOnly(S) = [c EXCEPT !.modes = {"paper"}, !.venues = {"internal_paper"},
                                 !.scopes = {"none"}, !.stages = S, !.available = TRUE]
    BY DEF PaperOnly
  <2>3. /\ {"paper"} \in SUBSET OperatorMode /\ {"internal_paper"} \in SUBSET VenueTarget
        /\ {"none"} \in SUBSET CredentialScope
    BY DEF OperatorMode, VenueTarget, CredentialScope
  <2> HIDE DEF c
  <2> QED
    BY <2>1, <2>2, <2>3 DEF Definitions
<1>2. \A S \in SUBSET AutonomyStage : RowSafe(PaperOnly(S)) /\ RowSafe(FeeModel(Affecting(PaperOnly(S))))
  BY <1>1, Modifiers DEF RowSafe
<1>3. {"human_approval", "paper_auto"} \in SUBSET AutonomyStage /\ {} \in SUBSET AutonomyStage
  BY DEF AutonomyStage
<1> QED
  BY <1>2, <1>3 DEF PaperCommands, Row

\* The rows of the testnet lane.
LEMMA TestnetRows == \A r \in TestnetCommands : RowSafe(r.definition)
<1>1. /\ TestnetOnly \in Definitions /\ TestnetOnly.effect = "internal_testnet_trading"
      /\ TestnetOnly.modes = {"paper"} /\ TestnetOnly.mlops = {}
  <2> DEFINE c == Cataloged("internal_testnet_trading")
  <2>1. c \in Definitions /\ c.effect = "internal_testnet_trading" /\ c.mlops = {}
    BY DEF Cataloged, Definitions, Effects
  <2>2. TestnetOnly = [c EXCEPT !.modes = {"paper"}, !.venues = {"binance_testnet"},
                                !.scopes = {"trading"}, !.stages = {"testnet_auto"},
                                !.available = TRUE]
    BY DEF TestnetOnly
  <2> HIDE DEF c
  <2> QED
    BY <2>1, <2>2 DEF Definitions, OperatorMode, VenueTarget, CredentialScope, AutonomyStage
<1>2. RowSafe(TestnetOnly) /\ RowSafe(FeeModel(Affecting(TestnetOnly)))
  BY <1>1, Modifiers DEF RowSafe
<1> QED
  BY <1>2 DEF TestnetCommands, Row

\* The live rows: those that trade live are not available.
LEMMA LiveRows == \A r \in LiveCommands : RowSafe(r.definition)
<1>1. ASSUME NEW g \in TradingGate, NEW m \in MLOpsApprovalState
      PROVE  LiveOnly(g, m) \in Definitions /\ ~LiveOnly(g, m).available
             /\ LiveOnly(g, m).effect = "live_trading"
  <2> DEFINE c == Cataloged("live_trading")
  <2>1. c \in Definitions /\ c.effect = "live_trading" /\ ~c.available
    BY DEF Cataloged, Definitions, Effects
  <2>2. LiveOnly(g, m) = [c EXCEPT !.modes = {"live"}, !.venues = {"binance_live"},
                                   !.scopes = {"trading"}, !.gates = {g}, !.mlops = {m}]
    BY DEF LiveOnly
  <2>3. /\ {"live"} \in SUBSET OperatorMode /\ {"binance_live"} \in SUBSET VenueTarget
        /\ {"trading"} \in SUBSET CredentialScope
        /\ {g} \in SUBSET TradingGate /\ {m} \in SUBSET MLOpsApprovalState
    BY DEF OperatorMode, VenueTarget, CredentialScope
  <2> HIDE DEF c
  <2> QED
    BY <2>1, <2>2, <2>3 DEF Definitions
<1>2. \A g \in TradingGate, m \in MLOpsApprovalState : RowSafe(LiveOnly(g, m))
  BY <1>1 DEF RowSafe
<1>3. {"approval_required", "tiny_live"} \subseteq TradingGate
      /\ {"live_trade_candidate", "live_trade_approved"} \subseteq MLOpsApprovalState
  BY DEF TradingGate, MLOpsApprovalState
<1> DEFINE o == [LiveOnly("tiny_live", "live_trade_approved") EXCEPT !.stages = {"tiny_live_auto"}]
           a == [Cataloged("live_read_only") EXCEPT
                    !.modes = {"live"}, !.venues = {"binance_live"}, !.scopes = {"read_only"},
                    !.gates = {"locked"}, !.available = TRUE]
           p == [Cataloged("panic") EXCEPT !.modes = {"live"}]
<1>4. o \in Definitions /\ ~o.available /\ o.effect = "live_trading"
  BY <1>1, <1>3 DEF Definitions, AutonomyStage
<1>5. RowSafe(FeeModel(Affecting(o)))
  <2> HIDE DEF o
  <2> QED
    BY <1>4, Modifiers DEF RowSafe
<1>6. RowSafe(a)
  BY DEF Cataloged, RowSafe
<1>7. RowSafe(p)
  BY DEF Cataloged, RowSafe
<1> HIDE DEF a, p
<1> QED
  BY <1>2, <1>3, <1>5, <1>6, <1>7, RowRule DEF LiveCommands, a, p

\* The rows of manual orders.
LEMMA ManualRows == \A r \in ManualCommands : RowSafe(r.definition)
BY PlainRows, RowRule DEF ManualCommands, Plain

\* The rows of jobs and sessions.
LEMMA JobRows == \A r \in JobCommands : RowSafe(r.definition)
<1> DEFINE f == Available(FeeModel(Cataloged("strategy_session")))
           d == [f EXCEPT !.modes = {"paper"}]
<1>1. f \in Definitions /\ f.effect = "strategy_session" /\ f.mlops = {}
  <2> DEFINE c == Cataloged("strategy_session")
  <2>1. c \in Definitions /\ c.effect = "strategy_session" /\ c.mlops = {}
    BY DEF Cataloged, Definitions, Effects
  <2> HIDE DEF c
  <2>2. FeeModel(c) \in Definitions /\ FeeModel(c).effect = "strategy_session" /\ FeeModel(c).mlops = {}
    BY <2>1, Modifiers
  <2>3. f = Available(FeeModel(c))
    BY DEF c
  <2> HIDE DEF f
  <2> QED
    BY <2>2, <2>3, Modifiers
<1>2. RowSafe(d)
  <2> HIDE DEF f
  <2> QED
    BY <1>1 DEF Definitions, RowSafe
<1> QED
  BY <1>2, PlainRows, RowRule DEF JobCommands, Plain

\* The rows of models: the one that names an approval is not available.
LEMMA ModelRows == \A r \in ModelCommands : RowSafe(r.definition)
<1> DEFINE d == [Cataloged("model_governance") EXCEPT !.mlops = {"paper_approved"}]
<1>1. RowSafe(d)
  BY DEF Cataloged, RowSafe
<1> QED
  BY <1>1, InspectRows, PlainRows, RowRule DEF ModelCommands, Plain

\* The panic rows.
LEMMA PanicRows == \A r \in PanicCommands : RowSafe(r.definition)
BY PlainRows, RowRule DEF PanicCommands, Plain

\* Every command that _COMMAND_BY_TYPE finds is safe in this sense.
LEMMA DefinitionSafe ==
    ASSUME NEW t \in CommandType
    PROVE  RowSafe(CommandDefinition[t])
<1> DEFINE r == CHOOSE r \in Catalog : r.type = t
<1>1. r \in Catalog
  BY DEF CommandType
<1>2. CommandDefinition[t] = r.definition
  BY DEF CommandDefinition
<1> HIDE DEF r
<1>3. RowSafe(r.definition)
  BY <1>1, InspectRows, PaperRows, TestnetRows, LiveRows, ManualRows, JobRows, ModelRows, PanicRows
     DEF Catalog
<1> QED
  BY <1>2, <1>3

-----------------------------------------------------------------------------
\* What the answer has to do with the configuration it was given under.
VInv ==
    /\ config \in RuntimeConfig
    /\ verdict.accepted =>
          verdict.command \in CommandType /\ EvaluateCommand(config, verdict.command, TRUE)
    /\ \A i \in verdict.payload :
          \E x \in Intents, keys \in BOOLEAN : Translates(x, keys) /\ i = [x EXCEPT !.limit = TRUE]

\* A fee model never makes a command worse.
LEMMA FeeModelMonotone ==
    ASSUME NEW t, NEW fee \in BOOLEAN, EvaluateCommand(config, t, fee)
    PROVE  EvaluateCommand(config, t, TRUE)
BY DEF EvaluateCommand

\* The commands the lanes name are in the catalog.
LEMMA LaneCommands ==
    {"submit_paper_order", "create_testnet_validation_session", "get_live_readonly_account",
     "submit_testnet_order"} \subseteq CommandType
<1>1. \A t, d : Row(t, d).type = t
  BY DEF Row
<1>2. \A t, d : Row(t, d) \in Catalog => t \in CommandType
  BY <1>1 DEF CommandType
<1> QED
  BY <1>2 DEF Catalog, PaperCommands, TestnetCommands, LiveCommands

\* An answer is the verdict of evaluate_command.
LEMMA AnswerVInv ==
    ASSUME VInv, NEW t \in CommandType, NEW a, Answer(t, a), a => EvaluateCommand(config, t, TRUE)
    PROVE  VInv'
<1>1. config' = config /\ verdict'.command = t /\ verdict'.accepted = a /\ verdict'.payload = {}
  BY DEF Answer
<1> QED
  BY <1>1 DEF VInv, EvaluateCommand

\* No verdict has been given yet.
LEMMA InitVInv == Init => VInv
BY DEF Init, VInv, NoVerdict

\* Every endpoint answers with a verdict of evaluate_command; the testnet lane adds a
\* payload the connector translated.
LEMMA NextVInv == VInv /\ [Next]_vars => VInv'
<1> SUFFICES ASSUME VInv, [Next]_vars PROVE VInv'
  OBVIOUS
<1>1. ASSUME NEW t \in CommandType, ValidateCommand(t) PROVE VInv'
  <2>1. EvaluateCommand(config, t, FALSE) => EvaluateCommand(config, t, TRUE)
    BY FeeModelMonotone
  <2> QED
    BY <1>1, <2>1, AnswerVInv DEF ValidateCommand
<1>2. ASSUME NEW t \in GatedCommands, GateCommand(t) PROVE VInv'
  <2>1. t \in CommandType
    BY LaneCommands DEF GatedCommands
  <2> QED
    BY <1>2, <2>1, AnswerVInv DEF GateCommand
<1>3. CASE LiveReadonlyAccount
  <2>1. "get_live_readonly_account" \in CommandType
    BY LaneCommands
  <2> QED
    BY <1>3, <2>1, AnswerVInv DEF LiveReadonlyAccount
<1>4. ASSUME NEW i \in Intents, NEW keys \in BOOLEAN, TestnetOrder(i, keys) PROVE VInv'
  <2>1. /\ config' = config
        /\ verdict'.command = "submit_testnet_order"
        /\ verdict'.accepted => EvaluateCommand(config, "submit_testnet_order", TRUE)
        /\ verdict'.payload = IF Translates(i, keys) THEN {[i EXCEPT !.limit = TRUE]} ELSE {}
    BY <1>4 DEF TestnetOrder
  <2>2. "submit_testnet_order" \in CommandType
    BY LaneCommands
  <2>3. \A p \in verdict'.payload : Translates(i, keys) /\ p = [i EXCEPT !.limit = TRUE]
    BY <2>1
  <2> QED
    BY <2>1, <2>2, <2>3 DEF VInv, EvaluateCommand, Translates
<1>5. CASE UNCHANGED vars
  BY <1>5 DEF vars, VInv, EvaluateCommand, Translates
<1> QED
  BY <1>1, <1>2, <1>3, <1>4, <1>5 DEF Next

\* Whatever a server answers is the verdict of its configuration on a command of the
\* catalog, and whatever payload it shows is the translation of an intent.
THEOREM VerdictsCorrect == Spec => []VInv
BY InitVInv, NextVInv, PTL DEF Spec

\* What an accepted command says about the configuration and the row.
LEMMA AcceptedVerdict ==
    ASSUME VInv, Accepted
    PROVE  /\ verdict.command \in CommandType
           /\ EvaluateCommand(config, verdict.command, TRUE)
           /\ ValidConfig(config)
           /\ RequiresOneOf(config.mode, Definition.modes)
           /\ Definition.available
           /\ RowSafe(Definition)
BY DefinitionSafe DEF VInv, Accepted, Definition, EvaluateCommand

\* A paper or testnet command is accepted only by a server that cannot trade live
\* (evaluate_command with the rows of the catalog and validation_errors).
THEOREM SimulationNeverLiveCorrect == Spec => []SimulationNeverLive
<1>1. VInv => SimulationNeverLive
  <2> SUFFICES ASSUME VInv, Accepted,
                      Definition.effect \in {"simulated_trading", "internal_testnet_trading"}
               PROVE  /\ ~config.live
                      /\ config.gate \notin {"tiny_live", "armed"}
                      /\ FailClosed(config)
    BY DEF SimulationNeverLive
  <2>1. config.mode = "paper" /\ ValidConfig(config)
    BY AcceptedVerdict DEF RowSafe, RequiresOneOf
  <2>2. ~TradingAllowed(config)
    BY <2>1 DEF TradingAllowed
  <2> QED
    BY <2>1, <2>2 DEF ValidConfig, FailClosed
<1> QED
  BY <1>1, VerdictsCorrect, PTL

\* Nothing that trades live is accepted, and nothing at all by a server half way to
\* live trading.
THEOREM LiveSealedCorrect == Spec => []LiveSealed
<1>1. VInv => LiveSealed
  BY AcceptedVerdict DEF LiveSealed, RowSafe, ValidConfig
<1> QED
  BY <1>1, VerdictsCorrect, PTL

\* A model's approval state opens no command while live trading is off.
THEOREM ApprovalAuthorisesNothingCorrect == Spec => []ApprovalAuthorisesNothing
<1>1. VInv => ApprovalAuthorisesNothing
  <2> SUFFICES ASSUME VInv, Accepted, ~config.live, NEW m \in MLOpsApprovalState
               PROVE  EvaluateCommand([config EXCEPT !.mlops = m], verdict.command, TRUE)
    BY DEF ApprovalAuthorisesNothing
  <2> DEFINE c == [config EXCEPT !.mlops = m]
  <2>1. /\ c.mode = config.mode /\ c.venue = config.venue /\ c.scope = config.scope
        /\ c.gate = config.gate /\ c.stage = config.stage /\ c.live = config.live
    BY DEF VInv, RuntimeConfig
  <2> HIDE DEF c
  <2>2. ValidConfig(c)
    BY <2>1, AcceptedVerdict DEF ValidConfig
  <2>3. RequiresOneOf(c.mlops, Definition.mlops) /\ Definition.effect # "live_trading"
    BY AcceptedVerdict DEF RowSafe, RequiresOneOf
  <2>4. EvaluateCommand(config, verdict.command, TRUE)
    BY AcceptedVerdict
  <2>5. EvaluateCommand(c, verdict.command, TRUE)
    BY <2>1, <2>2, <2>3, <2>4 DEF EvaluateCommand, Definition
  <2> QED
    BY <2>5 DEF c
<1> QED
  BY <1>1, VerdictsCorrect, PTL

\* A payload of the Binance lane passes the paper exchange's filters and policy, on a
\* server where live trading is impossible.
THEOREM PayloadFitsPaperCorrect == Spec => []PayloadFitsPaper
<1>1. VInv => PayloadFitsPaper
  <2> SUFFICES ASSUME VInv, NEW i \in verdict.payload
               PROVE  /\ i.qty > 0 /\ i.price > 0 => FitsFilters(i)
                      /\ i.limit
                      /\ ~WouldCross(i, Quotes[i.symbol]) => MakerFirst(i, Quotes[i.symbol])
                      /\ ~TradingAllowed(config)
    BY DEF PayloadFitsPaper
  <2>1. PICK x \in Intents, keys \in BOOLEAN :
            Translates(x, keys) /\ i = [x EXCEPT !.limit = TRUE]
    BY DEF VInv
  <2>2. /\ i.limit /\ i.symbol = x.symbol /\ i.qty = x.qty /\ i.price = x.price
        /\ i.gtx = x.gtx /\ i.postOnly = x.postOnly /\ i.allowTaker = x.allowTaker
    BY <2>1, IntentAssumption DEF Intent
  <2>3. /\ x.postOnly /\ ~x.allowTaker /\ x.gtx
        /\ IsMultiple(x.price, Filters[x.symbol].tick)
        /\ IsMultiple(x.qty, Filters[x.symbol].lot)
        /\ Notional(x) >= Filters[x.symbol].minNotional
        /\ config.venue = "binance_testnet"
    BY <2>1 DEF Translates, MetadataAccepts
  <2>4. Notional(i) = Notional(x)
    BY <2>2 DEF Notional
  <2>5. i.qty > 0 /\ i.price > 0 => FitsFilters(i)
    BY <2>2, <2>3, <2>4 DEF FitsFilters
  <2>6. ~WouldCross(i, Quotes[i.symbol]) => MakerFirst(i, Quotes[i.symbol])
    BY <2>2, <2>3 DEF MakerFirst
  <2>7. ~TradingAllowed(config)
    BY <2>3 DEF TradingAllowed
  <2> QED
    BY <2>2, <2>5, <2>6, <2>7
<1> QED
  BY <1>1, VerdictsCorrect, PTL
=============================================================================
