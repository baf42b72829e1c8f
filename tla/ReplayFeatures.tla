---------------------------- MODULE ReplayFeatures ----------------------------
(***************************************************************************)
(* Market data replay: the rows of a replay file, the microstructure       *)
(* features computed from them and the synthetic ETH/BTC book              *)
(* (services/market_data/replay.py), as functions of a sequence of rows.   *)
(*                                                                         *)
(* Prices are in hundredths, sizes in tenths, times in milliseconds.  A    *)
(* quotient of Decimals is the pair <<numerator, denominator>>; mids are   *)
(* doubled.  Features that copy a column, or follow from the ones kept     *)
(* (volatility, latency penalty), are left out.                            *)
(***************************************************************************)
EXTENDS Integers, Sequences, FiniteSets, SequencesExt

BTC == "BTCUSDC"
ETH == "ETHUSDC"

\* MarketDepthSnapshot.
Snapshot(symbol, at, latency, bid, ask, bidSize, askSize) ==
    [symbol |-> symbol, timestamp |-> at, receive |-> at + latency, bid |-> bid,
     ask |-> ask, bidSize |-> bidSize, askSize |-> askSize]

\* None, where the code has an optional snapshot or synthetic book.
Nothing == [symbol |-> "None"]

TwiceMid(row) == row.bid + row.ask

DepthTotal(row) == row.bidSize + row.askSize

\* synthetic_market_depth_fixtures.
Fixtures ==
    << Snapshot(BTC, 0, 24, 6500000, 6500050, 42, 38),
       Snapshot(ETH, 0, 19, 320000, 320005, 900, 840),
       Snapshot(BTC, 1000, 26, 6501000, 6501050, 37, 44),
       Snapshot(ETH, 1000, 22, 320200, 320205, 860, 920),
       Snapshot(BTC, 2000, 21, 6500500, 6500540, 48, 35),
       Snapshot(ETH, 2000, 18, 320140, 320145, 940, 800) >>

\* Mutant: rows of other symbols are skipped.
LoadReplayFileSkip(rows) ==
    <<SelectSeq(rows, LAMBDA row : row.symbol \in {BTC, ETH})>>

\* load_replay_file: the rows in the file's order, as a sequence of one value;
\* <<>> when it raises, which one row of another symbol is enough for.
LoadReplayFile(rows) ==
    IF \A i \in DOMAIN rows : rows[i].symbol \in {BTC, ETH} THEN <<rows>> ELSE <<>>

\* "snapshots or synthetic_market_depth_fixtures()": an empty file is no file.
Selected(rows) == IF rows = <<>> THEN Fixtures ELSE rows
-----------------------------------------------------------------------------
\* derive_synthetic_ethbtc.
DeriveSynthetic(eth, btc) ==
    LET skew == IF eth.receive >= btc.receive THEN eth.receive - btc.receive
                ELSE btc.receive - eth.receive
    IN [symbol |-> "SYN_ETHBTC", bid |-> <<eth.bid, btc.ask>>,
        mid |-> <<TwiceMid(eth), TwiceMid(btc)>>, ask |-> <<eth.ask, btc.bid>>,
        skew |-> skew, isStale |-> skew > 250]

NoLegs == [s \in {BTC, ETH} |-> Nothing]

HasBothLegs(legs) == legs[ETH] # Nothing /\ legs[BTC] # Nothing

Timestamps(rows) == {rows[i].timestamp : i \in DOMAIN rows}

\* Mutant: the first row of a symbol at a timestamp is the one that stays.
ByTimeFirst(rows) ==
    LET Add(table, row) ==
            IF table[row.timestamp][row.symbol] # Nothing THEN table
            ELSE [table EXCEPT ![row.timestamp][row.symbol] = row]
    IN FoldLeft(Add, [at \in Timestamps(rows) |-> NoLegs], rows)

\* The first loop of generate_microstructure_features: a later row of the same
\* timestamp and symbol replaces the earlier one.
ByTime(rows) ==
    LET Add(table, row) == [table EXCEPT ![row.timestamp][row.symbol] = row]
    IN FoldLeft(Add, [at \in Timestamps(rows) |-> NoLegs], rows)

\* Mutant: the book's sides weight their own price.
FeatureOwnSide(row, previous, synthetic) ==
    [timestamp |-> row.timestamp, symbol |-> row.symbol,
     imbalance |-> IF DepthTotal(row) > 0
                   THEN <<row.bidSize - row.askSize, DepthTotal(row)>> ELSE <<0, 1>>,
     microprice |-> IF DepthTotal(row) > 0
                    THEN <<row.bid * row.bidSize + row.ask * row.askSize, DepthTotal(row)>>
                    ELSE <<TwiceMid(row), 2>>,
     shortReturn |-> <<0, 1>>,
     synthetic |-> synthetic]

\* _feature_for_snapshot.  Imbalance and microprice are guarded against an empty book.
Feature(row, previous, synthetic) ==
    LET depth == DepthTotal(row)
    IN [timestamp |-> row.timestamp, symbol |-> row.symbol,
        imbalance |-> IF depth > 0 THEN <<row.bidSize - row.askSize, depth>> ELSE <<0, 1>>,
        microprice |->
            IF depth > 0 THEN <<row.ask * row.bidSize + row.bid * row.askSize, depth>>
            ELSE <<TwiceMid(row), 2>>,
        shortReturn |->
            IF previous # Nothing /\ TwiceMid(previous) > 0
            THEN <<TwiceMid(row) - TwiceMid(previous), TwiceMid(previous)>>
            ELSE <<0, 1>>,
        synthetic |-> synthetic]

\* Mutant: the table of previous rows is filled while the first loop runs.
GenerateFeaturesLookahead(rows) ==
    [i \in DOMAIN rows |->
        LET row == rows[i]
            legs == ByTime(rows)[row.timestamp]
            last == SelectLastInSeq(rows, LAMBDA other : other.symbol = row.symbol)
        IN Feature(row, IF last = i THEN Nothing ELSE rows[last],
                   IF HasBothLegs(legs) THEN DeriveSynthetic(legs[ETH], legs[BTC])
                   ELSE Nothing)]

\* The second loop of generate_microstructure_features, in the file's order:
\* each row is compared with the row of its symbol the loop saw last.
GenerateFeatures(rows) ==
    LET byTime == ByTime(rows)
        Step(loop, row) ==
            LET legs == byTime[row.timestamp]
                synthetic == IF HasBothLegs(legs) THEN DeriveSynthetic(legs[ETH], legs[BTC])
                             ELSE Nothing
            IN [previous |-> [loop.previous EXCEPT ![row.symbol] = row],
                features |-> Append(loop.features,
                                    Feature(row, loop.previous[row.symbol], synthetic))]
    IN FoldLeft(Step, [previous |-> NoLegs, features |-> <<>>], rows).features

\* The synthetic_ethbtc list of replay_payload, grouped by its own comprehension:
\* the books of the timestamps that have both legs.
ReplaySynthetic(rows) ==
    LET Leg(at, s) ==
            SelectLastInSeq(rows, LAMBDA row : row.timestamp = at /\ row.symbol = s)
        complete == {at \in Timestamps(rows) : Leg(at, ETH) # 0 /\ Leg(at, BTC) # 0}
    IN [at \in complete |-> DeriveSynthetic(rows[Leg(at, ETH)], rows[Leg(at, BTC)])]

\* generate_microstructure_features divides by zero: depth_slope divides by the depth
\* of an empty book, and the synthetic book by the BTC leg's prices.
DividesByZero(rows) ==
    \/ \E i \in DOMAIN rows : DepthTotal(rows[i]) = 0
    \/ \E at \in Timestamps(rows) :
          LET legs == ByTime(rows)[at]
          IN HasBothLegs(legs) /\ 0 \in {legs[BTC].bid, legs[BTC].ask, TwiceMid(legs[BTC])}
=============================================================================
