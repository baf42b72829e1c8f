----------------------------- MODULE Backtesting -----------------------------
(***************************************************************************)
(* Backtest requests on the server's threads (services/backtesting/        *)
(* engine.py, POST /backtests/run and GET /backtests/report): a request    *)
(* loads a replay file or uses the fixtures, computes the features and the *)
(* report, and stores the report in two files one after the other.         *)
(*                                                                         *)
(* A report keeps the counts and the latency; fees, costs and the edge,    *)
(* which add up what the rows have, are left out.                          *)
(***************************************************************************)
EXTENDS ReplayFeatures

CONSTANTS
    Threads,
    Rows,     \* the rows an operator's replay file may have
    MaxRows,  \* bound: the file's length
    MaxRuns   \* bound: reports requested

ASSUME BacktestingAssumption ==
    /\ Rows \subseteq [symbol: STRING, timestamp: Int, receive: Int, bid: Nat, ask: Nat,
                       bidSize: Nat, askSize: Nat]
    /\ MaxRows \in Nat
    /\ MaxRuns \in Nat

VARIABLES
    replayFile,  \* the operator's file
    request,     \* request[t]: what thread t is about to do, and its report
    latest,      \* backtests/latest_report.json, a sequence of at most one report
    reports,     \* backtests/reports.jsonl
    runs         \* requests so far

vars == <<replayFile, request, latest, reports, runs>>

Idle == [pc |-> "idle"]

Init ==
    /\ replayFile = <<>>
    /\ request = [t \in Threads |-> Idle]
    /\ latest = <<>>
    /\ reports = <<>>
    /\ runs = 0

\* run_microstructure_backtest: every feature row is a quote, filled when the book
\* leans to the bid.  skew: the sum that average_latency_ms divides by the count.
ReportOf(features, source) ==
    LET fills == Cardinality({i \in DOMAIN features : features[i].imbalance[1] > 0})
        Skew(row) == IF row.synthetic = Nothing THEN 0 ELSE row.synthetic.skew
    IN [source |-> source, observations |-> Len(features), fills |-> fills,
        missed |-> Len(features) - fills,
        skew |-> FoldLeft(LAMBDA sum, row : sum + Skew(row), 0, features)]

\* External: the operator's file gets one more row.
AddRow(row) ==
    /\ Len(replayFile) < MaxRows
    /\ replayFile' = Append(replayFile, row)
    /\ UNCHANGED <<request, latest, reports, runs>>

\* backtest_run_payload with a replay file, up to its report: a file that does not load
\* and rows that cannot be valued are errors that store nothing.
RunReplayFile(t) ==
    LET loaded == LoadReplayFile(replayFile)
    IN /\ request[t] = Idle
       /\ runs < MaxRuns
       /\ runs' = runs + 1
       /\ request' =
            [request EXCEPT ![t] =
                IF loaded = <<>> \/ DividesByZero(Selected(loaded[1])) THEN Idle
                ELSE [pc |-> "write_json",
                      report |-> ReportOf(GenerateFeatures(Selected(loaded[1])),
                                          "local_replay_file")]]
       /\ UNCHANGED <<replayFile, latest, reports>>

\* backtest_report_payload without a file; a GET does the same, and stores its report too.
RunFixtures(t) ==
    /\ request[t] = Idle
    /\ runs < MaxRuns
    /\ runs' = runs + 1
    /\ request' = [request EXCEPT ![t] =
                      [pc |-> "write_json",
                       report |-> ReportOf(GenerateFeatures(Fixtures),
                                           "synthetic_in_repo_fixture")]]
    /\ UNCHANGED <<replayFile, latest, reports>>

\* persist_backtest_report, first file.
WriteLatest(t) ==
    /\ request[t].pc = "write_json"
    /\ latest' = <<request[t].report>>
    /\ request' = [request EXCEPT ![t].pc = "append_jsonl"]
    /\ UNCHANGED <<replayFile, reports, runs>>

\* persist_backtest_report, second file.
AppendReport(t) ==
    /\ request[t].pc = "append_jsonl"
    /\ reports' = Append(reports, request[t].report)
    /\ request' = [request EXCEPT ![t] = Idle]
    /\ UNCHANGED <<replayFile, latest, runs>>

\* The process ends with requests under way; the files stay.
Crash ==
    /\ \E t \in Threads : request[t] # Idle
    /\ request' = [t \in Threads |-> Idle]
    /\ UNCHANGED <<replayFile, latest, reports, runs>>

Next ==
    \/ \E row \in Rows : AddRow(row)
    \/ \E t \in Threads :
          RunReplayFile(t) \/ RunFixtures(t) \/ WriteLatest(t) \/ AppendReport(t)
    \/ Crash

Spec == Init /\ [][Next]_vars
-----------------------------------------------------------------------------
Permitted(rows) == \A i \in DOMAIN rows : rows[i].symbol \in {BTC, ETH}

\* Two books, one per code path: the list of synthetic books that replay_payload groups
\* for itself has an entry for a timestamp exactly when the feature rows of that
\* timestamp carry one, and it is the same book on both legs.
SyntheticConsistent ==
    Permitted(replayFile) =>
        LET features == GenerateFeatures(replayFile)
            books == ReplaySynthetic(replayFile)
        IN \A i \in DOMAIN features :
              features[i].synthetic = IF features[i].timestamp \in DOMAIN books
                                      THEN books[features[i].timestamp] ELSE Nothing

\* A backtest must not look ahead.  A row added at the end of the file changes no
\* earlier row's imbalance, microprice or return, and the synthetic book only of the
\* rows with its own timestamp.
NoLookahead ==
    [][Permitted(replayFile') =>
          LET old == GenerateFeatures(replayFile)
              new == GenerateFeatures(replayFile')
          IN \A i \in DOMAIN old :
                /\ old[i].imbalance = new[i].imbalance
                /\ old[i].microprice = new[i].microprice
                /\ old[i].shortReturn = new[i].shortReturn
                /\ \/ old[i].synthetic = new[i].synthetic
                   \/ /\ Len(new) > Len(old)
                      /\ old[i].timestamp = new[Len(new)].timestamp]_vars

AtMost(q, r) == q[1] * r[2] <= r[1] * q[2]

\* For books that are not crossed, the microprice is inside the spread and on the side
\* of the mid the imbalance points to, so a simulated fill never leans the other way;
\* and the synthetic book that the two legs make is not crossed and has its mid inside.
PricesInside ==
    LET uncrossed == \A i \in DOMAIN replayFile : replayFile[i].bid <= replayFile[i].ask
    IN Permitted(replayFile) /\ uncrossed /\ ~DividesByZero(replayFile) =>
          \A i \in DOMAIN replayFile :
              LET row == replayFile[i]
                  feature == GenerateFeatures(replayFile)[i]
                  mid == <<TwiceMid(row), 2>>
              IN /\ AtMost(<<row.bid, 1>>, feature.microprice)
                 /\ AtMost(feature.microprice, <<row.ask, 1>>)
                 /\ feature.imbalance[1] > 0 => AtMost(mid, feature.microprice)
                 /\ feature.imbalance[1] < 0 => AtMost(feature.microprice, mid)
                 /\ feature.synthetic # Nothing =>
                       /\ AtMost(feature.synthetic.bid, feature.synthetic.mid)
                       /\ AtMost(feature.synthetic.mid, feature.synthetic.ask)

\* Whatever the file became since, every stored report is the report of one state of
\* the file in which all its rows were permitted and could be valued, or of the
\* fixtures: a refused or failed request stores nothing of the rows it read.
ReportsExplained ==
    LET Loadable == {k \in 0 .. Len(replayFile) :
                        LET rows == SubSeq(replayFile, 1, k)
                        IN /\ Permitted(rows)
                           /\ ~DividesByZero(Selected(rows))}
        Explained == {ReportOf(GenerateFeatures(Selected(SubSeq(replayFile, 1, k))),
                               "local_replay_file") : k \in Loadable}
                     \cup {ReportOf(GenerateFeatures(Fixtures), "synthetic_in_repo_fixture")}
    IN Range(latest) \cup Range(reports) \subseteq Explained
=============================================================================
