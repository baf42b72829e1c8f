-------------------------- MODULE Backtesting_proofs --------------------------
(***************************************************************************)
(* Proofs about backtests: for any set of threads and any rows, reports    *)
(* that have an explanation, and for replay files of any length, features  *)
(* that do not look ahead, agree with the synthetic books and keep their   *)
(* prices inside the spread.                                               *)
(***************************************************************************)
EXTENDS Backtesting, ListLemmas

(* The reports *)

\* What a backtest of the first rows of a file, or of the fixtures, can have reported.
Loadable(rows) ==
    {k \in 0 .. Len(rows) : /\ Permitted(SubSeq(rows, 1, k))
                            /\ ~DividesByZero(Selected(SubSeq(rows, 1, k)))}

Explained(rows) ==
    {ReportOf(GenerateFeatures(Selected(SubSeq(rows, 1, k))), "local_replay_file") :
        k \in Loadable(rows)}
    \cup {ReportOf(GenerateFeatures(Fixtures), "synthetic_in_repo_fixture")}

\* A request has nothing, or a report that has an explanation, and so have the files.
ReportsInv ==
    /\ replayFile \in Seq(Rows)
    /\ request \in [Threads -> {Idle} \cup [pc: {"write_json", "append_jsonl"},
                                            report: Explained(replayFile)]]
    /\ latest \in Seq(Explained(replayFile))
    /\ reports \in Seq(Explained(replayFile))

\* A row at the end of a file leaves what its first rows were.
LEMMA FirstRows ==
    ASSUME NEW S, NEW q \in Seq(S), NEW e \in S, NEW k \in 0 .. Len(q)
    PROVE  SubSeq(Append(q, e), 1, k) = SubSeq(q, 1, k)
OBVIOUS

\* What explained a report explains it of the longer file.
LEMMA ExplainedGrows ==
    ASSUME NEW S, NEW q \in Seq(S), NEW e \in S
    PROVE  Explained(q) \subseteq Explained(Append(q, e))
<1>1. Len(q) \in Nat /\ Len(Append(q, e)) = Len(q) + 1
  OBVIOUS
<1>2. ASSUME NEW k \in Loadable(q)
      PROVE  k \in Loadable(Append(q, e)) /\ SubSeq(Append(q, e), 1, k) = SubSeq(q, 1, k)
  <2>1. k \in 0 .. Len(q) /\ k \in 0 .. Len(Append(q, e))
    BY <1>1 DEF Loadable
  <2>2. SubSeq(Append(q, e), 1, k) = SubSeq(q, 1, k)
    BY <2>1, FirstRows
  <2> QED
    BY <2>1, <2>2 DEF Loadable
<1> QED
  BY <1>2 DEF Explained

\* The report of the file as it is has an explanation, when it can be made.
LEMMA WholeFile ==
    ASSUME NEW rows \in Seq(Rows), LoadReplayFile(rows) # <<>>,
           ~DividesByZero(Selected(LoadReplayFile(rows)[1]))
    PROVE  ReportOf(GenerateFeatures(Selected(LoadReplayFile(rows)[1])), "local_replay_file")
               \in Explained(rows)
<1>1. Permitted(rows) /\ LoadReplayFile(rows) = <<rows>>
  BY DEF LoadReplayFile, Permitted
<1>2. LoadReplayFile(rows)[1] = rows
  BY <1>1
<1>3. SubSeq(rows, 1, Len(rows)) = rows /\ Len(rows) \in 0 .. Len(rows)
  OBVIOUS
<1>4. Len(rows) \in Loadable(rows)
  BY <1>1, <1>2, <1>3 DEF Loadable
<1> QED
  BY <1>2, <1>3, <1>4 DEF Explained

\* Every step keeps the reports explained.
LEMMA NextReportsInv ==
    ASSUME ReportsInv, [Next]_vars
    PROVE  ReportsInv'
<1> DEFINE E == Explained(replayFile)
           Req == {Idle} \cup [pc: {"write_json", "append_jsonl"}, report: E]
<1>1. replayFile \in Seq(Rows) /\ request \in [Threads -> Req]
      /\ latest \in Seq(E) /\ reports \in Seq(E)
  BY DEF ReportsInv
<1>2. ASSUME replayFile' = replayFile, request' \in [Threads -> Req],
             latest' \in Seq(E), reports' \in Seq(E)
      PROVE  ReportsInv'
  BY <1>1, <1>2 DEF ReportsInv
<1>3. ASSUME NEW t \in Threads, request[t].pc \in {"write_json", "append_jsonl"}
      PROVE  /\ request[t].report \in E
             /\ request[t] \in [pc: {"write_json", "append_jsonl"}, report: E]
  BY <1>1, <1>3 DEF Idle
<1>4. ASSUME NEW row \in Rows, AddRow(row) PROVE ReportsInv'
  <2>1. replayFile' = Append(replayFile, row) /\ UNCHANGED <<request, latest, reports>>
    BY <1>4 DEF AddRow
  <2>2. E \subseteq Explained(replayFile') /\ replayFile' \in Seq(Rows)
    BY <1>1, <2>1, ExplainedGrows
  <2> HIDE DEF E
  <2>3. request \in [Threads -> {Idle} \cup [pc: {"write_json", "append_jsonl"},
                                             report: Explained(replayFile')]]
    BY <1>1, <2>2
  <2>4. latest \in Seq(Explained(replayFile')) /\ reports \in Seq(Explained(replayFile'))
    BY <1>1, <2>2
  <2> QED
    BY <2>1, <2>2, <2>3, <2>4 DEF ReportsInv
<1>5. ASSUME NEW t \in Threads, RunReplayFile(t) PROVE ReportsInv'
  <2> DEFINE loaded == LoadReplayFile(replayFile)
             r == ReportOf(GenerateFeatures(Selected(loaded[1])), "local_replay_file")
             failed == loaded = <<>> \/ DividesByZero(Selected(loaded[1]))
  <2>1. request' = [request EXCEPT ![t] = IF failed THEN Idle
                                          ELSE [pc |-> "write_json", report |-> r]]
        /\ UNCHANGED <<replayFile, latest, reports>>
    BY <1>5 DEF RunReplayFile
  <2>2. ~failed => r \in E
    BY <1>1, WholeFile
  <2> HIDE DEF failed, r, E
  <2>3. (IF failed THEN Idle ELSE [pc |-> "write_json", report |-> r]) \in Req
    BY <2>2
  <2> HIDE DEF Req
  <2>4. request' \in [Threads -> Req]
    BY <1>1, <2>1, <2>3
  <2> QED
    BY <1>1, <1>2, <2>1, <2>4
<1>6. ASSUME NEW t \in Threads, RunFixtures(t) PROVE ReportsInv'
  <2> DEFINE r == ReportOf(GenerateFeatures(Fixtures), "synthetic_in_repo_fixture")
  <2>1. request' = [request EXCEPT ![t] = [pc |-> "write_json", report |-> r]]
        /\ UNCHANGED <<replayFile, latest, reports>>
    BY <1>6 DEF RunFixtures
  <2>2. r \in E
    BY DEF Explained
  <2> HIDE DEF r, E
  <2>3. [pc |-> "write_json", report |-> r] \in Req
    BY <2>2
  <2> HIDE DEF Req
  <2>4. request' \in [Threads -> Req]
    BY <1>1, <2>1, <2>3
  <2> QED
    BY <1>1, <1>2, <2>1, <2>4
<1>7. ASSUME NEW t \in Threads, WriteLatest(t) \/ AppendReport(t) PROVE ReportsInv'
  <2>1. request[t].pc \in {"write_json", "append_jsonl"} /\ replayFile' = replayFile
        /\ latest' \in {latest, <<request[t].report>>}
        /\ reports' \in {reports, Append(reports, request[t].report)}
        /\ request' \in {[request EXCEPT ![t].pc = "append_jsonl"], [request EXCEPT ![t] = Idle]}
    BY <1>7 DEF WriteLatest, AppendReport
  <2>2. request[t].report \in E
        /\ request[t] \in [pc: {"write_json", "append_jsonl"}, report: E]
    BY <1>3, <2>1
  <2> HIDE DEF E
  <2>3. latest' \in Seq(E) /\ reports' \in Seq(E)
    <3> DEFINE r == request[t].report
    <3>1. r \in E
      BY <2>2
    <3> HIDE DEF r
    <3>2. <<r>> \in Seq(E) /\ Append(reports, r) \in Seq(E)
      BY <1>1, <3>1
    <3> QED
      BY <1>1, <2>1, <3>2 DEF r
  <2>4. [request[t] EXCEPT !.pc = "append_jsonl"] \in Req /\ Idle \in Req
    BY <2>2
  <2> HIDE DEF Req
  <2>5. request' \in [Threads -> Req]
    BY <1>1, <2>1, <2>4
  <2> QED
    BY <1>2, <2>1, <2>3, <2>5
<1>8. CASE Crash
  BY <1>1, <1>2, <1>8 DEF Crash
<1>9. CASE UNCHANGED vars
  BY <1>1, <1>2, <1>9 DEF vars
<1> QED
  BY <1>4, <1>5, <1>6, <1>7, <1>8, <1>9 DEF Next

\* The requests and the files of every reachable state have their explanations.
LEMMA Reports == Spec => []ReportsInv
<1>1. Init => ReportsInv
  BY DEF Init, ReportsInv
<1>2. ReportsInv /\ [Next]_vars => ReportsInv'
  BY NextReportsInv
<1> QED
  BY <1>1, <1>2, PTL DEF Spec

\* Whatever becomes of the file while requests are under way on other threads, every
\* stored report is one that some state of the file, or the fixtures, explain.
THEOREM ReportsExplainedCorrect == Spec => []ReportsExplained
<1>1. ReportsInv => ReportsExplained
  <2> SUFFICES ASSUME ReportsInv PROVE ReportsExplained
    OBVIOUS
  <2>1. Range(latest) \cup Range(reports) \subseteq Explained(replayFile)
    BY DEF ReportsInv, Range
  <2> QED
    BY <2>1 DEF ReportsExplained, Explained, Loadable
<1> QED
  BY <1>1, Reports, PTL

(* The two loops *)

\* The rows that a replay file may have.
Permissible == {row \in Rows : row.symbol \in {BTC, ETH}}

\* What the table of legs has for a timestamp.
Leg == Permissible \cup {Nothing}

Legs == [{BTC, ETH} -> Leg]

\* A file that loads has permissible rows.
LEMMA PermittedRows ==
    ASSUME NEW rows \in Seq(Rows), Permitted(rows)
    PROVE  rows \in Seq(Permissible)
BY DEF Permitted, Permissible

\* A row is something.
LEMMA RowIsSomething ==
    /\ Nothing \notin Permissible /\ BTC # ETH
    /\ NoLegs \in Legs /\ \A s \in {BTC, ETH} : NoLegs[s] = Nothing
BY DEF Nothing, Permissible, BTC, ETH, NoLegs, Legs, Leg

\* The last of the rows at some places, if any.
LastOf(rows, places) == IF places = {} THEN Nothing ELSE rows[Max(places)]

\* The places, among the first k rows, of a symbol, and of a symbol at a timestamp.
PlacesOf(rows, k, s) == {j \in 1 .. k : rows[j].symbol = s}

PlacesAt(rows, k, at, s) == {j \in 1 .. k : rows[j].timestamp = at /\ rows[j].symbol = s}

\* One row more is the last one where it belongs, and changes nothing elsewhere.
LEMMA OnePlaceMore ==
    ASSUME NEW k \in Nat, NEW S \in SUBSET (1 .. k + 1), NEW T \in SUBSET (1 .. k),
           S \ {k + 1} = T, NEW rows
    PROVE  LastOf(rows, S) = IF k + 1 \in S THEN rows[k + 1] ELSE LastOf(rows, T)
<1>1. CASE k + 1 \in S
  <2>1. S \subseteq 0 .. k + 1 /\ S # {} /\ k + 1 \in Nat
    BY <1>1
  <2>2. Max(S) \in S /\ \A y \in S : y <= Max(S)
    BY <2>1, GreatestNumber
  <2>3. Max(S) \in 1 .. k + 1
    BY <2>2
  <2>4. k + 1 <= Max(S)
    BY <1>1, <2>2
  <2>5. Max(S) = k + 1
    BY <2>3, <2>4
  <2> QED
    BY <1>1, <2>1, <2>5 DEF LastOf
<1>2. CASE k + 1 \notin S
  <2>1. S = T
    BY <1>2
  <2> QED
    BY <1>2, <2>1
<1> QED
  BY <1>1, <1>2

\* What the first loop does with a row.
AddLeg(table, row) == [table EXCEPT ![row.timestamp][row.symbol] = row]

\* The table of legs, row by row.
LEMMA ByTimeTrace ==
    ASSUME NEW rows \in Seq(Permissible)
    PROVE  \E h : /\ h[0] = [at \in Timestamps(rows) |-> NoLegs]
                  /\ \A k \in 0 .. Len(rows) - 1 : h[k + 1] = AddLeg(h[k], rows[k + 1])
                  /\ ByTime(rows) = h[Len(rows)]
<1> DEFINE n == Len(rows)
           base == [at \in Timestamps(rows) |-> NoLegs]
           Tables == [Timestamps(rows) -> Legs]
           step == [p \in Tables \X (1 .. n) |-> AddLeg(p[1], rows[p[2]])]
           Loops(i) == i = [s \in SUBSET (1 .. n) |->
                              IF s = {} THEN base ELSE AddLeg(i[s \ {Max(s)}], rows[Max(s)])]
           iter == CHOOSE i : Loops(i)
<1>1. n \in Nat /\ DOMAIN rows = 1 .. n /\ base \in Tables
  BY RowIsSomething
<1>2. step \in [Tables \X (1 .. n) -> Tables]
  <2>1. ASSUME NEW table \in Tables, NEW m \in 1 .. n PROVE AddLeg(table, rows[m]) \in Tables
    <3>1. rows[m] \in Permissible
      OBVIOUS
    <3> QED
      BY <3>1 DEF AddLeg, Legs, Leg
  <2> HIDE DEF Tables
  <2> QED
    BY <2>1
<1>3. \E i : Loops(i)
  <2> HIDE DEF step, n, base, Tables
  <2>2. PICK g \in [SUBSET (1 .. n) -> Tables] : Solves(g, n, base, step)
    BY <1>1, <1>2, FoldSolution
  <2>3. ASSUME NEW s \in SUBSET (1 .. n), s # {}
        PROVE  g[s] = AddLeg(g[s \ {Max(s)}], rows[Max(s)])
    <3>1. s \subseteq 0 .. n
      BY <1>1
    <3>2. Max(s) \in 1 .. n
      BY <1>1, <2>3, <3>1, GreatestNumber
    <3>3. g[s \ {Max(s)}] \in Tables
      OBVIOUS
    <3> QED
      BY <2>2, <2>3, <3>2, <3>3 DEF step, Solves
  <2>4. Loops(g)
    BY <2>2, <2>3 DEF Solves
  <2> QED
    BY <2>4
<1>4. Loops(iter)
  BY <1>3
<1>5. ByTime(rows) = iter[1 .. n]
  BY <1>1 DEF ByTime, FoldLeft, MapThenFoldSet, AddLeg
<1> HIDE DEF iter, base
<1>6. ASSUME NEW k \in 0 .. n - 1
      PROVE  iter[1 .. k + 1] = AddLeg(iter[1 .. k], rows[k + 1])
  <2>1. 1 .. k + 1 \in SUBSET (1 .. n) /\ 1 .. k + 1 # {} /\ Max(1 .. k + 1) = k + 1
        /\ (1 .. k + 1) \ {k + 1} = 1 .. k
    BY <1>1, InitialInterval
  <2> QED
    BY <2>1, <1>4
<1>7. iter[1 .. 0] = base
  BY <1>1, <1>4, InitialInterval
<1> DEFINE h == [k \in 0 .. n |-> iter[1 .. k]]
<1>8. h[0] = base /\ \A k \in 0 .. n - 1 : h[k + 1] = AddLeg(h[k], rows[k + 1])
  BY <1>1, <1>6, <1>7
<1>9. ByTime(rows) = h[n]
  BY <1>1, <1>5
<1> QED
  BY <1>8, <1>9 DEF base

\* The table of legs has, for a timestamp and a symbol, the last row of them.
LEMMA ByTimeLegs ==
    ASSUME NEW rows \in Seq(Permissible)
    PROVE  /\ ByTime(rows) \in [Timestamps(rows) -> Legs]
           /\ \A at \in Timestamps(rows) : \A s \in {BTC, ETH} :
                 ByTime(rows)[at][s] = LastOf(rows, PlacesAt(rows, Len(rows), at, s))
<1> DEFINE n == Len(rows)
           Good(table, k) == /\ table \in [Timestamps(rows) -> Legs]
                             /\ \A at \in Timestamps(rows) : \A s \in {BTC, ETH} :
                                   table[at][s] = LastOf(rows, PlacesAt(rows, k, at, s))
<1>1. PICK h : /\ h[0] = [at \in Timestamps(rows) |-> NoLegs]
               /\ \A k \in 0 .. n - 1 : h[k + 1] = AddLeg(h[k], rows[k + 1])
               /\ ByTime(rows) = h[n]
  BY ByTimeTrace
<1> DEFINE T == {k \in 0 .. n : Good(h[k], k)}
<1>2. n \in Nat
  OBVIOUS
<1>3. 0 \in T
  <2>1. \A at, s : PlacesAt(rows, 0, at, s) = {}
    BY DEF PlacesAt
  <2>2. Good(h[0], 0)
    BY <1>1, <2>1, RowIsSomething DEF LastOf
  <2> QED
    BY <1>2, <2>2
<1>4. ASSUME NEW k \in 0 .. n - 1, k \in T PROVE k + 1 \in T
  <2> DEFINE row == rows[k + 1]
             table == h[k]
  <2>1. Good(table, k) /\ h[k + 1] = AddLeg(table, row) /\ k \in Nat
    BY <1>1, <1>4
  <2>2. row \in Permissible /\ row.symbol \in {BTC, ETH} /\ row.timestamp \in Timestamps(rows)
    BY <1>2 DEF Permissible, Timestamps
  <2> HIDE DEF table
  <2>3. AddLeg(table, row) \in [Timestamps(rows) -> Legs]
    BY <2>1, <2>2 DEF AddLeg, Legs, Leg
  <2>4. ASSUME NEW at \in Timestamps(rows), NEW s \in {BTC, ETH}
        PROVE  AddLeg(table, row)[at][s] = LastOf(rows, PlacesAt(rows, k + 1, at, s))
    <3>1. /\ PlacesAt(rows, k + 1, at, s) \in SUBSET (1 .. k + 1)
          /\ PlacesAt(rows, k, at, s) \in SUBSET (1 .. k)
          /\ PlacesAt(rows, k + 1, at, s) \ {k + 1} = PlacesAt(rows, k, at, s)
          /\ k + 1 \in PlacesAt(rows, k + 1, at, s) <=> row.timestamp = at /\ row.symbol = s
      BY <2>1 DEF PlacesAt
    <3>2. LastOf(rows, PlacesAt(rows, k + 1, at, s))
              = IF row.timestamp = at /\ row.symbol = s THEN row
                ELSE LastOf(rows, PlacesAt(rows, k, at, s))
      <4> DEFINE P == PlacesAt(rows, k, at, s)
                 Q == PlacesAt(rows, k + 1, at, s)
      <4> HIDE DEF P, Q, row
      <4>1. P \in SUBSET (1 .. k) /\ Q \in SUBSET (1 .. k + 1) /\ Q \ {k + 1} = P
            /\ (k + 1 \in Q <=> row.timestamp = at /\ row.symbol = s)
        BY <3>1 DEF P, Q
      <4>2. LastOf(rows, Q) = IF k + 1 \in Q THEN rows[k + 1] ELSE LastOf(rows, P)
        BY <2>1, <4>1, OnePlaceMore
      <4> QED
        BY <4>1, <4>2 DEF P, Q, row
    <3>3. AddLeg(table, row)[at][s] = IF row.timestamp = at /\ row.symbol = s THEN row
                                      ELSE table[at][s]
      BY <2>1, <2>2 DEF AddLeg, Legs
    <3> QED
      BY <2>1, <3>2, <3>3
  <2>5. Good(h[k + 1], k + 1)
    BY <2>1, <2>3, <2>4
  <2> QED
    BY <1>2, <2>5
<1>5. n \in T
  <2> HIDE DEF T
  <2>1. \A k \in 0 .. n : k \in T
    BY <1>2, <1>3, <1>4, InductionTo
  <2> QED
    BY <1>2, <2>1
<1> QED
  BY <1>1, <1>5

\* The synthetic book of a feature row, from the legs at its timestamp.
SyntheticOf(legs) ==
    IF HasBothLegs(legs) THEN DeriveSynthetic(legs[ETH], legs[BTC]) ELSE Nothing

\* What the second loop does with a row.
AddFeature(rows, loop, row) ==
    [previous |-> [loop.previous EXCEPT ![row.symbol] = row],
     features |-> Append(loop.features,
                         Feature(row, loop.previous[row.symbol],
                                 SyntheticOf(ByTime(rows)[row.timestamp])))]

\* The feature rows there can be.
Features == {Feature(p[1], p[2], SyntheticOf(p[3])) : p \in Permissible \X Leg \X Legs}

\* The second loop's variables, and their first values.
Loop == [previous: Legs, features: Seq(Features)]

StartLoop == [previous |-> NoLegs, features |-> <<>>]

\* The second loop keeps its types.
LEMMA AddFeatureType ==
    ASSUME NEW rows \in Seq(Permissible), NEW loop \in Loop, NEW m \in 1 .. Len(rows)
    PROVE  AddFeature(rows, loop, rows[m]) \in Loop
<1> DEFINE row == rows[m]
           legs == ByTime(rows)[row.timestamp]
           f == Feature(row, loop.previous[row.symbol], SyntheticOf(legs))
<1>1. row \in Permissible /\ row.symbol \in {BTC, ETH} /\ row.timestamp \in Timestamps(rows)
  BY DEF Permissible, Timestamps
<1>2. legs \in Legs
  BY <1>1, ByTimeLegs
<1>3. loop.previous \in Legs /\ loop.features \in Seq(Features)
  BY DEF Loop
<1>4. loop.previous[row.symbol] \in Leg /\ [loop.previous EXCEPT ![row.symbol] = row] \in Legs
  BY <1>1, <1>3 DEF Legs, Leg
<1>5. f \in Features
  <2>1. <<row, loop.previous[row.symbol], legs>> \in Permissible \X Leg \X Legs
    BY <1>1, <1>2, <1>4
  <2> QED
    BY <2>1 DEF Features
<1>6. AddFeature(rows, loop, row) = [previous |-> [loop.previous EXCEPT ![row.symbol] = row],
                                     features |-> Append(loop.features, f)]
  BY DEF AddFeature
<1> HIDE DEF f, row
<1> QED
  BY <1>3, <1>4, <1>5, <1>6 DEF Loop, row

\* The features, row by row.
LEMMA FeaturesTrace ==
    ASSUME NEW rows \in Seq(Permissible)
    PROVE  \E h : /\ h[0] = StartLoop
                  /\ \A k \in 0 .. Len(rows) - 1 : h[k + 1] = AddFeature(rows, h[k], rows[k + 1])
                  /\ GenerateFeatures(rows) = h[Len(rows)].features
<1> DEFINE n == Len(rows)
           step == [p \in Loop \X (1 .. n) |-> AddFeature(rows, p[1], rows[p[2]])]
           Loops(i) == i = [s \in SUBSET (1 .. n) |->
                              IF s = {} THEN StartLoop
                              ELSE AddFeature(rows, i[s \ {Max(s)}], rows[Max(s)])]
           iter == CHOOSE i : Loops(i)
<1>1. n \in Nat /\ DOMAIN rows = 1 .. n
  OBVIOUS
<1>2. step \in [Loop \X (1 .. n) -> Loop]
  BY AddFeatureType
<1>2a. StartLoop \in Loop
  BY RowIsSomething DEF StartLoop, Loop
<1>3. \E i : Loops(i)
  <2> HIDE DEF step, n
  <2>2. PICK g \in [SUBSET (1 .. n) -> Loop] : Solves(g, n, StartLoop, step)
    BY <1>1, <1>2, <1>2a, FoldSolution
  <2>3. ASSUME NEW s \in SUBSET (1 .. n), s # {}
        PROVE  g[s] = AddFeature(rows, g[s \ {Max(s)}], rows[Max(s)])
    <3>1. s \subseteq 0 .. n
      BY <1>1
    <3>2. Max(s) \in 1 .. n
      BY <1>1, <2>3, <3>1, GreatestNumber
    <3>3. g[s \ {Max(s)}] \in Loop
      OBVIOUS
    <3> QED
      BY <2>2, <2>3, <3>2, <3>3 DEF step, Solves
  <2>4. Loops(g)
    BY <2>2, <2>3 DEF Solves
  <2> QED
    BY <2>4
<1>4. Loops(iter)
  BY <1>3
<1>5. GenerateFeatures(rows) = iter[1 .. n].features
  BY <1>1 DEF GenerateFeatures, FoldLeft, MapThenFoldSet, AddFeature, StartLoop, SyntheticOf
<1> HIDE DEF iter
<1>6. ASSUME NEW k \in 0 .. n - 1
      PROVE  iter[1 .. k + 1] = AddFeature(rows, iter[1 .. k], rows[k + 1])
  <2>1. 1 .. k + 1 \in SUBSET (1 .. n) /\ 1 .. k + 1 # {} /\ Max(1 .. k + 1) = k + 1
        /\ (1 .. k + 1) \ {k + 1} = 1 .. k
    BY <1>1, InitialInterval
  <2> QED
    BY <2>1, <1>4
<1>7. iter[1 .. 0] = StartLoop
  BY <1>1, <1>4, InitialInterval
<1> DEFINE h == [k \in 0 .. n |-> iter[1 .. k]]
<1>8. h[0] = StartLoop /\ \A k \in 0 .. n - 1 : h[k + 1] = AddFeature(rows, h[k], rows[k + 1])
  BY <1>1, <1>6, <1>7
<1>9. GenerateFeatures(rows) = h[n].features
  BY <1>1, <1>5
<1> QED
  BY <1>8, <1>9

\* The row of the same symbol that came last before the i-th.
PreviousOf(rows, i) == LastOf(rows, PlacesOf(rows, i - 1, rows[i].symbol))

\* The feature row of the i-th row.
FeatureOf(rows, i) ==
    Feature(rows[i], PreviousOf(rows, i), SyntheticOf(ByTime(rows)[rows[i].timestamp]))

\* Every row has one feature row, in the file's order, from its previous row and the
\* legs at its timestamp.
LEMMA FeaturesOfRows ==
    ASSUME NEW rows \in Seq(Permissible)
    PROVE  /\ GenerateFeatures(rows) \in Seq(Features)
           /\ Len(GenerateFeatures(rows)) = Len(rows)
           /\ \A i \in 1 .. Len(rows) : GenerateFeatures(rows)[i] = FeatureOf(rows, i)
<1> DEFINE n == Len(rows)
           Good(loop, k) == /\ loop \in Loop
                            /\ \A s \in {BTC, ETH} :
                                  loop.previous[s] = LastOf(rows, PlacesOf(rows, k, s))
                            /\ Len(loop.features) = k
                            /\ \A i \in 1 .. k : loop.features[i] = FeatureOf(rows, i)
<1>1. PICK h : /\ h[0] = StartLoop
               /\ \A k \in 0 .. n - 1 : h[k + 1] = AddFeature(rows, h[k], rows[k + 1])
               /\ GenerateFeatures(rows) = h[n].features
  BY FeaturesTrace
<1> DEFINE T == {k \in 0 .. n : Good(h[k], k)}
<1>2. n \in Nat
  OBVIOUS
<1>3. 0 \in T
  <2>1. \A s : PlacesOf(rows, 0, s) = {}
    BY DEF PlacesOf
  <2>2. Good(h[0], 0)
    BY <1>1, <2>1, RowIsSomething DEF LastOf, StartLoop, Loop
  <2> QED
    BY <1>2, <2>2
<1>4. ASSUME NEW k \in 0 .. n - 1, k \in T PROVE k + 1 \in T
  <2> DEFINE row == rows[k + 1]
             loop == h[k]
             next == AddFeature(rows, loop, row)
             f == Feature(row, loop.previous[row.symbol],
                          SyntheticOf(ByTime(rows)[row.timestamp]))
  <2>1. Good(loop, k) /\ h[k + 1] = next /\ k \in Nat /\ k + 1 \in 1 .. n
    BY <1>1, <1>2, <1>4
  <2>2. row \in Permissible /\ row.symbol \in {BTC, ETH}
    BY <2>1 DEF Permissible
  <2> HIDE DEF loop
  <2>3. next \in Loop
    BY <2>1, AddFeatureType
  <2>4. next.previous = [loop.previous EXCEPT ![row.symbol] = row]
        /\ next.features = Append(loop.features, f)
    BY DEF AddFeature
  <2>5. ASSUME NEW s \in {BTC, ETH}
        PROVE  next.previous[s] = LastOf(rows, PlacesOf(rows, k + 1, s))
    <3>1. /\ PlacesOf(rows, k + 1, s) \in SUBSET (1 .. k + 1)
          /\ PlacesOf(rows, k, s) \in SUBSET (1 .. k)
          /\ PlacesOf(rows, k + 1, s) \ {k + 1} = PlacesOf(rows, k, s)
          /\ k + 1 \in PlacesOf(rows, k + 1, s) <=> row.symbol = s
      BY <2>1 DEF PlacesOf
    <3>2. LastOf(rows, PlacesOf(rows, k + 1, s))
              = IF row.symbol = s THEN row ELSE LastOf(rows, PlacesOf(rows, k, s))
      <4> DEFINE S == PlacesOf(rows, k + 1, s)
                 U == PlacesOf(rows, k, s)
      <4>1. k \in Nat /\ S \in SUBSET (1 .. k + 1) /\ U \in SUBSET (1 .. k) /\ S \ {k + 1} = U
        BY <2>1, <3>1
      <4>2. k + 1 \in S <=> row.symbol = s
        BY <3>1
      <4> HIDE DEF S, U, next
      <4>3. LastOf(rows, S) = IF k + 1 \in S THEN rows[k + 1] ELSE LastOf(rows, U)
        BY <4>1, OnePlaceMore
      <4> QED
        BY <4>2, <4>3 DEF S, U
    <3>3. loop.previous \in Legs
      BY <2>1 DEF Loop
    <3> QED
      BY <2>1, <2>2, <2>4, <3>2, <3>3 DEF Legs
  <2>6. f = FeatureOf(rows, k + 1)
    <3>1. k + 1 - 1 = k
      BY <2>1
    <3>2. loop.previous[row.symbol] = LastOf(rows, PlacesOf(rows, k, row.symbol))
      BY <2>1, <2>2
    <3> QED
      BY <3>1, <3>2 DEF FeatureOf, PreviousOf
  <2>7. loop.features \in Seq(Features) /\ next.features \in Seq(Features)
        /\ Len(loop.features) = k
    BY <2>1, <2>3 DEF Loop
  <2> HIDE DEF f, next
  <2>8. Len(next.features) = k + 1 /\ next.features[k + 1] = f
        /\ \A i \in 1 .. k : next.features[i] = loop.features[i]
    BY <2>4, <2>7
  <2>9. \A i \in 1 .. k + 1 : next.features[i] = FeatureOf(rows, i)
    <3>1. \A i \in 1 .. k + 1 : i \in 1 .. k \/ i = k + 1
      BY <2>1
    <3> QED
      BY <2>1, <2>6, <2>8, <3>1
  <2>10. Good(next, k + 1)
    BY <2>3, <2>5, <2>8, <2>9
  <2> QED
    BY <2>1, <2>10
<1>5. n \in T
  <2> HIDE DEF T
  <2>1. \A k \in 0 .. n : k \in T
    BY <1>2, <1>3, <1>4, InductionTo
  <2> QED
    BY <1>2, <2>1
<1>6. h[n] \in Loop
  BY <1>5
<1> QED
  BY <1>1, <1>5, <1>6 DEF Loop

(* The synthetic books *)

\* The places a leg can be at: rows of the list.
LEMMA LegPlaces ==
    ASSUME NEW rows \in Seq(Permissible), NEW at, NEW s,
           PlacesAt(rows, Len(rows), at, s) # {}
    PROVE  LET j == Max(PlacesAt(rows, Len(rows), at, s)) IN
           /\ j \in DOMAIN rows /\ rows[j] \in Permissible
           /\ rows[j].timestamp = at /\ rows[j].symbol = s
           /\ LastOf(rows, PlacesAt(rows, Len(rows), at, s)) = rows[j]
<1> DEFINE S == PlacesAt(rows, Len(rows), at, s)
           n == Len(rows)
<1>1. n \in Nat /\ S \subseteq 1 .. n /\ S # {}
  BY DEF PlacesAt
<1> HIDE DEF S, n
<1>2. Max(S) \in S
  <2>1. S \subseteq 0 .. n
    BY <1>1
  <2> QED
    BY <1>1, <2>1, GreatestNumber
<1>3. LastOf(rows, S) = rows[Max(S)]
  BY <1>1 DEF LastOf
<1> QED
  BY <1>2, <1>3 DEF S, PlacesAt

\* There is a leg exactly where there is a row for it.
LEMMA LegThere ==
    ASSUME NEW rows \in Seq(Permissible), NEW at, NEW s
    PROVE  LastOf(rows, PlacesAt(rows, Len(rows), at, s)) # Nothing
               <=> PlacesAt(rows, Len(rows), at, s) # {}
<1>1. CASE PlacesAt(rows, Len(rows), at, s) = {}
  BY <1>1 DEF LastOf
<1>2. CASE PlacesAt(rows, Len(rows), at, s) # {}
  BY <1>2, LegPlaces, RowIsSomething
<1> QED
  BY <1>1, <1>2

\* The comprehension of replay_payload and the first loop of the features give the
\* same books.
LEMMA SameBooks ==
    ASSUME NEW rows \in Seq(Permissible), NEW at \in Timestamps(rows)
    PROVE  SyntheticOf(ByTime(rows)[at]) = IF at \in DOMAIN ReplaySynthetic(rows)
                                           THEN ReplaySynthetic(rows)[at] ELSE Nothing
<1> DEFINE P(s) == PlacesAt(rows, Len(rows), at, s)
           Place(a, s) == SelectLastInSeq(rows, LAMBDA row : row.timestamp = a /\ row.symbol = s)
           complete == {a \in Timestamps(rows) : Place(a, ETH) # 0 /\ Place(a, BTC) # 0}
           legs == ByTime(rows)[at]
<1>1. ReplaySynthetic(rows)
          = [a \in complete |-> DeriveSynthetic(rows[Place(a, ETH)], rows[Place(a, BTC)])]
  BY DEF ReplaySynthetic
<1>2. \A s : Place(at, s) = IF P(s) # {} THEN Max(P(s)) ELSE 0
  BY DEF SelectLastInSeq, PlacesAt
<1>3. legs[ETH] = LastOf(rows, P(ETH)) /\ legs[BTC] = LastOf(rows, P(BTC))
  BY ByTimeLegs
<1>4. \A s : P(s) # {} => Max(P(s)) \in DOMAIN rows /\ LastOf(rows, P(s)) = rows[Max(P(s))]
  BY LegPlaces
<1>5. \A s : P(s) # {} <=> LastOf(rows, P(s)) # Nothing
  BY LegThere
<1>6. \A j \in DOMAIN rows : j # 0
  OBVIOUS
<1> HIDE DEF P, Place, legs
<1>7. \A s : Place(at, s) # 0 <=> P(s) # {}
  BY <1>2, <1>4, <1>6
<1>8. HasBothLegs(legs) <=> at \in complete
  BY <1>3, <1>5, <1>7 DEF HasBothLegs
<1>9. at \in complete => DeriveSynthetic(legs[ETH], legs[BTC])
                             = DeriveSynthetic(rows[Place(at, ETH)], rows[Place(at, BTC)])
  <2> SUFFICES ASSUME at \in complete
               PROVE  legs[ETH] = rows[Place(at, ETH)] /\ legs[BTC] = rows[Place(at, BTC)]
    OBVIOUS
  <2>1. P(ETH) # {} /\ P(BTC) # {}
    BY <1>7
  <2> QED
    BY <1>2, <1>3, <1>4, <2>1
<1> HIDE DEF complete
<1>10. CASE at \in complete
  BY <1>1, <1>8, <1>9, <1>10 DEF SyntheticOf, legs
<1>11. CASE at \notin complete
  BY <1>1, <1>8, <1>11 DEF SyntheticOf, legs
<1> QED
  BY <1>10, <1>11

\* What a feature row keeps of its row.
LEMMA FeatureFields ==
    ASSUME NEW rows \in Seq(Permissible), NEW i \in DOMAIN GenerateFeatures(rows)
    PROVE  LET f == GenerateFeatures(rows)[i] IN
           /\ i \in 1 .. Len(rows) /\ f = FeatureOf(rows, i) /\ rows[i] \in Permissible
           /\ f.timestamp = rows[i].timestamp /\ f.timestamp \in Timestamps(rows)
           /\ f.synthetic = SyntheticOf(ByTime(rows)[rows[i].timestamp])
<1>1. i \in 1 .. Len(rows) /\ GenerateFeatures(rows)[i] = FeatureOf(rows, i)
  BY FeaturesOfRows
<1>2. rows[i] \in Permissible /\ rows[i].timestamp \in Timestamps(rows)
  BY <1>1 DEF Timestamps
<1> QED
  BY <1>1, <1>2 DEF FeatureOf, Feature

\* Two code paths group the legs of a timestamp, and agree for every file.
THEOREM SyntheticConsistentCorrect == Spec => []SyntheticConsistent
<1>1. ReportsInv => SyntheticConsistent
  <2> SUFFICES ASSUME ReportsInv, Permitted(replayFile),
                      NEW i \in DOMAIN GenerateFeatures(replayFile)
               PROVE  LET features == GenerateFeatures(replayFile)
                          books == ReplaySynthetic(replayFile)
                      IN features[i].synthetic = IF features[i].timestamp \in DOMAIN books
                                                 THEN books[features[i].timestamp] ELSE Nothing
    BY DEF SyntheticConsistent
  <2>1. replayFile \in Seq(Permissible)
    BY PermittedRows DEF ReportsInv
  <2> QED
    BY <2>1, FeatureFields, SameBooks
<1> QED
  BY <1>1, Reports, PTL

(* No row looks ahead *)

\* A row at the end of a file, and the features of the rows before it.
LEMMA RowAdded ==
    ASSUME NEW rows \in Seq(Permissible), NEW row \in Permissible,
           NEW i \in DOMAIN GenerateFeatures(rows)
    PROVE  LET old == GenerateFeatures(rows)
               new == GenerateFeatures(Append(rows, row))
           IN /\ old[i].imbalance = new[i].imbalance
              /\ old[i].microprice = new[i].microprice
              /\ old[i].shortReturn = new[i].shortReturn
              /\ \/ old[i].synthetic = new[i].synthetic
                 \/ Len(new) > Len(old) /\ old[i].timestamp = new[Len(new)].timestamp
<1> DEFINE more == Append(rows, row)
           n == Len(rows)
           old == GenerateFeatures(rows)
           new == GenerateFeatures(more)
<1>1. n \in Nat /\ more \in Seq(Permissible) /\ Len(more) = n + 1 /\ more[n + 1] = row
      /\ \A j \in 1 .. n : more[j] = rows[j]
  OBVIOUS
<1> HIDE DEF more
<1>2. /\ i \in 1 .. n /\ old[i] = FeatureOf(rows, i)
      /\ old[i].timestamp = rows[i].timestamp
      /\ rows[i].timestamp \in Timestamps(rows)
      /\ old[i].synthetic = SyntheticOf(ByTime(rows)[rows[i].timestamp])
  BY FeatureFields
<1>3. /\ DOMAIN new = 1 .. n + 1 /\ Len(new) = n + 1 /\ Len(old) = n
  BY <1>1, FeaturesOfRows
<1>4. /\ new[i] = FeatureOf(more, i)
      /\ new[i].synthetic = SyntheticOf(ByTime(more)[more[i].timestamp])
      /\ more[i].timestamp \in Timestamps(more)
      /\ new[n + 1].timestamp = row.timestamp
  <2>1. i \in DOMAIN new /\ n + 1 \in DOMAIN new
    BY <1>1, <1>2, <1>3
  <2> QED
    BY <1>1, <2>1, FeatureFields
<1>5. more[i] = rows[i]
  BY <1>1, <1>2
<1>6. PreviousOf(more, i) = PreviousOf(rows, i)
  <2> DEFINE S == PlacesOf(rows, i - 1, rows[i].symbol)
  <2>1. PlacesOf(more, i - 1, more[i].symbol) = S /\ S \subseteq 1 .. i - 1
    BY <1>1, <1>2, <1>5 DEF PlacesOf
  <2> HIDE DEF S
  <2>2. S # {} => Max(S) \in 1 .. n
    <3>1. i - 1 \in Nat /\ S \subseteq 0 .. i - 1
      BY <1>2, <2>1
    <3>2. S # {} => Max(S) \in S
      BY <3>1, GreatestNumber
    <3> QED
      BY <1>2, <2>1, <3>2
  <2> QED
    BY <1>1, <2>1, <2>2 DEF PreviousOf, LastOf, S
<1>7. /\ old[i].imbalance = new[i].imbalance
      /\ old[i].microprice = new[i].microprice
      /\ old[i].shortReturn = new[i].shortReturn
  BY <1>2, <1>4, <1>5, <1>6 DEF FeatureOf, Feature
<1>8. CASE rows[i].timestamp = row.timestamp
  BY <1>2, <1>3, <1>4, <1>7, <1>8 DEF more
<1>9. CASE rows[i].timestamp # row.timestamp
  <2> DEFINE at == rows[i].timestamp
  <2>1. ASSUME NEW s \in {BTC, ETH} PROVE ByTime(more)[at][s] = ByTime(rows)[at][s]
    <3> DEFINE S == PlacesAt(rows, n, at, s)
    <3>1. PlacesAt(more, n + 1, at, s) = S /\ S \subseteq 1 .. n
      BY <1>1, <1>9 DEF PlacesAt
    <3>2. ByTime(more)[at][s] = LastOf(more, PlacesAt(more, n + 1, at, s))
      BY <1>1, <1>4, <1>5, ByTimeLegs
    <3>3. ByTime(rows)[at][s] = LastOf(rows, S)
      BY <1>2, ByTimeLegs
    <3> HIDE DEF S
    <3>4. S # {} => Max(S) \in 1 .. n
      <4>1. S \subseteq 0 .. n
        BY <1>1, <3>1
      <4> QED
        BY <1>1, <3>1, <4>1, GreatestNumber
    <3> QED
      BY <1>1, <3>1, <3>2, <3>3, <3>4 DEF LastOf
  <2>2. SyntheticOf(ByTime(more)[at]) = SyntheticOf(ByTime(rows)[at])
    BY <2>1 DEF SyntheticOf, HasBothLegs
  <2> QED
    BY <1>2, <1>4, <1>5, <1>7, <2>2 DEF more
<1> QED
  BY <1>8, <1>9 DEF more

\* A backtest does not look ahead: the only column that a later row can change is the
\* synthetic book of its own timestamp.
THEOREM NoLookaheadCorrect == Spec => NoLookahead
<1> DEFINE Kept ==
      Permitted(replayFile') =>
          LET old == GenerateFeatures(replayFile)
              new == GenerateFeatures(replayFile')
          IN \A i \in DOMAIN old :
                /\ old[i].imbalance = new[i].imbalance
                /\ old[i].microprice = new[i].microprice
                /\ old[i].shortReturn = new[i].shortReturn
                /\ \/ old[i].synthetic = new[i].synthetic
                   \/ /\ Len(new) > Len(old)
                      /\ old[i].timestamp = new[Len(new)].timestamp
<1>1. ASSUME ReportsInv, Next PROVE Kept
  <2>1. CASE replayFile' = replayFile
    BY <2>1
  <2>2. ASSUME NEW row \in Rows, AddRow(row), Permitted(replayFile') PROVE Kept
    <3>1. replayFile \in Seq(Rows) /\ replayFile' = Append(replayFile, row)
      BY <1>1, <2>2 DEF AddRow, ReportsInv
    <3>2. replayFile \in Seq(Permissible) /\ row \in Permissible
      <4>1. \A j \in 1 .. Len(replayFile) : replayFile'[j] = replayFile[j]
        BY <3>1
      <4>2. replayFile'[Len(replayFile) + 1] = row /\ DOMAIN replayFile' = 1 .. Len(replayFile) + 1
            /\ Len(replayFile) \in Nat /\ DOMAIN replayFile = 1 .. Len(replayFile)
        BY <3>1
      <4>3. Permitted(replayFile) /\ row.symbol \in {BTC, ETH}
        BY <2>2, <4>1, <4>2 DEF Permitted
      <4> QED
        BY <3>1, <4>3, PermittedRows DEF Permissible
    <3> QED
      BY <3>1, <3>2, RowAdded
  <2>3. (\E t \in Threads : RunReplayFile(t) \/ RunFixtures(t) \/ WriteLatest(t) \/ AppendReport(t))
            \/ Crash => replayFile' = replayFile
    BY DEF RunReplayFile, RunFixtures, WriteLatest, AppendReport, Crash
  <2> QED
    BY <1>1, <2>1, <2>2, <2>3 DEF Next
<1>2. ReportsInv /\ [Next]_vars => [Kept]_vars
  BY <1>1
<1> QED
  BY <1>2, Reports, PTL DEF Spec, NoLookahead

(* Prices *)

\* A product grows with its factors.
LEMMA Products ==
    ASSUME NEW a \in Nat, NEW b \in Nat, NEW c \in Nat, NEW d \in Nat, a <= b, c <= d
    PROVE  a * c <= b * d
<1>1. a * c <= b * c
  OBVIOUS
<1>2. b * c <= b * d
  OBVIOUS
<1>3. a * c \in Nat /\ b * c \in Nat /\ b * d \in Nat
  OBVIOUS
<1> QED
  BY <1>1, <1>2, <1>3

\* A weighted mean of the sides is between them, and beyond their mid on the side of
\* the heavier weight.
LEMMA WeightedMean ==
    ASSUME NEW bid \in Nat, NEW ask \in Nat, NEW p \in Nat, NEW q \in Nat, bid <= ask
    PROVE  /\ bid * (p + q) <= ask * p + bid * q
           /\ ask * p + bid * q <= ask * (p + q)
           /\ p > q => (bid + ask) * (p + q) <= (ask * p + bid * q) * 2
           /\ p < q => (ask * p + bid * q) * 2 <= (bid + ask) * (p + q)
<1>1. PICK w \in Nat : ask = bid + w
  <2>1. ask - bid \in Nat /\ ask = bid + (ask - bid)
    OBVIOUS
  <2> QED
    BY <2>1
<1>2. w * p \in Nat /\ w * q \in Nat /\ bid * p \in Nat /\ bid * q \in Nat
  OBVIOUS
<1>3. ask * p = bid * p + w * p /\ ask * q = bid * q + w * q
  BY <1>1
<1>4. bid * (p + q) = bid * p + bid * q /\ ask * (p + q) = ask * p + ask * q
  OBVIOUS
<1>5. (bid + ask) * (p + q) = bid * p + bid * q + ask * p + ask * q
  OBVIOUS
<1>6. (p > q => w * q <= w * p) /\ (p < q => w * p <= w * q)
  BY Products
<1> QED
  BY <1>2, <1>3, <1>4, <1>5, <1>6

\* The book of two legs that are not crossed is not crossed either.
LEMMA SyntheticPrices ==
    ASSUME NEW eth \in Permissible, NEW btc \in Permissible,
           eth.bid <= eth.ask, btc.bid <= btc.ask
    PROVE  LET book == DeriveSynthetic(eth, btc) IN
           AtMost(book.bid, book.mid) /\ AtMost(book.mid, book.ask)
<1> DEFINE a == eth.bid
           b == eth.ask
           c == btc.bid
           d == btc.ask
<1>1. a \in Nat /\ b \in Nat /\ c \in Nat /\ d \in Nat /\ a <= b /\ c <= d
  BY BacktestingAssumption DEF Permissible
<1> HIDE DEF a, b, c, d
<1>2. a * c <= b * d
  BY <1>1, Products
<1>3. a * (c + d) = a * c + a * d /\ (a + b) * d = a * d + b * d
      /\ (a + b) * c = a * c + b * c /\ b * (c + d) = b * c + b * d
  BY <1>1
<1>4. a * c \in Nat /\ a * d \in Nat /\ b * c \in Nat /\ b * d \in Nat
  BY <1>1
<1>5. a * (c + d) <= (a + b) * d /\ (a + b) * c <= b * (c + d)
  BY <1>2, <1>3, <1>4
<1> QED
  BY <1>5 DEF DeriveSynthetic, AtMost, TwiceMid, a, b, c, d

\* For books that are not crossed the microprice is inside the spread on the side the
\* imbalance points to, and the synthetic book is not crossed, for every file.
THEOREM PricesInsideCorrect == Spec => []PricesInside
<1>1. ReportsInv => PricesInside
  <2> SUFFICES ASSUME ReportsInv, Permitted(replayFile),
                      \A i \in DOMAIN replayFile : replayFile[i].bid <= replayFile[i].ask,
                      ~DividesByZero(replayFile),
                      NEW i \in DOMAIN replayFile
               PROVE  LET row == replayFile[i]
                          feature == GenerateFeatures(replayFile)[i]
                          mid == <<TwiceMid(row), 2>>
                      IN /\ AtMost(<<row.bid, 1>>, feature.microprice)
                         /\ AtMost(feature.microprice, <<row.ask, 1>>)
                         /\ feature.imbalance[1] > 0 => AtMost(mid, feature.microprice)
                         /\ feature.imbalance[1] < 0 => AtMost(feature.microprice, mid)
                         /\ feature.synthetic # Nothing =>
                               /\ AtMost(feature.synthetic.bid, feature.synthetic.mid)
                               /\ AtMost(feature.synthetic.mid, feature.synthetic.ask)
    BY DEF PricesInside
  <2> DEFINE row == replayFile[i]
             feature == GenerateFeatures(replayFile)[i]
             legs == ByTime(replayFile)[row.timestamp]
             depth == row.bidSize + row.askSize
  <2>1. replayFile \in Seq(Permissible)
    BY PermittedRows DEF ReportsInv
  <2>2. /\ feature = FeatureOf(replayFile, i) /\ row \in Permissible
        /\ feature.synthetic = SyntheticOf(legs) /\ row.timestamp \in Timestamps(replayFile)
    <3>1. i \in DOMAIN GenerateFeatures(replayFile)
      BY <2>1, FeaturesOfRows
    <3> QED
      BY <2>1, <3>1, FeatureFields
  <2>3. /\ row.bid \in Nat /\ row.ask \in Nat /\ row.bidSize \in Nat /\ row.askSize \in Nat
        /\ row.bid <= row.ask
    BY <2>2, BacktestingAssumption DEF Permissible
  <2>4. depth > 0
    <3>1. depth # 0
      BY DEF DividesByZero, DepthTotal
    <3> QED
      BY <2>3, <3>1
  <2>5. /\ feature.imbalance = <<row.bidSize - row.askSize, depth>>
        /\ feature.microprice = <<row.ask * row.bidSize + row.bid * row.askSize, depth>>
    BY <2>2, <2>4 DEF FeatureOf, Feature, DepthTotal
  <2>6. ASSUME feature.synthetic # Nothing
        PROVE  /\ AtMost(feature.synthetic.bid, feature.synthetic.mid)
               /\ AtMost(feature.synthetic.mid, feature.synthetic.ask)
    <3>1. HasBothLegs(legs) /\ feature.synthetic = DeriveSynthetic(legs[ETH], legs[BTC])
      BY <2>2, <2>6 DEF SyntheticOf
    <3>2. ASSUME NEW s \in {BTC, ETH}, legs[s] # Nothing
          PROVE  legs[s] \in Permissible /\ legs[s].bid <= legs[s].ask
      <4>1. legs[s] = LastOf(replayFile,
                             PlacesAt(replayFile, Len(replayFile), row.timestamp, s))
        BY <2>1, <2>2, ByTimeLegs
      <4>2. PlacesAt(replayFile, Len(replayFile), row.timestamp, s) # {}
        BY <2>1, <3>2, <4>1, LegThere
      <4>3. \E j \in DOMAIN replayFile : replayFile[j] \in Permissible /\ legs[s] = replayFile[j]
        BY <2>1, <4>1, <4>2, LegPlaces
      <4> QED
        BY <4>3
    <3>3. legs[ETH] \in Permissible /\ legs[ETH].bid <= legs[ETH].ask
          /\ legs[BTC] \in Permissible /\ legs[BTC].bid <= legs[BTC].ask
      BY <3>1, <3>2 DEF HasBothLegs
    <3> HIDE DEF legs
    <3> QED
      BY <3>1, <3>3, SyntheticPrices
  <2>7. /\ AtMost(<<row.bid, 1>>, feature.microprice)
        /\ AtMost(feature.microprice, <<row.ask, 1>>)
        /\ feature.imbalance[1] > 0 => AtMost(<<TwiceMid(row), 2>>, feature.microprice)
        /\ feature.imbalance[1] < 0 => AtMost(feature.microprice, <<TwiceMid(row), 2>>)
    <3> DEFINE bid == row.bid
               ask == row.ask
               p == row.bidSize
               q == row.askSize
               m == ask * p + bid * q
    <3>1. bid \in Nat /\ ask \in Nat /\ p \in Nat /\ q \in Nat /\ bid <= ask
      BY <2>3
    <3>2. feature.imbalance[1] = p - q /\ feature.microprice = <<m, p + q>>
      BY <2>5
    <3>3. TwiceMid(row) = bid + ask
      BY DEF TwiceMid
    <3> HIDE DEF bid, ask, p, q, row, feature
    <3>4. /\ bid * (p + q) <= m /\ m <= ask * (p + q)
          /\ p > q => (bid + ask) * (p + q) <= m * 2
          /\ p < q => m * 2 <= (bid + ask) * (p + q)
      BY <3>1, WeightedMean
    <3>5. m \in Nat
      BY <3>1
    <3> HIDE DEF m
    <3> QED
      BY <3>1, <3>2, <3>3, <3>4, <3>5 DEF AtMost, bid, ask
  <2> QED
    BY <2>6, <2>7
<1> QED
  BY <1>1, Reports, PTL
=============================================================================
