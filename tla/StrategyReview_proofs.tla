------------------------ MODULE StrategyReview_proofs ------------------------
(***************************************************************************)
(* Proofs about strategy sessions and the review of their recommendations, *)
(* for any finite number of threads and any decision records, with         *)
(* handlers that interleave at every step and servers that are restarted   *)
(* at any point.                                                           *)
(***************************************************************************)
EXTENDS StrategyReview, ListLemmas

(* The handlers *)

\* What the state of a handler holds at each step.
LEMMA HandlerType ==
    ASSUME TypeOK, NEW t \in Threads
    PROVE  /\ At(t, "start") => thread[t].family \in Families
           /\ thread[t].pc \in {"append", "audit start", "policy", "number", "write",
                               "audit update"} => thread[t].session \in Session
           /\ At(t, "number") => thread[t].action \in Actions
           /\ At(t, "recommend") => thread[t].recommendation \in Recommendation
           /\ thread[t].pc \in {"write", "audit update"} => thread[t].event \in {"pause", "stop"}
           /\ At(t, "append") =>
                 /\ [thread[t] EXCEPT !.pc = "audit start"] \in HandlerState
                 /\ [thread[t] EXCEPT !.pc = "audit start"].pc = "audit start"
                 /\ [thread[t] EXCEPT !.pc = "audit start"].session = thread[t].session
           /\ At(t, "write") =>
                 /\ [thread[t] EXCEPT !.pc = "audit update"] \in HandlerState
                 /\ [thread[t] EXCEPT !.pc = "audit update"].pc = "audit update"
                 /\ [thread[t] EXCEPT !.pc = "audit update"].session = thread[t].session
<1>1. thread[t] \in {Idle} \cup HandlerState
  BY DEF TypeOK
<1>2. CASE thread[t] = Idle
  BY <1>2 DEF Idle, At
<1>3. CASE thread[t] \in [pc: {"start"}, family: Families]
  BY <1>3 DEF At, HandlerState
<1>4. CASE thread[t] \in [pc: {"append", "audit start", "policy"}, session: Session]
  BY <1>4 DEF At, HandlerState
<1>5. CASE \/ thread[t] \in [pc: {"number"}, session: Session, action: Actions]
           \/ thread[t] \in [pc: {"recommend"}, recommendation: Recommendation]
  BY <1>5 DEF At, HandlerState
<1>6. CASE thread[t] \in [pc: {"write", "audit update"}, event: {"pause", "stop"}, session: Session]
  BY <1>6 DEF At, HandlerState
<1> QED
  BY <1>1, <1>2, <1>3, <1>4, <1>5, <1>6 DEF HandlerState

LEMMA IdleHandler == Idle.pc = "idle"
BY DEF Idle

\* Every thread but t stays where it is.
Others(t) == \A u \in Threads \ {t} : thread'[u] = thread[u]

\* Where the threads are after one of them moved.
LEMMA Moved ==
    ASSUME TypeOK, NEW t \in Threads, NEW s \in {Idle} \cup HandlerState, Go(t, s)
    PROVE  /\ thread' \in [Threads -> {Idle} \cup HandlerState]
           /\ thread'[t] = s
           /\ Others(t)
BY DEF TypeOK, Go, Others

\* Rows and sessions are not taken away while the server runs.
Kept ==
    /\ DOMAIN sessions \subseteq DOMAIN sessions'
    /\ \A n \in DOMAIN audit : n \in DOMAIN audit' /\ audit'[n] = audit[n]

\* A row about a session of the list is an audit row.
LEMMA RowType ==
    ASSUME NEW s \in Session, NEW e \in {"start", "pause", "stop", "recommendation"},
           NEW d \in SessionStatus \cup Actions
    PROVE  [session |-> s.id, event |-> e, decision |-> d] \in AuditRow
BY DEF Session, AuditRow

\* Every step of a handler keeps the types and what the lists have.
LEMMA ServeTypeOK ==
    ASSUME TypeOK, NEW t \in Threads, Serve(t)
    PROVE  TypeOK' /\ Others(t) /\ Kept
<1> DEFINE h == thread[t]
<1>1. /\ sessions \in Seq(Session) /\ Len(sessions) \in Nat
      /\ recommendations \in Seq(Recommendation) /\ Len(recommendations) \in Nat
      /\ audit \in Seq(AuditRow)
  BY DEF TypeOK
<1>2. ASSUME NEW s \in {Idle} \cup HandlerState, Go(t, s),
             sessions' \in Seq(Session), recommendations' \in Seq(Recommendation),
             audit' \in Seq(AuditRow), feeCurrent' = feeCurrent, Kept
      PROVE  TypeOK' /\ Others(t) /\ Kept
  BY <1>2, Moved DEF TypeOK
<1>2a. ASSUME NEW row \in AuditRow, audit' = Append(audit, row), sessions' = sessions
       PROVE  audit' \in Seq(AuditRow) /\ Kept
  <2>1. Len(audit) \in Nat /\ DOMAIN audit = 1 .. Len(audit)
    BY <1>1
  <2>2. /\ audit' \in Seq(AuditRow) /\ Len(audit') = Len(audit) + 1
        /\ \A n \in 1 .. Len(audit) : audit'[n] = audit[n]
    BY <1>1, <1>2a
  <2>3. DOMAIN audit' = 1 .. Len(audit) + 1
    BY <2>2
  <2> QED
    BY <1>2a, <2>1, <2>2, <2>3 DEF Kept
<1>3. ASSUME NEW f \in Families, StartSession(t, f) \/ (f = "maker_microstructure" /\ ImplicitStart(t))
      PROVE  TypeOK' /\ Others(t) /\ Kept
  <2> DEFINE s == [pc |-> "start", family |-> f]
  <2>1. Go(t, s) /\ UNCHANGED <<sessions, recommendations, audit, feeCurrent>>
    BY <1>3 DEF StartSession, ImplicitStart
  <2>2. s \in HandlerState
    BY DEF HandlerState
  <2> QED
    BY <1>1, <1>2, <2>1, <2>2 DEF Kept
<1>4. CASE NewSession(t)
  <2> DEFINE new == [id |-> Len(sessions) + 1, family |-> h.family,
                     status |-> IF feeCurrent THEN "running" ELSE "rejected"]
             s == [pc |-> "append", session |-> new]
  <2>1. Go(t, s) /\ UNCHANGED <<sessions, recommendations, audit, feeCurrent>> /\ h.family \in Families
    BY <1>4, HandlerType DEF NewSession
  <2>2. new \in Session
    BY <1>1, <2>1 DEF Session, SessionStatus
  <2>3. s \in HandlerState
    BY <2>2 DEF HandlerState
  <2> QED
    BY <1>1, <1>2, <2>1, <2>3 DEF Kept
<1>5. CASE AppendSession(t)
  <2> DEFINE s == [h EXCEPT !.pc = "audit start"]
  <2>1. /\ Go(t, s) /\ UNCHANGED <<recommendations, audit, feeCurrent>>
        /\ sessions' = Append(sessions, h.session) /\ h.session \in Session
    BY <1>5, HandlerType DEF AppendSession, At
  <2>2. s \in HandlerState
    BY <1>5, HandlerType DEF AppendSession
  <2>3. sessions' \in Seq(Session) /\ DOMAIN sessions \subseteq DOMAIN sessions'
    <3>1. /\ DOMAIN sessions = 1 .. Len(sessions) /\ DOMAIN sessions' = 1 .. Len(sessions) + 1
          /\ sessions' \in Seq(Session)
      BY <1>1, <2>1, AppendElements
    <3>2. 1 .. Len(sessions) \subseteq 1 .. Len(sessions) + 1
      BY <1>1
    <3> QED
      BY <3>1, <3>2
  <2> QED
    BY <1>1, <1>2, <2>1, <2>2, <2>3 DEF Kept
<1>6. CASE AuditStart(t)
  <2> DEFINE s == IF h.session.status = "running" THEN [pc |-> "policy", session |-> h.session] ELSE Idle
             row == [session |-> h.session.id, event |-> "start", decision |-> h.session.status]
  <2>1. /\ Go(t, s) /\ UNCHANGED <<sessions, recommendations, feeCurrent>>
        /\ audit' = Append(audit, row) /\ h.session \in Session
    BY <1>6, HandlerType DEF AuditStart, At, RecordAudit
  <2>2. s \in {Idle} \cup HandlerState
    BY <2>1 DEF HandlerState
  <2>3. row \in AuditRow
    BY <2>1, RowType DEF Session
  <2>4. audit' \in Seq(AuditRow) /\ Kept
    BY <1>2a, <2>1, <2>3
  <2> HIDE DEF s, row
  <2> QED
    BY <1>1, <1>2, <2>1, <2>2, <2>4
<1>7. ASSUME NEW a \in Actions, PolicyRecommendation(t, a)
      PROVE  TypeOK' /\ Others(t) /\ Kept
  <2> DEFINE s == [pc |-> "number", session |-> h.session, action |-> a]
             row == [session |-> h.session.id, event |-> "recommendation", decision |-> a]
  <2>1. /\ Go(t, s) /\ UNCHANGED <<sessions, recommendations, feeCurrent>>
        /\ audit' = Append(audit, row) /\ h.session \in Session
    BY <1>7, HandlerType DEF PolicyRecommendation, At, RecordAudit
  <2>2. s \in HandlerState
    BY <2>1 DEF HandlerState
  <2>3. row \in AuditRow
    BY <2>1, RowType
  <2>4. audit' \in Seq(AuditRow) /\ Kept
    BY <1>2a, <2>1, <2>3
  <2> HIDE DEF s, row
  <2> QED
    BY <1>1, <1>2, <2>1, <2>2, <2>4
<1>7a. CASE NumberRecommendation(t)
  <2> DEFINE r == [id |-> Len(recommendations) + 1, session |-> h.session.id, action |-> h.action]
             s == [pc |-> "recommend", recommendation |-> r]
  <2>1. /\ Go(t, s) /\ UNCHANGED <<sessions, recommendations, audit, feeCurrent>>
        /\ h.session \in Session /\ h.action \in Actions
    BY <1>7a, HandlerType DEF NumberRecommendation, At
  <2>2. r \in Recommendation
    BY <1>1, <2>1 DEF Session, Recommendation
  <2>3. s \in HandlerState
    BY <2>2 DEF HandlerState
  <2> HIDE DEF s
  <2> QED
    BY <1>1, <1>2, <2>1, <2>3 DEF Kept
<1>8. CASE AppendRecommendation(t)
  <2>1. /\ Go(t, Idle) /\ UNCHANGED <<sessions, audit, feeCurrent>>
        /\ recommendations' = Append(recommendations, h.recommendation)
        /\ h.recommendation \in Recommendation
    BY <1>8, HandlerType DEF AppendRecommendation
  <2> QED
    BY <1>1, <1>2, <2>1 DEF Kept
<1>9. ASSUME NEW e \in {"pause", "stop"}, ReadLatest(t, e)
      PROVE  TypeOK' /\ Others(t) /\ Kept
  <2> DEFINE x == [sessions[Len(sessions)] EXCEPT !.status = IF e = "pause" THEN "paused" ELSE "stopped"]
             s == [pc |-> "write", event |-> e, session |-> x]
  <2>1. Go(t, s) /\ UNCHANGED <<sessions, recommendations, audit, feeCurrent>> /\ sessions # <<>>
    BY <1>9 DEF ReadLatest
  <2>2. sessions[Len(sessions)] \in Session
    BY <1>1, <2>1
  <2>3. x \in Session
    BY <2>2 DEF Session, SessionStatus
  <2>4. s \in HandlerState
    BY <2>3 DEF HandlerState
  <2> QED
    BY <1>1, <1>2, <2>1, <2>4 DEF Kept
<1>10. CASE WriteLatest(t)
  <2> DEFINE s == [h EXCEPT !.pc = "audit update"]
  <2>1. /\ Go(t, s) /\ UNCHANGED <<recommendations, audit, feeCurrent>>
        /\ sessions' = [sessions EXCEPT ![Len(sessions)] = h.session] /\ h.session \in Session
    BY <1>10, HandlerType DEF WriteLatest, At
  <2>2. s \in HandlerState
    BY <1>10, HandlerType DEF WriteLatest
  <2>3. sessions' \in Seq(Session) /\ DOMAIN sessions' = DOMAIN sessions
    BY <1>1, <2>1, OverwriteElements
  <2> QED
    BY <1>1, <1>2, <2>1, <2>2, <2>3 DEF Kept
<1>11. CASE AuditUpdate(t)
  <2> DEFINE row == [session |-> h.session.id, event |-> h.event, decision |-> h.session.status]
  <2>1. /\ Go(t, Idle) /\ UNCHANGED <<sessions, recommendations, feeCurrent>>
        /\ audit' = Append(audit, row) /\ h.session \in Session /\ h.event \in {"pause", "stop"}
    BY <1>11, HandlerType DEF AuditUpdate, At, RecordAudit
  <2>2. row \in AuditRow
    BY <2>1, RowType DEF Session
  <2>3. audit' \in Seq(AuditRow) /\ Kept
    BY <1>2a, <2>1, <2>2
  <2> HIDE DEF row
  <2> QED
    BY <1>1, <1>2, <2>1, <2>3
<1> QED
  BY <1>3, <1>4, <1>5, <1>6, <1>7, <1>7a, <1>8, <1>9, <1>10, <1>11 DEF Serve, Families

LEMMA NextTypeOK == TypeOK /\ [Next]_vars => TypeOK'
<1> SUFFICES ASSUME TypeOK, [Next]_vars PROVE TypeOK'
  OBVIOUS
<1>1. CASE Restart
  BY <1>1 DEF Restart, TypeOK
<1>2. CASE FeeLapse
  BY <1>2 DEF FeeLapse, TypeOK
<1>3. CASE UNCHANGED vars
  BY <1>3 DEF vars, TypeOK
<1> QED
  BY <1>1, <1>2, <1>3, ServeTypeOK DEF Next

\* Every step of the review is one of the sessions or leaves them alone.
LEMMA ReviewIsSessions ==
    /\ ReviewInit => Init
    /\ [ReviewNext]_reviewVars => [Next]_vars
BY DEF ReviewInit, ReviewNext, reviewVars, Next, AddDecision, RestartReview

\* The lists and the handlers of the session manager keep their types.
THEOREM TypeCorrect == ReviewSpec => []TypeOK
<1>1. Init => TypeOK
  BY DEF Init, TypeOK
<1> QED
  BY <1>1, NextTypeOK, ReviewIsSessions, PTL DEF ReviewSpec

-----------------------------------------------------------------------------
(* The status of a session *)

\* A handler that holds s to write an audit row about it.
Announcing(h, s) ==
    /\ h.pc \in {"audit start", "audit update"}
    /\ h.session.id = s.id /\ h.session.status = s.status

\* A row of the list gives s the status it has.
Told(s, list) ==
    \E n \in DOMAIN list : /\ list[n].session = s.id
                           /\ list[n].event \in {"start", "pause", "stop"}
                           /\ list[n].decision = s.status

\* Whoever puts a status into the list of sessions has told of it or will.
StatusCovered ==
    \A n \in DOMAIN sessions :
        Told(sessions[n], audit) \/ \E t \in Threads : Announcing(thread[t], sessions[n])

LEMMA ServeStatus ==
    ASSUME TypeOK, StatusCovered, NEW t \in Threads, Serve(t)
    PROVE  StatusCovered'
<1> DEFINE h == thread[t]
<1> SUFFICES ASSUME NEW n \in DOMAIN sessions'
             PROVE  \/ Told(sessions'[n], audit')
                    \/ \E u \in Threads : Announcing(thread'[u], sessions'[n])
  BY DEF StatusCovered
<1>1. Others(t) /\ Kept
  BY ServeTypeOK
<1>2. /\ sessions \in Seq(Session) /\ Len(sessions) \in Nat /\ audit \in Seq(AuditRow)
      /\ thread \in [Threads -> {Idle} \cup HandlerState]
  BY DEF TypeOK
<1>3. ASSUME n \in DOMAIN sessions, sessions'[n] = sessions[n]
      PROVE  \/ Told(sessions'[n], audit')
             \/ \E u \in Threads : Announcing(thread'[u], sessions'[n])
  <2> DEFINE s == sessions[n]
  <2>1. CASE Told(s, audit)
    BY <1>1, <1>3, <2>1 DEF Told, Kept
  <2>2. ASSUME NEW u \in Threads, u # t, Announcing(thread[u], s)
        PROVE  \/ Told(sessions'[n], audit')
               \/ \E v \in Threads : Announcing(thread'[v], sessions'[n])
    BY <1>1, <1>3, <2>2 DEF Others
  <2>3. CASE Announcing(h, s)
    <3>1. AuditStart(t) \/ AuditUpdate(t)
      BY <2>3 DEF Announcing, Serve, StartSession, ImplicitStart, NewSession, AppendSession,
         PolicyRecommendation, NumberRecommendation, AppendRecommendation, ReadLatest, WriteLatest, At
    <3>2. \E e \in {"start", "pause", "stop"} :
             audit' = Append(audit, [session |-> h.session.id, event |-> e,
                                     decision |-> h.session.status])
      BY <3>1, HandlerType DEF AuditStart, AuditUpdate, RecordAudit, At
    <3>3. PICK e \in {"start", "pause", "stop"} :
             audit' = Append(audit, [session |-> h.session.id, event |-> e,
                                     decision |-> h.session.status])
      BY <3>2
    <3>4. h.session \in Session
      BY <3>1, HandlerType DEF AuditStart, AuditUpdate, At
    <3>5. [session |-> h.session.id, event |-> e, decision |-> h.session.status] \in AuditRow
      BY <3>4, RowType DEF Session
    <3>6. /\ Len(audit) + 1 \in DOMAIN audit'
          /\ audit'[Len(audit) + 1] = [session |-> h.session.id, event |-> e,
                                       decision |-> h.session.status]
      BY <1>2, <3>3, <3>5, AppendElements
    <3>7. /\ audit'[Len(audit) + 1].session = sessions'[n].id
          /\ audit'[Len(audit) + 1].event = e
          /\ audit'[Len(audit) + 1].decision = sessions'[n].status
      <4>1. sessions'[n].id = h.session.id /\ sessions'[n].status = h.session.status
        BY <1>3, <2>3 DEF Announcing
      <4> HIDE DEF h
      <4> QED
        BY <3>6, <4>1
    <3> QED
      BY <3>6, <3>7 DEF Told
  <2> QED
    BY <1>3, <2>1, <2>2, <2>3 DEF StatusCovered
<1>4. CASE AppendSession(t)
  <2>1. /\ h.pc = "append" /\ sessions' = Append(sessions, h.session) /\ h.session \in Session
        /\ thread'[t] = [h EXCEPT !.pc = "audit start"]
    BY <1>4, <1>2, HandlerType DEF AppendSession, At, Go
  <2>0. /\ DOMAIN sessions = 1 .. Len(sessions) /\ DOMAIN sessions' = 1 .. Len(sessions) + 1
        /\ sessions'[Len(sessions) + 1] = h.session
        /\ \A m \in DOMAIN sessions : sessions'[m] = sessions[m]
    <3> HIDE DEF h
    <3>1. sessions' = Append(sessions, h.session) /\ h.session \in Session
      BY <2>1
    <3> QED
      BY <1>2, <3>1, AppendElements
  <2>2. CASE n = Len(sessions) + 1
    <3>1. thread'[t].pc = "audit start" /\ thread'[t].session = h.session
      BY <2>1, HandlerType DEF At
    <3> QED
      BY <2>0, <2>2, <3>1 DEF Announcing
  <2>3. CASE n # Len(sessions) + 1
    <3>1. n \in DOMAIN sessions
      BY <1>2, <2>0, <2>3
    <3> QED
      BY <1>3, <2>0, <3>1
  <2> QED
    BY <2>2, <2>3
<1>5. CASE WriteLatest(t)
  <2>1. /\ h.pc = "write" /\ sessions' = [sessions EXCEPT ![Len(sessions)] = h.session]
        /\ h.session \in Session /\ thread'[t] = [h EXCEPT !.pc = "audit update"]
    BY <1>5, <1>2, HandlerType DEF WriteLatest, At, Go
  <2>2. /\ n \in DOMAIN sessions
        /\ sessions'[n] = IF n = Len(sessions) THEN h.session ELSE sessions[n]
    BY <1>2, <2>1, OverwriteElements
  <2>3. CASE n = Len(sessions)
    <3>1. thread'[t].pc = "audit update" /\ thread'[t].session = h.session
      BY <2>1, HandlerType DEF At
    <3> QED
      BY <2>2, <2>3, <3>1 DEF Announcing
  <2>4. CASE n # Len(sessions)
    BY <1>3, <2>2, <2>4
  <2> QED
    BY <2>3, <2>4
<1>6. CASE ~AppendSession(t) /\ ~WriteLatest(t)
  <2>1. sessions' = sessions
    BY <1>6 DEF Serve, StartSession, ImplicitStart, NewSession, AuditStart, PolicyRecommendation,
       NumberRecommendation, AppendRecommendation, ReadLatest, AuditUpdate
  <2> QED
    BY <1>3, <2>1
<1> QED
  BY <1>4, <1>5, <1>6

\* Once the handlers are done, every listed status is one that the audit list gives,
\* for any number of threads: start_session and the updates write the list first and
\* their row with the session they wrote.
THEOREM StatusAuditedCorrect == ReviewSpec => []StatusAudited
<1>1. Init => StatusCovered
  BY DEF Init, StatusCovered
<1>2. TypeOK /\ StatusCovered /\ [Next]_vars => StatusCovered'
  <2> SUFFICES ASSUME TypeOK, StatusCovered, [Next]_vars PROVE StatusCovered'
    OBVIOUS
  <2>1. CASE Restart
    BY <2>1 DEF Restart, StatusCovered
  <2>2. CASE FeeLapse
    BY <2>2 DEF FeeLapse, StatusCovered
  <2>3. CASE UNCHANGED vars
    BY <2>3 DEF vars, StatusCovered
  <2> QED
    BY <2>1, <2>2, <2>3, ServeStatus DEF Next
<1>3. TypeOK /\ StatusCovered => StatusAudited
  <2> SUFFICES ASSUME TypeOK, StatusCovered, Active = {}, NEW n \in DOMAIN sessions
               PROVE  \E e \in {"start", "pause", "stop"} :
                          RowsFor(sessions[n].id, e, sessions[n].status) # {}
    BY DEF StatusAudited
  <2>1. Told(sessions[n], audit)
    BY DEF StatusCovered, Announcing, Active, At
  <2>2. PICK m \in DOMAIN audit : /\ audit[m].session = sessions[n].id
                                  /\ audit[m].event \in {"start", "pause", "stop"}
                                  /\ audit[m].decision = sessions[n].status
    BY <2>1 DEF Told
  <2>3. audit[m] = [session |-> sessions[n].id, event |-> audit[m].event,
                    decision |-> sessions[n].status]
    <3>1. audit[m] \in AuditRow
      BY DEF TypeOK
    <3> QED
      BY <2>2, <3>1 DEF AuditRow
  <2> QED
    BY <2>2, <2>3 DEF RowsFor
<1> QED
  BY <1>1, <1>2, <1>3, TypeCorrect, ReviewIsSessions, PTL DEF ReviewSpec

-----------------------------------------------------------------------------
(* What the list shows of a session *)

\* A handler that updates a session never makes it run.
UpdatesStop ==
    \A t \in Threads : At(t, "write") => thread[t].session.status # "running"

LEMMA ServeUpdatesStop ==
    ASSUME TypeOK, UpdatesStop, NEW t \in Threads, Serve(t)
    PROVE  UpdatesStop'
<1>1. Others(t) /\ thread \in [Threads -> {Idle} \cup HandlerState]
  BY ServeTypeOK DEF TypeOK
<1>2. thread'[t].pc = "write" => thread'[t].session.status # "running"
  <2>1. ASSUME NEW e \in {"pause", "stop"}, ReadLatest(t, e) PROVE <1>2
    <3> DEFINE x == [sessions[Len(sessions)] EXCEPT
                       !.status = IF e = "pause" THEN "paused" ELSE "stopped"]
    <3>1. sessions[Len(sessions)] \in Session
      <4>1. sessions # <<>> /\ sessions \in Seq(Session)
        BY <2>1 DEF ReadLatest, TypeOK
      <4> QED
        BY <4>1
    <3>2. x.status \in {"paused", "stopped"}
      BY <3>1 DEF Session
    <3>3. thread'[t].session = x
      BY <1>1, <2>1 DEF ReadLatest, Go
    <3> QED
      BY <3>2, <3>3
  <2>2. CASE \A e \in {"pause", "stop"} : ~ReadLatest(t, e)
    <3>1. thread'[t].pc # "write"
      <4> USE <1>1 DEF Go, Idle
      <4>1. CASE (\E f \in Families : StartSession(t, f)) \/ ImplicitStart(t) \/ NewSession(t)
        BY <4>1 DEF StartSession, ImplicitStart, NewSession
      <4>2. CASE AppendSession(t) \/ WriteLatest(t)
        <5>1. \/ At(t, "append") /\ thread'[t] = [thread[t] EXCEPT !.pc = "audit start"]
              \/ At(t, "write") /\ thread'[t] = [thread[t] EXCEPT !.pc = "audit update"]
          BY <4>2 DEF AppendSession, WriteLatest
        <5> QED
          BY <5>1, HandlerType
      <4>3. CASE AuditStart(t)
        BY <4>3 DEF AuditStart
      <4>4. ASSUME NEW a \in Actions, PolicyRecommendation(t, a) PROVE <3>1
        BY <4>4 DEF PolicyRecommendation
      <4>5. CASE AppendRecommendation(t) \/ AuditUpdate(t)
        BY <4>5, IdleHandler DEF AppendRecommendation, AuditUpdate
      <4>6. CASE NumberRecommendation(t)
        BY <4>6 DEF NumberRecommendation
      <4> QED
        BY <2>2, <4>1, <4>2, <4>3, <4>4, <4>5, <4>6, Zenon DEF Serve
    <3> QED
      BY <3>1
  <2> QED
    BY <2>1, <2>2
<1> QED
  BY <1>1, <1>2 DEF UpdatesStop, At, Others

\* A place in the list that shows a session that does not run never shows a running
\* one: pause_latest and stop_latest write "paused" or "stopped", whatever the session
\* they overwrite is by then, and start_session only appends.
THEOREM NeverResumesCorrect == ReviewSpec => NeverResumes
<1>1. Init => UpdatesStop
  BY DEF Init, UpdatesStop, At, Idle
<1>2. TypeOK /\ UpdatesStop /\ [Next]_vars => UpdatesStop'
  <2> SUFFICES ASSUME TypeOK, UpdatesStop, [Next]_vars PROVE UpdatesStop'
    OBVIOUS
  <2>1. CASE Restart
    BY <2>1 DEF Restart, UpdatesStop, At, Idle
  <2>2. CASE FeeLapse \/ UNCHANGED vars
    BY <2>2 DEF FeeLapse, vars, UpdatesStop, At
  <2> QED
    BY <2>1, <2>2, ServeUpdatesStop DEF Next
<1>3. TypeOK /\ UpdatesStop /\ [Next]_vars =>
        [\A n \in DOMAIN sessions \cap DOMAIN sessions' :
            sessions[n].status # "running" => sessions'[n].status # "running"]_vars
  <2> SUFFICES ASSUME TypeOK, UpdatesStop, Next,
                      NEW n \in DOMAIN sessions \cap DOMAIN sessions',
                      sessions[n].status # "running"
               PROVE  sessions'[n].status # "running"
    OBVIOUS
  <2>1. sessions \in Seq(Session)
    BY DEF TypeOK
  <2>2. CASE Restart
    BY <2>2 DEF Restart
  <2>3. CASE FeeLapse
    BY <2>3 DEF FeeLapse
  <2>4. ASSUME NEW t \in Threads, AppendSession(t)
        PROVE  sessions'[n].status # "running"
    <3>1. sessions' = Append(sessions, thread[t].session) /\ thread[t].session \in Session
      BY <2>4, HandlerType DEF AppendSession, At
    <3>2. sessions'[n] = sessions[n]
      BY <2>1, <3>1, AppendElements
    <3> QED
      BY <3>2
  <2>5. ASSUME NEW t \in Threads, WriteLatest(t)
        PROVE  sessions'[n].status # "running"
    <3>1. /\ sessions' = [sessions EXCEPT ![Len(sessions)] = thread[t].session]
          /\ thread[t].session \in Session /\ thread[t].session.status # "running"
      BY <2>5, HandlerType DEF WriteLatest, At, UpdatesStop
    <3>2. sessions'[n] = IF n = Len(sessions) THEN thread[t].session ELSE sessions[n]
      BY <2>1, <3>1, OverwriteElements
    <3> QED
      BY <3>1, <3>2
  <2>6. ASSUME NEW t \in Threads, Serve(t), ~AppendSession(t), ~WriteLatest(t)
        PROVE  sessions'[n].status # "running"
    BY <2>6 DEF Serve, StartSession, ImplicitStart, NewSession, AuditStart, PolicyRecommendation,
       NumberRecommendation, AppendRecommendation, ReadLatest, AuditUpdate
  <2> QED
    BY <2>2, <2>3, <2>4, <2>5, <2>6 DEF Next
<1> QED
  BY <1>1, <1>2, <1>3, TypeCorrect, ReviewIsSessions, PTL DEF ReviewSpec, NeverResumes

-----------------------------------------------------------------------------
(* The rows of a recommendation *)

\* The recommendations shown of a session with an action, the handlers about to show
\* one, and the handlers about to ask the policy for one.
Shown(i, a) == {m \in DOMAIN recommendations : /\ recommendations[m].session = i
                                               /\ recommendations[m].action = a}

Holds(h, i, a) ==
    \/ h.pc = "number" /\ h.session.id = i /\ h.action = a
    \/ h.pc = "recommend" /\ h.recommendation.session = i /\ h.recommendation.action = a

Holding(i, a) == {t \in Threads : Holds(thread[t], i, a)}

Asks(h, i) == h.pc = "policy" /\ h.session.id = i

Asking(i) == {t \in Threads : Asks(thread[t], i)}

\* Each of them has a row of its own, and each had a running session.
ShownCovered(i, a) ==
    /\ Cardinality(Shown(i, a)) + Cardinality(Holding(i, a))
           <= Cardinality(RowsFor(i, "recommendation", a))
    /\ Cardinality(Shown(i, a)) + Cardinality(Holding(i, a)) + Cardinality(Asking(i))
           <= Cardinality(RowsFor(i, "start", "running"))

AllCovered == \A i \in Nat, a \in Actions : ShownCovered(i, a)

LEMMA CountsFinite ==
    ASSUME TypeOK, NEW i, NEW a, NEW e, NEW d
    PROVE  /\ IsFiniteSet(Shown(i, a)) /\ Cardinality(Shown(i, a)) \in Nat
           /\ IsFiniteSet(Holding(i, a)) /\ Cardinality(Holding(i, a)) \in Nat
           /\ IsFiniteSet(Asking(i)) /\ Cardinality(Asking(i)) \in Nat
           /\ IsFiniteSet(RowsFor(i, e, d)) /\ Cardinality(RowsFor(i, e, d)) \in Nat
<1>1. /\ Shown(i, a) \in SUBSET (1 .. Len(recommendations)) /\ Len(recommendations) \in Nat
      /\ RowsFor(i, e, d) \in SUBSET (1 .. Len(audit)) /\ Len(audit) \in Nat
      /\ Holding(i, a) \in SUBSET Threads /\ Asking(i) \in SUBSET Threads
  BY DEF TypeOK, Shown, RowsFor, Holding, Asking
<1>2. /\ IsFiniteSet(1 .. Len(recommendations)) /\ IsFiniteSet(1 .. Len(audit))
      /\ IsFiniteSet(Threads)
  BY <1>1, FS_Interval, SessionAssumption
<1> QED
  BY <1>1, <1>2, FS_Subset, FS_CardinalityType

LEMMA ThreadCounts ==
    ASSUME TypeOK, NEW t \in Threads, Others(t), NEW i, NEW a
    PROVE  /\ Cardinality(Holding(i, a)') = Cardinality(Holding(i, a))
                  + (IF Holds(thread'[t], i, a) THEN 1 ELSE 0)
                  - (IF Holds(thread[t], i, a) THEN 1 ELSE 0)
           /\ Cardinality(Asking(i)') = Cardinality(Asking(i))
                  + (IF Asks(thread'[t], i) THEN 1 ELSE 0)
                  - (IF Asks(thread[t], i) THEN 1 ELSE 0)
<1>1. Holding(i, a)' \ {t} = Holding(i, a) \ {t} /\ Asking(i)' \ {t} = Asking(i) \ {t}
  BY DEF Holding, Asking, Others
<1>2. /\ t \in Holding(i, a)' <=> Holds(thread'[t], i, a)
      /\ t \in Holding(i, a) <=> Holds(thread[t], i, a)
      /\ t \in Asking(i)' <=> Asks(thread'[t], i)
      /\ t \in Asking(i) <=> Asks(thread[t], i)
  BY DEF Holding, Asking
<1> QED
  BY <1>1, <1>2, CountsFinite, CountMoved

LEMMA RowsCount ==
    ASSUME TypeOK, NEW r \in AuditRow, audit' = Append(audit, r), NEW i, NEW e, NEW d
    PROVE  Cardinality(RowsFor(i, e, d)') = Cardinality(RowsFor(i, e, d))
               + (IF r = [session |-> i, event |-> e, decision |-> d] THEN 1 ELSE 0)
<1> DEFINE x == Len(audit) + 1
<1>1. /\ Len(audit) \in Nat /\ DOMAIN audit = 1 .. Len(audit) /\ DOMAIN audit' = 1 .. x
      /\ audit'[x] = r
      /\ \A n \in DOMAIN audit : audit'[n] = audit[n]
  BY AppendElements DEF TypeOK
<1>2. x \notin RowsFor(i, e, d)
  BY <1>1 DEF RowsFor
<1>3. RowsFor(i, e, d)' \ {x} = RowsFor(i, e, d) \ {x}
  BY <1>1 DEF RowsFor
<1>4. x \in RowsFor(i, e, d)' <=> r = [session |-> i, event |-> e, decision |-> d]
  BY <1>1 DEF RowsFor
<1> QED
  BY <1>2, <1>3, <1>4, CountsFinite, CountMoved

LEMMA ShownCount ==
    ASSUME TypeOK, NEW r \in Recommendation, recommendations' = Append(recommendations, r),
           NEW i, NEW a
    PROVE  Cardinality(Shown(i, a)') = Cardinality(Shown(i, a))
               + (IF r.session = i /\ r.action = a THEN 1 ELSE 0)
<1> DEFINE x == Len(recommendations) + 1
<1>1. /\ Len(recommendations) \in Nat /\ DOMAIN recommendations = 1 .. Len(recommendations)
      /\ DOMAIN recommendations' = 1 .. x /\ recommendations'[x] = r
      /\ \A n \in DOMAIN recommendations : recommendations'[n] = recommendations[n]
  BY AppendElements DEF TypeOK
<1>2. x \notin Shown(i, a)
  BY <1>1 DEF Shown
<1>3. Shown(i, a)' \ {x} = Shown(i, a) \ {x}
  BY <1>1 DEF Shown
<1>4. x \in Shown(i, a)' <=> r.session = i /\ r.action = a
  BY <1>1 DEF Shown
<1>5. Cardinality(Shown(i, a)') = Cardinality(Shown(i, a))
          + (IF x \in Shown(i, a)' THEN 1 ELSE 0) - (IF x \in Shown(i, a) THEN 1 ELSE 0)
  BY <1>3, CountsFinite, CountMoved
<1> QED
  BY <1>2, <1>4, <1>5, CountsFinite

\* A handler asks after the start row of a running session, and shows after the
\* recommendation row.
LEMMA ServeCovered ==
    ASSUME TypeOK, AllCovered, NEW t \in Threads, Serve(t)
    PROVE  AllCovered'
<1> DEFINE h == thread[t]
<1> SUFFICES ASSUME NEW i \in Nat, NEW a \in Actions PROVE ShownCovered(i, a)'
  BY DEF AllCovered
<1>1. Others(t) /\ thread \in [Threads -> {Idle} \cup HandlerState] /\ ShownCovered(i, a)
  BY ServeTypeOK DEF TypeOK, AllCovered
<1>2. /\ Cardinality(Holding(i, a)') = Cardinality(Holding(i, a))
             + (IF Holds(thread'[t], i, a) THEN 1 ELSE 0) - (IF Holds(h, i, a) THEN 1 ELSE 0)
      /\ Cardinality(Asking(i)') = Cardinality(Asking(i))
             + (IF Asks(thread'[t], i) THEN 1 ELSE 0) - (IF Asks(h, i) THEN 1 ELSE 0)
  BY <1>1, ThreadCounts
<1>3. /\ Cardinality(Shown(i, a)) \in Nat /\ Cardinality(Holding(i, a)) \in Nat
      /\ Cardinality(Asking(i)) \in Nat
      /\ \A e, d : Cardinality(RowsFor(i, e, d)) \in Nat
  BY CountsFinite
<1>4. CASE AuditStart(t)
  <2>0. PICK row \in AuditRow :
           /\ row = [session |-> h.session.id, event |-> "start", decision |-> h.session.status]
           /\ audit' = Append(audit, row)
    BY <1>4, HandlerType, RowType DEF AuditStart, At, RecordAudit, Session
  <2>1. /\ h.pc = "audit start" /\ recommendations' = recommendations
        /\ thread'[t] = IF h.session.status = "running"
                        THEN [pc |-> "policy", session |-> h.session] ELSE Idle
    BY <1>1, <1>4 DEF AuditStart, At, Go
  <2>2. /\ ~Holds(h, i, a) /\ ~Asks(h, i) /\ ~Holds(thread'[t], i, a)
        /\ Asks(thread'[t], i) => h.session.id = i /\ h.session.status = "running"
    <3>1. /\ thread'[t].pc \in {"policy", "idle"}
          /\ thread'[t].pc = "policy" =>
                thread'[t].session = h.session /\ h.session.status = "running"
      <4>1. CASE h.session.status = "running"
        <5>1. thread'[t] = [pc |-> "policy", session |-> h.session]
          BY <2>1, <4>1
        <5> QED
          BY <4>1, <5>1
      <4>2. CASE h.session.status # "running"
        BY <2>1, <4>2, IdleHandler
      <4> QED
        BY <4>1, <4>2
    <3> QED
      BY <2>1, <3>1 DEF Holds, Asks
  <2>3. /\ Cardinality(RowsFor(i, "recommendation", a)') >= Cardinality(RowsFor(i, "recommendation", a))
        /\ Cardinality(RowsFor(i, "start", "running")')
               >= Cardinality(RowsFor(i, "start", "running"))
                  + (IF Asks(thread'[t], i) THEN 1 ELSE 0)
        /\ Cardinality(RowsFor(i, "recommendation", a)') \in Nat
        /\ Cardinality(RowsFor(i, "start", "running")') \in Nat
    <3>1. /\ Cardinality(RowsFor(i, "recommendation", a)') = Cardinality(RowsFor(i, "recommendation", a))
                 + (IF row = [session |-> i, event |-> "recommendation", decision |-> a] THEN 1 ELSE 0)
          /\ Cardinality(RowsFor(i, "start", "running")') = Cardinality(RowsFor(i, "start", "running"))
                 + (IF row = [session |-> i, event |-> "start", decision |-> "running"] THEN 1 ELSE 0)
      BY <2>0, RowsCount
    <3>2. Asks(thread'[t], i) => row = [session |-> i, event |-> "start", decision |-> "running"]
      BY <2>0, <2>2
    <3> QED
      BY <1>3, <3>1, <3>2
  <2>4. Shown(i, a)' = Shown(i, a)
    BY <2>1 DEF Shown
  <2> QED
    BY <1>1, <1>2, <1>3, <2>2, <2>3, <2>4 DEF ShownCovered
<1>5. ASSUME NEW b \in Actions, PolicyRecommendation(t, b) PROVE ShownCovered(i, a)'
  <2> DEFINE row == [session |-> h.session.id, event |-> "recommendation", decision |-> b]
  <2>1. /\ h.pc = "policy" /\ h.session \in Session /\ row \in AuditRow
        /\ audit' = Append(audit, row) /\ recommendations' = recommendations
        /\ thread'[t] = [pc |-> "number", session |-> h.session, action |-> b]
    BY <1>1, <1>5, HandlerType, RowType DEF PolicyRecommendation, At, Go, RecordAudit
  <2>2. /\ ~Holds(h, i, a) /\ ~Asks(thread'[t], i)
        /\ Holds(thread'[t], i, a) <=> h.session.id = i /\ b = a
        /\ Asks(h, i) <=> h.session.id = i
    BY <2>1 DEF Holds, Asks
  <2>3. /\ Cardinality(RowsFor(i, "recommendation", a)')
               = Cardinality(RowsFor(i, "recommendation", a))
                 + (IF Holds(thread'[t], i, a) THEN 1 ELSE 0)
        /\ Cardinality(RowsFor(i, "start", "running")') = Cardinality(RowsFor(i, "start", "running"))
    <3>1. /\ Cardinality(RowsFor(i, "recommendation", a)') = Cardinality(RowsFor(i, "recommendation", a))
                 + (IF row = [session |-> i, event |-> "recommendation", decision |-> a] THEN 1 ELSE 0)
          /\ Cardinality(RowsFor(i, "start", "running")') = Cardinality(RowsFor(i, "start", "running"))
                 + (IF row = [session |-> i, event |-> "start", decision |-> "running"] THEN 1 ELSE 0)
      BY <2>1, RowsCount
    <3>2. /\ row = [session |-> i, event |-> "recommendation", decision |-> a]
                 <=> h.session.id = i /\ b = a
          /\ row # [session |-> i, event |-> "start", decision |-> "running"]
      OBVIOUS
    <3> QED
      BY <1>3, <2>2, <3>1, <3>2
  <2>4. Shown(i, a)' = Shown(i, a)
    BY <2>1 DEF Shown
  <2> QED
    BY <1>1, <1>2, <1>3, <2>2, <2>3, <2>4 DEF ShownCovered
<1>5a. CASE NumberRecommendation(t)
  <2>1. /\ h.pc = "number" /\ UNCHANGED <<recommendations, audit>>
        /\ thread'[t].pc = "recommend"
        /\ thread'[t].recommendation.session = h.session.id
        /\ thread'[t].recommendation.action = h.action
    BY <1>1, <1>5a DEF NumberRecommendation, At, Go
  <2>2. /\ ~Asks(h, i) /\ ~Asks(thread'[t], i)
        /\ Holds(thread'[t], i, a) <=> Holds(h, i, a)
    BY <2>1 DEF Holds, Asks
  <2>3. Shown(i, a)' = Shown(i, a) /\ \A e, d : RowsFor(i, e, d)' = RowsFor(i, e, d)
    BY <2>1 DEF Shown, RowsFor
  <2> QED
    BY <1>1, <1>2, <1>3, <2>2, <2>3 DEF ShownCovered
<1>6. CASE AppendRecommendation(t)
  <2>1. /\ h.pc = "recommend" /\ h.recommendation \in Recommendation
        /\ recommendations' = Append(recommendations, h.recommendation)
        /\ audit' = audit /\ thread'[t] = Idle
    BY <1>1, <1>6, HandlerType DEF AppendRecommendation, At, Go
  <2>2. /\ ~Asks(h, i) /\ ~Asks(thread'[t], i) /\ ~Holds(thread'[t], i, a)
        /\ Holds(h, i, a) <=> h.recommendation.session = i /\ h.recommendation.action = a
    BY <2>1 DEF Holds, Asks, Idle
  <2>3. Cardinality(Shown(i, a)') = Cardinality(Shown(i, a)) + (IF Holds(h, i, a) THEN 1 ELSE 0)
    BY <2>1, <2>2, ShownCount
  <2>4. \A e, d : RowsFor(i, e, d)' = RowsFor(i, e, d)
    BY <2>1 DEF RowsFor
  <2> QED
    BY <1>1, <1>2, <1>3, <2>2, <2>3, <2>4 DEF ShownCovered
<1>7. CASE AuditUpdate(t)
  <2>0. PICK row \in AuditRow :
           /\ row = [session |-> h.session.id, event |-> h.event, decision |-> h.session.status]
           /\ audit' = Append(audit, row)
    BY <1>7, HandlerType, RowType DEF AuditUpdate, At, RecordAudit, Session
  <2>1. h.pc = "audit update" /\ recommendations' = recommendations /\ thread'[t] = Idle
    BY <1>1, <1>7 DEF AuditUpdate, At, Go
  <2>2. ~Holds(h, i, a) /\ ~Asks(h, i) /\ ~Holds(thread'[t], i, a) /\ ~Asks(thread'[t], i)
    <3>1. thread'[t].pc = "idle"
      BY <2>1, IdleHandler
    <3> QED
      BY <2>1, <3>1 DEF Holds, Asks
  <2>3. /\ Cardinality(RowsFor(i, "recommendation", a)') >= Cardinality(RowsFor(i, "recommendation", a))
        /\ Cardinality(RowsFor(i, "start", "running")') >= Cardinality(RowsFor(i, "start", "running"))
        /\ Cardinality(RowsFor(i, "recommendation", a)') \in Nat
        /\ Cardinality(RowsFor(i, "start", "running")') \in Nat
    <3>1. \A e, d : Cardinality(RowsFor(i, e, d)') = Cardinality(RowsFor(i, e, d))
             + (IF row = [session |-> i, event |-> e, decision |-> d] THEN 1 ELSE 0)
      BY <2>0, RowsCount
    <3> QED
      BY <1>3, <3>1
  <2>4. Shown(i, a)' = Shown(i, a)
    BY <2>1 DEF Shown
  <2> QED
    BY <1>1, <1>2, <1>3, <2>2, <2>3, <2>4 DEF ShownCovered
<1>8. ASSUME UNCHANGED <<recommendations, audit>>,
             h.pc \notin {"recommend", "number", "policy"},
             thread'[t].pc \notin {"recommend", "number", "policy"}
      PROVE  ShownCovered(i, a)'
  <2>1. ~Holds(h, i, a) /\ ~Asks(h, i) /\ ~Holds(thread'[t], i, a) /\ ~Asks(thread'[t], i)
    BY <1>8 DEF Holds, Asks
  <2>2. Shown(i, a)' = Shown(i, a) /\ \A e, d : RowsFor(i, e, d)' = RowsFor(i, e, d)
    BY <1>8 DEF Shown, RowsFor
  <2> QED
    BY <1>1, <1>2, <1>3, <2>1, <2>2 DEF ShownCovered
<1>9. CASE (\E f \in Families : StartSession(t, f)) \/ ImplicitStart(t) \/ NewSession(t)
           \/ (\E e \in {"pause", "stop"} : ReadLatest(t, e))
  <2>1. /\ UNCHANGED <<recommendations, audit>> /\ h.pc \in {"idle", "start"}
        /\ thread'[t].pc \in {"start", "append", "write"}
    BY <1>1, <1>9 DEF StartSession, ImplicitStart, NewSession, ReadLatest, At, Go
  <2> QED
    BY <1>8, <2>1
<1>10. CASE AppendSession(t) \/ WriteLatest(t)
  <2>1. /\ UNCHANGED <<recommendations, audit>>
        /\ \/ At(t, "append") /\ thread'[t] = [h EXCEPT !.pc = "audit start"]
           \/ At(t, "write") /\ thread'[t] = [h EXCEPT !.pc = "audit update"]
    BY <1>1, <1>10 DEF AppendSession, WriteLatest, Go
  <2>2. h.pc \in {"append", "write"} /\ thread'[t].pc \in {"audit start", "audit update"}
    BY <2>1, HandlerType DEF At
  <2> QED
    BY <1>8, <2>1, <2>2
<1> QED
  BY <1>4, <1>5, <1>5a, <1>6, <1>7, <1>9, <1>10 DEF Serve

\* No recommendation is shown without an audit row of its own and a running start of
\* its session, for any number of threads: _policy_recommendation writes its row
\* before the recommendation is numbered and listed.
THEOREM RecommendationsAuditedCorrect == ReviewSpec => []RecommendationsAudited
<1>0. ASSUME NEW i \in Nat, NEW a \in Actions,
             recommendations = <<>>, \A t \in Threads : thread[t] = Idle, audit = <<>>
      PROVE  ShownCovered(i, a)
  <2>1. Shown(i, a) = {} /\ Holding(i, a) = {} /\ Asking(i) = {} /\ \A e, d : RowsFor(i, e, d) = {}
    BY <1>0 DEF Shown, Holding, Holds, Asking, Asks, RowsFor, Idle
  <2> QED
    BY <2>1, FS_EmptySet DEF ShownCovered
<1>1. Init => AllCovered
  BY <1>0 DEF Init, AllCovered
<1>2. TypeOK /\ AllCovered /\ [Next]_vars => AllCovered'
  <2> SUFFICES ASSUME TypeOK, AllCovered, [Next]_vars PROVE AllCovered'
    OBVIOUS
  <2>1. CASE Restart
    <3> SUFFICES ASSUME NEW i \in Nat, NEW a \in Actions PROVE ShownCovered(i, a)'
      BY DEF AllCovered
    <3>1. /\ Shown(i, a)' = {} /\ Holding(i, a)' = {} /\ Asking(i)' = {}
          /\ \A e, d : RowsFor(i, e, d)' = {}
      BY <2>1 DEF Restart, Shown, Holding, Holds, Asking, Asks, RowsFor, Idle
    <3> QED
      BY <3>1, FS_EmptySet DEF ShownCovered
  <2>2. CASE FeeLapse \/ UNCHANGED vars
    <3>1. UNCHANGED <<recommendations, thread, audit>>
      BY <2>2 DEF FeeLapse, vars
    <3> QED
      BY <3>1 DEF AllCovered, ShownCovered, Shown, Holding, Asking, RowsFor
  <2> QED
    BY <2>1, <2>2, ServeCovered DEF Next
<1>3. TypeOK /\ AllCovered => RecommendationsAudited
  <2> SUFFICES ASSUME TypeOK, AllCovered, NEW n \in DOMAIN recommendations
               PROVE  LET r == recommendations[n] IN
                      /\ Cardinality(Shown(r.session, r.action))
                             <= Cardinality(RowsFor(r.session, "recommendation", r.action))
                      /\ Cardinality(Shown(r.session, r.action))
                             <= Cardinality(RowsFor(r.session, "start", "running"))
    BY DEF RecommendationsAudited, Shown
  <2>1. recommendations[n].session \in Nat /\ recommendations[n].action \in Actions
    <3>1. recommendations[n] \in Recommendation
      BY DEF TypeOK
    <3> QED
      BY <3>1 DEF Recommendation
  <2>2. ShownCovered(recommendations[n].session, recommendations[n].action)
    BY <2>1 DEF AllCovered
  <2> QED
    BY <2>2, CountsFinite DEF ShownCovered
<1> QED
  BY <1>1, <1>2, <1>3, TypeCorrect, ReviewIsSessions, PTL DEF ReviewSpec

-----------------------------------------------------------------------------
(* The review *)

\* The seed record and every added one are complete.
ReviewInv ==
    /\ decisions \in Seq(Decision)
    /\ \A n \in DOMAIN decisions : Complete(decisions[n])

\* The newest record about an id that some record names.
LEMMA DecisionFound ==
    ASSUME NEW list \in Seq(Decision), NEW n \in DOMAIN list
    PROVE  DecisionFor(list, list[n].recommendation) \in DOMAIN list
<1> DEFINE I == {i \in 1 .. Len(list) : list[i].recommendation = list[n].recommendation}
<1>1. Len(list) \in Nat /\ DOMAIN list = 1 .. Len(list) /\ I \subseteq 0 .. Len(list) /\ n \in I
  OBVIOUS
<1>2. DecisionFor(list, list[n].recommendation) = Max(I)
  BY <1>1 DEF DecisionFor, SelectLastInSeq
<1>3. Max(I) \in I
  BY <1>1, GreatestNumber
<1> QED
  BY <1>1, <1>2, <1>3

\* With complete records only, the store approves the ids that some record names.
LEMMA ApprovedNamed ==
    ASSUME NEW list \in Seq(Decision), \A n \in DOMAIN list : Complete(list[n])
    PROVE  Approved(list) = {list[n].recommendation : n \in DOMAIN list}
<1> SUFFICES ASSUME NEW n \in DOMAIN list PROVE PreviewAccepted(list, list[n].recommendation)
  BY DEF Approved
<1>1. DecisionFor(list, list[n].recommendation) \in DOMAIN list /\ 0 \notin DOMAIN list
  BY DecisionFound
<1> QED
  BY <1>1 DEF PreviewAccepted

LEMMA SeedComplete == SeedDecision \in Decision /\ Complete(SeedDecision)
BY DEF SeedDecision, Decision, Complete

LEMMA NextReviewInv == ReviewInv /\ [ReviewNext]_reviewVars => ReviewInv'
<1> SUFFICES ASSUME ReviewInv, [ReviewNext]_reviewVars PROVE ReviewInv'
  OBVIOUS
<1>1. CASE RestartReview
  BY <1>1, SeedComplete DEF RestartReview, ReviewInv
<1>2. ASSUME NEW d \in Drafts, AddDecision(d) PROVE ReviewInv'
  <2>1. /\ d \in Decision /\ Complete(d)
        /\ decisions' = Append(decisions, d)
    BY <1>2, ReviewAssumption DEF AddDecision
  <2> QED
    BY <2>1, AppendElements DEF ReviewInv
<1>3. CASE decisions' = decisions
  BY <1>3 DEF ReviewInv
<1> QED
  BY <1>1, <1>2, <1>3 DEF ReviewNext, reviewVars

\* Recommendations are only appended while the server lives.
LEMMA ServeExtends ==
    ASSUME TypeOK, NEW t \in Threads, Serve(t)
    PROVE  IsPrefix(recommendations, recommendations')
<1>1. recommendations \in Seq(Recommendation)
  BY DEF TypeOK
<1>2. CASE AppendRecommendation(t)
  <2>1. PICK r : recommendations' = Append(recommendations, r)
    BY <1>2 DEF AppendRecommendation
  <2> QED
    BY <1>1, <2>1 DEF IsPrefix
<1>3. CASE ~AppendRecommendation(t)
  <2>1. recommendations' = recommendations
    BY <1>3 DEF Serve, StartSession, ImplicitStart, NewSession, AppendSession, AuditStart,
       PolicyRecommendation, NumberRecommendation, ReadLatest, WriteLatest, AuditUpdate
  <2> QED
    BY <1>1, <2>1 DEF IsPrefix
<1> QED
  BY <1>2, <1>3

\* Whatever records are submitted, about recommendations that were made or will be: an
\* id is approved by a complete record about it and by nothing else, stays approved
\* while the server lives, and a restart drops every approval but the seed's along
\* with the recommendations.
THEOREM ApprovalsFollowReviewsCorrect == ReviewSpec => ApprovalsFollowReviews
<1> DEFINE Added(id) == \E d \in Drafts : /\ Complete(d) /\ d.recommendation = id
                                          /\ decisions' = Append(decisions, d)
           Lives == /\ IsPrefix(recommendations, recommendations')
                    /\ Approved(decisions) \subseteq Approved(decisions')
                    /\ \A id \in Approved(decisions') \ Approved(decisions) : Added(id)
           Dies == Restart /\ Approved(decisions') = {SeedDecision.recommendation}
<1>1. ReviewInit => ReviewInv
  BY SeedComplete DEF ReviewInit, ReviewInv
<1>2. ASSUME TypeOK, ReviewInv, ReviewNext PROVE Dies \/ Lives
  <2>1. ReviewInv'
    BY <1>2, NextReviewInv
  <2>2. /\ Approved(decisions) = {decisions[n].recommendation : n \in DOMAIN decisions}
        /\ Approved(decisions') = {decisions'[n].recommendation : n \in DOMAIN decisions'}
    BY <1>2, <2>1, ApprovedNamed DEF ReviewInv
  <2>3. CASE RestartReview
    BY <2>2, <2>3 DEF RestartReview
  <2>4. ASSUME NEW d \in Drafts, AddDecision(d) PROVE Lives
    <3>1. /\ d \in Decision /\ Complete(d) /\ decisions' = Append(decisions, d)
          /\ recommendations' = recommendations
      BY <2>4, ReviewAssumption DEF AddDecision, vars
    <3>2. /\ DOMAIN decisions = 1 .. Len(decisions) /\ Len(decisions) \in Nat
          /\ DOMAIN decisions' = 1 .. Len(decisions) + 1
          /\ decisions'[Len(decisions) + 1] = d
          /\ \A n \in DOMAIN decisions : decisions'[n] = decisions[n]
      BY <1>2, <3>1, AppendElements DEF ReviewInv
    <3>3. Approved(decisions') = Approved(decisions) \cup {d.recommendation}
      BY <2>2, <3>2
    <3>4. IsPrefix(recommendations, recommendations')
      BY <1>2, <3>1 DEF IsPrefix, TypeOK
    <3> QED
      BY <3>1, <3>3, <3>4
  <2>5. ASSUME NEW t \in Threads, Serve(t), decisions' = decisions PROVE Lives
    BY <1>2, <2>5, ServeExtends
  <2>6. CASE FeeLapse /\ UNCHANGED <<decisions, decisionsFile>>
    <3>1. recommendations' = recommendations /\ decisions' = decisions
      BY <2>6 DEF FeeLapse
    <3> QED
      BY <1>2, <3>1 DEF IsPrefix, TypeOK
  <2> QED
    BY <1>2, <2>3, <2>4, <2>5, <2>6 DEF ReviewNext
<1>3. TypeOK /\ ReviewInv /\ [ReviewNext]_reviewVars => [Dies \/ Lives]_reviewVars
  BY <1>2
<1> QED
  BY <1>1, <1>3, NextReviewInv, TypeCorrect, PTL DEF ReviewSpec, ApprovalsFollowReviews
==============================================================================
