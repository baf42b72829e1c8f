---------------------------- MODULE StrategySessions ----------------------------
(***************************************************************************)
(* The paper strategy session manager (services/strategy/sessions.py) and  *)
(* the policies it asks (services/strategy/policies.py), called by handler *)
(* threads without a lock: one step per access to a shared list.           *)
(*                                                                         *)
(* A session is its id, family and status, a recommendation its id, its    *)
(* session and the policy's action, an audit row the session, the event    *)
(* and the decision.                                                       *)
(* Nothing is stored: a restarted server has a new manager.                *)
(***************************************************************************)
EXTENDS Integers, Sequences, FiniteSets

CONSTANTS
    Threads,      \* threads that run handlers
    MaxSessions,  \* bound: sessions
    MaxAudit      \* bound: audit rows

ASSUME SessionAssumption == IsFiniteSet(Threads) /\ MaxSessions \in Nat /\ MaxAudit \in Nat

VARIABLES
    sessions,         \* _sessions
    recommendations,  \* _recommendations
    audit,            \* _audit_records
    feeCurrent,       \* whether the manager's fee policies are still current
    thread            \* each thread's handler

vars == <<sessions, recommendations, audit, feeCurrent, thread>>

Families == {"maker_microstructure", "microstructure_scalp"}

SessionStatus == {"running", "paused", "stopped", "rejected"}

\* What the policy of a family can answer, whatever the features.
PolicyActions(family) ==
    IF family = "microstructure_scalp"
    THEN {"NO_TRADE", "SUGGEST_MICROSTRUCTURE_SCALP_LONG", "SUGGEST_MICROSTRUCTURE_SCALP_SHORT"}
    ELSE {"NO_TRADE", "SUGGEST_MAKER_QUOTE"}

Actions == UNION {PolicyActions(f) : f \in Families}

Session == [id: Nat \ {0}, family: Families, status: SessionStatus]

Recommendation == [id: Nat \ {0}, session: Nat \ {0}, action: Actions]

AuditRow == [session: Nat \ {0}, event: {"start", "pause", "stop", "recommendation"},
             decision: SessionStatus \cup Actions]

Idle == [pc |-> "idle"]

\* A handler under way, with the session or the recommendation it has made or read.
HandlerState ==
    [pc: {"start"}, family: Families]
    \cup [pc: {"append", "audit start", "policy"}, session: Session]
    \cup [pc: {"number"}, session: Session, action: Actions]
    \cup [pc: {"recommend"}, recommendation: Recommendation]
    \cup [pc: {"write", "audit update"}, event: {"pause", "stop"}, session: Session]

TypeOK ==
    /\ sessions \in Seq(Session)
    /\ recommendations \in Seq(Recommendation)
    /\ audit \in Seq(AuditRow)
    /\ feeCurrent \in BOOLEAN
    /\ thread \in [Threads -> {Idle} \cup HandlerState]

\* The manager's fee policies are stamped when it is created.
Init ==
    /\ sessions = <<>>
    /\ recommendations = <<>>
    /\ audit = <<>>
    /\ feeCurrent = TRUE
    /\ thread = [t \in Threads |-> Idle]

-----------------------------------------------------------------------------
At(t, pc) == thread[t].pc = pc

Go(t, state) == thread' = [thread EXCEPT ![t] = state]

Active == {t \in Threads : ~At(t, "idle")}

\* Every handler under way may still add a session and two rows.
Room ==
    /\ Len(sessions) + Cardinality(Active) < MaxSessions
    /\ Len(audit) + 2 * Cardinality(Active) + 2 <= MaxAudit

RecordAudit(id, event, decision) ==
    audit' = Append(audit, [session |-> id, event |-> event, decision |-> decision])

\* start_session is called.
StartSession(t, family) ==
    /\ At(t, "idle") /\ Room
    /\ Go(t, [pc |-> "start", family |-> family])
    /\ UNCHANGED <<sessions, recommendations, audit, feeCurrent>>

\* recommendations() starts a session of the default family when it sees none.
ImplicitStart(t) ==
    /\ At(t, "idle") /\ Room
    /\ sessions = <<>>
    /\ Go(t, [pc |-> "start", family |-> "maker_microstructure"])
    /\ UNCHANGED <<sessions, recommendations, audit, feeCurrent>>

\* Mutant: ids are counted from the sessions there are.
NewSessionFromZero(t) ==
    /\ At(t, "start")
    /\ Go(t, [pc |-> "append",
              session |-> [id |-> Len(sessions), family |-> thread[t].family,
                           status |-> IF feeCurrent THEN "running" ELSE "rejected"]])
    /\ UNCHANGED <<sessions, recommendations, audit, feeCurrent>>

\* The fee policies are checked and the id is taken from len(self._sessions) + 1.
NewSession(t) ==
    /\ At(t, "start")
    /\ Go(t, [pc |-> "append",
              session |-> [id |-> Len(sessions) + 1, family |-> thread[t].family,
                           status |-> IF feeCurrent THEN "running" ELSE "rejected"]])
    /\ UNCHANGED <<sessions, recommendations, audit, feeCurrent>>

AppendSession(t) ==
    /\ At(t, "append")
    /\ sessions' = Append(sessions, thread[t].session)
    /\ Go(t, [thread[t] EXCEPT !.pc = "audit start"])
    /\ UNCHANGED <<recommendations, audit, feeCurrent>>

AuditStart(t) ==
    LET s == thread[t].session
    IN  /\ At(t, "audit start")
        /\ RecordAudit(s.id, "start", s.status)
        /\ Go(t, IF s.status = "running" THEN [pc |-> "policy", session |-> s] ELSE Idle)
        /\ UNCHANGED <<sessions, recommendations, feeCurrent>>

\* Mutant: the row is written before the policy is asked.
PolicyRecommendationUnasked(t, action) ==
    LET s == thread[t].session
    IN  /\ At(t, "policy")
        /\ action \in PolicyActions(s.family)
        /\ RecordAudit(s.id, "recommendation", "NO_TRADE")
        /\ Go(t, [pc |-> "number", session |-> s, action |-> action])
        /\ UNCHANGED <<sessions, recommendations, feeCurrent>>

\* _policy_recommendation: the policy is asked and the row written ...
PolicyRecommendation(t, action) ==
    LET s == thread[t].session
    IN  /\ At(t, "policy")
        /\ action \in PolicyActions(s.family)
        /\ RecordAudit(s.id, "recommendation", action)
        /\ Go(t, [pc |-> "number", session |-> s, action |-> action])
        /\ UNCHANGED <<sessions, recommendations, feeCurrent>>

\* ... then the id is taken from len(self._recommendations) + 1.
NumberRecommendation(t) ==
    /\ At(t, "number")
    /\ Go(t, [pc |-> "recommend",
              recommendation |-> [id |-> Len(recommendations) + 1,
                                  session |-> thread[t].session.id,
                                  action |-> thread[t].action]])
    /\ UNCHANGED <<sessions, recommendations, audit, feeCurrent>>

AppendRecommendation(t) ==
    /\ At(t, "recommend")
    /\ recommendations' = Append(recommendations, thread[t].recommendation)
    /\ Go(t, Idle)
    /\ UNCHANGED <<sessions, audit, feeCurrent>>

-----------------------------------------------------------------------------
\* Mutant: pausing a paused session resumes it.
ReadLatestToggle(t, event) ==
    /\ At(t, "idle") /\ Room
    /\ sessions # <<>>
    /\ Go(t, [pc |-> "write", event |-> event,
              session |-> [sessions[Len(sessions)] EXCEPT
                             !.status = IF event = "stop" THEN "stopped"
                                        ELSE IF @ = "paused" THEN "running" ELSE "paused"]])
    /\ UNCHANGED <<sessions, recommendations, audit, feeCurrent>>

\* pause_latest and stop_latest: the last session is read whatever its status ...
ReadLatest(t, event) ==
    /\ At(t, "idle") /\ Room
    /\ sessions # <<>>
    /\ Go(t, [pc |-> "write", event |-> event,
              session |-> [sessions[Len(sessions)] EXCEPT
                             !.status = IF event = "pause" THEN "paused" ELSE "stopped"]])
    /\ UNCHANGED <<sessions, recommendations, audit, feeCurrent>>

\* ... and whatever is the last one now is replaced.
WriteLatest(t) ==
    /\ At(t, "write")
    /\ sessions' = [sessions EXCEPT ![Len(sessions)] = thread[t].session]
    /\ Go(t, [thread[t] EXCEPT !.pc = "audit update"])
    /\ UNCHANGED <<recommendations, audit, feeCurrent>>

\* Mutant: the row names the session that is the last one when it is written.
AuditUpdateLatest(t) ==
    /\ At(t, "audit update")
    /\ RecordAudit(sessions[Len(sessions)].id, thread[t].event, thread[t].session.status)
    /\ Go(t, Idle)
    /\ UNCHANGED <<sessions, recommendations, feeCurrent>>

AuditUpdate(t) ==
    /\ At(t, "audit update")
    /\ RecordAudit(thread[t].session.id, thread[t].event, thread[t].session.status)
    /\ Go(t, Idle)
    /\ UNCHANGED <<sessions, recommendations, feeCurrent>>

\* The fee policies' stamps become older than their maximum age.
FeeLapse ==
    /\ feeCurrent
    /\ feeCurrent' = FALSE
    /\ UNCHANGED <<sessions, recommendations, audit, thread>>

Restart ==
    /\ sessions' = <<>>
    /\ recommendations' = <<>>
    /\ audit' = <<>>
    /\ feeCurrent' = TRUE
    /\ thread' = [t \in Threads |-> Idle]

Serve(t) ==
    \/ \E f \in Families : StartSession(t, f)
    \/ ImplicitStart(t)
    \/ NewSession(t)
    \/ AppendSession(t)
    \/ AuditStart(t)
    \/ \E a \in Actions : PolicyRecommendation(t, a)
    \/ NumberRecommendation(t)
    \/ AppendRecommendation(t)
    \/ \E e \in {"pause", "stop"} : ReadLatest(t, e)
    \/ WriteLatest(t)
    \/ AuditUpdate(t)

Next ==
    \/ \E t \in Threads : Serve(t)
    \/ FeeLapse
    \/ Restart

Spec == Init /\ [][Next]_vars
-----------------------------------------------------------------------------
RowsFor(id, event, decision) ==
    {n \in DOMAIN audit : audit[n] = [session |-> id, event |-> event, decision |-> decision]}

\* Threads may number, append and overwrite in any order: once they are done, the
\* status of every listed session is one that an audit row of that session gives.
StatusAudited ==
    Active = {} =>
        \A n \in DOMAIN sessions : \E e \in {"start", "pause", "stop"} :
            RowsFor(sessions[n].id, e, sessions[n].status) # {}

\* No recommendation is shown that the audit list does not have: as many rows as
\* recommendations with that session and that action, and each of a session that
\* was started as running, at least as often.
RecommendationsAudited ==
    \A n \in DOMAIN recommendations :
        LET r    == recommendations[n]
            same == {m \in DOMAIN recommendations :
                        /\ recommendations[m].session = r.session
                        /\ recommendations[m].action = r.action}
        IN  /\ Cardinality(same) <= Cardinality(RowsFor(r.session, "recommendation", r.action))
            /\ Cardinality(same) <= Cardinality(RowsFor(r.session, "start", "running"))

\* A place in the list that shows a paused, stopped or rejected session never shows a
\* running one again, whichever session a late update is written over: pause_latest
\* and stop_latest overwrite any status, but only by another that does not run.
NeverResumes ==
    [][\A n \in DOMAIN sessions \cap DOMAIN sessions' :
          sessions[n].status # "running" => sessions'[n].status # "running"]_vars
=============================================================================
