------------------------ MODULE OrderReconciler_proofs ------------------------
(***************************************************************************)
(* Proofs about the order reconciler, for any set of orders whose ids      *)
(* differ, any number of partial fills, and any loss, duplication and      *)
(* reordering of the updates.                                              *)
(***************************************************************************)
EXTENDS OrderReconciler, ListLemmas

\* The venue ends an order once: the terminal updates it sends all agree with the
\* state the order ended in.
VenueEndsOnce ==
    \A u \in sent : u.status \in Terminal => venue[u.order].status = u.status

\* What was accepted was delivered, and does not outrank what is known.
AcceptedKnown ==
    \A m \in DOMAIN accepted :
        /\ accepted[m] \in delivered
        /\ status[IdOf[accepted[m].order]] \in VenueOrderStatus
        /\ StatusRank[accepted[m].status] <= StatusRank[status[IdOf[accepted[m].order]]]

IInv == TypeOK /\ VenueEndsOnce /\ KnowsFurthest /\ AcceptedKnown /\ AcceptedClimb

\* Ranks are integers, and only terminal statuses share one.
LEMMA RankFacts ==
    /\ \A s \in VenueOrderStatus : StatusRank[s] \in Int
    /\ \A s, t \in VenueOrderStatus :
          s # t /\ StatusRank[s] = StatusRank[t] => s \in Terminal /\ t \in Terminal
BY DEF StatusRank, VenueOrderStatus, Terminal, Closed

\* A report of the venue keeps the invariant: the order it moves was still live.
LEMMA ReportIInv ==
    ASSUME IInv, NEW o \in Orders, NEW s \in VenueOrderStatus, NEW f \in 0 .. MaxFills,
           venue[o].status \notin Terminal, Report(o, s, f)
    PROVE  IInv'
<1>1. TypeOK'
  BY DEF IInv, TypeOK, Report, VenueOrderUpdate
<1>2. VenueEndsOnce'
  <2> SUFFICES ASSUME NEW u \in sent', u.status \in Terminal
               PROVE  venue'[u.order].status = u.status
    BY DEF VenueEndsOnce
  <2>1. CASE u \in sent
    <3>1. venue[u.order].status = u.status /\ u.order \in Orders
      BY <2>1 DEF IInv, VenueEndsOnce, TypeOK, VenueOrderUpdate
    <3>2. u.order # o
      BY <3>1
    <3> QED
      BY <3>1, <3>2 DEF Report, IInv, TypeOK
  <2>2. CASE u = [order |-> o, status |-> s, fills |-> f]
    BY <2>2 DEF Report, IInv, TypeOK
  <2> QED
    BY <2>1, <2>2 DEF Report
<1>3. KnowsFurthest' /\ AcceptedKnown' /\ AcceptedClimb'
  BY DEF IInv, KnowsFurthest, StatusesDelivered, AcceptedKnown, AcceptedClimb, Report
<1> QED
  BY <1>1, <1>2, <1>3 DEF IInv

\* Delivering an update, new or old, in order or late, keeps the invariant.
LEMMA DeliverIInv ==
    ASSUME IdsDistinct, IInv, NEW u \in sent, Deliver(u)
    PROVE  IInv'
<1> DEFINE i == IdOf[u.order]
           known == status[i]
<1>1. /\ u \in VenueOrderUpdate /\ u.order \in Orders /\ u.status \in VenueOrderStatus
      /\ i \in Ids
      /\ known \in VenueOrderStatus \cup {NoStatus}
      /\ delivered \subseteq VenueOrderUpdate
      /\ delivered' \subseteq VenueOrderUpdate
  BY ReconcilerAssumption DEF IInv, TypeOK, VenueOrderUpdate, Deliver
<1>2. TypeOK'
  <2>1. venue' = venue /\ sent' = sent /\ delivered' \subseteq sent
    BY DEF IInv, TypeOK, Deliver
  <2>2. status' \in [Ids -> VenueOrderStatus \cup {NoStatus}]
    BY <1>1 DEF IInv, TypeOK, Deliver, Apply
  <2>3. accepted' \in Seq(VenueOrderUpdate)
    <3>1. accepted \in Seq(VenueOrderUpdate)
      BY DEF IInv, TypeOK
    <3>2. Append(accepted, u) \in Seq(VenueOrderUpdate)
      BY <1>1, <3>1
    <3>3. accepted' = accepted \/ accepted' = Append(accepted, u)
      BY DEF Deliver, Apply
    <3> QED
      BY <3>1, <3>2, <3>3
  <2> QED
    BY <2>1, <2>2, <2>3 DEF IInv, TypeOK
<1>3. VenueEndsOnce'
  BY DEF IInv, VenueEndsOnce, Deliver
<1>4. \A o \in Orders : StatusesDelivered(o)' =
          IF o = u.order THEN StatusesDelivered(o) \cup {u.status} ELSE StatusesDelivered(o)
  BY DEF StatusesDelivered, Deliver
<1>5. \A o \in Orders : StatusesDelivered(o) \subseteq VenueOrderStatus
  BY <1>1 DEF StatusesDelivered, VenueOrderUpdate
<1>6. \A o \in Orders : o # u.order => IdOf[o] # i
  BY <1>1 DEF IdsDistinct
<1>7. CASE Duplicate(u) \/ Regressive(u)
  <2>1. status' = status /\ accepted' = accepted
    BY <1>7 DEF Deliver, Apply
  <2>2. known \in VenueOrderStatus /\ StatusRank[u.status] <= StatusRank[known]
    BY <1>1, <1>7, RankFacts DEF Duplicate, Regressive
  <2>3. known \in StatusesDelivered(u.order)
    BY <1>1, <2>2, ReconcilerAssumption DEF IInv, KnowsFurthest
  <2>4. KnowsFurthest'
    <3> SUFFICES ASSUME NEW o \in Orders
                 PROVE  LET k == status'[IdOf[o]] IN
                        IF StatusesDelivered(o)' = {} THEN k = NoStatus
                        ELSE /\ k \in StatusesDelivered(o)'
                             /\ \A s \in StatusesDelivered(o)' : StatusRank[s] <= StatusRank[k]
      BY DEF KnowsFurthest
    <3>1. CASE o = u.order
      BY <1>4, <2>1, <2>2, <2>3, <3>1 DEF IInv, KnowsFurthest
    <3>2. CASE o # u.order
      BY <1>4, <2>1, <3>2 DEF IInv, KnowsFurthest
    <3> QED
      BY <3>1, <3>2
  <2>5. AcceptedKnown' /\ AcceptedClimb'
    BY <2>1 DEF IInv, AcceptedKnown, AcceptedClimb, Deliver
  <2> QED
    BY <1>2, <1>3, <2>4, <2>5 DEF IInv
<1>8. CASE ~(Duplicate(u) \/ Regressive(u))
  <2>1. status' = [status EXCEPT ![i] = u.status] /\ accepted' = Append(accepted, u)
    BY <1>8 DEF Deliver, Apply
  <2>2. status'[i] = u.status /\ \A j \in Ids : j # i => status'[j] = status[j]
    BY <1>1, <2>1 DEF IInv, TypeOK
  <2>3. known = NoStatus \/ StatusRank[known] < StatusRank[u.status]
    <3> SUFFICES ASSUME known # NoStatus PROVE StatusRank[known] < StatusRank[u.status]
      OBVIOUS
    <3>1. known \in VenueOrderStatus /\ known # u.status
      BY <1>1, <1>8 DEF Duplicate
    <3>2. StatusRank[known] <= StatusRank[u.status]
      BY <1>1, <1>8, <3>1, RankFacts DEF Regressive
    <3>3. ~(known \in Terminal /\ u.status \in Terminal)
      <4> SUFFICES ASSUME known \in Terminal, u.status \in Terminal PROVE FALSE
        OBVIOUS
      <4>1. known \in StatusesDelivered(u.order)
        BY <1>1, <3>1, ReconcilerAssumption DEF IInv, KnowsFurthest
      <4>2. PICK v \in delivered : v.order = u.order /\ v.status = known
        BY <4>1 DEF StatusesDelivered
      <4>3. v \in sent
        BY DEF IInv, TypeOK
      <4> QED
        BY <3>1, <4>2, <4>3 DEF IInv, VenueEndsOnce
    <3> QED
      BY <1>1, <3>1, <3>2, <3>3, RankFacts
  <2>4. KnowsFurthest'
    <3> SUFFICES ASSUME NEW o \in Orders
                 PROVE  LET k == status'[IdOf[o]] IN
                        IF StatusesDelivered(o)' = {} THEN k = NoStatus
                        ELSE /\ k \in StatusesDelivered(o)'
                             /\ \A s \in StatusesDelivered(o)' : StatusRank[s] <= StatusRank[k]
      BY DEF KnowsFurthest
    <3>1. CASE o = u.order
      <4>1. \A s \in StatusesDelivered(o) : StatusRank[s] <= StatusRank[u.status]
        BY <1>1, <1>5, <2>3, <3>1, RankFacts, ReconcilerAssumption DEF IInv, KnowsFurthest
      <4> QED
        BY <1>1, <1>4, <2>2, <3>1, <4>1, RankFacts
    <3>2. CASE o # u.order
      <4>1. status'[IdOf[o]] = status[IdOf[o]]
        BY <1>6, <2>2, <3>2, ReconcilerAssumption
      <4> QED
        BY <1>4, <3>2, <4>1 DEF IInv, KnowsFurthest
    <3> QED
      BY <3>1, <3>2
  <2>5. /\ DOMAIN accepted' = 1 .. Len(accepted) + 1
        /\ DOMAIN accepted = 1 .. Len(accepted)
        /\ Len(accepted) \in Nat
        /\ accepted'[Len(accepted) + 1] = u
        /\ \A m \in DOMAIN accepted : accepted'[m] = accepted[m]
    BY <1>1, <2>1, AppendElements DEF IInv, TypeOK
  <2>6. \A m \in DOMAIN accepted :
            /\ accepted[m] \in VenueOrderUpdate
            /\ accepted[m].order \in Orders
            /\ accepted[m].status \in VenueOrderStatus
    <3>1. \A m \in DOMAIN accepted : accepted[m] \in VenueOrderUpdate
      BY <1>1, AppendElements DEF IInv, TypeOK
    <3> QED
      BY <3>1 DEF VenueOrderUpdate
  <2>7. \A m \in DOMAIN accepted : accepted[m].order = u.order =>
            StatusRank[accepted[m].status] < StatusRank[u.status]
    BY <1>1, <2>3, <2>6, RankFacts, ReconcilerAssumption DEF IInv, AcceptedKnown
  <2>8. AcceptedKnown'
    <3> SUFFICES ASSUME NEW m \in DOMAIN accepted'
                 PROVE  /\ accepted'[m] \in delivered'
                        /\ status'[IdOf[accepted'[m].order]] \in VenueOrderStatus
                        /\ StatusRank[accepted'[m].status]
                               <= StatusRank[status'[IdOf[accepted'[m].order]]]
      BY DEF AcceptedKnown
    <3>1. CASE m = Len(accepted) + 1
      BY <1>1, <2>2, <2>5, <3>1, RankFacts DEF Deliver
    <3>2. CASE m \in DOMAIN accepted /\ accepted[m].order = u.order
      BY <1>1, <2>2, <2>5, <2>6, <2>7, <3>2, RankFacts DEF Deliver, IInv, AcceptedKnown
    <3>3. CASE m \in DOMAIN accepted /\ accepted[m].order # u.order
      <4>1. status'[IdOf[accepted[m].order]] = status[IdOf[accepted[m].order]]
        BY <1>6, <2>2, <2>6, <3>3, ReconcilerAssumption
      <4> QED
        BY <2>5, <3>3, <4>1 DEF Deliver, IInv, AcceptedKnown
    <3> QED
      BY <2>5, <3>1, <3>2, <3>3
  <2>9. AcceptedClimb'
    <3> SUFFICES ASSUME NEW m \in DOMAIN accepted', NEW n \in DOMAIN accepted', m < n,
                        accepted'[m].order = accepted'[n].order
                 PROVE  StatusRank[accepted'[m].status] < StatusRank[accepted'[n].status]
      BY DEF AcceptedClimb
    <3>1. m \in DOMAIN accepted
      BY <2>5
    <3>2. CASE n = Len(accepted) + 1
      BY <2>5, <2>7, <3>1, <3>2
    <3>3. CASE n \in DOMAIN accepted
      BY <2>5, <3>1, <3>3 DEF IInv, AcceptedClimb
    <3> QED
      BY <2>5, <3>2, <3>3
  <2> QED
    BY <1>2, <1>3, <2>4, <2>8, <2>9 DEF IInv
<1> QED
  BY <1>7, <1>8

\* When ids are distinct, the inductive invariant holds of every reachable state.
THEOREM InductiveInvariant ==
    ASSUME IdsDistinct PROVE Spec => []IInv
<1>1. Init => IInv
  BY ReconcilerAssumption
     DEF Init, IInv, TypeOK, VenueEndsOnce, KnowsFurthest, StatusesDelivered, AcceptedKnown,
         AcceptedClimb
<1>2. IInv /\ [Next]_vars => IInv'
  <2> SUFFICES ASSUME IInv, [Next]_vars PROVE IInv'
    OBVIOUS
  <2>1. CASE UNCHANGED vars
    BY <2>1 DEF vars, IInv, TypeOK, VenueEndsOnce, KnowsFurthest, StatusesDelivered,
                AcceptedKnown, AcceptedClimb
  <2>2. ASSUME NEW o \in Orders, VenueEntry(o) PROVE IInv'
    BY <2>2, ReportIInv, ReconcilerAssumption
       DEF VenueEntry, Terminal, Closed, VenueOrderStatus
  <2>3. ASSUME NEW o \in Orders, VenuePartialFill(o) PROVE IInv'
    <3>1. venue[o].fills + 1 \in 0 .. MaxFills
      BY <2>3, ReconcilerAssumption DEF VenuePartialFill, IInv, TypeOK
    <3> QED
      BY <2>3, <3>1, ReportIInv DEF VenuePartialFill, IsLive, Terminal, Closed, VenueOrderStatus
  <2>4. ASSUME NEW o \in Orders, VenueClose(o) PROVE IInv'
    <3>1. venue[o].fills \in 0 .. MaxFills
      BY DEF IInv, TypeOK
    <3> QED
      BY <2>4, <3>1, ReportIInv DEF VenueClose, IsLive, Terminal, Closed, VenueOrderStatus
  <2>5. ASSUME NEW u \in sent, Deliver(u) PROVE IInv'
    BY <2>5, DeliverIInv
  <2> QED
    BY <2>1, <2>2, <2>3, <2>4, <2>5 DEF Next
<1> QED
  BY <1>1, <1>2, PTL DEF Spec

\* The reconciler's answer depends only on the set of updates that reached apply:
\* it is the furthest of them, however they were reordered or repeated.
THEOREM KnowsFurthestCorrect ==
    ASSUME IdsDistinct PROVE Spec => []KnowsFurthest
BY InductiveInvariant, PTL DEF IInv

\* apply accepts no update twice and none that was superseded.
THEOREM AcceptedClimbCorrect ==
    ASSUME IdsDistinct PROVE Spec => []AcceptedClimb
BY InductiveInvariant, PTL DEF IInv

\* The venue, the stream, the table and the accepted updates keep their types,
\* whether or not two orders share an id.
THEOREM TypeCorrect == Spec => []TypeOK
<1>1. Init => TypeOK
  BY ReconcilerAssumption DEF Init, TypeOK
<1>2. TypeOK /\ [Next]_vars => TypeOK'
  <2> SUFFICES ASSUME TypeOK, [Next]_vars PROVE TypeOK'
    OBVIOUS
  <2>1. CASE UNCHANGED vars
    BY <2>1 DEF vars, TypeOK
  <2>2. ASSUME NEW o \in Orders, NEW s \in VenueOrderStatus, NEW f \in 0 .. MaxFills, Report(o, s, f)
        PROVE  TypeOK'
    BY <2>2 DEF Report, TypeOK, VenueOrderUpdate
  <2>3. ASSUME NEW o \in Orders, VenueEntry(o) PROVE TypeOK'
    BY <2>2, <2>3, ReconcilerAssumption DEF VenueEntry, VenueOrderStatus
  <2>4. ASSUME NEW o \in Orders, VenuePartialFill(o) PROVE TypeOK'
    <3>1. venue[o].fills + 1 \in 0 .. MaxFills
      BY <2>4, ReconcilerAssumption DEF VenuePartialFill, TypeOK
    <3> QED
      BY <2>2, <2>4, <3>1 DEF VenuePartialFill, VenueOrderStatus
  <2>5. ASSUME NEW o \in Orders, VenueClose(o) PROVE TypeOK'
    <3>1. venue[o].fills \in 0 .. MaxFills
      BY DEF TypeOK
    <3> QED
      BY <2>2, <2>5, <3>1 DEF VenueClose, Closed, VenueOrderStatus
  <2>6. ASSUME NEW u \in sent, Deliver(u) PROVE TypeOK'
    <3>1. u \in VenueOrderUpdate /\ accepted \in Seq(VenueOrderUpdate)
      BY DEF TypeOK
    <3>2. Append(accepted, u) \in Seq(VenueOrderUpdate)
      BY <3>1, AppendElements
    <3>3. u.status \in VenueOrderStatus
      BY <3>1 DEF VenueOrderUpdate
    <3> QED
      BY <2>6, <3>2, <3>3 DEF Deliver, Apply, TypeOK
  <2> QED
    BY <2>1, <2>3, <2>4, <2>5, <2>6 DEF Next
<1> QED
  BY <1>1, <1>2, PTL DEF Spec
=============================================================================
