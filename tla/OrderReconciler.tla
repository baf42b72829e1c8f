---------------------------- MODULE OrderReconciler ----------------------------
(***************************************************************************)
(* The reconciler of venue order updates                                   *)
(* (services/execution/reconciliation.py) behind a user data stream.       *)
(*                                                                         *)
(* The venue is external: it moves each order through its life and sends   *)
(* one ORDER_TRADE_UPDATE per change.  The stream may lose an update,      *)
(* deliver it several times and deliver updates in any order, so what was  *)
(* sent is a set and a delivery leaves it alone.  The reconciler keeps the *)
(* last accepted status per order id and nothing else.                     *)
(***************************************************************************)
EXTENDS Integers, Sequences

CONSTANTS
    Orders,    \* the venue's orders, over all venue targets
    Ids,       \* order ids, as str(event["i"])
    IdOf,      \* Orders -> Ids
    MaxFills,  \* bound: partial fills of an order
    NoStatus   \* what _status_by_order_id.get answers for an unknown id

VenueOrderStatus == {"NEW", "PARTIALLY_FILLED", "FILLED", "CANCELED", "EXPIRED", "REJECTED"}

ASSUME ReconcilerAssumption ==
    /\ IdOf \in [Orders -> Ids]
    /\ MaxFills \in Nat
    /\ NoStatus \notin VenueOrderStatus

\* No two venue orders share an id.
IdsDistinct == \A o, p \in Orders : IdOf[o] = IdOf[p] => o = p

\* _STATUS_RANK.
StatusRank ==
    [s \in VenueOrderStatus |->
        IF s = "NEW" THEN 10 ELSE IF s = "PARTIALLY_FILLED" THEN 20 ELSE 90]

Closed == {"FILLED", "CANCELED", "EXPIRED"}

Terminal == Closed \cup {"REJECTED"}

\* VenueOrderUpdate: the order it is about, its status "X", and the number of
\* partial fills so far, which tells the venue's updates apart ("payload").
VenueOrderUpdate == [order: Orders, status: VenueOrderStatus, fills: 0 .. MaxFills]

VARIABLES
    venue,      \* the venue's state of each order
    sent,       \* the updates the venue has sent
    delivered,  \* those that reached the reconciler at least once
    status,     \* _status_by_order_id
    accepted    \* the updates accepted, in order: what a consumer acts on

vars == <<venue, sent, delivered, status, accepted>>

TypeOK ==
    /\ venue \in [Orders -> [status: VenueOrderStatus \cup {NoStatus}, fills: 0 .. MaxFills]]
    /\ sent \subseteq VenueOrderUpdate
    /\ delivered \subseteq sent
    /\ status \in [Ids -> VenueOrderStatus \cup {NoStatus}]
    /\ accepted \in Seq(VenueOrderUpdate)

Init ==
    /\ venue = [o \in Orders |-> [status |-> NoStatus, fills |-> 0]]
    /\ sent = {}
    /\ delivered = {}
    /\ status = [i \in Ids |-> NoStatus]
    /\ accepted = <<>>

-----------------------------------------------------------------------------
\* The venue moves an order and reports it.
Report(o, s, fills) ==
    /\ venue' = [venue EXCEPT ![o] = [status |-> s, fills |-> fills]]
    /\ sent' = sent \cup {[order |-> o, status |-> s, fills |-> fills]}
    /\ UNCHANGED <<delivered, status, accepted>>

IsLive(o) == venue[o].status \in {"NEW", "PARTIALLY_FILLED"}

VenueEntry(o) ==
    /\ venue[o].status = NoStatus
    /\ \E s \in {"NEW", "REJECTED"} : Report(o, s, 0)

VenuePartialFill(o) ==
    /\ IsLive(o)
    /\ venue[o].fills < MaxFills
    /\ Report(o, "PARTIALLY_FILLED", venue[o].fills + 1)

VenueClose(o) ==
    /\ IsLive(o)
    /\ \E s \in Closed : Report(o, s, venue[o].fills)

-----------------------------------------------------------------------------
Duplicate(u) == status[IdOf[u.order]] = u.status

\* Mutant: any update of a live order is progress.
RegressiveFromTerminal(u) ==
    LET previous == status[IdOf[u.order]] IN
    previous \in Terminal /\ StatusRank[u.status] < StatusRank[previous]

Regressive(u) ==
    LET previous == status[IdOf[u.order]] IN
    previous # NoStatus /\ StatusRank[u.status] < StatusRank[previous]

\* Mutant: the status is stored before it is judged.
ApplyStoreFirst(u) ==
    /\ status' = [status EXCEPT ![IdOf[u.order]] = u.status]
    /\ accepted' = IF Duplicate(u) \/ Regressive(u) THEN accepted ELSE Append(accepted, u)

\* Mutant: the status is stored under the client's name of the order.
ApplyByClientName(u) ==
    IF Duplicate(u) \/ Regressive(u)
    THEN UNCHANGED <<status, accepted>>
    ELSE /\ status' = [i \in Ids \cup {u.order} |->
                         IF i = u.order THEN u.status ELSE status[i]]
         /\ accepted' = Append(accepted, u)

\* MonotonicOrderReconciler.apply.
Apply(u) ==
    IF Duplicate(u) \/ Regressive(u)
    THEN UNCHANGED <<status, accepted>>
    ELSE /\ status' = [status EXCEPT ![IdOf[u.order]] = u.status]
         /\ accepted' = Append(accepted, u)

\* The stream hands an update over: from_binance_order_trade_update, then apply.
Deliver(u) ==
    /\ delivered' = delivered \cup {u}
    /\ Apply(u)
    /\ UNCHANGED <<venue, sent>>

Next ==
    \/ \E o \in Orders : VenueEntry(o) \/ VenuePartialFill(o) \/ VenueClose(o)
    \/ \E u \in sent : Deliver(u)

Spec == Init /\ [][Next]_vars
-----------------------------------------------------------------------------
StatusesDelivered(o) == {u.status : u \in {v \in delivered : v.order = o}}

\* What the reconciler knows depends on which updates arrived, not on their order
\* or on how often: it is the furthest status delivered.
KnowsFurthest ==
    \A o \in Orders :
        LET known == status[IdOf[o]] IN
        IF StatusesDelivered(o) = {} THEN known = NoStatus
        ELSE /\ known \in StatusesDelivered(o)
             /\ \A s \in StatusesDelivered(o) : StatusRank[s] <= StatusRank[known]

\* The accepted updates of an order climb strictly: none is accepted twice, and
\* none after one that supersedes it.
AcceptedClimb ==
    \A m, n \in DOMAIN accepted :
        m < n /\ accepted[m].order = accepted[n].order =>
            StatusRank[accepted[m].status] < StatusRank[accepted[n].status]

-----------------------------------------------------------------------------
(* What the documentation says of reconciliation, and the code does not do *)

\* docs/architecture/system_design.md: "Reconciliation must tolerate duplicate
\* events, delayed updates, partial fills": the fills an update reports are known
\* from it, or from one accepted for the same order that reports as many.
PartialFillsKept ==
    \A u \in delivered : \E m \in DOMAIN accepted :
        accepted[m].order = u.order /\ accepted[m].fills >= u.fills
=============================================================================
