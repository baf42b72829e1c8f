------------------------- MODULE PaperExchange_proofs -------------------------
(***************************************************************************)
(* Proofs about the paper exchange with atomic requests, for any market,   *)
(* intents and limits: the soundness of every order and of the books, the  *)
(* action properties, what a pass is bound to do, and that the             *)
(* reconciliation log tells every order's status and the account.          *)
(***************************************************************************)
EXTENDS PaperExchangeLog, ListLemmas

(* Orders and accounts *)

\* Filling an order gives an order (_fill_order's replace).
LEMMA FilledOrderType ==
    ASSUME NEW o \in Order, NEW q \in Int
    PROVE  FilledOrder(o, q) \in Order
<1>1. (IF o.filled + q >= o.intent.qty THEN "FILLED" ELSE "PARTIALLY_FILLED")
          \in OpenStatus \cup TerminalStatus
  BY DEF OpenStatus, TerminalStatus
<1>2. o.filled + q \in Int /\ Append(o.fills, q) \in Seq(Int)
  BY DEF Order
<1> QED
  BY <1>1, <1>2 DEF FilledOrder, Order

\* The quantity a pass fills is an integer.
LEMMA PassQuantityType ==
    ASSUME NEW o \in Order
    PROVE  PassQuantity(o) \in Int
BY IntentAssumption DEF PassQuantity, RemainingQuantity, Order, Intent

\* apply_paper_fill maps accounts to accounts.
LEMMA ApplyFillType ==
    ASSUME NEW acct \in Account, NEW i \in Intent, NEW q \in Int, i.symbol \in Executable
    PROVE  ApplyPaperFill(acct, i, q) \in Account
<1>1. q * i.price * MakerFee \in Int
  BY FeeAssumption DEF Intent
<1>2. \A book \in Book : UpdatedBook(book, i, q) \in Book
  BY DEF UpdatedBook, Book, Intent
<1>3. <<i.symbol, i.book>> \in BookKeys
  BY DEF BookKeys, Intent
<1> QED
  BY <1>1, <1>2, <1>3 DEF ApplyPaperFill, Account

\* Changing an order's status changes nothing else of it.
LEMMA WithStatusFields ==
    ASSUME NEW o \in Order, NEW s \in OpenStatus \cup TerminalStatus
    PROVE  LET w == WithStatus(o, s) IN
           /\ w \in Order
           /\ w.status = s
           /\ w.id = o.id /\ w.intent = o.intent /\ w.fills = o.fills /\ w.filled = o.filled
BY DEF WithStatus, Order

\* A pass fills no more of a well-formed open order than remains.
LEMMA PassQuantityBound ==
    ASSUME NEW o \in Order, LifecycleOf(o), IsOpen(o)
    PROVE  PassQuantity(o) <= o.intent.qty - o.filled
BY IntentAssumption DEF PassQuantity, RemainingQuantity, LifecycleOf, IsOpen, OpenStatus, Order, Intent

\* A fill of a well-formed open order gives a well-formed order.
LEMMA FilledOrderLifecycle ==
    ASSUME NEW o \in Order, LifecycleOf(o), IsOpen(o), PassQuantity(o) > 0
    PROVE  LifecycleOf(FilledOrder(o, PassQuantity(o)))
<1> DEFINE q == PassQuantity(o)
           u == FilledOrder(o, q)
<1>1. q \in Int /\ q > 0 /\ q <= o.intent.qty - o.filled
  BY PassQuantityType, PassQuantityBound
<1>2. o.intent.qty \in Int /\ o.filled \in Int /\ o.fills \in Seq(Int) /\ o.status \in OpenStatus
  BY IntentAssumption DEF Order, Intent, IsOpen
<1>3. o.status = "PARTIALLY_FILLED" => q = o.intent.qty - o.filled
  BY <1>2 DEF PassQuantity, RemainingQuantity, LifecycleOf
<1>4. u.intent = o.intent /\ u.filled = o.filled + q /\ u.fills = Append(o.fills, q)
      /\ u.status = IF o.filled + q >= o.intent.qty THEN "FILLED" ELSE "PARTIALLY_FILLED"
  BY DEF FilledOrder
<1> SUFFICES LifecycleOf(u)
  OBVIOUS
<1> HIDE DEF q, u
<1>5. CASE o.status = "NEW"
  <2>1. o.fills = <<>> /\ o.filled = 0
    BY <1>5 DEF LifecycleOf, FillsAddUp
  <2>2. Len(u.fills) = 1 /\ u.fills[1] = q /\ u.filled = q
    BY <2>1, <1>1, <1>4
  <2> QED
    BY <2>1, <2>2, <1>1, <1>2, <1>4 DEF LifecycleOf, FillsAddUp
<1>6. CASE o.status = "PARTIALLY_FILLED"
  <2>1. Len(o.fills) = 1 /\ o.filled = o.fills[1] /\ o.filled > 0
    BY <1>2, <1>6 DEF LifecycleOf, FillsAddUp
  <2>2. Len(u.fills) = 2 /\ u.fills[1] = o.fills[1] /\ u.fills[2] = q
    <3>1. /\ Len(Append(o.fills, q)) = Len(o.fills) + 1
          /\ \A n \in 1 .. Len(o.fills) : Append(o.fills, q)[n] = o.fills[n]
          /\ Append(o.fills, q)[Len(o.fills) + 1] = q
      BY <1>1, <1>2, AppendElements
    <3> QED
      BY <3>1, <2>1, <1>4
  <2>3. u.filled = o.intent.qty /\ u.status = "FILLED"
    BY <1>1, <1>2, <1>3, <1>4, <1>6
  <2> QED
    BY <2>1, <2>2, <2>3, <1>1, <1>2, <1>4 DEF LifecycleOf, FillsAddUp
<1> QED
  BY <1>2, <1>5, <1>6 DEF OpenStatus

\* default_account_state is an account with empty books.
LEMMA DefaultAccountType ==
    /\ DefaultAccount \in Account
    /\ \A k \in BookKeys : DefaultAccount.books[k].qty >= 0
BY AccountAssumption DEF DefaultAccount, Account, Book

\* A fill of an open order moves the one book its intent names, never below zero.
LEMMA ApplyFillBooks ==
    ASSUME NEW acct \in Account, NEW i \in Intent, NEW q \in Int, i.symbol \in Executable,
           q > 0, \A k \in BookKeys : acct.books[k].qty >= 0
    PROVE  \A k \in BookKeys : ApplyPaperFill(acct, i, q).books[k].qty >= 0
<1> SUFFICES ASSUME NEW k \in BookKeys
             PROVE  ApplyPaperFill(acct, i, q).books[k].qty >= 0
  OBVIOUS
<1>1. acct.books[k] \in Book /\ acct.books[k].qty >= 0
  BY DEF Account
<1>2. UpdatedBook(acct.books[k], i, q).qty >= 0
  BY <1>1 DEF UpdatedBook, Book
<1>3. ApplyPaperFill(acct, i, q).books[k] \in {acct.books[k], UpdatedBook(acct.books[k], i, q)}
  BY DEF ApplyPaperFill, Account
<1> QED
  BY <1>1, <1>2, <1>3

(* The inductive invariant *)

\* The inductive invariant: types, well-formed orders, a current snapshot and
\* non-negative books.  A fill is taken from the snapshot, so the lifecycle of the
\* orders is only inductive together with SnapshotCurrent.
IInv == TypeOK /\ OrderLifecycle /\ SnapshotCurrent /\ BooksNonNegative

\* The boot state satisfies the inductive invariant.
LEMMA InitIInv == Init => IInv
<1> SUFFICES ASSUME Init PROVE IInv
  OBVIOUS
<1>1. TypeOK
  <2>1. <<>> \in Seq(Order) /\ <<>> \in Seq(Event) /\ Len(<<>>) = 0
    OBVIOUS
  <2>2. DefaultRiskState \in RiskState /\ 0 \in 0 .. MaxAge + 1
    BY RiskAssumption DEF DefaultRiskState, RiskState
  <2>3. BootMemory \in Account \X Seq(Order) \X Seq(Event) \X BOOLEAN
    BY <2>1, DefaultAccountType DEF BootMemory
  <2>4. cursor \in 0 .. Len(snapshot) + 1 /\ snapshot \in Seq(Order)
    BY <2>1 DEF Init
  <2>5. account \in Account /\ orders \in Seq(Order) /\ events \in Seq(Event) /\ halted \in BOOLEAN
    BY <2>1, DefaultAccountType DEF Init, Boot
  <2>6. riskState \in RiskState /\ age \in 0 .. MaxAge + 1
    BY <2>2 DEF Init, Boot
  <2> QED
    BY <2>3, <2>4, <2>5, <2>6 DEF Init, TypeOK
<1>2. OrderLifecycle /\ SnapshotCurrent
  BY DEF Init, Boot, OrderLifecycle, OrderIds, SnapshotCurrent
<1>3. BooksNonNegative
  BY DefaultAccountType DEF Init, Boot, BooksNonNegative
<1> QED
  BY <1>1, <1>2, <1>3 DEF IInv

\* A log entry is well typed.
LEMMA RecordType ==
    ASSUME TypeOK, NEW id \in Nat, NEW st \in EventStatus, Record(id, st)
    PROVE  events' \in Seq(Event)
BY DEF TypeOK, Record, Event

\* Appending an accepted order keeps the invariant: its id is its position.
LEMMA SubmitAcceptedIInv ==
    ASSUME IInv, NEW i \in Intents, SubmitAccepted(i)
    PROVE  IInv'
<1> DEFINE o == NewOrder(Len(orders) + 1, i)
<1>1. orders \in Seq(Order) /\ Len(orders) \in Nat
  BY DEF IInv, TypeOK
<1>2. o \in Order
  BY <1>1 DEF NewOrder, Order, OpenStatus
<1>3. LifecycleOf(o) /\ o.id = Len(orders) + 1
  <2>1. i.symbol \in Executable /\ i.qty > 0 /\ i.qty \in Int
    BY IntentAssumption DEF SubmitAccepted, Accepts, PreviewAccepts, FitsFilters, Intent
  <2> QED
    BY <2>1 DEF NewOrder, LifecycleOf, FillsAddUp
<1>4. orders' = Append(orders, o)
  BY DEF SubmitAccepted, NextOrderId
<1> HIDE DEF o
<1>5. /\ orders' \in Seq(Order)
      /\ DOMAIN orders = 1 .. Len(orders)
      /\ DOMAIN orders' = 1 .. Len(orders) + 1
      /\ \A n \in 1 .. Len(orders) : orders'[n] = orders[n]
      /\ orders'[Len(orders) + 1] = o
  BY <1>1, <1>2, <1>4, AppendElements
<1>6. events' \in Seq(Event)
  BY <1>1, RecordType DEF SubmitAccepted, NextOrderId, EventStatus, IInv
<1>7. TypeOK'
  BY <1>5, <1>6 DEF IInv, TypeOK, SubmitAccepted, NoPass, PersistState, memory
<1>8. OrderLifecycle'
  BY <1>1, <1>3, <1>5 DEF IInv, OrderLifecycle, OrderIds
<1>9. SnapshotCurrent' /\ BooksNonNegative'
  BY DEF IInv, SnapshotCurrent, BooksNonNegative, SubmitAccepted, Idle, NoPass
<1> QED
  BY <1>7, <1>8, <1>9 DEF IInv

\* A step of an idle exchange that keeps the orders' ids and lifecycles.
LEMMA IdleStepIInv ==
    ASSUME IInv, Idle, NoPass, PersistState,
           orders' \in Seq(Order), events' \in Seq(Event),
           account' \in Account, halted' \in BOOLEAN, riskState' \in RiskState,
           age' \in 0 .. MaxAge + 1,
           \A n \in DOMAIN orders' : orders'[n].id = n /\ LifecycleOf(orders'[n]),
           \A k \in BookKeys : account'.books[k].qty >= 0
    PROVE  IInv'
<1>1. TypeOK'
  BY DEF IInv, TypeOK, NoPass, PersistState, memory
<1>2. OrderLifecycle'
  BY DEF OrderLifecycle, OrderIds
<1>3. SnapshotCurrent' /\ BooksNonNegative'
  BY DEF SnapshotCurrent, BooksNonNegative, Idle, NoPass
<1> QED
  BY <1>1, <1>2, <1>3 DEF IInv

\* Cancelling or expiring an open order keeps the invariant.
LEMMA CloseOrderIInv ==
    ASSUME IInv, NEW n \in DOMAIN orders, ExpireOrder(n) \/ CancelOrder(n)
    PROVE  IInv'
<1> USE DEF IInv, TypeOK
<1>1. orders[n] \in Order /\ orders[n].id = n /\ LifecycleOf(orders[n]) /\ n \in Nat
  BY DEF OrderLifecycle, OrderIds
<1>2. \A s \in {"EXPIRED", "CANCELED"} :
        IsOpen(orders[n]) =>
          /\ WithStatus(orders[n], s) \in Order
          /\ WithStatus(orders[n], s).id = n
          /\ LifecycleOf(WithStatus(orders[n], s))
  <2> SUFFICES ASSUME NEW s \in {"EXPIRED", "CANCELED"}, IsOpen(orders[n])
               PROVE  /\ WithStatus(orders[n], s) \in Order
                      /\ WithStatus(orders[n], s).id = n
                      /\ LifecycleOf(WithStatus(orders[n], s))
    OBVIOUS
  <2>1. s \in OpenStatus \cup TerminalStatus
    BY DEF TerminalStatus
  <2> DEFINE w == WithStatus(orders[n], s)
  <2>2. /\ w \in Order /\ w.status = s /\ w.id = n /\ w.intent = orders[n].intent
        /\ w.fills = orders[n].fills /\ w.filled = orders[n].filled
    BY <1>1, <2>1, WithStatusFields
  <2> HIDE DEF w
  <2>3. LifecycleOf(w)
    BY <1>1, <2>2 DEF LifecycleOf, FillsAddUp, IsOpen, OpenStatus
  <2> QED
    BY <2>2, <2>3 DEF w
<1>3. PICK o \in Order : /\ o.id = n /\ LifecycleOf(o)
                         /\ orders' = [orders EXCEPT ![n] = o]
  BY <1>1, <1>2 DEF ExpireOrder, CancelOrder
<1>4. /\ orders' \in Seq(Order)
      /\ \A m \in DOMAIN orders' : orders'[m].id = m /\ LifecycleOf(orders'[m])
  BY <1>3 DEF OrderLifecycle, OrderIds
<1>5. events' \in Seq(Event)
  BY <1>1, RecordType DEF ExpireOrder, CancelOrder, EventStatus
<1>6. Idle /\ NoPass /\ PersistState /\ UNCHANGED <<account, halted, riskState, age>>
  BY DEF ExpireOrder, CancelOrder
<1> QED
  BY <1>4, <1>5, <1>6, IdleStepIInv DEF BooksNonNegative

\* Cancelling all open orders at once keeps the invariant.
LEMMA PanicCancelIInv ==
    ASSUME IInv, PanicCancelOpenOrders
    PROVE  IInv'
<1> USE DEF IInv, TypeOK
<1> DEFINE w(n) == IF IsOpen(orders[n]) THEN WithStatus(orders[n], "CANCELED") ELSE orders[n]
<1>1. ASSUME NEW n \in DOMAIN orders
      PROVE  w(n) \in Order /\ w(n).id = n /\ LifecycleOf(w(n))
  <2>1. orders[n] \in Order /\ orders[n].id = n /\ LifecycleOf(orders[n])
    BY DEF OrderLifecycle, OrderIds
  <2>2. CASE IsOpen(orders[n])
    <3> DEFINE c == WithStatus(orders[n], "CANCELED")
    <3>1. "CANCELED" \in OpenStatus \cup TerminalStatus
      BY DEF TerminalStatus
    <3>2. /\ c \in Order /\ c.status = "CANCELED" /\ c.id = n /\ c.intent = orders[n].intent
          /\ c.fills = orders[n].fills /\ c.filled = orders[n].filled
      BY <2>1, <3>1, WithStatusFields
    <3>3. w(n) = c
      BY <2>2
    <3> HIDE DEF c, w
    <3>4. LifecycleOf(c)
      BY <2>1, <2>2, <3>2 DEF LifecycleOf, FillsAddUp, IsOpen, OpenStatus
    <3> QED
      BY <3>2, <3>3, <3>4
  <2>3. CASE ~IsOpen(orders[n])
    BY <2>1, <2>3
  <2> QED
    BY <2>2, <2>3
<1>2. orders' = [n \in DOMAIN orders |-> w(n)]
  BY DEF PanicCancelOpenOrders
<1> HIDE DEF w
<1>3. /\ orders' \in Seq(Order)
      /\ \A m \in DOMAIN orders' : orders'[m].id = m /\ LifecycleOf(orders'[m])
  <2>1. orders' \in [DOMAIN orders -> Order]
    BY <1>1, <1>2
  <2>2. orders' \in Seq(Order)
    BY <2>1, MappedSequence
  <2> QED
    BY <1>1, <1>2, <2>2
<1>4. events' \in Seq(Event)
  BY RecordType DEF PanicCancelOpenOrders, EventStatus, AllOrders
<1> QED
  BY <1>3, <1>4, IdleStepIInv DEF PanicCancelOpenOrders, BooksNonNegative

\* What a fill step does to the order list: exactly the visited order changes.
LEMMA ProcessFillOrders ==
    ASSUME IInv, ProcessFill
    PROVE  LET o == orders[cursor]
               u == FilledOrder(o, PassQuantity(o))
           IN  /\ cursor \in DOMAIN orders
               /\ snapshot[cursor] = o /\ o \in Order /\ LifecycleOf(o) /\ o.id = cursor
               /\ IsOpen(o) /\ PassQuantity(o) > 0
               /\ u \in Order /\ u.id = cursor /\ LifecycleOf(u) /\ ~(u.status = "NEW")
               /\ orders' = [orders EXCEPT ![cursor] = u]
<1> USE DEF IInv, TypeOK
<1> DEFINE o == orders[cursor]
           q == PassQuantity(o)
           u == FilledOrder(o, q)
<1>1. cursor \in 1 .. Len(orders) /\ cursor \in 1 .. Len(snapshot) /\ snapshot[cursor] = o
  <2>1. cursor \in 1 .. Len(snapshot)
    BY DEF ProcessFill
  <2>2. Len(snapshot) = Len(orders) /\ \A n \in cursor .. Len(snapshot) : snapshot[n] = orders[n]
    BY <2>1 DEF SnapshotCurrent
  <2>3. cursor \in cursor .. Len(snapshot)
    BY <2>1
  <2> QED
    BY <2>1, <2>2, <2>3
<1>2. cursor \in DOMAIN orders /\ o \in Order /\ LifecycleOf(o) /\ o.id = cursor
  BY <1>1 DEF OrderLifecycle, OrderIds
<1>3. IsOpen(o) /\ q > 0
      /\ orders' = [n \in DOMAIN orders |-> IF orders[n].id = o.id THEN u ELSE orders[n]]
  BY <1>1 DEF ProcessFill
<1>4. q \in Int
  BY <1>2, PassQuantityType
<1>5. u \in Order
  BY <1>2, <1>4, FilledOrderType
<1>6. u.id = cursor /\ ~(u.status = "NEW")
  BY <1>2 DEF FilledOrder
<1>7. LifecycleOf(u)
  BY <1>2, <1>3, FilledOrderLifecycle
<1> HIDE DEF u, q
<1>8. orders' = [orders EXCEPT ![cursor] = u]
  BY <1>2, <1>3 DEF OrderLifecycle, OrderIds
<1> QED
  BY <1>1, <1>2, <1>3, <1>5, <1>6, <1>7, <1>8 DEF u, q

\* A fill within a pass keeps the invariant: the copy in the snapshot is current.
LEMMA ProcessFillIInv ==
    ASSUME IInv, ProcessFill
    PROVE  IInv'
<1> USE DEF IInv, TypeOK
<1> DEFINE o == orders[cursor]
           q == PassQuantity(o)
           u == FilledOrder(o, q)
<1>1. /\ cursor \in DOMAIN orders /\ snapshot[cursor] = o /\ o \in Order /\ LifecycleOf(o)
      /\ o.id = cursor /\ q > 0
      /\ u \in Order /\ u.id = cursor /\ LifecycleOf(u)
      /\ orders' = [orders EXCEPT ![cursor] = u]
  BY ProcessFillOrders
<1>2. q \in Int /\ o.intent \in Intent /\ o.intent.symbol \in Executable
  BY <1>1, PassQuantityType, IntentAssumption DEF Order, LifecycleOf
<1>3. account' = ApplyPaperFill(account, o.intent, q)
  BY <1>1 DEF ProcessFill
<1>4. Record(cursor, IF u.status = "FILLED" THEN "MATCHED" ELSE "PARTIALLY_FILLED")
  BY <1>1 DEF ProcessFill
<1> HIDE DEF u, q, o
<1>5. account' \in Account /\ \A k \in BookKeys : account'.books[k].qty >= 0
  BY <1>1, <1>2, <1>3, ApplyFillType, ApplyFillBooks DEF BooksNonNegative
<1>6. orders' \in Seq(Order) /\ Len(orders') = Len(orders) /\ DOMAIN orders' = DOMAIN orders
  BY <1>1
<1>7. events' \in Seq(Event)
  <2>1. (IF u.status = "FILLED" THEN "MATCHED" ELSE "PARTIALLY_FILLED") \in EventStatus
    BY DEF EventStatus
  <2>2. cursor \in Nat
    OBVIOUS
  <2> QED
    BY <2>1, <2>2, <1>4, RecordType
<1>8. cursor' = cursor + 1 /\ cursor \in 1 .. Len(snapshot)
      /\ UNCHANGED <<halted, riskState, age, snapshot, disk>>
  BY DEF ProcessFill
<1>9. TypeOK'
  BY <1>5, <1>6, <1>7, <1>8
<1>10. OrderLifecycle'
  BY <1>1, <1>6 DEF OrderLifecycle, OrderIds
<1>11. SnapshotCurrent'
  <2>1. \A n \in cursor + 1 .. Len(snapshot) : orders'[n] = orders[n] /\ snapshot[n] = orders[n]
    <3>1. \A n \in cursor .. Len(snapshot) : snapshot[n] = orders[n] /\ n \in DOMAIN orders
      BY <1>8 DEF SnapshotCurrent
    <3> TAKE n \in cursor + 1 .. Len(snapshot)
    <3>2. n \in cursor .. Len(snapshot) /\ n # cursor
      BY <1>8
    <3> QED
      BY <1>1, <3>1, <3>2
  <2> QED
    BY <2>1, <1>6, <1>8 DEF SnapshotCurrent
<1>12. BooksNonNegative'
  BY <1>5 DEF BooksNonNegative
<1> QED
  BY <1>9, <1>10, <1>11, <1>12

\* Every step of the exchange keeps the inductive invariant.
LEMMA NextIInv == IInv /\ [Next]_vars => IInv'
<1> SUFFICES ASSUME IInv, [Next]_vars PROVE IInv'
  OBVIOUS
<1> USE DEF IInv, TypeOK
<1>1. ASSUME NEW i \in Intents, SubmitAccepted(i) PROVE IInv'
  BY <1>1, SubmitAcceptedIInv
<1>2. ASSUME NEW i \in Intents, SubmitRejected(i) PROVE IInv'
  <2>1. events' \in Seq(Event)
    BY <1>2, RecordType DEF SubmitRejected, NextOrderId, EventStatus
  <2> QED
    BY <1>2, <2>1, IdleStepIInv DEF SubmitRejected, OrderLifecycle, OrderIds, BooksNonNegative
<1>3. CASE ProcessBegin
  <2>1. TypeOK'
    BY <1>3 DEF ProcessBegin
  <2> QED
    BY <1>3, <2>1 DEF ProcessBegin, OrderLifecycle, OrderIds, SnapshotCurrent, BooksNonNegative
<1>4. CASE ProcessFill
  BY <1>4, ProcessFillIInv
<1>5. CASE ProcessSkip
  <2>1. TypeOK'
    BY <1>5 DEF ProcessSkip
  <2> QED
    BY <1>5, <2>1 DEF ProcessSkip, OrderLifecycle, OrderIds, SnapshotCurrent, BooksNonNegative
<1>6. CASE ProcessEnd
  <2>1. TypeOK'
    BY <1>6 DEF ProcessEnd, PersistState, memory
  <2> QED
    BY <1>6, <2>1 DEF ProcessEnd, OrderLifecycle, OrderIds, SnapshotCurrent, BooksNonNegative
<1>7. ASSUME NEW n \in DOMAIN orders, ExpireOrder(n) \/ CancelOrder(n) PROVE IInv'
  BY <1>7, CloseOrderIInv
<1>8. CASE Reset
  <2>1. /\ orders' = <<>> /\ events' = <<>> /\ account' = DefaultAccount
        /\ halted' = FALSE /\ age' = 0 /\ riskState' = riskState
        /\ Idle /\ NoPass /\ PersistState
    BY <1>8 DEF Reset
  <2>2. orders' \in Seq(Order) /\ events' \in Seq(Event) /\ DOMAIN orders' = {}
    BY <2>1
  <2>3. age' \in 0 .. MaxAge + 1 /\ riskState' \in RiskState
    BY <2>1, RiskAssumption
  <2>6. halted' \in BOOLEAN
    BY <2>1
  <2>4. account' \in Account /\ \A k \in BookKeys : account'.books[k].qty >= 0
    BY <2>1, DefaultAccountType
  <2>5. \A n \in DOMAIN orders' : orders'[n].id = n /\ LifecycleOf(orders'[n])
    BY <2>2
  <2> QED
    BY <2>1, <2>2, <2>3, <2>4, <2>5, <2>6, IdleStepIInv
<1>9. CASE PanicHalt
  <2>1. riskState' \in RiskState
    BY <1>9 DEF PanicHalt, DefaultRiskState, RiskState
  <2> QED
    BY <1>9, <2>1, IdleStepIInv DEF PanicHalt, OrderLifecycle, OrderIds, BooksNonNegative
<1>10. CASE PanicCancelOpenOrders
  BY <1>10, PanicCancelIInv
<1>11. CASE PanicFlattenPositions
  <2>1. events' \in Seq(Event)
    BY <1>11, RecordType DEF PanicFlattenPositions, EventStatus, AllOrders
  <2> QED
    BY <1>11, <2>1, IdleStepIInv, DefaultAccountType, RiskAssumption
       DEF PanicFlattenPositions, OrderLifecycle, OrderIds
<1>12. CASE Tick
  <2>1. age' \in 0 .. MaxAge + 1
    BY <1>12, RiskAssumption DEF Tick
  <2>2. TypeOK'
    BY <1>12, <2>1 DEF Tick
  <2> QED
    BY <1>12, <2>2 DEF Tick, OrderLifecycle, OrderIds, SnapshotCurrent, BooksNonNegative
<1>13. CASE Restart
  <2>1. /\ account' = DefaultAccount /\ orders' = <<>> /\ events' = <<>> /\ halted' = FALSE
        /\ riskState' = DefaultRiskState /\ age' = 0 /\ snapshot' = <<>> /\ cursor' = 0
        /\ disk' = disk
    BY <1>13 DEF Restart, Boot
  <2>2. <<>> \in Seq(Order) /\ <<>> \in Seq(Event) /\ Len(<<>>) = 0 /\ DOMAIN <<>> = {}
    OBVIOUS
  <2>3. DefaultRiskState \in RiskState /\ 0 \in 0 .. MaxAge + 1
    BY RiskAssumption DEF DefaultRiskState, RiskState
  <2>4. TypeOK'
    <3>1. cursor' \in 0 .. Len(snapshot') + 1 /\ snapshot' \in Seq(Order)
      BY <2>1, <2>2
    <3>2. account' \in Account /\ orders' \in Seq(Order) /\ events' \in Seq(Event)
          /\ halted' \in BOOLEAN
      BY <2>1, <2>2, DefaultAccountType
    <3> QED
      BY <2>1, <2>3, <3>1, <3>2
  <2>5. OrderLifecycle' /\ SnapshotCurrent' /\ BooksNonNegative'
    BY <2>1, <2>2, DefaultAccountType
       DEF OrderLifecycle, OrderIds, SnapshotCurrent, BooksNonNegative
  <2> QED
    BY <2>4, <2>5
<1>14. CASE UNCHANGED vars
  BY <1>14 DEF vars, OrderLifecycle, OrderIds, SnapshotCurrent, BooksNonNegative
<1> QED
  BY <1>1, <1>2, <1>3, <1>4, <1>5, <1>6, <1>7, <1>8, <1>9, <1>10, <1>11, <1>12, <1>13, <1>14
     DEF Next, Process

\* The inductive invariant holds in every reachable state of the exchange.
THEOREM InductiveInvariant == Spec => []IInv
BY InitIInv, NextIInv, PTL DEF Spec
\* Every state of the exchange is well typed, whatever the market, the intents and
\* the limits are.
THEOREM TypeCorrect == Spec => []TypeOK
BY InductiveInvariant, PTL DEF IInv

\* submit_order, process_open_orders, cancel_order, expire_order and the panic
\* controls keep every order's id, status, fills and filled quantity consistent.
THEOREM LifecycleCorrect == Spec => []OrderLifecycle
BY InductiveInvariant, PTL DEF IInv

\* No sequence of fills takes a position book below zero.
THEOREM BooksCorrect == Spec => []BooksNonNegative
BY InductiveInvariant, PTL DEF IInv

-----------------------------------------------------------------------------
\* Every handler that changes what the server answers saves it before it returns.
THEOREM DiskCorrect == Spec => []DiskCurrent
<1>1. Init => DiskCurrent
  BY DEF Init, Boot, BootMemory, DiskCurrent, memory
<1>2. TypeOK /\ DiskCurrent /\ [Next]_vars => DiskCurrent'
  <2> SUFFICES ASSUME TypeOK, DiskCurrent, [Next]_vars, cursor' = 0
               PROVE  disk' = memory' \/ memory' = BootMemory
    BY DEF DiskCurrent, Idle
  <2>1. CASE PersistState
    BY <2>1 DEF PersistState
  <2>2. CASE Tick \/ UNCHANGED vars
    BY <2>2 DEF Tick, vars, memory, DiskCurrent, Idle
  <2>3. CASE Restart
    BY <2>3 DEF Restart, Boot, BootMemory, memory
  <2>4. CASE ProcessBegin \/ ProcessFill \/ ProcessSkip
    BY <2>4 DEF ProcessBegin, ProcessFill, ProcessSkip, TypeOK
  <2> QED
    BY <2>1, <2>2, <2>3, <2>4
       DEF Next, Process, SubmitAccepted, SubmitRejected, ProcessEnd, ExpireOrder, CancelOrder,
           Reset, PanicHalt, PanicCancelOpenOrders, PanicFlattenPositions
<1> QED
  BY <1>1, <1>2, TypeCorrect, PTL DEF Spec

-----------------------------------------------------------------------------
\* What one step may do to an order that is still listed after it.
OrderStep(o, p) == p.intent = o.intent /\ p.filled >= o.filled /\ (~IsOpen(o) => p = o)

\* Leaving an order alone is a permitted change of it.
LEMMA OrderStepRefl == ASSUME NEW o \in Order PROVE OrderStep(o, o)
BY DEF OrderStep, Order

\* Closing an open order is a permitted change of it.
LEMMA StatusStep ==
    ASSUME NEW o \in Order, NEW s \in TerminalStatus, IsOpen(o)
    PROVE  OrderStep(o, WithStatus(o, s))
<1>1. WithStatus(o, s).intent = o.intent /\ WithStatus(o, s).filled = o.filled
  BY WithStatusFields
<1> QED
  BY <1>1 DEF OrderStep, Order

\* Every step changes each order that stays in the list in a permitted way.
LEMMA NextOrderStep ==
    ASSUME IInv, [Next]_vars, NEW n \in DOMAIN orders \cap DOMAIN orders'
    PROVE  OrderStep(orders[n], orders'[n])
<1> USE DEF IInv, TypeOK
<1>0. orders[n] \in Order /\ OrderStep(orders[n], orders[n]) /\ n \in 1 .. Len(orders)
  BY OrderStepRefl
<1>1. ASSUME NEW i \in Intents, SubmitAccepted(i) PROVE OrderStep(orders[n], orders'[n])
  <2>1. orders' = Append(orders, NewOrder(NextOrderId, i))
    BY <1>1 DEF SubmitAccepted
  <2>2. orders'[n] = orders[n]
    BY <2>1, <1>0
  <2> QED
    BY <2>2, <1>0
<1>2. CASE ProcessFill
  <2> DEFINE o == orders[cursor]
             u == FilledOrder(o, PassQuantity(o))
  <2>1. /\ cursor \in DOMAIN orders /\ o \in Order /\ IsOpen(o) /\ PassQuantity(o) > 0
        /\ orders' = [orders EXCEPT ![cursor] = u]
    BY <1>2, ProcessFillOrders
  <2>2. OrderStep(o, u)
    <3>1. PassQuantity(o) \in Int
      BY <2>1, PassQuantityType
    <3>2. u.intent = o.intent /\ u.filled = o.filled + PassQuantity(o) /\ o.filled \in Int
      BY <2>1 DEF FilledOrder, Order
    <3> QED
      BY <2>1, <3>1, <3>2 DEF OrderStep
  <2> HIDE DEF u
  <2>3. orders'[n] = IF n = cursor THEN u ELSE orders[n]
    BY <2>1
  <2> QED
    BY <2>2, <2>3, <1>0
<1>3. ASSUME NEW m \in DOMAIN orders, ExpireOrder(m) \/ CancelOrder(m)
      PROVE  OrderStep(orders[n], orders'[n])
  <2>1. "EXPIRED" \in TerminalStatus /\ "CANCELED" \in TerminalStatus
    BY DEF TerminalStatus
  <2>2. orders'[n] \in {orders[n], WithStatus(orders[n], "EXPIRED"), WithStatus(orders[n], "CANCELED")}
        /\ (orders'[n] # orders[n] => IsOpen(orders[n]))
    BY <1>3 DEF ExpireOrder, CancelOrder
  <2> QED
    BY <1>0, <2>1, <2>2, StatusStep
<1>4. CASE PanicCancelOpenOrders
  <2>1. "CANCELED" \in TerminalStatus
    BY DEF TerminalStatus
  <2>2. orders'[n] \in {orders[n], WithStatus(orders[n], "CANCELED")}
        /\ (orders'[n] # orders[n] => IsOpen(orders[n]))
    BY <1>4 DEF PanicCancelOpenOrders
  <2> QED
    BY <1>0, <2>1, <2>2, StatusStep
<1>5. CASE Reset \/ Restart
  <2>1. orders' = <<>>
    BY <1>5 DEF Reset, Restart, Boot
  <2>2. DOMAIN <<>> = {}
    OBVIOUS
  <2> QED
    BY <2>1, <2>2
<1>6. CASE orders' = orders
  BY <1>0, <1>6
<1> QED
  BY <1>1, <1>2, <1>3, <1>4, <1>5, <1>6
     DEF Next, Process, SubmitRejected, ProcessBegin, ProcessSkip, ProcessEnd,
         PanicHalt, PanicFlattenPositions, Tick, vars

\* No handler reopens, refills or edits a closed order, un-fills an order or
\* changes what was asked for.
THEOREM MonotoneCorrect == Spec => OrdersMonotone
<1>1. IInv /\ [Next]_vars =>
        [\A n \in DOMAIN orders \cap DOMAIN orders' :
            /\ orders'[n].intent = orders[n].intent
            /\ orders'[n].filled >= orders[n].filled
            /\ ~IsOpen(orders[n]) => orders'[n] = orders[n]]_vars
  BY NextOrderStep DEF OrderStep
<1> QED
  BY <1>1, InductiveInvariant, PTL DEF Spec, OrdersMonotone
-----------------------------------------------------------------------------
\* The accepted order is the only way the list grows.
LEMMA OrdersGrow ==
    ASSUME IInv, [Next]_vars, ~(Len(orders') <= Len(orders))
    PROVE  \E i \in Intents : SubmitAccepted(i)
<1> USE DEF IInv, TypeOK
<1>1. ASSUME ProcessFill PROVE Len(orders') = Len(orders)
  <2>1. PICK u \in Order : cursor \in DOMAIN orders /\ orders' = [orders EXCEPT ![cursor] = u]
    BY <1>1, ProcessFillOrders
  <2> QED
    BY <2>1
<1>2. ASSUME NEW n \in DOMAIN orders, ExpireOrder(n) \/ CancelOrder(n)
      PROVE  Len(orders') = Len(orders)
  <2>1. PICK o : orders' = [orders EXCEPT ![n] = o]
    BY <1>2 DEF ExpireOrder, CancelOrder
  <2> QED
    BY <2>1
<1>3. ASSUME PanicCancelOpenOrders PROVE Len(orders') = Len(orders)
  BY <1>3 DEF PanicCancelOpenOrders
<1>4. ASSUME Reset \/ Restart PROVE Len(orders') = 0
  <2>1. orders' = <<>>
    BY <1>4 DEF Reset, Restart, Boot
  <2> QED
    BY <2>1
<1>5. Len(orders) \in Nat
  OBVIOUS
<1>6. ~(orders' = orders)
  BY <1>5
<1> QED
  BY <1>1, <1>2, <1>3, <1>4, <1>5, <1>6
     DEF Next, Process, SubmitRejected, ProcessBegin, ProcessSkip, ProcessEnd,
         PanicHalt, PanicFlattenPositions, Tick, vars

\* Once panic_halt has run, only a new server process accepts orders again: every
\* other step, a reset included, keeps the risk state or sets the flag once more.
THEOREM PanicVetoCorrect == Spec => PanicVeto
<1>1. IInv /\ [Next]_vars =>
        [riskState.panic /\ ~Restart =>
            riskState'.panic /\ Len(orders') <= Len(orders)]_vars
  <2> SUFFICES ASSUME IInv, [Next]_vars, riskState.panic, ~Restart
               PROVE  riskState'.panic /\ Len(orders') <= Len(orders)
    OBVIOUS
  <2>1. riskState' = riskState \/ riskState' = [DefaultRiskState EXCEPT !.panic = TRUE]
    BY DEF Next, Process, SubmitAccepted, SubmitRejected, ProcessBegin, ProcessFill,
       ProcessSkip, ProcessEnd, ExpireOrder, CancelOrder, Reset, PanicHalt,
       PanicCancelOpenOrders, PanicFlattenPositions, Tick, vars
  <2>2. riskState'.panic
    BY <2>1 DEF DefaultRiskState
  <2>3. \A i \in Intents : ~SubmitAccepted(i)
    BY DEF SubmitAccepted, Accepts, RiskAccepts, KillSwitch
  <2> QED
    BY <2>2, <2>3, OrdersGrow
<1> QED
  BY <1>1, InductiveInvariant, PTL DEF Spec, PanicVeto

\* Halted and without open orders, the exchange trades no more.
THEOREM PanicSettlesCorrect == Spec => PanicSettles
<1>1. IInv /\ [Next]_vars =>
        [halted /\ NoOpenOrders =>
            /\ account'.books \in {account.books, DefaultAccount.books}
            /\ halted' => NoOpenOrders']_vars
  <2> SUFFICES ASSUME IInv, [Next]_vars, halted, NoOpenOrders
               PROVE  /\ account'.books \in {account.books, DefaultAccount.books}
                      /\ NoOpenOrders'
    OBVIOUS
  <2>1. \A i \in Intents : ~SubmitAccepted(i)
    BY DEF SubmitAccepted, Accepts, PreviewAccepts
  <2>2. ~ProcessFill
    BY ProcessFillOrders DEF NoOpenOrders
  <2>3. account' = account \/ account' = DefaultAccount
    BY <2>1, <2>2 DEF Next, Process, SubmitRejected, ProcessBegin,
       ProcessSkip, ProcessEnd, ExpireOrder, CancelOrder, Reset, PanicHalt,
       PanicCancelOpenOrders, PanicFlattenPositions, Tick, Restart, Boot, vars
  <2>4. NoOpenOrders'
    <3> SUFFICES ASSUME NEW n \in DOMAIN orders' PROVE ~IsOpen(orders'[n])
      BY DEF NoOpenOrders, IsOpen
    <3>1. Len(orders') <= Len(orders)
      BY <2>1, OrdersGrow
    <3>2. orders \in Seq(Order) /\ orders' \in Seq(Order)
      BY NextIInv DEF IInv, TypeOK
    <3>3. n \in DOMAIN orders
      BY <3>1, <3>2
    <3> QED
      BY <3>3, NextOrderStep DEF NoOpenOrders, OrderStep
  <2> QED
    BY <2>3, <2>4
<1> QED
  BY <1>1, InductiveInvariant, PTL DEF Spec, PanicSettles

\* A lapsed account is only ever replaced by a new one, and accepts no order.
THEOREM StaleUntilFlatCorrect == Spec => StaleUntilFlat
<1>1. IInv /\ [Next]_vars =>
        [IsStale(age) =>
            /\ Len(orders') <= Len(orders)
            /\ IsStale(age') \/ account' = DefaultAccount]_vars
  <2> SUFFICES ASSUME IInv, [Next]_vars, IsStale(age)
               PROVE  /\ Len(orders') <= Len(orders)
                      /\ IsStale(age') \/ account' = DefaultAccount
    OBVIOUS
  <2>1. \A i \in Intents : ~SubmitAccepted(i)
    BY DEF SubmitAccepted, Accepts, RiskAccepts
  <2>2. ~Tick
    BY RiskAssumption DEF IInv, TypeOK, Tick, IsStale
  <2>3. age' = age \/ account' = DefaultAccount
    BY <2>1, <2>2 DEF Next, Process, SubmitRejected, ProcessBegin, ProcessFill,
       ProcessSkip, ProcessEnd, ExpireOrder, CancelOrder, Reset, PanicHalt,
       PanicCancelOpenOrders, PanicFlattenPositions, Restart, Boot, vars
  <2> QED
    BY <2>1, <2>3, OrdersGrow
<1> QED
  BY <1>1, InductiveInvariant, PTL DEF Spec, StaleUntilFlat

(* What a pass does *)

\* No book leans so far to one side that an order behind the touch is never filled:
\* 15 times the imbalance stays below the 7 percent that an order behind the touch has
\* to spare (the default quotes of _default_quotes lean by a twentieth at most).
BalancedQuotes ==
    \A s \in Executable :
        LET q == Quotes[s] IN /\ 15 * (q.bidSize - q.askSize) <= 7 * Depth(q)
                              /\ 15 * (q.askSize - q.bidSize) <= 7 * Depth(q)

\* Behind the touch an order has a base of 32, so every order gets at least 25.
LEMMA BalancedProbability ==
    ASSUME BalancedQuotes, NEW i \in Intent, i.symbol \in Executable
    PROVE  QueueFillProbability(i, Quotes[i.symbol]) >= 25 * Depth(Quotes[i.symbol])
<1> DEFINE q == Quotes[i.symbol]
<1>1. q \in Quote /\ q.bidSize + q.askSize > 0
  BY MarketAssumption
<1>2. 15 * (q.bidSize - q.askSize) <= 7 * Depth(q) /\ 15 * (q.askSize - q.bidSize) <= 7 * Depth(q)
  BY DEF BalancedQuotes
<1>3. Depth(q) = q.bidSize + q.askSize /\ q.bidSize \in Nat /\ q.askSize \in Nat
      /\ q.bid \in Nat /\ q.ask \in Nat /\ i.price \in Int
  BY <1>1 DEF Depth, Quote, Intent
<1> HIDE DEF q
<1> QED
  BY <1>1, <1>2, <1>3 DEF QueueFillProbability, q

\* An even number of half lots has a half.
LEMMA FittingQuantity ==
    ASSUME NEW i \in Intent, i.symbol \in Executable, FitsFilters(i)
    PROVE  i.qty \div 2 >= 1
<1> DEFINE lot == Filters[i.symbol].lot
<1>1. lot \in Nat /\ lot > 0 /\ lot % 2 = 0
  BY MarketAssumption, HalfLotAssumption DEF Filter
<1>2. i.qty \in Int /\ i.qty > 0 /\ i.qty % lot = 0
  BY DEF FitsFilters, IsMultiple, Intent
<1> HIDE DEF lot
<1>3. i.qty # 1
  <2>1. 1 % lot = 1
    BY <1>1
  <2> QED
    BY <1>2, <2>1
<1> QED
  BY <1>2, <1>3

\* A pass fills something of every open order.
LEMMA PassQuantityPositive ==
    ASSUME BalancedQuotes, NEW o \in Order, LifecycleOf(o), IsOpen(o), FitsFilters(o.intent)
    PROVE  PassQuantity(o) > 0
<1>1. o.intent \in Intent /\ o.intent.symbol \in Executable
  BY IntentAssumption DEF Order, LifecycleOf
<1>2. QueueFillProbability(o.intent, Quotes[o.intent.symbol]) >= 25 * Depth(Quotes[o.intent.symbol])
  BY <1>1, BalancedProbability
<1>3. o.intent.qty \div 2 >= 1
  BY <1>1, FittingQuantity
<1>4. RemainingQuantity(o) > 0 /\ RemainingQuantity(o) \in Int
  BY <1>1 DEF RemainingQuantity, LifecycleOf, IsOpen, OpenStatus, Order, Intent
<1>5. o.intent.qty \div 2 \in Int
  BY <1>1 DEF Intent
<1> QED
  BY <1>2, <1>3, <1>4, <1>5 DEF PassQuantity

\* Every order of the list passed the filters, and what the pass has visited has moved.
PassInv ==
    /\ \A n \in DOMAIN orders : FitsFilters(orders[n].intent)
    /\ \A n \in DOMAIN snapshot : n < cursor =>
          /\ orders[n].status # "NEW"
          /\ snapshot[n].status = "PARTIALLY_FILLED" => orders[n].status = "FILLED"

\* A pass that comes to an order leaves it moved.
LEMMA StepPassInv ==
    ASSUME IInv, PassInv, BalancedQuotes, ProcessFill \/ ProcessSkip
    PROVE  PassInv'
<1> DEFINE o == snapshot[cursor]
           q == PassQuantity(o)
           u == FilledOrder(o, q)
<1>1. cursor \in 1 .. Len(snapshot) /\ cursor' = cursor + 1 /\ snapshot' = snapshot
  BY DEF ProcessFill, ProcessSkip
<1>2. /\ orders \in Seq(Order) /\ snapshot \in Seq(Order) /\ Len(snapshot) = Len(orders)
      /\ cursor \in DOMAIN orders /\ cursor \in DOMAIN snapshot
      /\ orders[cursor] = o /\ o \in Order /\ LifecycleOf(o)
  <2>1. orders \in Seq(Order) /\ snapshot \in Seq(Order)
    BY DEF IInv, TypeOK
  <2>2. cursor > 0 /\ cursor \in cursor .. Len(snapshot)
    BY <1>1
  <2>3. Len(snapshot) = Len(orders) /\ snapshot[cursor] = orders[cursor]
    BY <2>2 DEF IInv, SnapshotCurrent
  <2>4. cursor \in DOMAIN orders /\ cursor \in DOMAIN snapshot
    BY <1>1, <2>1, <2>3
  <2>5. LifecycleOf(orders[cursor])
    BY <2>4 DEF IInv, OrderLifecycle
  <2> QED
    BY <2>1, <2>3, <2>4, <2>5
<1>3. FitsFilters(o.intent)
  BY <1>2 DEF PassInv
<1>4. CASE ProcessFill
  <2>1. IsOpen(o) /\ q > 0 /\ orders' = [orders EXCEPT ![cursor] = u] /\ u \in Order
    BY <1>4, ProcessFillOrders DEF ProcessFill
  <2>2. u.intent = o.intent /\ u.status \in {"FILLED", "PARTIALLY_FILLED"}
    BY DEF FilledOrder
  <2>3. o.status = "PARTIALLY_FILLED" => u.status = "FILLED"
    <3>1. o.status = "PARTIALLY_FILLED" => q = RemainingQuantity(o)
      BY DEF PassQuantity
    <3>2. o.status # "FILLED" => RemainingQuantity(o) = o.intent.qty - o.filled
      BY <1>2, IntentAssumption DEF RemainingQuantity, LifecycleOf, Order, Intent
    <3>3. o.intent.qty \in Int /\ o.filled \in Int
      BY <1>2, IntentAssumption DEF Order, Intent
    <3> HIDE DEF q, o
    <3> QED
      BY <3>1, <3>2, <3>3 DEF FilledOrder
  <2> HIDE DEF u, q, o
  <2>4. /\ DOMAIN orders' = DOMAIN orders /\ orders'[cursor] = u
        /\ \A n \in DOMAIN orders : n # cursor => orders'[n] = orders[n]
    BY <1>2, <2>1
  <2>5. \A n \in DOMAIN orders' : FitsFilters(orders'[n].intent)
    BY <1>3, <2>2, <2>4 DEF PassInv
  <2>6. ASSUME NEW n \in DOMAIN snapshot, n < cursor + 1
        PROVE  /\ orders'[n].status # "NEW"
               /\ snapshot[n].status = "PARTIALLY_FILLED" => orders'[n].status = "FILLED"
    <3>1. n \in DOMAIN orders /\ (n = cursor \/ n < cursor)
      BY <1>1, <1>2, <2>6
    <3>2. CASE n = cursor
      BY <2>2, <2>3, <2>4, <3>2 DEF o
    <3>3. CASE n # cursor
      BY <2>4, <3>1, <3>3 DEF PassInv
    <3> QED
      BY <3>2, <3>3
  <2> QED
    BY <1>1, <2>5, <2>6 DEF PassInv
<1>5. CASE ProcessSkip
  <2>1. orders' = orders
    BY <1>5 DEF ProcessSkip
  <2>2. ~IsOpen(o)
    <3>1. IsOpen(o) => q <= 0
      BY <1>5 DEF ProcessSkip
    <3>2. IsOpen(o) => q > 0
      BY <1>2, <1>3, PassQuantityPositive
    <3>3. q \in Int
      BY <1>2, PassQuantityType
    <3> HIDE DEF q
    <3> QED
      BY <3>1, <3>2, <3>3
  <2>3. o.status # "NEW" /\ o.status # "PARTIALLY_FILLED"
    BY <2>2 DEF IsOpen, OpenStatus
  <2> HIDE DEF o
  <2>4. ASSUME NEW n \in DOMAIN snapshot, n < cursor + 1
        PROVE  /\ orders[n].status # "NEW"
               /\ snapshot[n].status = "PARTIALLY_FILLED" => orders[n].status = "FILLED"
    <3>1. n = cursor \/ n < cursor
      BY <1>1, <1>2, <2>4
    <3> QED
      BY <1>2, <2>3, <3>1 DEF PassInv, o
  <2> QED
    BY <1>1, <2>1, <2>4 DEF PassInv
<1> QED
  BY <1>4, <1>5

\* Outside a pass nothing is visited, and the other steps change no intent.
LEMMA NextPassInv ==
    ASSUME IInv, PassInv, BalancedQuotes, [Next]_vars
    PROVE  PassInv'
<1>0. orders \in Seq(Order) /\ Len(orders) \in Nat
  BY DEF IInv, TypeOK
<1>1. ASSUME NEW i \in Intents, SubmitAccepted(i) PROVE PassInv'
  <2> DEFINE o == NewOrder(Len(orders) + 1, i)
  <2>1. o \in Order /\ o.intent = i
    BY <1>0 DEF NewOrder, Order, OpenStatus
  <2>2. orders' = Append(orders, o) /\ FitsFilters(i) /\ cursor = 0 /\ UNCHANGED <<snapshot, cursor>>
    BY <1>1 DEF SubmitAccepted, NextOrderId, Accepts, PreviewAccepts, Idle, NoPass
  <2> HIDE DEF o
  <2>3. /\ DOMAIN orders' = 1 .. Len(orders) + 1 /\ DOMAIN orders = 1 .. Len(orders)
        /\ \A n \in DOMAIN orders : orders'[n] = orders[n]
        /\ orders'[Len(orders) + 1] = o
    BY <1>0, <2>1, <2>2, AppendElements
  <2>4. \A n \in DOMAIN orders' : n \in DOMAIN orders \/ n = Len(orders) + 1
    BY <1>0, <2>3
  <2>5. \A n \in DOMAIN orders' : FitsFilters(orders'[n].intent)
    BY <2>1, <2>2, <2>3, <2>4 DEF PassInv
  <2>6. \A n \in DOMAIN snapshot : ~(n < cursor)
    BY <2>2 DEF IInv, TypeOK
  <2> QED
    BY <2>2, <2>5, <2>6 DEF PassInv
<1>2. CASE ProcessFill \/ ProcessSkip
  BY <1>2, StepPassInv
<1>3. CASE ProcessBegin
  <2>1. snapshot' = orders /\ cursor' = 1 /\ orders' = orders
    BY <1>3 DEF ProcessBegin
  <2>2. \A n \in DOMAIN orders : ~(n < 1)
    BY <1>0
  <2> QED
    BY <2>1, <2>2 DEF PassInv
<1>4. CASE ProcessEnd \/ Reset \/ Restart
  <2>1. orders' = orders \/ orders' = <<>>
    BY <1>4 DEF ProcessEnd, Reset, Restart, Boot
  <2>2. \A n \in DOMAIN snapshot' : ~(n < cursor')
    <3>1. CASE snapshot' = <<>>
      BY <3>1
    <3>2. CASE UNCHANGED <<snapshot, cursor>> /\ cursor = 0
      BY <3>2 DEF IInv, TypeOK
    <3> QED
      BY <1>4, <3>1, <3>2 DEF ProcessEnd, Reset, Restart, Idle, NoPass
  <2> QED
    BY <2>1, <2>2 DEF PassInv
<1>5. ASSUME NEW n \in DOMAIN orders, ExpireOrder(n) \/ CancelOrder(n) PROVE PassInv'
  <2>1. PICK s \in {"EXPIRED", "CANCELED"} :
            orders' = [orders EXCEPT ![n] = IF IsOpen(orders[n]) THEN WithStatus(orders[n], s)
                                            ELSE orders[n]]
    BY <1>5 DEF ExpireOrder, CancelOrder
  <2>2. WithStatus(orders[n], s).intent = orders[n].intent
    BY <1>0, WithStatusFields DEF TerminalStatus
  <2>3. DOMAIN orders' = DOMAIN orders
        /\ \A m \in DOMAIN orders : orders'[m].intent = orders[m].intent
    BY <1>0, <2>1, <2>2
  <2>4. cursor = 0 /\ UNCHANGED <<snapshot, cursor>>
    BY <1>5 DEF ExpireOrder, CancelOrder, Idle, NoPass
  <2>5. \A m \in DOMAIN snapshot : ~(m < cursor)
    BY <2>4 DEF IInv, TypeOK
  <2> QED
    BY <2>3, <2>4, <2>5 DEF PassInv
<1>6. CASE PanicCancelOpenOrders
  <2>1. DOMAIN orders' = DOMAIN orders /\ cursor = 0 /\ UNCHANGED <<snapshot, cursor>>
        /\ \A n \in DOMAIN orders :
              orders'[n] = IF IsOpen(orders[n]) THEN WithStatus(orders[n], "CANCELED")
                           ELSE orders[n]
    BY <1>6 DEF PanicCancelOpenOrders, Idle, NoPass
  <2>2. \A n \in DOMAIN orders : WithStatus(orders[n], "CANCELED").intent = orders[n].intent
    BY <1>0, WithStatusFields DEF TerminalStatus
  <2>3. \A m \in DOMAIN snapshot : ~(m < cursor)
    BY <2>1 DEF IInv, TypeOK
  <2> QED
    BY <2>1, <2>2, <2>3 DEF PassInv
<1>7. CASE UNCHANGED <<orders, snapshot, cursor>>
  BY <1>7 DEF PassInv
<1>8. (\E i \in Intents : SubmitRejected(i)) \/ PanicHalt \/ PanicFlattenPositions \/ Tick
          \/ UNCHANGED vars => UNCHANGED <<orders, snapshot, cursor>>
  BY DEF SubmitRejected, PanicHalt, PanicFlattenPositions, Tick, NoPass, vars
<1> QED
  BY <1>1, <1>2, <1>3, <1>4, <1>5, <1>6, <1>7, <1>8 DEF Next, Process

\* A pass moves every order that was open when it began: on books that do not lean too
\* far, a new order is at least partly filled and a partly filled one is completed,
\* whatever the quantities, prices and filters.
THEOREM PassProgressCorrect ==
    ASSUME BalancedQuotes
    PROVE  Spec => PassProgress
<1>1. Init => PassInv
  <2>1. DOMAIN <<>> = {}
    OBVIOUS
  <2> QED
    BY <2>1 DEF Init, Boot, PassInv
<1>2. IInv /\ PassInv /\ [Next]_vars => PassInv'
  BY NextPassInv
<1>3. ASSUME IInv, PassInv, Next, cursor > 0, cursor' = 0,
             NEW n \in DOMAIN snapshot \cap DOMAIN orders'
      PROVE  /\ orders'[n].status # "NEW"
             /\ snapshot[n].status = "PARTIALLY_FILLED" => orders'[n].status = "FILLED"
  <2>0. cursor # 0 /\ snapshot \in Seq(Order) /\ cursor \in 0 .. Len(snapshot) + 1
    BY <1>3 DEF IInv, TypeOK
  <2>1. CASE ProcessEnd
    <3>1. n < cursor /\ orders' = orders
      BY <2>0, <2>1 DEF ProcessEnd
    <3> QED
      BY <1>3, <3>1 DEF PassInv
  <2>2. CASE Restart
    <3>1. orders' = <<>>
      BY <2>2 DEF Restart, Boot
    <3> QED
      BY <3>1
  <2>3. ProcessEnd \/ Restart
    <3>1. ~Idle
      BY <2>0 DEF Idle
    <3>2. cursor' # cursor + 1 /\ cursor' # cursor
      BY <1>3, <2>0
    <3> QED
      BY <1>3, <3>1, <3>2 DEF Next, Process, SubmitAccepted, SubmitRejected, ProcessBegin,
         ProcessFill, ProcessSkip, ExpireOrder, CancelOrder, Reset, PanicHalt,
         PanicCancelOpenOrders, PanicFlattenPositions, Tick
  <2> QED
    BY <2>1, <2>2, <2>3
<1>4. IInv /\ PassInv /\ [Next]_vars =>
          [cursor > 0 /\ cursor' = 0 =>
              \A n \in DOMAIN snapshot \cap DOMAIN orders' :
                 /\ orders'[n].status # "NEW"
                 /\ snapshot[n].status = "PARTIALLY_FILLED" => orders'[n].status = "FILLED"]_vars
  BY <1>3
<1> QED
  BY <1>1, <1>2, <1>4, InductiveInvariant, PTL DEF Spec, PassProgress

(* The log and the statuses *)

\* The statuses a replay of the log goes through.
ReplayStatus == {"UNKNOWN"} \cup OpenStatus \cup TerminalStatus

\* What the log says of an order after each of its events.
StatusTrace(h, id, es) ==
    /\ h[0] = "UNKNOWN"
    /\ \A k \in 0 .. Len(es) - 1 : h[k + 1] = StatusAfter(id, h[k], es[k + 1])

\* What a log says of an order in the end.
StatusReplay(id, es) == FoldLeft(LAMBDA status, e : StatusAfter(id, status, e), "UNKNOWN", es)

\* The replay of a status goes through the events one by one.
LEMMA StatusReplayTrace ==
    ASSUME NEW id, NEW es \in Seq(Event)
    PROVE  \E h : StatusTrace(h, id, es) /\ StatusReplay(id, es) = h[Len(es)]
<1> DEFINE n == Len(es)
           step == [p \in ReplayStatus \X (1 .. n) |-> StatusAfter(id, p[1], es[p[2]])]
           Replays(i) == i = [s \in SUBSET (1 .. n) |->
                              IF s = {} THEN "UNKNOWN"
                              ELSE StatusAfter(id, i[s \ {Max(s)}], es[Max(s)])]
           iter == CHOOSE i : Replays(i)
<1>1. n \in Nat /\ DOMAIN es = 1 .. n
  OBVIOUS
<1>2. step \in [ReplayStatus \X (1 .. n) -> ReplayStatus]
  BY DEF StatusAfter, ReplayStatus, OpenStatus, TerminalStatus
<1>3. \E i : Replays(i)
  <2>1. "UNKNOWN" \in ReplayStatus
    BY DEF ReplayStatus
  <2> HIDE DEF step, n
  <2>2. PICK g \in [SUBSET (1 .. n) -> ReplayStatus] : Solves(g, n, "UNKNOWN", step)
    BY <1>1, <1>2, <2>1, FoldSolution
  <2>3. ASSUME NEW s \in SUBSET (1 .. n), s # {}
        PROVE  g[s] = StatusAfter(id, g[s \ {Max(s)}], es[Max(s)])
    <3>1. s \subseteq 0 .. n
      OBVIOUS
    <3>2. Max(s) \in 1 .. n
      BY <1>1, <2>3, <3>1, GreatestNumber
    <3>3. g[s \ {Max(s)}] \in ReplayStatus
      OBVIOUS
    <3> QED
      BY <2>2, <2>3, <3>2, <3>3 DEF step, Solves
  <2>4. Replays(g)
    BY <2>2, <2>3 DEF Solves
  <2> QED
    BY <2>4
<1>4. Replays(iter)
  BY <1>3
<1>5. StatusReplay(id, es) = iter[1 .. n]
  BY <1>1 DEF StatusReplay, FoldLeft, MapThenFoldSet
<1> HIDE DEF iter
<1>6. ASSUME NEW k \in 0 .. n - 1
      PROVE  iter[1 .. k + 1] = StatusAfter(id, iter[1 .. k], es[k + 1])
  <2>1. 1 .. k + 1 \in SUBSET (1 .. n) /\ 1 .. k + 1 # {} /\ Max(1 .. k + 1) = k + 1
        /\ (1 .. k + 1) \ {k + 1} = 1 .. k
    BY <1>1, InitialInterval
  <2> QED
    BY <2>1, <1>4
<1>7. iter[1 .. 0] = "UNKNOWN"
  BY <1>1, <1>4, InitialInterval
<1> DEFINE h == [k \in 0 .. n |-> iter[1 .. k]]
<1>8. StatusTrace(h, id, es)
  BY <1>1, <1>6, <1>7 DEF StatusTrace
<1>9. StatusReplay(id, es) = h[n]
  BY <1>1, <1>5
<1> QED
  BY <1>8, <1>9

\* An event adds one step to the replay.
LEMMA StatusReplayAppend ==
    ASSUME NEW id, NEW es \in Seq(Event), NEW e \in Event
    PROVE  /\ StatusReplay(id, <<>>) = "UNKNOWN"
           /\ StatusReplay(id, Append(es, e)) = StatusAfter(id, StatusReplay(id, es), e)
<1> DEFINE n == Len(es)
           fs == Append(es, e)
<1>1. n \in Nat /\ fs \in Seq(Event) /\ Len(fs) = n + 1 /\ fs[n + 1] = e
      /\ \A k \in 0 .. n - 1 : fs[k + 1] = es[k + 1]
  OBVIOUS
<1>2. PICK h : StatusTrace(h, id, es) /\ StatusReplay(id, es) = h[n]
  BY StatusReplayTrace
<1>3. PICK g : StatusTrace(g, id, fs) /\ StatusReplay(id, fs) = g[n + 1]
  BY <1>1, StatusReplayTrace
<1> HIDE DEF fs, n
<1>4. \A k \in 0 .. n : k \in {j \in 0 .. n : g[j] = h[j]}
  <2> DEFINE T == {j \in 0 .. n : g[j] = h[j]}
  <2>1. 0 \in T
    BY <1>1, <1>2, <1>3 DEF StatusTrace
  <2>2. ASSUME NEW k \in 0 .. n - 1, k \in T PROVE k + 1 \in T
    <3>1. h[k + 1] = StatusAfter(id, h[k], es[k + 1])
      BY <1>1, <1>2 DEF StatusTrace, n
    <3>2. k \in 0 .. Len(fs) - 1 /\ g[k + 1] = StatusAfter(id, g[k], fs[k + 1])
      BY <1>1, <1>3 DEF StatusTrace
    <3>3. g[k] = h[k] /\ k + 1 \in 0 .. n
      BY <1>1, <2>2
    <3>4. g[k + 1] = h[k + 1]
      BY <1>1, <3>1, <3>2, <3>3
    <3> QED
      BY <3>3, <3>4
  <2> HIDE DEF T
  <2>3. \A k \in 0 .. n : k \in T
    BY <1>1, <2>1, <2>2, InductionTo
  <2> QED
    BY <2>3 DEF T
<1>5. g[n + 1] = StatusAfter(id, g[n], e)
  <2>1. n \in 0 .. Len(fs) - 1
    BY <1>1
  <2> QED
    BY <1>1, <1>3, <2>1 DEF StatusTrace
<1>6. n \in 0 .. n
  BY <1>1
<1>7. StatusReplay(id, <<>>) = "UNKNOWN"
  <2>1. <<>> \in Seq(Event) /\ Len(<<>>) = 0
    OBVIOUS
  <2>2. PICK f : StatusTrace(f, id, <<>>) /\ StatusReplay(id, <<>>) = f[Len(<<>>)]
    BY <2>1, StatusReplayTrace
  <2> QED
    BY <2>1, <2>2 DEF StatusTrace
<1> QED
  BY <1>2, <1>3, <1>4, <1>5, <1>6, <1>7 DEF fs

\* What each kind of event makes of a status.
LEMMA StatusAfterCases ==
    ASSUME NEW id \in Nat \ {0}, NEW status \in ReplayStatus, NEW e \in Event
    PROVE  LET s == StatusAfter(id, status, e) IN
           /\ e.order \notin {id, AllOrders} => s = status
           /\ e.order = id /\ e.status = "RESTING" => s = "NEW"
           /\ e.order = id /\ e.status = "PARTIALLY_FILLED" => s = "PARTIALLY_FILLED"
           /\ e.order = id /\ e.status = "MATCHED" => s = "FILLED"
           /\ e.order = id /\ e.status = "EXPIRED" => s = "EXPIRED"
           /\ e.order \in {id, AllOrders} /\ e.status = "CANCELED" =>
                 s = IF status \in OpenStatus THEN "CANCELED" ELSE status
           /\ e.order = AllOrders /\ e.status # "CANCELED" => s = status
           /\ e.status = "REJECTED" => s = status
<1>1. AllOrders # id
  BY DEF AllOrders
<1>2. \/ e.status = "RESTING" /\ e.status \notin {"PARTIALLY_FILLED", "MATCHED", "EXPIRED", "CANCELED", "REJECTED"}
      \/ e.status = "PARTIALLY_FILLED" /\ e.status \notin {"RESTING", "MATCHED", "EXPIRED", "CANCELED", "REJECTED"}
      \/ e.status = "MATCHED" /\ e.status \notin {"RESTING", "PARTIALLY_FILLED", "EXPIRED", "CANCELED", "REJECTED"}
      \/ e.status = "EXPIRED" /\ e.status \notin {"RESTING", "PARTIALLY_FILLED", "MATCHED", "CANCELED", "REJECTED"}
      \/ e.status = "CANCELED" /\ e.status \notin {"RESTING", "PARTIALLY_FILLED", "MATCHED", "EXPIRED", "REJECTED"}
      \/ e.status = "REJECTED" /\ e.status \notin {"RESTING", "PARTIALLY_FILLED", "MATCHED", "EXPIRED", "CANCELED"}
  BY DEF Event, EventStatus
<1> QED
  BY <1>1, <1>2, Zenon DEF StatusAfter

\* The status a list of orders has for an id.
ListedStatus(os, id) == IF id \in DOMAIN os THEN os[id].status ELSE "UNKNOWN"

\* Replaying the log tells the status of every id, also of those still to come.
StatusesLogged == \A id \in Nat \ {0} : StatusReplay(id, events) = ListedStatus(orders, id)

\* A step that logs an event and changes the statuses as the replay does.
LEMMA LoggedStatuses ==
    ASSUME IInv, StatusesLogged, NEW e \in Event, events' = Append(events, e),
           \A id \in Nat \ {0} :
               ListedStatus(orders', id) = StatusAfter(id, ListedStatus(orders, id), e)
    PROVE  StatusesLogged'
<1> SUFFICES ASSUME NEW id \in Nat \ {0}
             PROVE  StatusReplay(id, events') = ListedStatus(orders', id)
  BY DEF StatusesLogged
<1>1. events \in Seq(Event)
  BY DEF IInv, TypeOK
<1>2. StatusReplay(id, events') = StatusAfter(id, StatusReplay(id, events), e)
  BY <1>1, StatusReplayAppend
<1> QED
  BY <1>2 DEF StatusesLogged

\* An order's status in a list is one the replay knows.
LEMMA ListedStatusType ==
    ASSUME IInv, NEW id
    PROVE  ListedStatus(orders, id) \in ReplayStatus
<1>1. \A n \in DOMAIN orders : orders[n] \in Order
  BY DEF IInv, TypeOK
<1>2. \A n \in DOMAIN orders : orders[n].status \in OpenStatus \cup TerminalStatus
  BY <1>1 DEF Order
<1> QED
  BY <1>2 DEF ListedStatus, ReplayStatus

\* Appending an accepted order logs it as resting under its own id.
LEMMA SubmitAcceptedLogged ==
    ASSUME IInv, StatusesLogged, NEW i \in Intents, SubmitAccepted(i)
    PROVE  StatusesLogged'
<1> DEFINE e == [order |-> Len(orders) + 1, status |-> "RESTING"]
           o == NewOrder(Len(orders) + 1, i)
<1>1. orders \in Seq(Order) /\ Len(orders) \in Nat
  BY DEF IInv, TypeOK
<1>2. o \in Order /\ o.status = "NEW"
  BY <1>1 DEF NewOrder, Order, OpenStatus
<1>3. events' = Append(events, e) /\ orders' = Append(orders, o)
  BY DEF SubmitAccepted, NextOrderId, Record
<1>4. e \in Event /\ e.order = Len(orders) + 1 /\ e.status = "RESTING"
  BY <1>1 DEF Event, EventStatus
<1> HIDE DEF o, e
<1>5. /\ DOMAIN orders = 1 .. Len(orders) /\ DOMAIN orders' = 1 .. Len(orders) + 1
      /\ \A n \in 1 .. Len(orders) : orders'[n] = orders[n]
      /\ orders'[Len(orders) + 1] = o
  BY <1>1, <1>2, <1>3, AppendElements
<1>6. ASSUME NEW id \in Nat \ {0}
      PROVE  ListedStatus(orders', id) = StatusAfter(id, ListedStatus(orders, id), e)
  <2>1. CASE id = Len(orders) + 1
    BY <1>2, <1>4, <1>5, <2>1, StatusAfterCases, ListedStatusType DEF ListedStatus
  <2>2. CASE id # Len(orders) + 1
    <3>1. ListedStatus(orders', id) = ListedStatus(orders, id)
      BY <1>1, <1>5, <2>2 DEF ListedStatus
    <3>2. e.order \notin {id, AllOrders}
      BY <1>1, <1>4, <2>2 DEF AllOrders
    <3> QED
      BY <1>4, <3>1, <3>2, StatusAfterCases, ListedStatusType
  <2> QED
    BY <2>1, <2>2
<1> QED
  BY <1>3, <1>4, <1>6, LoggedStatuses

\* A step that changes the status of one order and logs it under its id.
LEMMA OneStatusLogged ==
    ASSUME IInv, StatusesLogged, NEW n \in DOMAIN orders, NEW o \in Order,
           NEW s \in EventStatus, Record(n, s),
           orders' = [orders EXCEPT ![n] = o],
           o.status = StatusAfter(n, orders[n].status, [order |-> n, status |-> s])
    PROVE  StatusesLogged'
<1> DEFINE e == [order |-> n, status |-> s]
<1>1. orders \in Seq(Order) /\ n \in Nat \ {0}
  BY DEF IInv, TypeOK
<1>2. e \in Event /\ e.order = n /\ events' = Append(events, e)
  BY <1>1 DEF Event, Record
<1>3. o.status = StatusAfter(n, orders[n].status, e)
  OBVIOUS
<1> HIDE DEF e
<1>4. ASSUME NEW id \in Nat \ {0}
      PROVE  ListedStatus(orders', id) = StatusAfter(id, ListedStatus(orders, id), e)
  <2>1. DOMAIN orders' = DOMAIN orders /\ orders'[n] = o
        /\ \A m \in DOMAIN orders : m # n => orders'[m] = orders[m]
    BY <1>1
  <2>2. CASE id = n
    BY <1>3, <2>1, <2>2 DEF ListedStatus
  <2>3. CASE id # n
    <3>1. ListedStatus(orders', id) = ListedStatus(orders, id)
      BY <2>1, <2>3 DEF ListedStatus
    <3>2. e.order \notin {id, AllOrders}
      BY <1>1, <1>2, <2>3 DEF AllOrders
    <3> QED
      BY <1>2, <3>1, <3>2, StatusAfterCases, ListedStatusType
  <2> QED
    BY <2>2, <2>3
<1> QED
  BY <1>2, <1>4, LoggedStatuses

\* An event that changes no status the list has.
LEMMA NoStatusLogged ==
    ASSUME IInv, StatusesLogged, NEW e \in Event, events' = Append(events, e),
           orders' = orders,
           \/ e.status = "REJECTED"
           \/ e.order = AllOrders /\ e.status # "CANCELED"
    PROVE  StatusesLogged'
BY StatusAfterCases, ListedStatusType, LoggedStatuses

\* The replay of the statuses follows every step.
LEMMA NextStatusesLogged ==
    ASSUME IInv, StatusesLogged, [Next]_vars
    PROVE  StatusesLogged'
<1> USE DEF IInv, TypeOK
<1>1. ASSUME NEW i \in Intents, SubmitAccepted(i) PROVE StatusesLogged'
  BY <1>1, SubmitAcceptedLogged
<1>2. ASSUME NEW i \in Intents, SubmitRejected(i) PROVE StatusesLogged'
  <2> DEFINE e == [order |-> Len(orders) + 1, status |-> "REJECTED"]
  <2>1. e \in Event /\ e.status = "REJECTED" /\ events' = Append(events, e) /\ orders' = orders
    BY <1>2 DEF SubmitRejected, NextOrderId, Record, Event, EventStatus
  <2> HIDE DEF e
  <2> QED
    BY <2>1, NoStatusLogged
<1>3. CASE ProcessFill
  <2> DEFINE o == orders[cursor]
             u == FilledOrder(o, PassQuantity(o))
             s == IF u.status = "FILLED" THEN "MATCHED" ELSE "PARTIALLY_FILLED"
             e == [order |-> cursor, status |-> s]
  <2>1. /\ cursor \in DOMAIN orders /\ o \in Order /\ o.id = cursor /\ u \in Order
        /\ ~(u.status = "NEW") /\ snapshot[cursor] = o
        /\ orders' = [orders EXCEPT ![cursor] = u]
    BY <1>3, ProcessFillOrders
  <2>2. s \in EventStatus /\ Record(cursor, s)
    BY <1>3, <2>1 DEF ProcessFill, EventStatus
  <2>3. u.status \in {"FILLED", "PARTIALLY_FILLED"}
    BY DEF FilledOrder
  <2>4. e \in Event /\ e.order = cursor /\ e.status = s /\ cursor \in Nat \ {0}
    BY <2>1, <2>2 DEF Event
  <2>5. o.status \in ReplayStatus
    BY <2>1 DEF Order, ReplayStatus
  <2> HIDE DEF o, u, e
  <2>6. u.status = StatusAfter(cursor, o.status, e)
    BY <2>3, <2>4, <2>5, StatusAfterCases
  <2>7. u.status = StatusAfter(cursor, orders[cursor].status, [order |-> cursor, status |-> s])
    BY <2>6 DEF o, e
  <2> QED
    BY <2>1, <2>2, <2>7, OneStatusLogged
<1>4. ASSUME NEW n \in DOMAIN orders, ExpireOrder(n) \/ CancelOrder(n) PROVE StatusesLogged'
  <2>1. orders[n] \in Order /\ orders[n].id = n /\ n \in Nat \ {0}
    BY DEF OrderLifecycle, OrderIds
  <2>2. orders[n].status \in ReplayStatus
    BY <2>1 DEF Order, ReplayStatus
  <2>3. "EXPIRED" \in EventStatus /\ "CANCELED" \in EventStatus
        /\ {"EXPIRED", "CANCELED"} \subseteq OpenStatus \cup TerminalStatus
    BY DEF EventStatus, TerminalStatus
  <2>4. \A s \in {"EXPIRED", "CANCELED"} :
            WithStatus(orders[n], s) \in Order /\ WithStatus(orders[n], s).status = s
    BY <2>1, <2>3, WithStatusFields
  <2>5. CASE ExpireOrder(n)
    <3> DEFINE e == [order |-> n, status |-> "EXPIRED"]
    <3>1. e \in Event /\ e.order = n /\ e.status = "EXPIRED"
      BY <2>1, <2>3 DEF Event
    <3>2. StatusAfter(n, orders[n].status, e) = "EXPIRED"
      <4> HIDE DEF e
      <4> QED
        BY <2>1, <2>2, <3>1, StatusAfterCases
    <3>3. Record(n, "EXPIRED") /\ orders' = [orders EXCEPT ![n] = WithStatus(orders[n], "EXPIRED")]
      BY <2>1, <2>5 DEF ExpireOrder
    <3> QED
      BY <2>3, <2>4, <3>2, <3>3, OneStatusLogged
  <2>6. CASE CancelOrder(n)
    <3> DEFINE e == [order |-> n, status |-> "CANCELED"]
               o == IF IsOpen(orders[n]) THEN WithStatus(orders[n], "CANCELED") ELSE orders[n]
    <3>1. e \in Event /\ e.order = n /\ e.status = "CANCELED"
      BY <2>1, <2>3 DEF Event
    <3>2. o \in Order /\ o.status = IF orders[n].status \in OpenStatus THEN "CANCELED" ELSE orders[n].status
      BY <2>1, <2>4 DEF IsOpen
    <3>3. StatusAfter(n, orders[n].status, e)
              = IF orders[n].status \in OpenStatus THEN "CANCELED" ELSE orders[n].status
      <4> HIDE DEF e
      <4> QED
        BY <2>1, <2>2, <3>1, StatusAfterCases
    <3>4. Record(n, "CANCELED") /\ orders' = [orders EXCEPT ![n] = o]
      BY <2>1, <2>6 DEF CancelOrder
    <3>5. o.status = StatusAfter(n, orders[n].status, [order |-> n, status |-> "CANCELED"])
      BY <3>2, <3>3
    <3> HIDE DEF o
    <3> QED
      BY <2>3, <3>2, <3>4, <3>5, OneStatusLogged
  <2> QED
    BY <1>4, <2>5, <2>6
<1>5. CASE orders' = <<>> /\ events' = <<>>
  <2>1. \A id \in Nat \ {0} : StatusReplay(id, <<>>) = "UNKNOWN"
    <3>1. [order |-> 0, status |-> "RESTING"] \in Event
      BY DEF Event, EventStatus
    <3> QED
      BY <3>1, StatusReplayAppend
  <2>2. DOMAIN orders' = {}
    BY <1>5
  <2> QED
    BY <1>5, <2>1, <2>2 DEF StatusesLogged, ListedStatus
<1>6. CASE PanicCancelOpenOrders
  <2> DEFINE e == [order |-> AllOrders, status |-> "CANCELED"]
  <2>1. e \in Event /\ e.order = AllOrders /\ e.status = "CANCELED" /\ events' = Append(events, e)
    BY <1>6 DEF PanicCancelOpenOrders, Record, Event, EventStatus, AllOrders
  <2> HIDE DEF e
  <2>2. ASSUME NEW id \in Nat \ {0}
        PROVE  ListedStatus(orders', id) = StatusAfter(id, ListedStatus(orders, id), e)
    <3>1. StatusAfter(id, ListedStatus(orders, id), e)
              = IF ListedStatus(orders, id) \in OpenStatus THEN "CANCELED"
                ELSE ListedStatus(orders, id)
      BY <2>1, StatusAfterCases, ListedStatusType
    <3>2. DOMAIN orders' = DOMAIN orders
      BY <1>6 DEF PanicCancelOpenOrders
    <3>3. CASE id \in DOMAIN orders
      <4>1. orders[id] \in Order /\ "CANCELED" \in OpenStatus \cup TerminalStatus
        BY <3>3 DEF TerminalStatus
      <4>2. WithStatus(orders[id], "CANCELED").status = "CANCELED"
        BY <4>1, WithStatusFields
      <4>3. orders'[id] = IF IsOpen(orders[id]) THEN WithStatus(orders[id], "CANCELED")
                          ELSE orders[id]
        BY <1>6, <3>3 DEF PanicCancelOpenOrders
      <4> QED
        BY <3>1, <3>2, <3>3, <4>2, <4>3 DEF ListedStatus, IsOpen
    <3>4. CASE id \notin DOMAIN orders
      BY <3>1, <3>2, <3>4 DEF ListedStatus, OpenStatus
    <3> QED
      BY <3>3, <3>4
  <2> QED
    BY <2>1, <2>2, LoggedStatuses
<1>7. CASE PanicFlattenPositions
  <2> DEFINE e == [order |-> AllOrders, status |-> "MATCHED"]
  <2>1. e \in Event /\ e.order = AllOrders /\ e.status = "MATCHED" /\ events' = Append(events, e)
        /\ orders' = orders
    BY <1>7 DEF PanicFlattenPositions, Record, Event, EventStatus, AllOrders
  <2> HIDE DEF e
  <2> QED
    BY <2>1, NoStatusLogged
<1>8. CASE UNCHANGED <<orders, events>>
  BY <1>8 DEF StatusesLogged
<1>9. Reset \/ Restart => orders' = <<>> /\ events' = <<>>
  BY DEF Reset, Restart, Boot
<1>10. ProcessBegin \/ ProcessSkip \/ ProcessEnd \/ PanicHalt \/ Tick \/ UNCHANGED vars
           => UNCHANGED <<orders, events>>
  BY DEF ProcessBegin, ProcessSkip, ProcessEnd, PanicHalt, Tick, vars
<1> QED
  BY <1>1, <1>2, <1>3, <1>4, <1>5, <1>6, <1>7, <1>8, <1>9, <1>10 DEF Next, Process

\* Replaying the reconciliation log gives the status of every order the exchange
\* lists, and tells which ids were never orders, whatever passes, cancels, expiries,
\* panics and resets it went through.
THEOREM LogReplaysOrdersCorrect == Spec => []LogReplaysOrders
<1>1. Init => StatusesLogged
  <2> SUFFICES ASSUME Init PROVE StatusesLogged
    OBVIOUS
  <2>1. \A id \in Nat \ {0} : StatusReplay(id, <<>>) = "UNKNOWN"
    <3>1. [order |-> 0, status |-> "RESTING"] \in Event /\ <<>> \in Seq(Event)
      BY DEF Event, EventStatus
    <3> QED
      BY <3>1, StatusReplayAppend
  <2>2. orders = <<>> /\ events = <<>> /\ DOMAIN orders = {}
    BY DEF Init, Boot
  <2> QED
    BY <2>1, <2>2 DEF StatusesLogged, ListedStatus
<1>2. IInv /\ StatusesLogged /\ [Next]_vars => StatusesLogged'
  BY NextStatusesLogged
<1>3. IInv /\ StatusesLogged => LogReplaysOrders
  <2> SUFFICES ASSUME IInv, StatusesLogged, NEW id \in 1 .. Len(orders) + 1
               PROVE  StatusFromLog(id) = IF id \in DOMAIN orders THEN orders[id].status
                                          ELSE "UNKNOWN"
    BY DEF LogReplaysOrders
  <2>1. id \in Nat \ {0}
    BY DEF IInv, TypeOK
  <2>2. StatusFromLog(id) = StatusReplay(id, events)
    BY DEF StatusFromLog, StatusReplay
  <2> QED
    BY <2>1, <2>2 DEF StatusesLogged, ListedStatus
<1> QED
  BY <1>1, <1>2, <1>3, InductiveInvariant, PTL DEF Spec

(* The log and the account *)

\* The events of fills, and of a flatten.
FillEvent == {"PARTIALLY_FILLED", "MATCHED"}

\* The fills of an order among the first m events of a log.
FillsBefore(es, id, m) ==
    Cardinality({k \in 1 .. m : es[k].order = id /\ es[k].status \in FillEvent})

\* What the m-th event of a log makes of an account, given the orders.
AccountStep(os, es, acct, m) ==
    IF es[m].status \notin FillEvent THEN acct
    ELSE IF es[m].order = AllOrders THEN DefaultAccount
    ELSE ApplyPaperFill(acct, os[es[m].order].intent,
                        os[es[m].order].fills[FillsBefore(es, es[m].order, m)])

\* What a log makes of the account of the boot.
AccountReplay(os, es) ==
    FoldLeft(LAMBDA acct, m : AccountStep(os, es, acct, m), DefaultAccount,
             [m \in 1 .. Len(es) |-> m])

\* Every logged fill is a fill of an order in the list, the next one of that order, and
\* every fill of an order is logged.
FillsLogged(os, es) ==
    /\ \A m \in DOMAIN es :
          es[m].status \in FillEvent /\ es[m].order # AllOrders =>
              /\ es[m].order \in DOMAIN os
              /\ FillsBefore(es, es[m].order, m) \in DOMAIN os[es[m].order].fills
    /\ \A id \in DOMAIN os : FillsBefore(es, id, Len(es)) = Len(os[id].fills)

\* The account after each event of a log.
AccountTrace(h, os, es) ==
    /\ h[0] = DefaultAccount
    /\ \A k \in 0 .. Len(es) - 1 : h[k + 1] = AccountStep(os, es, h[k], k + 1)

\* An event makes an account of an account.
LEMMA AccountStepType ==
    ASSUME NEW os \in Seq(Order), NEW es \in Seq(Event), FillsLogged(os, es),
           \A n \in DOMAIN os : os[n].intent.symbol \in Executable,
           NEW acct \in Account, NEW m \in 1 .. Len(es)
    PROVE  AccountStep(os, es, acct, m) \in Account
<1>1. m \in DOMAIN es
  OBVIOUS
<1>2. CASE es[m].status \in FillEvent /\ es[m].order # AllOrders
  <2> DEFINE o == os[es[m].order]
             q == o.fills[FillsBefore(es, es[m].order, m)]
  <2>1. o \in Order /\ o.intent.symbol \in Executable
        /\ FillsBefore(es, es[m].order, m) \in DOMAIN o.fills
    BY <1>1, <1>2 DEF FillsLogged
  <2>2. q \in Int /\ o.intent \in Intent
    BY <2>1, IntentAssumption DEF Order
  <2>3. AccountStep(os, es, acct, m) = ApplyPaperFill(acct, o.intent, q)
    BY <1>2 DEF AccountStep
  <2> HIDE DEF o, q
  <2> QED
    BY <2>1, <2>2, <2>3, ApplyFillType
<1>3. CASE ~(es[m].status \in FillEvent /\ es[m].order # AllOrders)
  BY <1>3, DefaultAccountType DEF AccountStep
<1> QED
  BY <1>2, <1>3

\* The replay of the account, event by event.
LEMMA AccountReplayTrace ==
    ASSUME NEW os \in Seq(Order), NEW es \in Seq(Event), FillsLogged(os, es),
           \A n \in DOMAIN os : os[n].intent.symbol \in Executable
    PROVE  \E h : AccountTrace(h, os, es) /\ AccountReplay(os, es) = h[Len(es)]
<1> DEFINE n == Len(es)
           list == [m \in 1 .. n |-> m]
           step == [p \in Account \X (1 .. n) |-> AccountStep(os, es, p[1], p[2])]
           Replays(i) == i = [s \in SUBSET (1 .. n) |->
                                IF s = {} THEN DefaultAccount
                                ELSE AccountStep(os, es, i[s \ {Max(s)}], list[Max(s)])]
           iter == CHOOSE i : Replays(i)
<1>1. n \in Nat /\ DOMAIN list = 1 .. n
  OBVIOUS
<1>2. step \in [Account \X (1 .. n) -> Account]
  BY AccountStepType
<1>3. \E i : Replays(i)
  <2> HIDE DEF step, n, list
  <2>2. PICK g \in [SUBSET (1 .. n) -> Account] : Solves(g, n, DefaultAccount, step)
    BY <1>1, <1>2, DefaultAccountType, FoldSolution
  <2>3. ASSUME NEW s \in SUBSET (1 .. n), s # {}
        PROVE  g[s] = AccountStep(os, es, g[s \ {Max(s)}], list[Max(s)])
    <3>1. s \subseteq 0 .. n
      BY <1>1
    <3>2. Max(s) \in 1 .. n
      BY <1>1, <2>3, <3>1, GreatestNumber
    <3>3. g[s \ {Max(s)}] \in Account
      OBVIOUS
    <3>4. list[Max(s)] = Max(s)
      BY <3>2 DEF list
    <3> QED
      BY <2>2, <2>3, <3>2, <3>3, <3>4 DEF step, Solves
  <2>4. Replays(g)
    BY <2>2, <2>3 DEF Solves
  <2> QED
    BY <2>4
<1>4. Replays(iter)
  BY <1>3
<1>5. AccountReplay(os, es) = iter[1 .. n]
  BY <1>1 DEF AccountReplay, FoldLeft, MapThenFoldSet
<1> HIDE DEF iter
<1>6. ASSUME NEW k \in 0 .. n - 1
      PROVE  iter[1 .. k + 1] = AccountStep(os, es, iter[1 .. k], k + 1)
  <2>1. 1 .. k + 1 \in SUBSET (1 .. n) /\ 1 .. k + 1 # {} /\ Max(1 .. k + 1) = k + 1
        /\ (1 .. k + 1) \ {k + 1} = 1 .. k
    BY <1>1, InitialInterval
  <2>2. list[k + 1] = k + 1
    OBVIOUS
  <2> HIDE DEF list
  <2> QED
    BY <2>1, <2>2, <1>4
<1>7. iter[1 .. 0] = DefaultAccount
  BY <1>1, <1>4, InitialInterval
<1> DEFINE h == [k \in 0 .. n |-> iter[1 .. k]]
<1>8. AccountTrace(h, os, es)
  BY <1>1, <1>6, <1>7 DEF AccountTrace
<1>9. AccountReplay(os, es) = h[n]
  BY <1>1, <1>5
<1> QED
  BY <1>8, <1>9

\* Orders keep their intents, and their fills so far.
KeepsFills(os, us) ==
    \A id \in DOMAIN os :
        /\ id \in DOMAIN us /\ us[id].intent = os[id].intent
        /\ \A k \in DOMAIN os[id].fills :
              k \in DOMAIN us[id].fills /\ us[id].fills[k] = os[id].fills[k]

\* An event changes no count of the events before it, and its own if it is a fill.
LEMMA FillsAppended ==
    ASSUME NEW es \in Seq(Event), NEW e \in Event, NEW id
    PROVE  LET fs == Append(es, e) IN
           /\ \A m \in 0 .. Len(es) :
                 FillsBefore(es, id, m) \in Nat /\ FillsBefore(fs, id, m) = FillsBefore(es, id, m)
           /\ FillsBefore(fs, id, Len(es) + 1) = FillsBefore(es, id, Len(es))
                  + (IF e.order = id /\ e.status \in FillEvent THEN 1 ELSE 0)
<1> DEFINE fs == Append(es, e)
           n == Len(es)
           S(gs, m) == {k \in 1 .. m : gs[k].order = id /\ gs[k].status \in FillEvent}
<1>1. n \in Nat /\ fs[n + 1] = e /\ \A k \in 1 .. n : fs[k] = es[k]
  OBVIOUS
<1> HIDE DEF fs, n
<1>2. \A m \in 0 .. n : S(fs, m) = S(es, m)
  BY <1>1
<1>3. \A m \in 0 .. n : IsFiniteSet(S(es, m)) /\ Cardinality(S(es, m)) \in Nat
  <2>1. \A m \in 0 .. n : IsFiniteSet(1 .. m) /\ S(es, m) \subseteq 1 .. m
    BY <1>1, FS_Interval
  <2> QED
    BY <2>1, FS_Subset, FS_CardinalityType
<1>4. n \in 0 .. n
  BY <1>1
<1>5. S(fs, n + 1) \ {n + 1} = S(es, n) \ {n + 1} /\ n + 1 \notin S(es, n)
  BY <1>1
<1>6. n + 1 \in S(fs, n + 1) <=> e.order = id /\ e.status \in FillEvent
  BY <1>1
<1> HIDE DEF S
<1>7. Cardinality(S(fs, n + 1)) = Cardinality(S(es, n))
          + (IF e.order = id /\ e.status \in FillEvent THEN 1 ELSE 0)
  <2>1. Cardinality(S(fs, n + 1)) = Cardinality(S(es, n))
            + (IF n + 1 \in S(fs, n + 1) THEN 1 ELSE 0) - (IF n + 1 \in S(es, n) THEN 1 ELSE 0)
    BY <1>3, <1>4, <1>5, CountMoved
  <2> QED
    BY <1>3, <1>4, <1>5, <1>6, <2>1
<1>8. \A gs, m : FillsBefore(gs, id, m) = Cardinality(S(gs, m))
  BY DEF FillsBefore, S
<1> QED
  BY <1>2, <1>3, <1>7, <1>8 DEF fs, n

\* An event adds one step to the replay of the account.
LEMMA AccountReplayAppend ==
    ASSUME NEW os \in Seq(Order), NEW us \in Seq(Order), NEW es \in Seq(Event),
           NEW e \in Event, FillsLogged(os, es), FillsLogged(us, Append(es, e)),
           KeepsFills(os, us),
           \A n \in DOMAIN os : os[n].intent.symbol \in Executable,
           \A n \in DOMAIN us : us[n].intent.symbol \in Executable
    PROVE  AccountReplay(us, Append(es, e))
               = AccountStep(us, Append(es, e), AccountReplay(os, es), Len(es) + 1)
<1> DEFINE n == Len(es)
           fs == Append(es, e)
<1>1. n \in Nat /\ fs \in Seq(Event) /\ Len(fs) = n + 1
      /\ \A k \in 0 .. n - 1 : fs[k + 1] = es[k + 1] /\ k + 1 \in DOMAIN es
  OBVIOUS
<1>2. PICK h : AccountTrace(h, os, es) /\ AccountReplay(os, es) = h[n]
  BY AccountReplayTrace
<1>3. FillsLogged(us, fs)
  OBVIOUS
<1>4. \A id : \A m \in 0 .. n : FillsBefore(fs, id, m) = FillsBefore(es, id, m)
  BY FillsAppended
<1> HIDE DEF fs
<1>5. PICK g : AccountTrace(g, us, fs) /\ AccountReplay(us, fs) = g[Len(fs)]
  BY <1>1, <1>3, AccountReplayTrace
<1> HIDE DEF n
<1>6. ASSUME NEW k \in 0 .. n - 1, NEW acct
      PROVE  AccountStep(us, fs, acct, k + 1) = AccountStep(os, es, acct, k + 1)
  <2>1. fs[k + 1] = es[k + 1] /\ k + 1 \in DOMAIN es /\ k + 1 \in 0 .. n
    BY <1>1
  <2>2. CASE es[k + 1].status \in FillEvent /\ es[k + 1].order # AllOrders
    <3> DEFINE id == es[k + 1].order
               c == FillsBefore(es, id, k + 1)
    <3>1. id \in DOMAIN os /\ c \in DOMAIN os[id].fills
      BY <2>1, <2>2 DEF FillsLogged
    <3>2. us[id].intent = os[id].intent /\ us[id].fills[c] = os[id].fills[c]
      BY <3>1 DEF KeepsFills
    <3>3. FillsBefore(fs, id, k + 1) = c
      BY <1>4, <2>1
    <3> QED
      BY <2>1, <2>2, <3>2, <3>3 DEF AccountStep
  <2>3. CASE ~(es[k + 1].status \in FillEvent /\ es[k + 1].order # AllOrders)
    BY <2>1, <2>3 DEF AccountStep
  <2> QED
    BY <2>2, <2>3
<1>7. \A k \in 0 .. n : g[k] = h[k]
  <2> DEFINE T == {j \in 0 .. n : g[j] = h[j]}
  <2>1. 0 \in T
    BY <1>1, <1>2, <1>5 DEF AccountTrace
  <2>2. ASSUME NEW k \in 0 .. n - 1, k \in T PROVE k + 1 \in T
    <3>1. h[k + 1] = AccountStep(os, es, h[k], k + 1)
      BY <1>1, <1>2 DEF AccountTrace, n
    <3>2. k \in 0 .. Len(fs) - 1 /\ g[k + 1] = AccountStep(us, fs, g[k], k + 1)
      BY <1>1, <1>5 DEF AccountTrace
    <3>3. g[k] = h[k] /\ k + 1 \in 0 .. n
      BY <1>1, <2>2
    <3>4. g[k + 1] = h[k + 1]
      BY <1>6, <3>1, <3>2, <3>3
    <3> QED
      BY <3>3, <3>4
  <2> HIDE DEF T
  <2>3. \A k \in 0 .. n : k \in T
    BY <1>1, <2>1, <2>2, InductionTo
  <2> QED
    BY <2>3 DEF T
<1>8. g[n + 1] = AccountStep(us, fs, g[n], n + 1)
  <2>1. n \in 0 .. Len(fs) - 1
    BY <1>1
  <2> QED
    BY <1>5, <2>1 DEF AccountTrace
<1>9. n \in 0 .. n
  BY <1>1
<1> QED
  BY <1>1, <1>2, <1>5, <1>7, <1>8, <1>9 DEF fs, n

\* A logged event, with the fills of the lists around it.
LEMMA FillsLoggedAppend ==
    ASSUME NEW os \in Seq(Order), NEW us \in Seq(Order), NEW es \in Seq(Event),
           NEW e \in Event, FillsLogged(os, es), KeepsFills(os, us),
           e.status \in FillEvent /\ e.order # AllOrders => e.order \in DOMAIN os,
           \A id \in DOMAIN us :
               Len(us[id].fills) = (IF id \in DOMAIN os THEN Len(os[id].fills) ELSE 0)
                                   + (IF e.order = id /\ e.status \in FillEvent THEN 1 ELSE 0)
    PROVE  FillsLogged(us, Append(es, e))
<1> DEFINE n == Len(es)
           fs == Append(es, e)
<1>1. n \in Nat /\ DOMAIN es = 1 .. n /\ DOMAIN fs = 1 .. n + 1 /\ Len(fs) = n + 1
      /\ fs[n + 1] = e /\ \A k \in 1 .. n : fs[k] = es[k]
  OBVIOUS
<1>2. \A id : /\ \A m \in 0 .. n : FillsBefore(es, id, m) \in Nat
                                   /\ FillsBefore(fs, id, m) = FillsBefore(es, id, m)
              /\ FillsBefore(fs, id, n + 1) = FillsBefore(es, id, n)
                     + (IF e.order = id /\ e.status \in FillEvent THEN 1 ELSE 0)
  BY FillsAppended
<1> HIDE DEF fs, n
<1>3. ASSUME NEW id \in DOMAIN us
      PROVE  FillsBefore(fs, id, n + 1) = Len(us[id].fills)
  <2>1. CASE id \in DOMAIN os
    <3>1. FillsBefore(es, id, n) = Len(os[id].fills)
      BY <2>1 DEF FillsLogged, n
    <3> QED
      BY <1>2, <2>1, <3>1
  <2>2. CASE id \notin DOMAIN os
    <3>1. id # AllOrders
      BY DEF AllOrders
    <3>2. \A k \in 1 .. n : ~(es[k].order = id /\ es[k].status \in FillEvent)
      BY <1>1, <2>2, <3>1 DEF FillsLogged
    <3>3. FillsBefore(es, id, n) = 0
      <4>1. {k \in 1 .. n : es[k].order = id /\ es[k].status \in FillEvent} = {}
        BY <3>2
      <4> QED
        BY <4>1, FS_EmptySet DEF FillsBefore
    <3> QED
      BY <1>2, <2>2, <3>3
  <2> QED
    BY <2>1, <2>2
<1>4. ASSUME NEW m \in DOMAIN fs, fs[m].status \in FillEvent, fs[m].order # AllOrders
      PROVE  /\ fs[m].order \in DOMAIN us
             /\ FillsBefore(fs, fs[m].order, m) \in DOMAIN us[fs[m].order].fills
  <2> DEFINE id == fs[m].order
  <2>1. CASE m \in 1 .. n
    <3>1. id \in DOMAIN os /\ FillsBefore(es, id, m) \in DOMAIN os[id].fills
      BY <1>1, <1>4, <2>1 DEF FillsLogged
    <3>2. FillsBefore(fs, id, m) = FillsBefore(es, id, m)
      <4>1. m \in 0 .. n
        BY <1>1, <2>1
      <4> QED
        BY <1>2, <4>1
    <3> QED
      BY <3>1, <3>2 DEF KeepsFills
  <2>2. CASE m = n + 1
    <3>1. id = e.order /\ e.status \in FillEvent /\ id \in DOMAIN os
      BY <1>1, <1>4, <2>2
    <3>2. id \in DOMAIN us /\ us[id] \in Order
      BY <3>1 DEF KeepsFills
    <3>3. FillsBefore(fs, id, m) = Len(us[id].fills)
      BY <1>3, <2>2, <3>2
    <3> HIDE DEF id
    <3>4. os[id] \in Order
      BY <3>1
    <3>5. us[id].fills \in Seq(Int) /\ os[id].fills \in Seq(Int)
      BY <3>2, <3>4 DEF Order
    <3>7. Len(us[id].fills) = Len(os[id].fills) + 1
      BY <3>1, <3>2, <3>5
    <3>6. Len(us[id].fills) \in DOMAIN us[id].fills
      BY <3>5, <3>7
    <3> QED
      BY <3>2, <3>3, <3>6 DEF id
  <2> QED
    BY <1>1, <1>4, <2>1, <2>2
<1> QED
  BY <1>1, <1>3, <1>4 DEF FillsLogged, fs

\* The account is what the log makes of it, and the log has every fill.
AccountLogged ==
    /\ FillsLogged(orders, events)
    /\ account = AccountReplay(orders, events)

\* What the invariant says of the lists.
LEMMA ListTypes ==
    ASSUME IInv
    PROVE  /\ orders \in Seq(Order) /\ events \in Seq(Event)
           /\ \A n \in DOMAIN orders : orders[n].intent.symbol \in Executable
BY DEF IInv, TypeOK, OrderLifecycle, LifecycleOf

\* A step that logs an event, and makes of the account what its replay does.
LEMMA LoggedAccount ==
    ASSUME IInv, IInv', AccountLogged, NEW e \in Event, events' = Append(events, e),
           KeepsFills(orders, orders'),
           e.status \in FillEvent /\ e.order # AllOrders => e.order \in DOMAIN orders,
           \A id \in DOMAIN orders' :
               Len(orders'[id].fills) = (IF id \in DOMAIN orders THEN Len(orders[id].fills) ELSE 0)
                   + (IF e.order = id /\ e.status \in FillEvent THEN 1 ELSE 0),
           account' = AccountStep(orders', Append(events, e), account, Len(events) + 1)
    PROVE  AccountLogged'
<1>1. orders \in Seq(Order) /\ events \in Seq(Event)
      /\ \A n \in DOMAIN orders : orders[n].intent.symbol \in Executable
  BY ListTypes
<1>2. orders' \in Seq(Order) /\ \A n \in DOMAIN orders' : orders'[n].intent.symbol \in Executable
  BY DEF IInv, TypeOK, OrderLifecycle, LifecycleOf
<1>3. FillsLogged(orders', Append(events, e))
  BY <1>1, <1>2, FillsLoggedAppend DEF AccountLogged
<1>4. AccountReplay(orders', Append(events, e)) = account'
  BY <1>1, <1>2, <1>3, AccountReplayAppend DEF AccountLogged
<1> QED
  BY <1>3, <1>4 DEF AccountLogged

\* An event that is no order's fill leaves the account as it is, or flattens it.
LEMMA NoFillLogged ==
    ASSUME IInv, IInv', AccountLogged, NEW id \in Nat, NEW s \in EventStatus, Record(id, s),
           s \notin FillEvent \/ id = AllOrders,
           account' = IF s \in FillEvent THEN DefaultAccount ELSE account,
           DOMAIN orders \subseteq DOMAIN orders',
           \A n \in DOMAIN orders :
               orders'[n].intent = orders[n].intent /\ orders'[n].fills = orders[n].fills,
           \A n \in DOMAIN orders' \ DOMAIN orders : orders'[n].fills = <<>>
    PROVE  AccountLogged'
<1> DEFINE e == [order |-> id, status |-> s]
           fs == Append(events, e)
<1>1. e \in Event /\ e.order = id /\ e.status = s /\ events' = fs
  BY DEF Event, Record
<1>2. orders \in Seq(Order) /\ events \in Seq(Event)
  BY ListTypes
<1>2a. orders' \in Seq(Order)
  BY DEF IInv, TypeOK
<1> HIDE DEF e
<1>3. fs[Len(events) + 1] = e
  BY <1>1, <1>2
<1> HIDE DEF fs
<1>4. account' = AccountStep(orders', fs, account, Len(events) + 1)
  BY <1>1, <1>3 DEF AccountStep
<1>5. KeepsFills(orders, orders')
  BY DEF KeepsFills
<1>6. ASSUME NEW n \in DOMAIN orders'
      PROVE  Len(orders'[n].fills) = (IF n \in DOMAIN orders THEN Len(orders[n].fills) ELSE 0)
                 + (IF e.order = n /\ e.status \in FillEvent THEN 1 ELSE 0)
  <2>1. orders'[n] \in Order /\ n # AllOrders
    BY <1>2a DEF AllOrders
  <2>2. orders'[n].fills \in Seq(Int)
    BY <2>1 DEF Order
  <2>3. ~(e.order = n /\ e.status \in FillEvent)
    BY <1>1, <2>1
  <2>4. CASE n \in DOMAIN orders
    <3>1. Len(orders'[n].fills) = Len(orders[n].fills) /\ Len(orders'[n].fills) \in Nat
      BY <2>2, <2>4
    <3>2. (IF n \in DOMAIN orders THEN Len(orders[n].fills) ELSE 0) = Len(orders[n].fills)
      BY <2>4, Zenon
    <3>3. (IF e.order = n /\ e.status \in FillEvent THEN 1 ELSE 0) = 0
      BY <2>3, Zenon
    <3>4. Len(orders'[n].fills) = Len(orders[n].fills) + 0
      BY <3>1
    <3> QED
      BY <3>2, <3>3, <3>4, Zenon
  <2>5. CASE n \notin DOMAIN orders
    BY <2>3, <2>5
  <2> QED
    BY <2>4, <2>5
<1>7. ~(e.status \in FillEvent /\ e.order # AllOrders)
  BY <1>1
<1> QED
  BY <1>1, <1>4, <1>5, <1>6, <1>7, LoggedAccount DEF fs

\* A fill of a pass is logged and reaches the account.
LEMMA FillAccountLogged ==
    ASSUME IInv, IInv', AccountLogged, ProcessFill
    PROVE  AccountLogged'
<1> DEFINE o == orders[cursor]
           q == PassQuantity(o)
           u == FilledOrder(o, q)
           s == IF u.status = "FILLED" THEN "MATCHED" ELSE "PARTIALLY_FILLED"
           e == [order |-> cursor, status |-> s]
           fs == Append(events, e)
<1>1. /\ cursor \in DOMAIN orders /\ o \in Order /\ o.id = cursor /\ u \in Order
      /\ snapshot[cursor] = o
      /\ orders' = [orders EXCEPT ![cursor] = u]
  BY ProcessFillOrders
<1>2. account' = ApplyPaperFill(account, o.intent, q) /\ events' = fs
  BY <1>1 DEF ProcessFill, Record
<1>3. u.intent = o.intent /\ u.fills = Append(o.fills, q)
  BY DEF FilledOrder
<1>4. q \in Int /\ o.fills \in Seq(Int)
  BY <1>1, PassQuantityType DEF Order
<1>5. e \in Event /\ e.order = cursor /\ e.status = s /\ s \in FillEvent /\ cursor # AllOrders
  BY <1>1, ListTypes DEF Event, EventStatus, FillEvent, AllOrders
<1>6. orders \in Seq(Order) /\ events \in Seq(Event) /\ orders' \in Seq(Order)
  BY DEF IInv, TypeOK
<1> HIDE DEF u, q, o, e, s
<1>7. DOMAIN orders' = DOMAIN orders /\ orders'[cursor] = u
      /\ \A n \in DOMAIN orders : n # cursor => orders'[n] = orders[n]
  BY <1>1, <1>6
<1>8. /\ Len(u.fills) = Len(o.fills) + 1 /\ Len(o.fills) \in Nat
      /\ u.fills[Len(o.fills) + 1] = q
      /\ \A k \in DOMAIN o.fills : k \in DOMAIN u.fills /\ u.fills[k] = o.fills[k]
  BY <1>3, <1>4
<1>9. KeepsFills(orders, orders')
  BY <1>3, <1>7, <1>8 DEF KeepsFills, o
<1>10. ASSUME NEW n \in DOMAIN orders'
       PROVE  Len(orders'[n].fills) = (IF n \in DOMAIN orders THEN Len(orders[n].fills) ELSE 0)
                  + (IF e.order = n /\ e.status \in FillEvent THEN 1 ELSE 0)
  <2>1. CASE n = cursor
    BY <1>1, <1>5, <1>7, <1>8, <2>1 DEF o
  <2>2. CASE n # cursor
    <3>1. orders[n] \in Order /\ orders'[n] = orders[n]
      BY <1>6, <1>7, <2>2
    <3>2. Len(orders[n].fills) \in Nat
      BY <3>1 DEF Order
    <3>3. Len(orders'[n].fills) = Len(orders[n].fills) /\ ~(e.order = n /\ e.status \in FillEvent)
      BY <1>5, <2>2, <3>1
    <3>4. n \in DOMAIN orders
      BY <1>7
    <3>5. (IF n \in DOMAIN orders THEN Len(orders[n].fills) ELSE 0) = Len(orders[n].fills)
      BY <3>4, Zenon
    <3>6. (IF e.order = n /\ e.status \in FillEvent THEN 1 ELSE 0) = 0
      BY <3>3, Zenon
    <3>7. Len(orders'[n].fills) = Len(orders[n].fills) + 0
      BY <3>2, <3>3
    <3> QED
      BY <3>5, <3>6, <3>7, Zenon
  <2> QED
    BY <2>1, <2>2
<1>11. FillsBefore(fs, cursor, Len(events) + 1) = Len(o.fills) + 1
  <2>1. FillsBefore(fs, cursor, Len(events) + 1)
            = FillsBefore(events, cursor, Len(events)) + 1
    BY <1>5, <1>6, FillsAppended
  <2>2. FillsBefore(events, cursor, Len(events)) = Len(o.fills)
    BY <1>1 DEF AccountLogged, FillsLogged, o
  <2> QED
    BY <2>1, <2>2
<1>12. fs[Len(events) + 1] = e
  BY <1>5, <1>6
<1> HIDE DEF fs
<1>13. account' = AccountStep(orders', fs, account, Len(events) + 1)
  BY <1>2, <1>3, <1>5, <1>7, <1>8, <1>11, <1>12 DEF AccountStep
<1> QED
  BY <1>1, <1>2, <1>5, <1>9, <1>10, <1>13, LoggedAccount DEF fs

\* An empty log has made the account of the boot.
LEMMA EmptyLog ==
    FillsLogged(<<>>, <<>>) /\ AccountReplay(<<>>, <<>>) = DefaultAccount
<1>1. <<>> \in Seq(Order) /\ <<>> \in Seq(Event) /\ Len(<<>>) = 0 /\ DOMAIN <<>> = {}
  OBVIOUS
<1>2. FillsLogged(<<>>, <<>>)
  BY <1>1 DEF FillsLogged
<1>3. PICK h : AccountTrace(h, <<>>, <<>>) /\ AccountReplay(<<>>, <<>>) = h[Len(<<>>)]
  BY <1>1, <1>2, AccountReplayTrace
<1> QED
  BY <1>1, <1>2, <1>3 DEF AccountTrace

\* The replay of the account follows every step.
LEMMA NextAccountLogged ==
    ASSUME IInv, IInv', AccountLogged, [Next]_vars
    PROVE  AccountLogged'
<1>0. orders \in Seq(Order) /\ events \in Seq(Event) /\ Len(orders) \in Nat
  BY ListTypes
<1>0a. {"RESTING", "REJECTED", "EXPIRED", "CANCELED"} \subseteq EventStatus \ FillEvent
       /\ "MATCHED" \in EventStatus \cap FillEvent /\ AllOrders \in Nat
  BY DEF EventStatus, FillEvent, AllOrders
<1>1. ASSUME NEW i \in Intents, SubmitAccepted(i) PROVE AccountLogged'
  <2> DEFINE o == NewOrder(Len(orders) + 1, i)
  <2>1. o \in Order /\ o.fills = <<>>
    BY <1>0 DEF NewOrder, Order, OpenStatus
  <2>2. orders' = Append(orders, o) /\ Record(Len(orders) + 1, "RESTING") /\ account' = account
    BY <1>1 DEF SubmitAccepted, NextOrderId
  <2> HIDE DEF o
  <2>3. /\ DOMAIN orders = 1 .. Len(orders) /\ DOMAIN orders' = 1 .. Len(orders) + 1
        /\ \A n \in DOMAIN orders : orders'[n] = orders[n]
        /\ orders'[Len(orders) + 1] = o
    BY <1>0, <2>1, <2>2, AppendElements
  <2>4. \A n \in DOMAIN orders' \ DOMAIN orders : orders'[n].fills = <<>>
    <3>1. \A n \in DOMAIN orders' \ DOMAIN orders : n = Len(orders) + 1
      BY <1>0, <2>3
    <3> QED
      BY <2>1, <2>3, <3>1
  <2>5. DOMAIN orders \subseteq DOMAIN orders' /\ Len(orders) + 1 \in Nat
    BY <1>0, <2>3
  <2> QED
    BY <1>0a, <2>2, <2>3, <2>4, <2>5, NoFillLogged
<1>2. ASSUME NEW i \in Intents, SubmitRejected(i) PROVE AccountLogged'
  <2>1. orders' = orders /\ account' = account /\ Record(Len(orders) + 1, "REJECTED")
        /\ Len(orders) + 1 \in Nat
    BY <1>0, <1>2 DEF SubmitRejected, NextOrderId
  <2> QED
    BY <1>0a, <2>1, NoFillLogged
<1>3. CASE ProcessFill
  BY <1>3, FillAccountLogged
<1>4. ASSUME NEW n \in DOMAIN orders, ExpireOrder(n) \/ CancelOrder(n) PROVE AccountLogged'
  <2>1. orders[n] \in Order /\ orders[n].id = n /\ n \in Nat
    BY <1>0 DEF IInv, OrderLifecycle, OrderIds
  <2>2. PICK s \in {"EXPIRED", "CANCELED"} :
            /\ Record(n, s)
            /\ orders' = [orders EXCEPT ![n] = IF IsOpen(orders[n]) THEN WithStatus(orders[n], s)
                                               ELSE orders[n]]
    BY <1>4, <2>1 DEF ExpireOrder, CancelOrder
  <2>3. account' = account
    BY <1>4 DEF ExpireOrder, CancelOrder
  <2>4. WithStatus(orders[n], s).intent = orders[n].intent
        /\ WithStatus(orders[n], s).fills = orders[n].fills
    BY <2>1, WithStatusFields DEF TerminalStatus
  <2>5. DOMAIN orders' = DOMAIN orders
        /\ \A m \in DOMAIN orders :
              orders'[m].intent = orders[m].intent /\ orders'[m].fills = orders[m].fills
    BY <1>0, <2>2, <2>4
  <2> QED
    BY <1>0a, <2>1, <2>2, <2>3, <2>5, NoFillLogged
<1>5. CASE Reset \/ Restart
  <2>1. orders' = <<>> /\ events' = <<>> /\ account' = DefaultAccount
    BY <1>5 DEF Reset, Restart, Boot
  <2> QED
    BY <2>1, EmptyLog DEF AccountLogged
<1>6. CASE PanicCancelOpenOrders
  <2>1. account' = account /\ Record(AllOrders, "CANCELED") /\ DOMAIN orders' = DOMAIN orders
        /\ \A n \in DOMAIN orders :
              orders'[n] = IF IsOpen(orders[n]) THEN WithStatus(orders[n], "CANCELED")
                           ELSE orders[n]
    BY <1>6 DEF PanicCancelOpenOrders
  <2>2. ASSUME NEW n \in DOMAIN orders
        PROVE  orders'[n].intent = orders[n].intent /\ orders'[n].fills = orders[n].fills
    <3>1. orders[n] \in Order
      BY <1>0
    <3>2. WithStatus(orders[n], "CANCELED").intent = orders[n].intent
          /\ WithStatus(orders[n], "CANCELED").fills = orders[n].fills
      BY <3>1, WithStatusFields DEF TerminalStatus
    <3> QED
      BY <2>1, <3>2
  <2> QED
    BY <1>0a, <2>1, <2>2, NoFillLogged
<1>7. CASE PanicFlattenPositions
  <2>1. account' = DefaultAccount /\ orders' = orders /\ Record(AllOrders, "MATCHED")
    BY <1>7 DEF PanicFlattenPositions
  <2> QED
    BY <1>0a, <2>1, NoFillLogged
<1>8. CASE UNCHANGED <<orders, events, account>>
  BY <1>8 DEF AccountLogged
<1>9. ProcessBegin \/ ProcessSkip \/ ProcessEnd \/ PanicHalt \/ Tick \/ UNCHANGED vars
           => UNCHANGED <<orders, events, account>>
  BY DEF ProcessBegin, ProcessSkip, ProcessEnd, PanicHalt, Tick, vars
<1> QED
  BY <1>1, <1>2, <1>3, <1>4, <1>5, <1>6, <1>7, <1>8, <1>9 DEF Next, Process

\* Every fill reaches the portfolio exactly once and in the order of the log, and nothing
\* but a fill, a flatten, a reset or a restart moves it: replaying the log gives the account.
THEOREM LogReplaysAccountCorrect == Spec => []LogReplaysAccount
<1>1. Init => AccountLogged
  BY EmptyLog DEF Init, Boot, AccountLogged
<1>2. IInv /\ IInv' /\ AccountLogged /\ [Next]_vars => AccountLogged'
  BY NextAccountLogged
<1>3. AccountLogged => LogReplaysAccount
  <2>1. AccountFromLog = AccountReplay(orders, events)
    BY Zenon DEF AccountFromLog, AccountAfter, AccountReplay, AccountStep, FillsOfOrder,
                 FillsBefore, FillEvent
  <2> QED
    BY <2>1 DEF AccountLogged, LogReplaysAccount
<1> QED
  BY <1>1, <1>2, <1>3, InductiveInvariant, PTL DEF Spec
=============================================================================
