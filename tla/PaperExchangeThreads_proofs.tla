--------------------- MODULE PaperExchangeThreads_proofs ---------------------
(***************************************************************************)
(* Proofs about the paper exchange on threads.  On any set of threads: the *)
(* types, the soundness of every order in every interleaving, and the      *)
(* finality of a drained stop.  On one thread: what the handlers have done *)
(* by each of their steps, that between requests the files are current,    *)
(* and that the steps implement the exchange with atomic handlers.         *)
(***************************************************************************)
EXTENDS PaperExchangeSerial, ListLemmas

(* Orders and accounts *)

\* Filling an order gives an order (_fill_order's replace).
LEMMA FilledOrderType ==
    ASSUME NEW o \in Order, NEW q \in Int
    PROVE  FilledOrder(o, q) \in Order
<1>1. (IF o.filled + q >= o.intent.qty THEN "FILLED" ELSE "PARTIALLY_FILLED")
          \in OpenStatus \cup TerminalStatus
  BY DEF OpenStatus, TerminalStatus
<1>2. o.filled + q \in Int /\ Append(o.fills, q) \in Seq(Int)
  BY DEF Order
<1> QED
  BY <1>1, <1>2 DEF FilledOrder, Order

\* The quantity a pass fills is an integer.
LEMMA PassQuantityType ==
    ASSUME NEW o \in Order
    PROVE  PassQuantity(o) \in Int
BY IntentAssumption DEF PassQuantity, RemainingQuantity, Order, Intent

\* apply_paper_fill maps accounts to accounts.
LEMMA ApplyFillType ==
    ASSUME NEW acct \in Account, NEW i \in Intent, NEW q \in Int, i.symbol \in Executable
    PROVE  ApplyPaperFill(acct, i, q) \in Account
<1>1. q * i.price * MakerFee \in Int
  BY FeeAssumption DEF Intent
<1>2. \A book \in Book : UpdatedBook(book, i, q) \in Book
  BY DEF UpdatedBook, Book, Intent
<1>3. <<i.symbol, i.book>> \in BookKeys
  BY DEF BookKeys, Intent
<1> QED
  BY <1>1, <1>2, <1>3 DEF ApplyPaperFill, Account

\* Changing an order's status changes nothing else of it.
LEMMA WithStatusFields ==
    ASSUME NEW o \in Order, NEW s \in OpenStatus \cup TerminalStatus
    PROVE  LET w == WithStatus(o, s) IN
           /\ w \in Order
           /\ w.status = s
           /\ w.id = o.id /\ w.intent = o.intent /\ w.fills = o.fills /\ w.filled = o.filled
BY DEF WithStatus, Order

\* A pass fills no more of a well-formed open order than remains.
LEMMA PassQuantityBound ==
    ASSUME NEW o \in Order, LifecycleOf(o), IsOpen(o)
    PROVE  PassQuantity(o) <= o.intent.qty - o.filled
BY IntentAssumption DEF PassQuantity, RemainingQuantity, LifecycleOf, IsOpen, OpenStatus, Order, Intent

\* A fill of a well-formed open order gives a well-formed order.
LEMMA FilledOrderLifecycle ==
    ASSUME NEW o \in Order, LifecycleOf(o), IsOpen(o), PassQuantity(o) > 0
    PROVE  LifecycleOf(FilledOrder(o, PassQuantity(o)))
<1> DEFINE q == PassQuantity(o)
           u == FilledOrder(o, q)
<1>1. q \in Int /\ q > 0 /\ q <= o.intent.qty - o.filled
  BY PassQuantityType, PassQuantityBound
<1>2. o.intent.qty \in Int /\ o.filled \in Int /\ o.fills \in Seq(Int) /\ o.status \in OpenStatus
  BY IntentAssumption DEF Order, Intent, IsOpen
<1>3. o.status = "PARTIALLY_FILLED" => q = o.intent.qty - o.filled
  BY <1>2 DEF PassQuantity, RemainingQuantity, LifecycleOf
<1>4. u.intent = o.intent /\ u.filled = o.filled + q /\ u.fills = Append(o.fills, q)
      /\ u.status = IF o.filled + q >= o.intent.qty THEN "FILLED" ELSE "PARTIALLY_FILLED"
  BY DEF FilledOrder
<1> SUFFICES LifecycleOf(u)
  OBVIOUS
<1> HIDE DEF q, u
<1>5. CASE o.status = "NEW"
  <2>1. o.fills = <<>> /\ o.filled = 0
    BY <1>5 DEF LifecycleOf, FillsAddUp
  <2>2. Len(u.fills) = 1 /\ u.fills[1] = q /\ u.filled = q
    BY <2>1, <1>1, <1>4
  <2> QED
    BY <2>1, <2>2, <1>1, <1>2, <1>4 DEF LifecycleOf, FillsAddUp
<1>6. CASE o.status = "PARTIALLY_FILLED"
  <2>1. Len(o.fills) = 1 /\ o.filled = o.fills[1] /\ o.filled > 0
    BY <1>2, <1>6 DEF LifecycleOf, FillsAddUp
  <2>2. Len(u.fills) = 2 /\ u.fills[1] = o.fills[1] /\ u.fills[2] = q
    <3>1. /\ Len(Append(o.fills, q)) = Len(o.fills) + 1
          /\ \A n \in 1 .. Len(o.fills) : Append(o.fills, q)[n] = o.fills[n]
          /\ Append(o.fills, q)[Len(o.fills) + 1] = q
      BY <1>1, <1>2, AppendElements
    <3> QED
      BY <3>1, <2>1, <1>4
  <2>3. u.filled = o.intent.qty /\ u.status = "FILLED"
    BY <1>1, <1>2, <1>3, <1>4, <1>6
  <2> QED
    BY <2>1, <2>2, <2>3, <1>1, <1>2, <1>4 DEF LifecycleOf, FillsAddUp
<1> QED
  BY <1>2, <1>5, <1>6 DEF OpenStatus

\* default_account_state is an account with empty books.
LEMMA DefaultAccountType ==
    /\ DefaultAccount \in Account
    /\ \A k \in BookKeys : DefaultAccount.books[k].qty >= 0
BY AccountAssumption DEF DefaultAccount, Account, Book

(* Handlers *)

SoundOrder == {o \in Order : LifecycleOf(o)}

\* The intents an order can come from: preview_order has passed them.
Orderable == {i \in Intents : i.symbol \in Executable /\ i.qty > 0}

Pass == [pc: {"loop"}, snapshot: Seq(SoundOrder), cursor: Nat \ {0}]

\* Where a handler goes after a log entry, and where a fill has to get it.
AfterLog(h) == h.pc \in {"idle", "save"} \/ h \in Pass

LogOK(h) == h.order \in Nat /\ h.status \in Exchange!EventStatus /\ AfterLog(h.then)

ReadAccountOK(h) == h.order \in SoundOrder /\ h.quantity \in Int /\ h.then \in Pass

ApplyOK(h) == h.order \in SoundOrder /\ h.account \in Account /\ h.then \in Pass

\* A list assigned by a fill is followed by the fill of the account, any other one
\* by the last log entry of its handler.
SwapOK(h) ==
    /\ h.list \in Seq(SoundOrder)
    /\ \/ h.then.pc = "log" /\ LogOK(h.then) /\ h.then.then.pc \in {"idle", "save"}
       \/ h.then.pc = "read account" /\ ReadAccountOK(h.then)

PayloadOK(file, data) ==
    /\ file = "orders" => data \in Seq(Order)
    /\ file = "reconciliation" => data \in Seq(Exchange!Event)
    /\ file = "portfolio" => data \in Account
    /\ file = "latest" => data \in [orders: Nat, events: Nat, account: Account, halted: BOOLEAN]

\* What a handler has read and computed, at each place of it: every order it carries
\* is sound, and an order it is about to close is closed.
HandlerOK(h) ==
    /\ h.pc \in ThreadPcs
    /\ h.pc = "number" => h.intent \in Intents /\ (h.accepted => h.intent \in Orderable)
    /\ h.pc \in {"risk", "append"} => h \in [pc: {"risk", "append"}, intent: Orderable, id: Nat]
    /\ h.pc = "loop" => h \in Pass
    /\ h.pc = "log" => LogOK(h)
    /\ h.pc = "read account" => ReadAccountOK(h)
    /\ h.pc = "apply" => ApplyOK(h)
    /\ h.pc = "swap" => SwapOK(h)
    /\ h.pc = "rebuild" => h.order \in SoundOrder /\ h.order.status = "CANCELED"
    /\ h.pc = "expire" =>
          h.index \in Nat \ {0} /\ h.order \in SoundOrder /\ h.order.status = "EXPIRED"
    /\ h.pc = "write" => h.file \in 1 .. 4 /\ PayloadOK(FileOrder[h.file], h.data)

MemoryOK ==
    /\ account \in Account
    /\ orders \in Seq(SoundOrder)
    /\ events \in Seq(Exchange!Event)
    /\ halted \in BOOLEAN
    /\ riskState \in RiskState
    /\ calls \in 0 .. MaxCalls

FileNames == {"orders", "reconciliation", "portfolio", "latest"}

FilesOK == DOMAIN files = FileNames /\ \A f \in FileNames : PayloadOK(f, files[f])

\* The inductive invariant.  OrdersSound alone is not inductive: most of what is put
\* into the list comes from what a handler read some steps before.
TInv ==
    /\ MemoryOK
    /\ FilesOK
    /\ DOMAIN thread = Threads
    /\ \A t \in Threads : HandlerOK(thread[t])

-----------------------------------------------------------------------------
\* The plain handler states.
LEMMA PlainPc ==
    \A p \in {"idle", "save", "clear orders", "clear events", "resume", "veto"} :
        [pc |-> p].pc = p /\ HandlerOK([pc |-> p])
<1> SUFFICES ASSUME NEW p \in {"idle", "save", "clear orders", "clear events", "resume", "veto"}
             PROVE  [pc |-> p].pc = p /\ HandlerOK([pc |-> p])
  OBVIOUS
<1> DEFINE h == [pc |-> p]
<1>1. h.pc = p
  OBVIOUS
<1> HIDE DEF h
<1>2. HandlerOK(h)
  BY <1>1 DEF HandlerOK, ThreadPcs
<1> QED
  BY <1>1, <1>2 DEF h

\* The end of a handler is a plain state.
LEMMA SavingPc == Saving.pc \in {"idle", "save"} /\ HandlerOK(Saving) /\ Idle.pc = "idle" /\ HandlerOK(Idle)
<1>1. Idle.pc = "idle" /\ HandlerOK(Idle)
  BY PlainPc, Zenon DEF Idle
<1>2. CASE Stored
  <2>1. Saving = [pc |-> "save"]
    BY <1>2 DEF Saving
  <2> QED
    BY <1>1, <2>1, PlainPc
<1>3. CASE ~Stored
  <2>1. Saving = Idle
    BY <1>3 DEF Saving
  <2> QED
    BY <1>1, <2>1
<1> QED
  BY <1>2, <1>3

\* A handler that is about to log.
LEMMA LoggingOK ==
    ASSUME NEW id \in Nat, NEW st \in Exchange!EventStatus, NEW then, AfterLog(then)
    PROVE  LET h == Logging(id, st, then) IN
           /\ h.pc = "log" /\ h.then = then /\ LogOK(h) /\ HandlerOK(h)
<1> DEFINE h == Logging(id, st, then)
<1>1. h.pc = "log" /\ h.order = id /\ h.status = st /\ h.then = then
  BY DEF Logging
<1> HIDE DEF h
<1>2. LogOK(h)
  BY <1>1 DEF LogOK
<1>3. HandlerOK(h)
  BY <1>1, <1>2 DEF HandlerOK, ThreadPcs
<1> QED
  BY <1>1, <1>2, <1>3 DEF h

\* Sound orders are orders, and the elements of a list of them are sound.
LEMMA SoundElements ==
    ASSUME NEW s \in Seq(SoundOrder)
    PROVE  /\ s \in Seq(Order)
           /\ DOMAIN s = 1 .. Len(s) /\ Len(s) \in Nat
           /\ \A n \in DOMAIN s : s[n] \in SoundOrder /\ s[n] \in Order /\ LifecycleOf(s[n])
BY DEF SoundOrder

\* A handler that is about to assign a list.
LEMMA SwappingOK ==
    ASSUME NEW list \in Seq(SoundOrder), NEW then,
           \/ then.pc = "log" /\ LogOK(then) /\ then.then.pc \in {"idle", "save"}
           \/ then.pc = "read account" /\ ReadAccountOK(then)
    PROVE  HandlerOK(Swapping(list, then))
<1> DEFINE h == Swapping(list, then)
<1>1. h.pc = "swap" /\ h.list = list /\ h.then = then
  BY DEF Swapping
<1> HIDE DEF h
<1>2. SwapOK(h)
  BY <1>1 DEF SwapOK
<1>3. HandlerOK(h)
  BY <1>1, <1>2 DEF HandlerOK, ThreadPcs
<1> QED
  BY <1>3 DEF h

\* The list that _fill_order and cancel_order build holds the new order and old ones.
LEMMA RebuiltSound ==
    ASSUME MemoryOK, NEW o \in SoundOrder
    PROVE  /\ Rebuilt(o) \in Seq(SoundOrder)
           /\ DOMAIN Rebuilt(o) = DOMAIN orders
           /\ \A n \in DOMAIN orders : Rebuilt(o)[n] \in {o, orders[n]}
<1>1. orders \in Seq(SoundOrder) /\ \A n \in DOMAIN orders : orders[n] \in SoundOrder
  BY SoundElements DEF MemoryOK
<1>2. Rebuilt(o) \in [DOMAIN orders -> SoundOrder]
  BY <1>1 DEF Rebuilt
<1>3. \A n \in DOMAIN orders : Rebuilt(o)[n] \in {o, orders[n]}
  BY DEF Rebuilt
<1>4. Rebuilt(o) \in Seq(SoundOrder)
  BY <1>1, <1>2, MappedSequence
<1> QED
  BY <1>2, <1>3, <1>4

\* Closing a sound open order gives a sound closed one.
LEMMA ClosedSound ==
    ASSUME NEW o \in SoundOrder, IsOpen(o), NEW s \in {"CANCELED", "EXPIRED"}
    PROVE  WithStatus(o, s) \in SoundOrder /\ WithStatus(o, s).status = s
           /\ WithStatus(o, s).id = o.id
<1> DEFINE w == WithStatus(o, s)
<1>1. o \in Order /\ LifecycleOf(o)
  BY DEF SoundOrder
<1>2. s \in OpenStatus \cup TerminalStatus
  BY DEF TerminalStatus
<1>3. /\ w \in Order /\ w.status = s /\ w.id = o.id /\ w.intent = o.intent
      /\ w.fills = o.fills /\ w.filled = o.filled
  BY <1>1, <1>2, WithStatusFields
<1> HIDE DEF w
<1>4. LifecycleOf(w)
  BY <1>1, <1>3 DEF LifecycleOf, FillsAddUp, IsOpen, OpenStatus
<1>5. w \in SoundOrder
  BY <1>3, <1>4 DEF SoundOrder
<1> QED
  BY <1>3, <1>5 DEF w

\* A step of one thread: it is enough to look at what it leaves behind.
LEMMA StepTInv ==
    ASSUME TInv, NEW t \in Threads, NEW h, HandlerOK(h), Go(t, h), MemoryOK', FilesOK'
    PROVE  TInv'
BY DEF TInv, Go

\* The same for a step that leaves the memory and the files alone.
LEMMA LocalTInv ==
    ASSUME TInv, NEW t \in Threads, NEW h, HandlerOK(h), Go(t, h), UNCHANGED memory,
           UNCHANGED files, UNCHANGED calls \/ (Called(t) /\ calls' = calls + 1)
    PROVE  TInv'
<1>1. MemoryOK'
  <2>1. calls' \in 0 .. MaxCalls
    BY ThreadAssumption DEF TInv, MemoryOK, Called
  <2> QED
    BY <2>1 DEF TInv, MemoryOK, memory
<1>2. FilesOK'
  BY DEF TInv, FilesOK
<1> QED
  BY <1>1, <1>2, StepTInv

\* The constants of the instantiated exchange are this module's.
LEMMA SameDefaults ==
    Exchange!DefaultAccount = DefaultAccount /\ Exchange!DefaultRiskState = DefaultRiskState
BY DEF Exchange!DefaultAccount, DefaultAccount, Exchange!BookKeys, BookKeys,
       Exchange!BookSides, BookSides, Exchange!DefaultRiskState, DefaultRiskState

\* The boot state: empty lists, the default account, the files of a fresh store.
LEMMA InitTInv == Init => TInv
<1> SUFFICES ASSUME Init PROVE TInv
  OBVIOUS
<1>1. <<>> \in Seq(SoundOrder) /\ <<>> \in Seq(Order) /\ <<>> \in Seq(Exchange!Event) /\ Len(<<>>) = 0
  OBVIOUS
<1>2. DefaultRiskState \in RiskState
  BY DEF DefaultRiskState, RiskState
<1>3. MemoryOK
  <2>1. account = DefaultAccount /\ orders = <<>> /\ events = <<>> /\ halted = FALSE
        /\ riskState = DefaultRiskState
    BY SameDefaults DEF Init, Exchange!Boot
  <2>2. calls \in 0 .. MaxCalls
    BY ThreadAssumption DEF Init
  <2> QED
    BY <1>1, <1>2, <2>1, <2>2, DefaultAccountType DEF MemoryOK
<1>4. {FileOrder[k] : k \in 1 .. 4} = FileNames
  <2>1. FileOrder[1] = "orders" /\ FileOrder[2] = "reconciliation" /\ FileOrder[3] = "portfolio"
        /\ FileOrder[4] = "latest"
    BY DEF FileOrder
  <2> QED
    BY <2>1 DEF FileNames
<1>5. \A f \in FileNames : PayloadOK(f, PayloadOf(f, DefaultAccount, <<>>, <<>>, FALSE))
  BY <1>1, DefaultAccountType DEF PayloadOK, PayloadOf, FileNames
<1>6. FilesOK
  BY <1>4, <1>5 DEF Init, FilesOK
<1>7. DOMAIN thread = Threads /\ \A t \in Threads : HandlerOK(thread[t])
  BY SavingPc DEF Init
<1> QED
  BY <1>3, <1>6, <1>7 DEF TInv

-----------------------------------------------------------------------------
(* submit_order *)

\* A preview that is accepted has an executable symbol and a quantity.
LEMMA SubmitTInv ==
    ASSUME TInv, NEW t \in Threads, NEW i \in Intents, Submit(t, i)
    PROVE  TInv'
<1> DEFINE h == [pc |-> "number", intent |-> i, accepted |-> Exchange!PreviewAccepts(i)]
<1>1. Exchange!PreviewAccepts(i) => i \in Orderable
  BY DEF Exchange!PreviewAccepts, Exchange!FitsFilters, Orderable
<1>2. h.pc = "number" /\ h.intent = i /\ h.accepted = Exchange!PreviewAccepts(i)
  OBVIOUS
<1> HIDE DEF h
<1>3. HandlerOK(h)
  BY <1>1, <1>2 DEF HandlerOK, ThreadPcs
<1>4. Go(t, h) /\ Called(t) /\ UNCHANGED <<memory, files>>
  BY DEF Submit, h
<1> QED
  BY <1>3, <1>4, LocalTInv DEF Called

\* The number is read; a rejected intent is only logged under it.
LEMMA NumberOrderTInv ==
    ASSUME TInv, NEW t \in Threads, NumberOrder(t)
    PROVE  TInv'
<1> DEFINE id == Len(orders) + 1
           r == [pc |-> "risk", intent |-> thread[t].intent, id |-> id]
           l == Logging(id, "REJECTED", Saving)
<1>1. id \in Nat
  BY SoundElements DEF TInv, MemoryOK
<1>2. thread[t].accepted => thread[t].intent \in Orderable
  BY DEF TInv, HandlerOK, NumberOrder, At
<1>3. HandlerOK(l)
  BY <1>1, SavingPc, LoggingOK DEF AfterLog, Exchange!EventStatus
<1>4. ASSUME thread[t].accepted PROVE HandlerOK(r)
  <2>1. r \in [pc: {"risk", "append"}, intent: Orderable, id: Nat] /\ r.pc = "risk"
    BY <1>1, <1>2, <1>4
  <2> HIDE DEF r
  <2> QED
    BY <2>1 DEF HandlerOK, ThreadPcs
<1>5. PICK h \in {r, l} : HandlerOK(h) /\ Go(t, h)
  <2>1. CASE thread[t].accepted
    BY <1>4, <2>1 DEF NumberOrder
  <2>2. CASE ~thread[t].accepted
    BY <1>3, <2>2 DEF NumberOrder
  <2> QED
    BY <2>1, <2>2
<1> QED
  BY <1>5, LocalTInv DEF NumberOrder

\* The veto of the risk engine, on the account as it is now.
LEMMA EvaluateRiskTInv ==
    ASSUME TInv, NEW t \in Threads, EvaluateRisk(t)
    PROVE  TInv'
<1> DEFINE r == [thread[t] EXCEPT !.pc = "append"]
           l == Logging(thread[t].id, "REJECTED", Saving)
<1>1. thread[t] \in [pc: {"risk", "append"}, intent: Orderable, id: Nat]
  BY DEF TInv, HandlerOK, EvaluateRisk, At
<1>2. HandlerOK(l)
  BY <1>1, SavingPc, LoggingOK DEF AfterLog, Exchange!EventStatus
<1>3. HandlerOK(r)
  <2>1. r \in [pc: {"risk", "append"}, intent: Orderable, id: Nat] /\ r.pc = "append"
    BY <1>1
  <2> HIDE DEF r
  <2> QED
    BY <2>1 DEF HandlerOK, ThreadPcs
<1>4. Go(t, r) \/ Go(t, l)
  BY DEF EvaluateRisk
<1> QED
  BY <1>2, <1>3, <1>4, LocalTInv DEF EvaluateRisk

\* A new order is sound, whatever number it got.
LEMMA AppendOrderTInv ==
    ASSUME TInv, NEW t \in Threads, AppendOrder(t)
    PROVE  TInv'
<1> DEFINE o == NewOrder(thread[t].id, thread[t].intent)
           l == Logging(thread[t].id, "RESTING", Saving)
<1>1. thread[t].intent \in Orderable /\ thread[t].id \in Nat
  BY DEF TInv, HandlerOK, AppendOrder, At
<1>2. o \in SoundOrder
  <2>1. o \in Order
    BY <1>1 DEF NewOrder, Order, OpenStatus, Orderable
  <2>2. thread[t].intent \in Intents /\ thread[t].intent.qty \in Int
    BY <1>1, IntentAssumption DEF Orderable, Intent
  <2>3. LifecycleOf(o)
    BY <1>1, <2>2 DEF NewOrder, Orderable, LifecycleOf, FillsAddUp
  <2> QED
    BY <2>1, <2>3 DEF SoundOrder
<1>3. HandlerOK(l)
  BY <1>1, SavingPc, LoggingOK DEF AfterLog, Exchange!EventStatus
<1>4. orders' \in Seq(SoundOrder)
  BY <1>2, AppendElements DEF AppendOrder, TInv, MemoryOK
<1>5. MemoryOK' /\ FilesOK'
  BY <1>4 DEF AppendOrder, TInv, MemoryOK, FilesOK
<1> QED
  BY <1>3, <1>5, StepTInv DEF AppendOrder

-----------------------------------------------------------------------------
(* process_open_orders *)

\* The list itself is the snapshot.
LEMMA ProcessOpenOrdersTInv ==
    ASSUME TInv, NEW t \in Threads, ProcessOpenOrders(t)
    PROVE  TInv'
<1> DEFINE h == [pc |-> "loop", snapshot |-> orders, cursor |-> 1]
<1>1. h \in Pass /\ h.pc = "loop"
  BY DEF TInv, MemoryOK, Pass
<1> HIDE DEF h
<1>2. HandlerOK(h)
  BY <1>1 DEF HandlerOK, ThreadPcs
<1>3. Go(t, h) /\ Called(t) /\ UNCHANGED <<memory, files>>
  BY DEF ProcessOpenOrders, h
<1> QED
  BY <1>2, <1>3, LocalTInv DEF Called

\* A pass moves on to the next order.
LEMMA AdvancedPass ==
    ASSUME NEW pass \in Pass
    PROVE  /\ Advanced(pass) \in Pass /\ Advanced(pass).pc = "loop" /\ HandlerOK(Advanced(pass))
           /\ Advanced(pass).snapshot = pass.snapshot /\ Advanced(pass).cursor = pass.cursor + 1
<1>1. Advanced(pass) \in Pass /\ Advanced(pass).pc = "loop"
      /\ Advanced(pass).snapshot = pass.snapshot /\ Advanced(pass).cursor = pass.cursor + 1
  BY DEF Pass, Advanced
<1>2. HandlerOK(Advanced(pass))
  BY <1>1 DEF HandlerOK, ThreadPcs
<1> QED
  BY <1>1, <1>2

\* The order a pass looks at is sound.
LEMMA VisitedSound ==
    ASSUME TInv, NEW t \in Threads, InLoop(t)
    PROVE  /\ thread[t] \in Pass
           /\ thread[t].cursor \in 1 .. Len(thread[t].snapshot)
           /\ Visited(t) \in SoundOrder
<1>1. thread[t] \in Pass
  BY DEF TInv, HandlerOK, InLoop, At
<1>2. thread[t].snapshot \in Seq(SoundOrder) /\ thread[t].cursor \in Nat \ {0}
  BY <1>1 DEF Pass
<1>3. thread[t].cursor \in 1 .. Len(thread[t].snapshot)
  BY <1>2 DEF InLoop
<1> QED
  BY <1>1, <1>2, <1>3, SoundElements DEF Visited

\* Nothing but the place in the pass changes.
LEMMA SkipOrderTInv ==
    ASSUME TInv, NEW t \in Threads, SkipOrder(t)
    PROVE  TInv'
<1>1. thread[t] \in Pass
  BY VisitedSound DEF SkipOrder
<1> QED
  BY <1>1, AdvancedPass, LocalTInv DEF SkipOrder

\* The filled copy of the snapshot's order is sound, however old the copy is.
LEMMA FilledSound ==
    ASSUME NEW o \in SoundOrder, FillsVisited(o)
    PROVE  FilledOrder(o, PassQuantity(o)) \in SoundOrder /\ PassQuantity(o) \in Int
<1>1. o \in Order /\ LifecycleOf(o)
  BY DEF SoundOrder
<1>2. PassQuantity(o) \in Int
  BY <1>1, PassQuantityType
<1> QED
  BY <1>1, <1>2, FilledOrderType, FilledOrderLifecycle DEF SoundOrder, FillsVisited

\* The list a fill is about to assign, and the fill of the account it carries on.
LEMMA FillOrderTInv ==
    ASSUME TInv, NEW t \in Threads, FillOrder(t)
    PROVE  TInv'
<1> DEFINE o == Visited(t)
           q == PassQuantity(o)
           list == Rebuilt(FilledOrder(o, q))
           then == [pc |-> "read account", order |-> o, quantity |-> q,
                    then |-> Advanced(thread[t])]
<1>1. thread[t] \in Pass /\ o \in SoundOrder /\ FillsVisited(o)
  BY VisitedSound DEF FillOrder
<1>2. FilledOrder(o, q) \in SoundOrder /\ q \in Int
  BY <1>1, FilledSound
<1>3. list \in Seq(SoundOrder)
  BY <1>2, RebuiltSound DEF TInv
<1>4. Advanced(thread[t]) \in Pass
  BY <1>1, AdvancedPass
<1>5. Go(t, Swapping(list, then)) /\ UNCHANGED <<memory, files, calls>>
  BY DEF FillOrder
<1>6. then.pc = "read account" /\ then.order = o /\ then.quantity = q
      /\ then.then = Advanced(thread[t])
  OBVIOUS
<1> HIDE DEF o, q, list, then
<1>7. then.pc = "read account" /\ ReadAccountOK(then)
  BY <1>1, <1>2, <1>4, <1>6 DEF ReadAccountOK
<1>8. HandlerOK(Swapping(list, then))
  BY <1>3, <1>7, SwappingOK
<1> QED
  BY <1>5, <1>8, LocalTInv

\* The account is computed from what is there now.
LEMMA ReadAccountTInv ==
    ASSUME TInv, NEW t \in Threads, ReadAccount(t)
    PROVE  TInv'
<1> DEFINE a == ApplyPaperFill(account, thread[t].order.intent, thread[t].quantity)
           s == FilledOrder(thread[t].order, thread[t].quantity).status
           h == [pc |-> "apply", order |-> thread[t].order, then |-> thread[t].then,
                 account |-> a, status |-> s]
<1>1. thread[t].order \in SoundOrder /\ thread[t].quantity \in Int /\ thread[t].then \in Pass
  BY DEF TInv, HandlerOK, ReadAccount, At, ReadAccountOK
<1>2. thread[t].order.intent \in Intent /\ thread[t].order.intent.symbol \in Executable
  BY <1>1, IntentAssumption DEF SoundOrder, Order, LifecycleOf
<1>3. a \in Account
  BY <1>1, <1>2, ApplyFillType DEF TInv, MemoryOK
<1>4. Go(t, h) /\ UNCHANGED <<memory, files, calls>>
  BY DEF ReadAccount
<1>5. h.pc = "apply" /\ h.order = thread[t].order /\ h.then = thread[t].then /\ h.account = a
  OBVIOUS
<1> HIDE DEF a, s, h
<1>6. HandlerOK(h)
  BY <1>1, <1>3, <1>5 DEF HandlerOK, ApplyOK, ThreadPcs
<1> QED
  BY <1>4, <1>6, LocalTInv

\* The account a fill computed is assigned.
LEMMA ApplyFillTInv ==
    ASSUME TInv, NEW t \in Threads, ApplyFill(t)
    PROVE  TInv'
<1> DEFINE st == IF thread[t].status = "FILLED" THEN "MATCHED" ELSE "PARTIALLY_FILLED"
           h == Logging(thread[t].order.id, st, thread[t].then)
<1>1. thread[t].order \in SoundOrder /\ thread[t].account \in Account /\ thread[t].then \in Pass
  BY DEF TInv, HandlerOK, ApplyFill, At, ApplyOK
<1>2. thread[t].order.id \in Nat /\ st \in Exchange!EventStatus /\ AfterLog(thread[t].then)
  BY <1>1 DEF SoundOrder, Order, Exchange!EventStatus, AfterLog
<1>3. HandlerOK(h)
  BY <1>2, LoggingOK
<1>4. MemoryOK' /\ FilesOK'
  BY <1>1 DEF ApplyFill, TInv, MemoryOK, FilesOK
<1> QED
  BY <1>3, <1>4, StepTInv DEF ApplyFill

\* A pass ends in the save.
LEMMA EndPassTInv ==
    ASSUME TInv, NEW t \in Threads, EndPass(t)
    PROVE  TInv'
BY SavingPc, LocalTInv DEF EndPass

-----------------------------------------------------------------------------
(* cancel_order, expire_order, reset and the panic controls *)

\* A cancel carries the closed order, or logs.
LEMMA CancelOrderTInv ==
    ASSUME TInv, NEW t \in Threads, NEW n \in DOMAIN orders, CancelOrder(t, n)
    PROVE  TInv'
<1> DEFINE o == WithStatus(orders[n], "CANCELED")
           h == [pc |-> "rebuild", order |-> o]
           l == Logging(orders[n].id, "CANCELED", Saving)
<1>1. orders[n] \in SoundOrder /\ orders[n].id \in Nat
  BY SoundElements DEF TInv, MemoryOK, Order
<1>2. HandlerOK(l)
  BY <1>1, SavingPc, LoggingOK DEF AfterLog, Exchange!EventStatus
<1>3. ASSUME IsOpen(orders[n]) PROVE HandlerOK(h)
  <2>1. o \in SoundOrder /\ o.status = "CANCELED"
    BY <1>1, <1>3, ClosedSound
  <2>2. h.pc = "rebuild" /\ h.order = o
    OBVIOUS
  <2> HIDE DEF o, h
  <2> QED
    BY <2>1, <2>2 DEF HandlerOK, ThreadPcs
<1>4. PICK k \in {h, l} : HandlerOK(k) /\ Go(t, k)
  <2>1. CASE IsOpen(orders[n])
    BY <1>3, <2>1 DEF CancelOrder
  <2>2. CASE ~IsOpen(orders[n])
    BY <1>2, <2>2 DEF CancelOrder
  <2> QED
    BY <2>1, <2>2
<1> QED
  BY <1>4, LocalTInv DEF CancelOrder, Called

\* The list of a cancel: the closed order among whatever is there now.
LEMMA RebuildOrdersTInv ==
    ASSUME TInv, NEW t \in Threads, RebuildOrders(t)
    PROVE  TInv'
<1> DEFINE o == thread[t].order
           then == Logging(o.id, "CANCELED", Saving)
<1>1. o \in SoundOrder /\ o.id \in Nat
  BY DEF TInv, HandlerOK, RebuildOrders, At, SoundOrder, Order
<1>2. then.pc = "log" /\ LogOK(then) /\ then.then.pc \in {"idle", "save"}
  BY <1>1, SavingPc, LoggingOK DEF AfterLog, Exchange!EventStatus
<1>3. HandlerOK(Swapping(Rebuilt(o), then))
  BY <1>1, <1>2, RebuiltSound, SwappingOK DEF TInv
<1> QED
  BY <1>3, LocalTInv DEF RebuildOrders

\* The list a handler computed is assigned.
LEMMA SwapOrdersTInv ==
    ASSUME TInv, NEW t \in Threads, SwapOrders(t)
    PROVE  TInv'
<1> DEFINE then == thread[t].then
<1>1. SwapOK(thread[t])
  BY DEF TInv, HandlerOK, SwapOrders, At
<1>2. HandlerOK(then)
  BY <1>1 DEF SwapOK, HandlerOK, ThreadPcs
<1>3. MemoryOK' /\ FilesOK'
  BY <1>1 DEF SwapOrders, SwapOK, TInv, MemoryOK, FilesOK
<1> QED
  BY <1>2, <1>3, StepTInv DEF SwapOrders

\* What a handler does after a log entry is as sound as it was before.
LEMMA RecordEventTInv ==
    ASSUME TInv, NEW t \in Threads, RecordEvent(t)
    PROVE  TInv'
<1> DEFINE then == thread[t].then
           e == [order |-> thread[t].order, status |-> thread[t].status]
<1>1. LogOK(thread[t])
  BY DEF TInv, HandlerOK, RecordEvent, At
<1>2. HandlerOK(then)
  <2>1. CASE then.pc \in {"idle", "save"}
    BY <2>1 DEF HandlerOK, ThreadPcs
  <2>2. CASE then \in Pass
    BY <2>2 DEF HandlerOK, ThreadPcs, Pass
  <2> QED
    BY <1>1, <2>1, <2>2 DEF LogOK, AfterLog
<1>3. e \in Exchange!Event
  BY <1>1 DEF LogOK, Exchange!Event
<1>4. events' \in Seq(Exchange!Event)
  BY <1>3, AppendElements DEF RecordEvent, TInv, MemoryOK
<1>5. MemoryOK' /\ FilesOK'
  BY <1>4 DEF RecordEvent, TInv, MemoryOK, FilesOK
<1> QED
  BY <1>2, <1>5, StepTInv DEF RecordEvent

\* An expiry carries the index it found and the closed order.
LEMMA ExpireOrderTInv ==
    ASSUME TInv, NEW t \in Threads, NEW n \in DOMAIN orders, ExpireOrder(t, n)
    PROVE  TInv'
<1> DEFINE o == WithStatus(orders[n], "EXPIRED")
           h == [pc |-> "expire", index |-> n, order |-> o]
<1>1. orders[n] \in SoundOrder /\ n \in Nat \ {0}
  BY SoundElements DEF TInv, MemoryOK
<1>2. o \in SoundOrder /\ o.status = "EXPIRED"
  BY <1>1, ClosedSound DEF ExpireOrder
<1>3. h.pc = "expire" /\ h.index = n /\ h.order = o
  OBVIOUS
<1>4. Go(t, h)
  BY DEF ExpireOrder
<1> HIDE DEF o, h
<1>5. HandlerOK(h)
  BY <1>1, <1>2, <1>3 DEF HandlerOK, ThreadPcs
<1> QED
  BY <1>4, <1>5, LocalTInv DEF ExpireOrder, Called

\* The expired order replaces whatever is at the index now.
LEMMA ExpireAtIndexTInv ==
    ASSUME TInv, NEW t \in Threads, ExpireAtIndex(t)
    PROVE  TInv'
<1> DEFINE o == thread[t].order
           n == thread[t].index
           l == Logging(o.id, "EXPIRED", Saving)
<1>1. o \in SoundOrder /\ o.id \in Nat
  BY DEF TInv, HandlerOK, ExpireAtIndex, At, SoundOrder, Order
<1>2. HandlerOK(l)
  BY <1>1, SavingPc, LoggingOK DEF AfterLog, Exchange!EventStatus
<1>3. orders' \in Seq(SoundOrder)
  BY <1>1, OverwriteElements DEF ExpireAtIndex, TInv, MemoryOK
<1>4. MemoryOK' /\ FilesOK'
  BY <1>3 DEF ExpireAtIndex, TInv, MemoryOK, FilesOK
<1> QED
  BY <1>2, <1>4, StepTInv DEF ExpireAtIndex

\* An expiry that finds the list cleared ends.
LEMMA ExpireIndexErrorTInv ==
    ASSUME TInv, NEW t \in Threads, ExpireIndexError(t)
    PROVE  TInv'
BY SavingPc, LocalTInv DEF ExpireIndexError

\* A reset and the panic controls write constants, and lists of sound orders.
LEMMA ControlTInv ==
    ASSUME TInv, NEW t \in Threads,
           \/ Reset(t) \/ ClearOrders(t) \/ ClearEvents(t) \/ ClearHalt(t)
           \/ PanicHalt(t) \/ VetoOrders(t)
    PROVE  TInv'
<1>1. <<>> \in Seq(SoundOrder) /\ <<>> \in Seq(Exchange!Event)
  OBVIOUS
<1>2. DefaultAccount \in Account /\ [DefaultRiskState EXCEPT !.panic = TRUE] \in RiskState
  BY DefaultAccountType DEF DefaultRiskState, RiskState
<1>3. calls' \in 0 .. MaxCalls
  <2>1. calls' = calls \/ Called(t)
    BY DEF Reset, ClearOrders, ClearEvents, ClearHalt, PanicHalt, VetoOrders
  <2> QED
    BY <2>1, ThreadAssumption DEF TInv, MemoryOK, Called
<1>4. MemoryOK' /\ FilesOK'
  BY <1>1, <1>2, <1>3 DEF TInv, MemoryOK, FilesOK, Reset, ClearOrders, ClearEvents, ClearHalt,
     PanicHalt, VetoOrders
<1>5. PICK h : HandlerOK(h) /\ Go(t, h)
  BY PlainPc, SavingPc DEF Reset, ClearOrders, ClearEvents, ClearHalt, PanicHalt, VetoOrders
<1> QED
  BY <1>4, <1>5, StepTInv

\* What panic_cancel_open_orders makes of the list.
LEMMA CanceledSound ==
    ASSUME MemoryOK
    PROVE  LET list == [n \in DOMAIN orders |-> IF IsOpen(orders[n])
                                                THEN WithStatus(orders[n], "CANCELED")
                                                ELSE orders[n]]
           IN  /\ list \in Seq(SoundOrder)
               /\ DOMAIN list = DOMAIN orders
               /\ \A n \in DOMAIN orders : ~IsOpen(list[n])
<1> DEFINE w(n) == IF IsOpen(orders[n]) THEN WithStatus(orders[n], "CANCELED") ELSE orders[n]
           list == [n \in DOMAIN orders |-> w(n)]
<1>1. ASSUME NEW n \in DOMAIN orders PROVE w(n) \in SoundOrder /\ ~IsOpen(w(n))
  <2>1. orders[n] \in SoundOrder
    BY SoundElements DEF MemoryOK
  <2>2. CASE IsOpen(orders[n])
    <3>1. WithStatus(orders[n], "CANCELED") \in SoundOrder
          /\ WithStatus(orders[n], "CANCELED").status = "CANCELED"
      BY <2>1, <2>2, ClosedSound
    <3> QED
      BY <2>2, <3>1 DEF IsOpen, OpenStatus
  <2> QED
    BY <2>1, <2>2
<1> HIDE DEF w
<1>2. list \in [DOMAIN orders -> SoundOrder]
  BY <1>1
<1>3. list \in Seq(SoundOrder)
  BY <1>2, MappedSequence DEF MemoryOK
<1>4. \A n \in DOMAIN orders : ~IsOpen(list[n])
  BY <1>1
<1> QED
  BY <1>3, <1>4 DEF w

\* The list panic_cancel_open_orders computes.
LEMMA PanicCancelTInv ==
    ASSUME TInv, NEW t \in Threads, PanicCancelOpenOrders(t)
    PROVE  TInv'
<1> DEFINE list == [n \in DOMAIN orders |-> IF IsOpen(orders[n])
                                            THEN WithStatus(orders[n], "CANCELED")
                                            ELSE orders[n]]
           then == Logging(Exchange!AllOrders, "CANCELED", Saving)
<1>1. list \in Seq(SoundOrder)
  BY CanceledSound DEF TInv
<1>2. then.pc = "log" /\ LogOK(then) /\ then.then.pc \in {"idle", "save"}
  BY SavingPc, LoggingOK DEF AfterLog, Exchange!EventStatus, Exchange!AllOrders
<1>3. Go(t, Swapping(list, then)) /\ UNCHANGED <<memory, files>> /\ Called(t)
  BY DEF PanicCancelOpenOrders
<1> HIDE DEF list, then
<1>4. HandlerOK(Swapping(list, then))
  BY <1>1, <1>2, SwappingOK
<1> QED
  BY <1>3, <1>4, LocalTInv DEF Called

\* A flatten writes the default account.
LEMMA PanicFlattenTInv ==
    ASSUME TInv, NEW t \in Threads, PanicFlattenPositions(t)
    PROVE  TInv'
<1>1. HandlerOK(Logging(Exchange!AllOrders, "MATCHED", Saving))
  BY SavingPc, LoggingOK DEF AfterLog, Exchange!EventStatus, Exchange!AllOrders
<1>2. MemoryOK' /\ FilesOK'
  BY DefaultAccountType, ThreadAssumption
     DEF PanicFlattenPositions, Called, TInv, MemoryOK, FilesOK
<1> QED
  BY <1>1, <1>2, StepTInv DEF PanicFlattenPositions

-----------------------------------------------------------------------------
(* _persist_state *)

\* Every file is given data of its kind.
LEMMA WritingOK ==
    ASSUME TInv, NEW k \in 1 .. 4
    PROVE  HandlerOK(Writing(k))
<1>1. FileOrder[k] \in FileNames
  BY DEF FileOrder, FileNames
<1>2. orders \in Seq(Order) /\ Len(orders) \in Nat /\ Len(events) \in Nat
  BY SoundElements DEF TInv, MemoryOK
<1>3. \A f \in FileNames : PayloadOK(f, PayloadOf(f, account, orders, events, halted))
  BY <1>2 DEF PayloadOK, PayloadOf, FileNames, TInv, MemoryOK
<1>4. Writing(k).pc = "write" /\ Writing(k).file = k /\ Writing(k).data = Payload(FileOrder[k])
  BY DEF Writing
<1>5. PayloadOK(FileOrder[k], Payload(FileOrder[k]))
  BY <1>1, <1>3 DEF Payload
<1> DEFINE h == Writing(k)
<1> HIDE DEF h
<1>6. h.pc = "write" /\ h.file \in 1 .. 4 /\ PayloadOK(FileOrder[h.file], h.data)
  BY <1>4, <1>5 DEF h
<1>7. HandlerOK(h)
  BY <1>6 DEF HandlerOK, ThreadPcs
<1> QED
  BY <1>7 DEF h

\* The first payload is read.
LEMMA BeginSaveTInv ==
    ASSUME TInv, NEW t \in Threads, BeginSave(t)
    PROVE  TInv'
BY WritingOK, LocalTInv DEF BeginSave

\* A file is written, and the next payload read.
LEMMA WriteFileTInv ==
    ASSUME TInv, NEW t \in Threads, WriteFile(t)
    PROVE  TInv'
<1> DEFINE k == thread[t].file
<1>1. k \in 1 .. 4 /\ PayloadOK(FileOrder[k], thread[t].data)
  BY DEF TInv, HandlerOK, WriteFile, At
<1>2. Len(FileOrder) = 4 /\ FileOrder[k] \in FileNames
  BY <1>1 DEF FileOrder, FileNames
<1>3. PICK h : HandlerOK(h) /\ Go(t, h)
  <2>1. CASE k < Len(FileOrder)
    <3>1. HandlerOK(Writing(k + 1)) /\ Go(t, Writing(k + 1))
      BY <1>1, <1>2, <2>1, WritingOK DEF WriteFile
    <3> QED
      BY <3>1
  <2>2. CASE ~(k < Len(FileOrder))
    <3>1. HandlerOK(Idle) /\ Go(t, Idle)
      BY <2>2, SavingPc DEF WriteFile
    <3> QED
      BY <3>1
  <2> QED
    BY <2>1, <2>2
<1>4. FilesOK'
  <2>1. files' = [files EXCEPT ![FileOrder[k]] = thread[t].data]
    BY DEF WriteFile
  <2> QED
    BY <1>1, <1>2, <2>1 DEF TInv, FilesOK
<1>5. MemoryOK'
  BY DEF WriteFile, TInv, MemoryOK, memory
<1> QED
  BY <1>3, <1>4, <1>5, StepTInv

\* A new process starts from the boot state, with the files as they are.
LEMMA RestartTInv ==
    ASSUME TInv, Restart
    PROVE  TInv'
<1>1. <<>> \in Seq(SoundOrder) /\ <<>> \in Seq(Exchange!Event) /\ DefaultRiskState \in RiskState
  BY DEF DefaultRiskState, RiskState
<1>2. MemoryOK'
  BY <1>1, SameDefaults, DefaultAccountType DEF Restart, Exchange!Boot, TInv, MemoryOK
<1>3. FilesOK'
  BY DEF Restart, TInv, FilesOK
<1>4. DOMAIN thread' = Threads /\ \A t \in Threads : HandlerOK(thread'[t])
  BY SavingPc DEF Restart
<1> QED
  BY <1>2, <1>3, <1>4 DEF TInv

\* Every step keeps the inductive invariant.
LEMMA NextTInv == TInv /\ [Next]_vars => TInv'
<1> SUFFICES ASSUME TInv, [Next]_vars PROVE TInv'
  OBVIOUS
<1>1. ASSUME NEW t \in Threads, Request(t) PROVE TInv'
  BY <1>1, SubmitTInv, ProcessOpenOrdersTInv, CancelOrderTInv, ExpireOrderTInv, ControlTInv,
     PanicCancelTInv, PanicFlattenTInv DEF Request
<1>2. ASSUME NEW t \in Threads, HandlerStep(t) PROVE TInv'
  BY <1>2, NumberOrderTInv, EvaluateRiskTInv, AppendOrderTInv, SkipOrderTInv, FillOrderTInv,
     ReadAccountTInv, ApplyFillTInv, EndPassTInv, RebuildOrdersTInv, SwapOrdersTInv,
     ExpireAtIndexTInv, ExpireIndexErrorTInv, ControlTInv, RecordEventTInv, BeginSaveTInv,
     WriteFileTInv DEF HandlerStep
<1>3. ASSUME UNCHANGED vars PROVE TInv'
  BY <1>3 DEF vars, memory, TInv, MemoryOK, FilesOK
<1> QED
  BY <1>1, <1>2, <1>3, RestartTInv DEF Next

\* The inductive invariant holds in every interleaving of every number of threads.
THEOREM HandlersSound == Spec => []TInv
BY InitTInv, NextTInv, PTL DEF Spec

\* The exchange, its handlers and its four files are well typed in every interleaving
\* of submit, process, cancel, expire, reset, panic and save.
THEOREM TypeCorrect == Spec => []TypeOK
<1>1. TInv => TypeOK
  <2> SUFFICES ASSUME TInv PROVE TypeOK
    OBVIOUS
  <2>1. orders \in Seq(Order) /\ \A t \in Threads : thread[t].pc \in ThreadPcs
    BY SoundElements DEF TInv, MemoryOK, HandlerOK
  <2>2. /\ files["orders"] \in Seq(Order)
        /\ files["reconciliation"] \in Seq(Exchange!Event)
        /\ files["portfolio"] \in Account
        /\ files["latest"] \in [orders: Nat, events: Nat, account: Account, halted: BOOLEAN]
    BY DEF TInv, FilesOK, PayloadOK, FileNames
  <2> QED
    BY <2>1, <2>2 DEF TInv, MemoryOK, TypeOK
<1> QED
  BY <1>1, HandlersSound, PTL

\* However many threads fill, cancel and expire stale copies of the orders, the status,
\* the fills and the filled quantity of each order in the list belong together.
THEOREM OrdersSoundCorrect == Spec => []OrdersSound
<1>1. TInv => OrdersSound
  BY SoundElements DEF TInv, MemoryOK, OrdersSound
<1> QED
  BY <1>1, HandlersSound, PTL

-----------------------------------------------------------------------------
(* A drained stop is final *)

Closed(list) == \A n \in DOMAIN list : ~IsOpen(list[n])

\* The part of a pass that is still to be visited has no open order.
PassClosed(pass) ==
    pass.pc = "loop" => \A n \in pass.cursor .. Len(pass.snapshot) : ~IsOpen(pass.snapshot[n])

\* What Drained says of one handler.
Drains(h) ==
    /\ h.pc \notin {"append", "read account", "apply"}
    /\ h.pc = "swap" => h.then.pc # "read account" /\ Closed(h.list) /\ PassClosed(h.then.then)
    /\ h.pc = "log" => PassClosed(h.then)
    /\ PassClosed(h)

\* Drained, handler by handler.
LEMMA DrainedHandlers ==
    Drained <=> riskState.panic /\ Closed(orders) /\ \A t \in Threads : Drains(thread[t])
<1>1. ASSUME NEW t \in Threads
      PROVE  Drains(thread[t]) <=> /\ ~At(t, "append")
                                   /\ ~FillUnderWay(t)
                                   /\ \A o \in Carried(t) : ~IsOpen(o)
  BY DEF Drains, Closed, PassClosed, At, FillUnderWay, Carried, Continuation, Range
<1> QED
  BY <1>1 DEF Drained, Closed

\* The same after a step.
LEMMA DrainedHandlersNext ==
    riskState'.panic /\ Closed(orders') /\ (\A t \in Threads : Drains(thread'[t])) => Drained'
<1>1. ASSUME NEW t \in Threads, Drains(thread'[t])
      PROVE  /\ ~At(t, "append")'
             /\ ~FillUnderWay(t)'
             /\ \A o \in Carried(t)' : ~IsOpen(o)
  BY <1>1 DEF Drains, Closed, PassClosed, At, FillUnderWay, Carried, Continuation, Range
<1> QED
  BY <1>1 DEF Drained, Closed, IsOpen

\* A handler that holds no list and no fill drains.
LEMMA PlainDrains ==
    \A h : /\ h.pc # "append" /\ h.pc # "read account" /\ h.pc # "apply"
           /\ h.pc # "swap" /\ h.pc # "log" /\ h.pc # "loop"
           => Drains(h)
BY DEF Drains, PassClosed

\* The plain states, and the end of a handler.
LEMMA EndDrains ==
    /\ Drains(Idle) /\ Drains(Saving)
    /\ \A p \in {"clear orders", "clear events", "resume", "veto"} : Drains([pc |-> p])
<1>1. Drains(Idle)
  BY SavingPc, PlainDrains, Zenon
<1>2. Drains(Saving)
  <2> DEFINE h == Saving
  <2>1. h.pc \in {"idle", "save"}
    BY SavingPc
  <2> HIDE DEF h
  <2>2. Drains(h)
    BY <2>1, PlainDrains
  <2> QED
    BY <2>2 DEF h
<1>3. ASSUME NEW p \in {"clear orders", "clear events", "resume", "veto"} PROVE Drains([pc |-> p])
  <2> DEFINE h == [pc |-> p]
  <2>1. h.pc = p
    OBVIOUS
  <2> HIDE DEF h
  <2>2. Drains(h)
    BY <2>1, PlainDrains
  <2> QED
    BY <2>2 DEF h
<1> QED
  BY <1>1, <1>2, <1>3

\* So does one that logs and ends.
LEMMA LoggingDrains ==
    ASSUME NEW id, NEW st, NEW then, then.pc \in {"idle", "save"}
    PROVE  Drains(Logging(id, st, then))
<1> DEFINE h == Logging(id, st, then)
<1>1. h.pc = "log" /\ h.then = then
  BY DEF Logging
<1> HIDE DEF h
<1>2. Drains(h)
  BY <1>1 DEF Drains, PassClosed
<1> QED
  BY <1>2 DEF h

\* So does one that assigns a closed list, logs and ends.
LEMMA SwappingDrains ==
    ASSUME NEW list, Closed(list), NEW id, NEW st, NEW then, then.pc \in {"idle", "save"}
    PROVE  Drains(Swapping(list, Logging(id, st, then)))
<1> DEFINE l == Logging(id, st, then)
           h == Swapping(list, l)
<1>1. l.pc = "log" /\ l.then = then
  BY DEF Logging
<1>2. h.pc = "swap" /\ h.list = list /\ h.then = l
  BY DEF Swapping
<1> HIDE DEF h, l
<1>3. Drains(h)
  BY <1>1, <1>2 DEF Drains, PassClosed
<1> QED
  BY <1>3 DEF h, l

\* What a step may do without undoing the stop.
Stays ==
    /\ riskState'.panic
    /\ Closed(orders')
    /\ account'.books \in {account.books, DefaultAccount.books}

\* It is enough that the thread that steps drains.
LEMMA StayDrained ==
    ASSUME TInv, Drained, NEW t \in Threads, NEW h, Drains(h), Go(t, h), Stays
    PROVE  Drained' /\ account'.books \in {account.books, DefaultAccount.books}
<1>1. \A u \in Threads : Drains(thread'[u])
  BY DrainedHandlers DEF TInv, Go
<1> QED
  BY <1>1, DrainedHandlersNext DEF Stays

\* A step that leaves the memory alone, or clears it.
LEMMA LocalStays ==
    ASSUME Drained, UNCHANGED memory
    PROVE  Stays
BY DrainedHandlers DEF Stays, memory

\* No request opens an order or starts a fill.
LEMMA RequestDrained ==
    ASSUME TInv, Drained, NEW t \in Threads, Request(t)
    PROVE  Drained' /\ account'.books \in {account.books, DefaultAccount.books}
<1>0. riskState.panic /\ Closed(orders)
  BY DrainedHandlers
<1>1. ASSUME NEW i \in Intents, Submit(t, i) PROVE \E h : Drains(h) /\ Go(t, h) /\ Stays
  <2> DEFINE h == [pc |-> "number", intent |-> i, accepted |-> Exchange!PreviewAccepts(i)]
  <2>1. h.pc = "number"
    OBVIOUS
  <2>2. Go(t, h) /\ Stays
    BY <1>1, LocalStays DEF Submit
  <2> HIDE DEF h
  <2>3. Drains(h)
    BY <2>1, PlainDrains
  <2> QED
    BY <2>2, <2>3
<1>2. ASSUME ProcessOpenOrders(t) PROVE \E h : Drains(h) /\ Go(t, h) /\ Stays
  <2> DEFINE h == [pc |-> "loop", snapshot |-> orders, cursor |-> 1]
  <2>1. h.pc = "loop" /\ h.snapshot = orders /\ h.cursor = 1
    OBVIOUS
  <2>2. Go(t, h) /\ Stays
    BY <1>2, LocalStays DEF ProcessOpenOrders
  <2> HIDE DEF h
  <2>3. Drains(h)
    BY <1>0, <2>1, SoundElements DEF Drains, PassClosed, Closed, TInv, MemoryOK
  <2> QED
    BY <2>2, <2>3
<1>3. ASSUME NEW n \in DOMAIN orders, CancelOrder(t, n) PROVE \E h : Drains(h) /\ Go(t, h) /\ Stays
  <2>1. ~IsOpen(orders[n])
    BY <1>0 DEF Closed
  <2> QED
    BY <1>3, <2>1, SavingPc, LoggingDrains, LocalStays DEF CancelOrder
<1>4. ASSUME NEW n \in DOMAIN orders PROVE ~ExpireOrder(t, n)
  BY <1>0 DEF ExpireOrder, Closed
<1>5. ASSUME Reset(t) PROVE \E h : Drains(h) /\ Go(t, h) /\ Stays
  <2>1. Stays
    BY <1>0, <1>5 DEF Reset, Stays
  <2> QED
    BY <1>5, <2>1, EndDrains DEF Reset
<1>6. ASSUME PanicHalt(t) PROVE \E h : Drains(h) /\ Go(t, h) /\ Stays
  <2>1. Stays
    BY <1>0, <1>6 DEF PanicHalt, Stays
  <2> QED
    BY <1>6, <2>1, EndDrains DEF PanicHalt
<1>7. ASSUME PanicCancelOpenOrders(t) PROVE \E h : Drains(h) /\ Go(t, h) /\ Stays
  <2> DEFINE list == [n \in DOMAIN orders |-> IF IsOpen(orders[n])
                                              THEN WithStatus(orders[n], "CANCELED")
                                              ELSE orders[n]]
  <2>1. Closed(list)
    BY CanceledSound DEF TInv, Closed
  <2>2. Go(t, Swapping(list, Logging(Exchange!AllOrders, "CANCELED", Saving))) /\ Stays
    BY <1>7, LocalStays DEF PanicCancelOpenOrders
  <2> QED
    BY <2>1, <2>2, SavingPc, SwappingDrains
<1>8. ASSUME PanicFlattenPositions(t) PROVE \E h : Drains(h) /\ Go(t, h) /\ Stays
  <2>1. Stays
    BY <1>0, <1>8 DEF PanicFlattenPositions, Stays
  <2> QED
    BY <1>8, <2>1, SavingPc, LoggingDrains DEF PanicFlattenPositions
<1>9. \E h : Drains(h) /\ Go(t, h) /\ Stays
  BY <1>1, <1>2, <1>3, <1>4, <1>5, <1>6, <1>7, <1>8 DEF Request
<1> QED
  BY <1>9, StayDrained

\* No handler under way does either.
LEMMA HandlerDrained ==
    ASSUME TInv, Drained, NEW t \in Threads, HandlerStep(t)
    PROVE  Drained' /\ account'.books \in {account.books, DefaultAccount.books}
<1>0. riskState.panic /\ Closed(orders) /\ Drains(thread[t]) /\ HandlerOK(thread[t])
  BY DrainedHandlers DEF TInv
<1>1. ASSUME NumberOrder(t) PROVE \E h : Drains(h) /\ Go(t, h) /\ Stays
  <2> DEFINE r == [pc |-> "risk", intent |-> thread[t].intent, id |-> Len(orders) + 1]
             l == Logging(Len(orders) + 1, "REJECTED", Saving)
  <2>1. r.pc = "risk"
    OBVIOUS
  <2>2. (Go(t, r) \/ Go(t, l)) /\ Stays
    BY <1>1, LocalStays DEF NumberOrder
  <2>3. Drains(l)
    BY SavingPc, LoggingDrains
  <2> HIDE DEF r, l
  <2>4. Drains(r)
    BY <2>1, PlainDrains
  <2> QED
    BY <2>2, <2>3, <2>4
<1>2. ASSUME EvaluateRisk(t) PROVE \E h : Drains(h) /\ Go(t, h) /\ Stays
  <2>1. ~RiskAccepts(account, 0, riskState, thread[t].intent)
    BY <1>0 DEF RiskAccepts, KillSwitch
  <2> QED
    BY <1>2, <2>1, SavingPc, LoggingDrains, LocalStays DEF EvaluateRisk
<1>3. ~AppendOrder(t) /\ ~ReadAccount(t) /\ ~ApplyFill(t)
  BY <1>0 DEF Drains, AppendOrder, ReadAccount, ApplyFill, At
<1>4. ASSUME SkipOrder(t) PROVE \E h : Drains(h) /\ Go(t, h) /\ Stays
  <2>1. thread[t] \in Pass /\ thread[t].pc = "loop"
    BY <1>4, VisitedSound DEF SkipOrder, InLoop, At
  <2> DEFINE h == Advanced(thread[t])
  <2>2. h.pc = "loop" /\ h.snapshot = thread[t].snapshot /\ h.cursor = thread[t].cursor + 1
    BY <2>1, AdvancedPass
  <2>3. Go(t, h) /\ Stays
    BY <1>4, LocalStays DEF SkipOrder
  <2> HIDE DEF h
  <2>4. Drains(h)
    BY <1>0, <2>1, <2>2 DEF Drains, PassClosed, Pass
  <2> QED
    BY <2>3, <2>4
<1>5. ~FillOrder(t)
  <2> SUFFICES ASSUME FillOrder(t) PROVE FALSE
    OBVIOUS
  <2>1. thread[t] \in Pass /\ thread[t].cursor \in 1 .. Len(thread[t].snapshot)
    BY VisitedSound DEF FillOrder
  <2>2. thread[t].cursor \in thread[t].cursor .. Len(thread[t].snapshot) /\ thread[t].pc = "loop"
    BY <2>1 DEF Pass
  <2> QED
    BY <1>0, <2>2 DEF FillOrder, FillsVisited, Visited, Drains, PassClosed
<1>6. ASSUME EndPass(t) \/ ExpireIndexError(t) PROVE \E h : Drains(h) /\ Go(t, h) /\ Stays
  BY <1>6, EndDrains, LocalStays DEF EndPass, ExpireIndexError
<1>7. ASSUME RebuildOrders(t) PROVE \E h : Drains(h) /\ Go(t, h) /\ Stays
  <2> DEFINE o == thread[t].order
  <2>1. o \in SoundOrder /\ ~IsOpen(o)
    BY <1>0, <1>7 DEF HandlerOK, RebuildOrders, At, IsOpen, OpenStatus
  <2>2. Closed(Rebuilt(o))
    BY <1>0, <2>1, RebuiltSound DEF Closed, TInv
  <2>3. Go(t, Swapping(Rebuilt(o), Logging(o.id, "CANCELED", Saving))) /\ Stays
    BY <1>7, LocalStays DEF RebuildOrders
  <2> QED
    BY <2>2, <2>3, SavingPc, SwappingDrains
<1>8. ASSUME SwapOrders(t) PROVE \E h : Drains(h) /\ Go(t, h) /\ Stays
  <2>1. thread[t].pc = "swap" /\ SwapOK(thread[t])
    BY <1>0, <1>8 DEF HandlerOK, SwapOrders, At
  <2>2. thread[t].then.pc = "log" /\ Closed(thread[t].list) /\ PassClosed(thread[t].then.then)
    BY <1>0, <2>1 DEF Drains, SwapOK
  <2>3. Drains(thread[t].then)
    BY <2>2 DEF Drains, PassClosed
  <2>4. Stays
    BY <1>0, <1>8, <2>2 DEF SwapOrders, Stays
  <2> QED
    BY <1>8, <2>3, <2>4 DEF SwapOrders
<1>9. ASSUME ExpireAtIndex(t) PROVE \E h : Drains(h) /\ Go(t, h) /\ Stays
  <2> DEFINE o == thread[t].order
  <2>1. o \in SoundOrder /\ ~IsOpen(o)
    BY <1>0, <1>9 DEF HandlerOK, ExpireAtIndex, At, IsOpen, OpenStatus
  <2>2. orders' = [orders EXCEPT ![thread[t].index] = o]
    BY <1>9 DEF ExpireAtIndex
  <2>3. Closed(orders')
    BY <1>0, <2>1, <2>2 DEF Closed
  <2>4. Stays
    BY <1>0, <1>9, <2>3 DEF ExpireAtIndex, Stays
  <2> QED
    BY <1>9, <2>4, SavingPc, LoggingDrains DEF ExpireAtIndex
<1>10. ASSUME ClearOrders(t) \/ ClearEvents(t) \/ ClearHalt(t) \/ VetoOrders(t)
       PROVE  \E h : Drains(h) /\ Go(t, h) /\ Stays
  <2>1. orders' = orders \/ orders' = <<>>
    BY <1>10 DEF ClearOrders, ClearEvents, ClearHalt, VetoOrders
  <2>2. riskState' = riskState \/ riskState' = [DefaultRiskState EXCEPT !.panic = TRUE]
    BY <1>10 DEF ClearOrders, ClearEvents, ClearHalt, VetoOrders
  <2>3. account' = account
    BY <1>10 DEF ClearOrders, ClearEvents, ClearHalt, VetoOrders
  <2>4. Stays
    <3>1. Closed(orders')
      BY <1>0, <2>1 DEF Closed
    <3>2. riskState'.panic
      BY <1>0, <2>2 DEF DefaultRiskState
    <3> QED
      BY <2>3, <3>1, <3>2 DEF Stays
  <2> QED
    BY <1>10, <2>4, EndDrains DEF ClearOrders, ClearEvents, ClearHalt, VetoOrders
<1>11. ASSUME RecordEvent(t) PROVE \E h : Drains(h) /\ Go(t, h) /\ Stays
  <2> DEFINE h == thread[t].then
  <2>1. PassClosed(h) /\ AfterLog(h)
    BY <1>0, <1>11 DEF RecordEvent, At, Drains, HandlerOK, LogOK
  <2>2. h.pc \in {"idle", "save", "loop"}
    BY <2>1 DEF AfterLog, Pass
  <2>3. Drains(h)
    BY <2>1, <2>2 DEF Drains
  <2>4. Stays
    BY <1>0, <1>11 DEF RecordEvent, Stays
  <2> QED
    BY <1>11, <2>3, <2>4 DEF RecordEvent
<1>12. ASSUME BeginSave(t) \/ WriteFile(t) PROVE \E h : Drains(h) /\ Go(t, h) /\ Stays
  <2>1. \A k : Writing(k).pc = "write"
    BY DEF Writing
  <2>2. ASSUME NEW k PROVE Drains(Writing(k))
    BY <2>1, PlainDrains, Zenon
  <2>3. Drains(Idle)
    BY EndDrains
  <2>4. \E h : Drains(h) /\ Go(t, h)
    <3>1. CASE BeginSave(t)
      BY <2>2, <3>1 DEF BeginSave
    <3>2. CASE WriteFile(t)
      <4>1. Go(t, Writing(thread[t].file + 1)) \/ Go(t, Idle)
        BY <3>2 DEF WriteFile
      <4> QED
        BY <2>2, <2>3, <4>1
    <3> QED
      BY <1>12, <3>1, <3>2
  <2>5. Stays
    BY <1>12, LocalStays DEF BeginSave, WriteFile
  <2> QED
    BY <2>4, <2>5
<1>13. \E h : Drains(h) /\ Go(t, h) /\ Stays
  BY <1>1, <1>2, <1>3, <1>4, <1>5, <1>6, <1>7, <1>8, <1>9, <1>10, <1>11, <1>12 DEF HandlerStep
<1> QED
  BY <1>13, StayDrained

\* panic_halt followed by panic_cancel_open_orders stops the exchange for good once
\* the handlers that were under way have drained, however many threads there are.
THEOREM StopIsFinalCorrect == Spec => StopIsFinal
<1>1. TInv /\ [Next]_vars =>
        [Drained /\ ~Restart =>
            Drained' /\ account'.books \in {account.books, DefaultAccount.books}]_vars
  <2> SUFFICES ASSUME TInv, Next, Drained, ~Restart
               PROVE  Drained' /\ account'.books \in {account.books, DefaultAccount.books}
    OBVIOUS
  <2>1. PICK t \in Threads : Request(t) \/ HandlerStep(t)
    BY DEF Next
  <2> QED
    BY <2>1, RequestDrained, HandlerDrained
<1> QED
  BY <1>1, HandlersSound, PTL DEF Spec, StopIsFinal

-----------------------------------------------------------------------------
(* One thread implements the exchange with atomic handlers *)

\* The settled exchange, when the handler has come to rest at p.
Settle(a, os, es, hd, rs, p) ==
    [account |-> a, orders |-> os, events |-> es, halted |-> hd, riskState |-> rs,
     snapshot |-> IF p.pc = "loop" THEN p.snapshot ELSE <<>>,
     cursor |-> IF p.pc = "loop" THEN p.cursor ELSE 0]

\* preview_order's answer, in an exchange that is halted or not.
Previewed(hd, i) ==
    /\ ~hd
    /\ i.symbol \in Executable
    /\ ~IsStale(0)
    /\ FitsFilters(i)
    /\ i.limit
    /\ MakerFirst(i, Quotes[i.symbol])
    /\ ExpectedEdge(i, Quotes[i.symbol]) > 0

Logged(es, id, status) == Append(es, [order |-> id, status |-> status])

FillStatus(status) == IF status = "FILLED" THEN "MATCHED" ELSE "PARTIALLY_FILLED"

\* A list with one order replaced, as cancel_order and _fill_order rebuild it.
RebuiltIn(os, o) == [n \in DOMAIN os |-> IF os[n].id = o.id THEN o ELSE os[n]]

AcceptedTo(s, u) ==
    \E i \in Intents :
        /\ Previewed(s.halted, i) /\ RiskAccepts(s.account, 0, s.riskState, i)
        /\ u = Settle(s.account, Append(s.orders, NewOrder(Len(s.orders) + 1, i)),
                      Logged(s.events, Len(s.orders) + 1, "RESTING"), s.halted, s.riskState, Saving)

RejectedTo(s, u) ==
    \E i \in Intents :
        /\ ~(Previewed(s.halted, i) /\ RiskAccepts(s.account, 0, s.riskState, i))
        /\ u = Settle(s.account, s.orders, Logged(s.events, Len(s.orders) + 1, "REJECTED"),
                      s.halted, s.riskState, Saving)

ExpiredTo(s, u) ==
    \E n \in DOMAIN s.orders :
        /\ IsOpen(s.orders[n])
        /\ u = Settle(s.account, [s.orders EXCEPT ![n] = WithStatus(s.orders[n], "EXPIRED")],
                      Logged(s.events, s.orders[n].id, "EXPIRED"), s.halted, s.riskState, Saving)

CanceledTo(s, u) ==
    \E n \in DOMAIN s.orders :
        u = Settle(s.account,
                   [s.orders EXCEPT ![n] = IF IsOpen(s.orders[n])
                                           THEN WithStatus(s.orders[n], "CANCELED")
                                           ELSE s.orders[n]],
                   Logged(s.events, s.orders[n].id, "CANCELED"), s.halted, s.riskState, Saving)

ResetTo(s, u) == u = Settle(DefaultAccount, <<>>, <<>>, FALSE, s.riskState, Saving)

HaltedTo(s, u) ==
    u = Settle(s.account, s.orders, s.events, TRUE, [DefaultRiskState EXCEPT !.panic = TRUE], Saving)

AllCanceledTo(s, u) ==
    u = Settle(s.account,
               [n \in DOMAIN s.orders |-> IF IsOpen(s.orders[n])
                                          THEN WithStatus(s.orders[n], "CANCELED")
                                          ELSE s.orders[n]],
               Logged(s.events, Exchange!AllOrders, "CANCELED"), s.halted, s.riskState, Saving)

FlattenedTo(s, u) ==
    u = Settle(DefaultAccount, s.orders, Logged(s.events, Exchange!AllOrders, "MATCHED"),
               s.halted, s.riskState, Saving)

FilledTo(s, u) ==
    LET o == s.snapshot[s.cursor]
        f == FilledOrder(o, PassQuantity(o))
    IN  /\ s.cursor \in 1 .. Len(s.snapshot)
        /\ FillsVisited(o)
        /\ u = Settle(ApplyPaperFill(s.account, o.intent, PassQuantity(o)), RebuiltIn(s.orders, f),
                      Logged(s.events, o.id, FillStatus(f.status)), s.halted, s.riskState,
                      [pc |-> "loop", snapshot |-> s.snapshot, cursor |-> s.cursor + 1])

EndedTo(s, u) ==
    /\ s.cursor = Len(s.snapshot) + 1
    /\ u = Settle(s.account, s.orders, s.events, s.halted, s.riskState, Saving)

\* What the handler that is under way makes of the settled exchange: one handler of
\* PaperExchange.
Leads(s, u) ==
    \/ /\ s.cursor = 0
       /\ \/ AcceptedTo(s, u) \/ RejectedTo(s, u)
          \/ ExpiredTo(s, u) \/ CanceledTo(s, u)
          \/ ResetTo(s, u) \/ HaltedTo(s, u) \/ AllCanceledTo(s, u) \/ FlattenedTo(s, u)
    \/ FilledTo(s, u)
    \/ EndedTo(s, u)

\* A handler about to log h's event over the account and the list given.
LogLeads(h, s, a, os, es, hd, rs) ==
    /\ h.then = Saving \/ h.then.pc = "loop"
    /\ Leads(s, Settle(a, os, Logged(es, h.order, h.status), hd, rs, h.then))

\* At each place of a handler, the memory it will have made when it comes to rest is
\* one that a handler of PaperExchange makes of the settled one.
SerialOK(h, s, a, os, es, hd, rs) ==
    /\ h.pc \in {"number", "risk", "append"} => s = Settle(a, os, es, hd, rs, Saving)
    /\ h.pc = "number" => (h.accepted <=> Previewed(hd, h.intent))
    /\ h.pc \in {"risk", "append"} => h.id = Len(os) + 1 /\ Previewed(hd, h.intent)
    /\ h.pc = "append" => RiskAccepts(a, 0, rs, h.intent)
    /\ h.pc = "log" => LogLeads(h, s, a, os, es, hd, rs)
    /\ h.pc = "swap" /\ h.then.pc = "log" => LogLeads(h.then, s, a, h.list, es, hd, rs)
    /\ h.pc = "swap" /\ h.then.pc = "read account" =>
          LET f == FilledOrder(h.then.order, h.then.quantity) IN
          LogLeads(Logging(h.then.order.id, FillStatus(f.status), h.then.then), s,
                   ApplyPaperFill(a, h.then.order.intent, h.then.quantity), h.list, es, hd, rs)
    /\ h.pc = "read account" =>
          LET f == FilledOrder(h.order, h.quantity) IN
          LogLeads(Logging(h.order.id, FillStatus(f.status), h.then), s,
                   ApplyPaperFill(a, h.order.intent, h.quantity), os, es, hd, rs)
    /\ h.pc = "apply" =>
          LogLeads(Logging(h.order.id, FillStatus(h.status), h.then), s, h.account, os, es, hd, rs)
    /\ h.pc = "rebuild" =>
          LogLeads(Logging(h.order.id, "CANCELED", Saving), s, a, RebuiltIn(os, h.order), es, hd, rs)
    /\ h.pc = "expire" =>
          /\ h.index \in DOMAIN os
          /\ LogLeads(Logging(h.order.id, "EXPIRED", Saving), s, a,
                      [os EXCEPT ![h.index] = h.order], es, hd, rs)
    /\ h.pc = "clear orders" => Leads(s, Settle(a, <<>>, <<>>, FALSE, rs, Saving))
    /\ h.pc = "clear events" => Leads(s, Settle(a, os, <<>>, FALSE, rs, Saving))
    /\ h.pc = "resume" => Leads(s, Settle(a, os, es, FALSE, rs, Saving))
    /\ h.pc = "veto" => Leads(s, Settle(a, os, es, hd, [DefaultRiskState EXCEPT !.panic = TRUE], Saving))
    /\ h.pc \in {"save", "write"} => Leads(s, Settle(a, os, es, hd, rs, Saving))

SettledType(s) ==
    /\ s.orders \in Seq(SoundOrder)
    /\ s.events \in Seq(Exchange!Event)
    /\ s.snapshot \in Seq(SoundOrder)
    /\ s.cursor \in Nat

\* An order's id is its position, and what k finished requests can have left: at most
\* one order each, and an event for each order.
SettledBound(s, k) ==
    /\ \A n \in DOMAIN s.orders : s.orders[n].id = n
    /\ Len(s.orders) <= k
    /\ s.cursor = 0 => s.snapshot = <<>> /\ Len(s.events) <= k * MaxCalls
    /\ s.cursor > 0 => /\ Len(s.snapshot) <= k /\ s.cursor <= Len(s.snapshot) + 1
                       /\ Len(s.events) <= k * MaxCalls + (s.cursor - 1)

\* The requests that are finished.
Finished == IF Handler.pc = "idle" THEN calls ELSE calls - 1

SInv ==
    /\ TInv
    /\ Finished \in Nat
    /\ SettledType(settled)
    /\ SettledBound(settled, Finished)
    /\ AtRest => settled = View
    /\ SerialOK(Handler, settled, account, orders, events, halted, riskState)

-----------------------------------------------------------------------------
\* There is one handler.
LEMMA TheHandler ==
    ASSUME OneThread, NEW t \in Threads
    PROVE  /\ Handler = thread[t] /\ Handler' = thread'[t]
           /\ \A u \in Threads : u = t
           /\ Saving = [pc |-> "save"] /\ Saving.pc = "save"
<1>1. Threads = {t}
  BY DEF OneThread
<1>2. (CHOOSE u \in Threads : TRUE) = t
  BY <1>1
<1>3. Saving = [pc |-> "save"]
  BY DEF OneThread, Saving
<1> QED
  BY <1>1, <1>2, <1>3 DEF Handler

\* The fields of the settled exchange.
LEMMA SettleFields ==
    \A a, os, es, hd, rs, p :
        LET u == Settle(a, os, es, hd, rs, p) IN
        /\ u.account = a /\ u.orders = os /\ u.events = es /\ u.halted = hd /\ u.riskState = rs
        /\ p.pc # "loop" => u.snapshot = <<>> /\ u.cursor = 0
        /\ p.pc = "loop" => u.snapshot = p.snapshot /\ u.cursor = p.cursor
BY DEF Settle

\* Where a handler rests is all that matters of it.
LEMMA SettledEnd ==
    \A a, os, es, hd, rs, p, q :
        p.pc # "loop" /\ q.pc # "loop" => Settle(a, os, es, hd, rs, p) = Settle(a, os, es, hd, rs, q)
BY DEF Settle

\* A server that boots.
LEMMA BootSettled ==
    LET u == Settle(DefaultAccount, <<>>, <<>>, FALSE, DefaultRiskState, Idle) IN
    /\ u.account = DefaultAccount /\ u.orders = <<>> /\ u.events = <<>> /\ u.halted = FALSE
    /\ u.riskState = DefaultRiskState /\ u.snapshot = <<>> /\ u.cursor = 0
BY SavingPc DEF Settle

\* What View shows is the settled exchange at the handler's place.
LEMMA ViewSettled ==
    /\ View = Settle(account, orders, events, halted, riskState, Handler)
    /\ View' = Settle(account', orders', events', halted', riskState', Handler')
BY DEF View, Settle

\* The preview under a halted flag is the exchange's.
LEMMA PreviewSame ==
    ASSUME NEW i
    PROVE  Exchange!PreviewAccepts(i) <=> Previewed(halted, i)
BY DEF Exchange!PreviewAccepts, Previewed, Exchange!IsStale, IsStale, Exchange!FitsFilters, FitsFilters,
       Exchange!IsMultiple, IsMultiple, Exchange!Notional, Notional, Exchange!MakerFirst, MakerFirst,
       Exchange!WouldCross, WouldCross, Exchange!ExpectedEdge, ExpectedEdge, Exchange!AbsVal, AbsVal

\* And so is the preview of the settled exchange.
LEMMA AtomicPreviewSame ==
    ASSUME NEW i
    PROVE  Atomic!PreviewAccepts(i) <=> Previewed(settled.halted, i)
BY DEF Atomic!PreviewAccepts, Previewed, Atomic!IsStale, IsStale, Atomic!FitsFilters, FitsFilters,
       Atomic!IsMultiple, IsMultiple, Atomic!Notional, Notional, Atomic!MakerFirst, MakerFirst,
       Atomic!WouldCross, WouldCross, Atomic!ExpectedEdge, ExpectedEdge, Atomic!AbsVal, AbsVal

\* The exposures of the two exchanges are the same sums.
LEMMA ExposuresSame ==
    /\ \A f, ks : Atomic!SumFunctionOnSet(f, ks) = SumFunctionOnSet(f, ks)
    /\ \A a : Atomic!GrossExposure(a) = GrossExposure(a)
    /\ \A a, x : Atomic!SymbolExposure(a, x) = SymbolExposure(a, x)
    /\ \A a : Atomic!LegImbalance(a) = LegImbalance(a)
    /\ \A a : Atomic!BetaExposure(a) = BetaExposure(a)
<1>1. \A f, ks : Atomic!SumFunctionOnSet(f, ks) = SumFunctionOnSet(f, ks)
  BY DEF Atomic!SumFunctionOnSet, SumFunctionOnSet, Atomic!FoldFunctionOnSet, FoldFunctionOnSet,
         Atomic!MapThenFoldSet, MapThenFoldSet
<1>2. \A a, ks : Atomic!ExposureOf(a, ks) = ExposureOf(a, ks)
  BY <1>1 DEF Atomic!ExposureOf, ExposureOf, Atomic!BookNotional, BookNotional,
              Atomic!BookKeys, BookKeys, Atomic!BookSides, BookSides
<1>3. Atomic!BookKeys = BookKeys /\ Atomic!BookSides = BookSides
  BY DEF Atomic!BookKeys, BookKeys, Atomic!BookSides, BookSides
<1>4. \A a : Atomic!GrossExposure(a) = GrossExposure(a)
  BY <1>2, <1>3 DEF Atomic!GrossExposure, GrossExposure
<1>5. \A a, x : Atomic!SymbolExposure(a, x) = SymbolExposure(a, x)
  BY <1>2, <1>3 DEF Atomic!SymbolExposure, SymbolExposure
<1>6. \A a : Atomic!LegImbalance(a) = LegImbalance(a)
  BY <1>2 DEF Atomic!LegImbalance, LegImbalance, Atomic!AbsVal, AbsVal, Atomic!LongExposure,
              LongExposure, Atomic!ShortExposure, ShortExposure
<1>7. \A a : Atomic!BetaExposure(a) = BetaExposure(a)
  BY <1>1, <1>3 DEF Atomic!BetaExposure, BetaExposure, Atomic!AbsVal, AbsVal, Atomic!SumFunction,
              SumFunction, Atomic!BookNotional, BookNotional
<1> QED
  BY <1>1, <1>4, <1>5, <1>6, <1>7

\* The risk engine answers both exchanges alike.
LEMMA RiskSame ==
    ASSUME NEW a, NEW rs, NEW i
    PROVE  Atomic!RiskAccepts(a, 0, rs, i) <=> RiskAccepts(a, 0, rs, i)
<1>1. Atomic!WithinExposure(a, i) <=> WithinExposure(a, i)
  BY ExposuresSame DEF Atomic!WithinExposure, WithinExposure, Atomic!Notional, Notional,
     Atomic!SectorExposure, SectorExposure
<1>2. Atomic!WithinLeverage(a, i) <=> WithinLeverage(a, i)
  BY ExposuresSame DEF Atomic!WithinLeverage, WithinLeverage, Atomic!Notional, Notional,
     Atomic!WalletUnit, WalletUnit
<1>3. Atomic!KillSwitch(rs) <=> KillSwitch(rs)
  BY DEF Atomic!KillSwitch, KillSwitch
<1>4. \A q : Atomic!MarketHalt(q) <=> MarketHalt(q)
  BY DEF Atomic!MarketHalt, MarketHalt, Atomic!AbnormalSpread, AbnormalSpread, Atomic!AbsVal, AbsVal
<1>5. \A q : Atomic!ExpectedEdge(i, q) = ExpectedEdge(i, q)
  BY DEF Atomic!ExpectedEdge, ExpectedEdge, Atomic!Notional, Notional, Atomic!AbsVal, AbsVal
<1>6. Atomic!IsStale(0) <=> IsStale(0)
  BY DEF Atomic!IsStale, IsStale
<1> QED
  BY <1>1, <1>2, <1>3, <1>4, <1>5, <1>6 DEF Atomic!RiskAccepts, RiskAccepts

\* What the atomic exchange does to orders and accounts is what the steps do.
LEMMA OperatorsSame ==
    /\ \A o : Atomic!IsOpen(o) <=> IsOpen(o)
    /\ \A o, x : Atomic!WithStatus(o, x) = WithStatus(o, x)
    /\ \A id, i : Atomic!NewOrder(id, i) = NewOrder(id, i)
    /\ \A o, q : Atomic!FilledOrder(o, q) = FilledOrder(o, q)
    /\ \A o : Atomic!PassQuantity(o) = PassQuantity(o)
    /\ \A a, i, q : Atomic!ApplyPaperFill(a, i, q) = ApplyPaperFill(a, i, q)
    /\ Atomic!DefaultAccount = DefaultAccount
    /\ Atomic!DefaultRiskState = DefaultRiskState
    /\ Atomic!AllOrders = Exchange!AllOrders
<1>1. \A o : Atomic!IsOpen(o) <=> IsOpen(o)
  BY DEF Atomic!IsOpen, IsOpen, Atomic!OpenStatus, OpenStatus
<1>2. \A o, x : Atomic!WithStatus(o, x) = WithStatus(o, x)
  BY DEF Atomic!WithStatus, WithStatus
<1>3. \A id, i : Atomic!NewOrder(id, i) = NewOrder(id, i)
  BY DEF Atomic!NewOrder, NewOrder
<1>4. \A o, q : Atomic!FilledOrder(o, q) = FilledOrder(o, q)
  BY DEF Atomic!FilledOrder, FilledOrder
<1>5. \A o : Atomic!PassQuantity(o) = PassQuantity(o)
  BY DEF Atomic!PassQuantity, PassQuantity, Atomic!RemainingQuantity, RemainingQuantity,
         Atomic!QueueFillProbability, QueueFillProbability, Atomic!Depth, Depth
<1>6. \A a, i, q : Atomic!ApplyPaperFill(a, i, q) = ApplyPaperFill(a, i, q)
  BY DEF Atomic!ApplyPaperFill, ApplyPaperFill, Atomic!UpdatedBook, UpdatedBook,
         Atomic!BookIsIncrease, BookIsIncrease
<1>7. Atomic!DefaultAccount = DefaultAccount /\ Atomic!DefaultRiskState = DefaultRiskState
  BY DEF Atomic!DefaultAccount, DefaultAccount, Atomic!BookKeys, BookKeys, Atomic!BookSides, BookSides,
         Atomic!DefaultRiskState, DefaultRiskState
<1>8. Atomic!AllOrders = Exchange!AllOrders
  BY DEF Atomic!AllOrders, Exchange!AllOrders
<1> QED
  BY <1>1, <1>2, <1>3, <1>4, <1>5, <1>6, <1>7, <1>8

-----------------------------------------------------------------------------
(* The bounds of PaperExchange are out of reach *)

\* A request adds at most one order, and as many events as there are orders.
LEMMA RoomArithmetic ==
    ASSUME NEW m \in Nat, NEW k \in Nat, k + 1 <= m, NEW e \in Nat, e <= k * m,
           NEW c \in Nat, c <= k
    PROVE  e + 3 + 2 * c <= m * (m + 2)
<1>1. k * m <= (m - 1) * m
  <2>1. \A x, y, z \in Nat : x <= y => x * z <= y * z
    OBVIOUS
  <2>2. m - 1 \in Nat /\ k <= m - 1
    OBVIOUS
  <2> QED
    BY <2>1, <2>2
<1>2. (m - 1) * m = m * m - m /\ m * (m + 2) = m * m + 2 * m /\ m * m \in Nat /\ k * m \in Nat
  OBVIOUS
<1> QED
  BY <1>1, <1>2

\* A list has no more open orders than orders.
LEMMA OpenCount ==
    ASSUME NEW os \in Seq(SoundOrder)
    PROVE  LET c == Cardinality({n \in DOMAIN os : IsOpen(os[n])}) IN
           c \in Nat /\ c <= Len(os)
<1>1. DOMAIN os = 1 .. Len(os) /\ Len(os) \in Nat
  OBVIOUS
<1>2. IsFiniteSet(1 .. Len(os)) /\ Cardinality(1 .. Len(os)) = Len(os)
  <2> DEFINE l == Len(os)
  <2> HIDE DEF l
  <2>1. l \in Int /\ 1 \in Int /\ l >= 0
    BY <1>1 DEF l
  <2>2. IsFiniteSet(1 .. l) /\ Cardinality(1 .. l) = IF 1 > l THEN 0 ELSE l - 1 + 1
    BY ONLY <2>1, FS_Interval
  <2>3. Cardinality(1 .. l) = l
    BY ONLY <2>1, <2>2
  <2> QED
    BY <2>2, <2>3 DEF l
<1>3. {n \in DOMAIN os : IsOpen(os[n])} \subseteq 1 .. Len(os)
  BY <1>1
<1> QED
  BY <1>2, <1>3, FS_Subset, FS_CardinalityType

\* While a request is under way, the exchange as it was before it has room.
LEMMA RoomLeft ==
    ASSUME SettledType(settled), NEW k \in Nat, k + 1 <= MaxCalls, SettledBound(settled, k),
           settled.cursor = 0
    PROVE  Len(settled.orders) < MaxOrders /\ Atomic!Room(3) /\ Atomic!Room(1)
<1> DEFINE c == Cardinality({n \in DOMAIN settled.orders : IsOpen(settled.orders[n])})
<1>1. c \in Nat /\ c <= Len(settled.orders) /\ Len(settled.orders) \in Nat
      /\ Len(settled.events) \in Nat
  BY OpenCount DEF SettledType
<1>2. Len(settled.orders) <= k /\ Len(settled.events) <= k * MaxCalls
  BY DEF SettledBound
<1>3. \A j : Atomic!Room(j) <=> Len(settled.events) + j + 2 * c <= MaxEvents
  <2>1. \A S : Atomic!Cardinality(S) = Cardinality(S)
    BY DEF Atomic!Cardinality, Cardinality
  <2>2. {n \in DOMAIN settled.orders : Atomic!IsOpen(settled.orders[n])} =
        {n \in DOMAIN settled.orders : IsOpen(settled.orders[n])}
    BY OperatorsSame
  <2> QED
    BY <2>1, <2>2 DEF Atomic!Room
<1> HIDE DEF c
<1>4. MaxCalls \in Nat /\ MaxEvents = MaxCalls * (MaxCalls + 2)
  BY ThreadAssumption DEF MaxEvents
<1>4a. MaxEvents \in Int
  BY <1>4
<1>5. c \in Nat /\ c <= k
  BY <1>1, <1>2
<1>6. Len(settled.events) + 3 + 2 * c <= MaxEvents
  BY <1>1, <1>2, <1>4, <1>5, RoomArithmetic
<1>7. Len(settled.events) + 1 + 2 * c <= MaxEvents
  <2>1. \A e, x \in Nat, m \in Int : e + 3 + 2 * x <= m => e + 1 + 2 * x <= m
    OBVIOUS
  <2> QED
    BY <1>1, <1>4a, <1>5, <1>6, <2>1
<1>8. Len(settled.orders) < MaxOrders
  BY <1>1, <1>2, <1>4 DEF MaxOrders
<1> QED
  BY <1>3, <1>6, <1>7, <1>8

-----------------------------------------------------------------------------
(* What the handler leads to is a step of PaperExchange *)

\* At rest, the settled exchange is what the handler made of it; what ends a request
\* has been saved.
Lands(u) ==
    /\ settled' = u
    /\ saved' = IF u.cursor = 0 THEN <<u.account, u.orders, u.events, u.halted>> ELSE saved

\* The end of a request, in the words of PaperExchange.
Ended(a, os, es, hd, rs) ==
    /\ settled'.account = a /\ settled'.orders = os /\ settled'.events = es
    /\ settled'.halted = hd /\ settled'.riskState = rs
    /\ settled'.snapshot = <<>> /\ settled'.cursor = 0
    /\ Atomic!PersistState

\* A request that ends saves what it leaves.
LEMMA EndsRequest ==
    ASSUME NEW a, NEW os, NEW es, NEW hd, NEW rs, Lands(Settle(a, os, es, hd, rs, Saving))
    PROVE  Ended(a, os, es, hd, rs)
<1> DEFINE u == Settle(a, os, es, hd, rs, Saving)
<1>1. /\ u.account = a /\ u.orders = os /\ u.events = es /\ u.halted = hd /\ u.riskState = rs
      /\ u.snapshot = <<>> /\ u.cursor = 0
  BY SettleFields, SavingPc
<1> HIDE DEF u
<1>2. settled' = u /\ saved' = <<a, os, es, hd>>
  BY <1>1 DEF Lands, u
<1> QED
  BY <1>1, <1>2 DEF Ended, Atomic!PersistState, Atomic!memory

\* A rejected or accepted submission.
LEMMA SubmitLands ==
    ASSUME SettledType(settled), NEW k \in Nat, k + 1 <= MaxCalls, SettledBound(settled, k),
           settled.cursor = 0, NEW u, AcceptedTo(settled, u) \/ RejectedTo(settled, u), Lands(u)
    PROVE  Atomic!Next
<1>1. settled.snapshot = <<>>
  BY DEF SettledBound
<1>2. Len(settled.orders) < MaxOrders /\ Atomic!Room(3) /\ Atomic!Room(1)
  BY RoomLeft
<1>3. \A i : Atomic!Accepts(i) <=>
             Previewed(settled.halted, i) /\ RiskAccepts(settled.account, 0, settled.riskState, i)
  BY AtomicPreviewSame, RiskSame DEF Atomic!Accepts
<1>4. CASE AcceptedTo(settled, u)
  <2> DEFINE os(i) == Append(settled.orders, NewOrder(Len(settled.orders) + 1, i))
             es == Logged(settled.events, Len(settled.orders) + 1, "RESTING")
  <2>1. PICK i \in Intents :
            /\ Atomic!Accepts(i)
            /\ u = Settle(settled.account, os(i), es, settled.halted, settled.riskState, Saving)
    BY <1>3, <1>4 DEF AcceptedTo
  <2>2. Ended(settled.account, os(i), es, settled.halted, settled.riskState)
    BY <2>1, EndsRequest
  <2>3. os(i) = Append(settled.orders, Atomic!NewOrder(Atomic!NextOrderId, i))
    BY OperatorsSame DEF Atomic!NextOrderId
  <2>4. Atomic!SubmitAccepted(i)
    BY <1>1, <1>2, <2>1, <2>2, <2>3
       DEF Atomic!SubmitAccepted, Atomic!Idle, Atomic!NextOrderId, Atomic!Record, Atomic!NoPass,
           Logged, Ended
  <2> QED
    BY <2>4 DEF Atomic!Next
<1>5. CASE RejectedTo(settled, u)
  <2> DEFINE es == Logged(settled.events, Len(settled.orders) + 1, "REJECTED")
  <2>1. PICK i \in Intents :
            /\ ~Atomic!Accepts(i)
            /\ u = Settle(settled.account, settled.orders, es, settled.halted, settled.riskState, Saving)
    BY <1>3, <1>5 DEF RejectedTo
  <2>2. Ended(settled.account, settled.orders, es, settled.halted, settled.riskState)
    BY <2>1, EndsRequest
  <2>3. Atomic!SubmitRejected(i)
    BY <1>1, <1>2, <2>1, <2>2
       DEF Atomic!SubmitRejected, Atomic!Idle, Atomic!NextOrderId, Atomic!Record, Atomic!NoPass,
           Logged, Ended
  <2> QED
    BY <2>3 DEF Atomic!Next
<1> QED
  BY <1>4, <1>5

\* An expiry or a cancel.
LEMMA CloseLands ==
    ASSUME SettledType(settled), NEW k \in Nat, k + 1 <= MaxCalls, SettledBound(settled, k),
           settled.cursor = 0, NEW u, ExpiredTo(settled, u) \/ CanceledTo(settled, u), Lands(u)
    PROVE  Atomic!Next
<1>1. settled.snapshot = <<>>
  BY DEF SettledBound
<1>2. Atomic!Room(1)
  BY RoomLeft
<1>3. CASE ExpiredTo(settled, u)
  <2> DEFINE os(n) == [settled.orders EXCEPT ![n] = WithStatus(settled.orders[n], "EXPIRED")]
             es(n) == Logged(settled.events, settled.orders[n].id, "EXPIRED")
  <2>1. PICK n \in DOMAIN settled.orders :
            /\ IsOpen(settled.orders[n])
            /\ u = Settle(settled.account, os(n), es(n), settled.halted, settled.riskState, Saving)
    BY <1>3 DEF ExpiredTo
  <2>2. Ended(settled.account, os(n), es(n), settled.halted, settled.riskState)
    BY <2>1, EndsRequest
  <2>3. os(n) = [settled.orders EXCEPT ![n] = Atomic!WithStatus(@, "EXPIRED")]
    BY DEF Atomic!WithStatus, WithStatus
  <2>4. Atomic!IsOpen(settled.orders[n])
    BY <2>1, OperatorsSame
  <2>5. Atomic!ExpireOrder(n)
    BY <1>1, <1>2, <2>2, <2>3, <2>4
       DEF Atomic!ExpireOrder, Atomic!Idle, Atomic!Record, Atomic!NoPass, Logged, Ended
  <2> QED
    BY <2>5 DEF Atomic!Next
<1>4. CASE CanceledTo(settled, u)
  <2> DEFINE os(n) == [settled.orders EXCEPT ![n] = IF IsOpen(settled.orders[n])
                                                    THEN WithStatus(settled.orders[n], "CANCELED")
                                                    ELSE settled.orders[n]]
             es(n) == Logged(settled.events, settled.orders[n].id, "CANCELED")
  <2>1. PICK n \in DOMAIN settled.orders :
            u = Settle(settled.account, os(n), es(n), settled.halted, settled.riskState, Saving)
    BY <1>4 DEF CanceledTo
  <2>2. Ended(settled.account, os(n), es(n), settled.halted, settled.riskState)
    BY <2>1, EndsRequest
  <2>3. os(n) = [settled.orders EXCEPT ![n] = IF Atomic!IsOpen(@)
                                              THEN Atomic!WithStatus(@, "CANCELED") ELSE @]
    BY DEF Atomic!WithStatus, WithStatus, Atomic!IsOpen, IsOpen, Atomic!OpenStatus, OpenStatus
  <2>4. Atomic!CancelOrder(n)
    BY <1>1, <1>2, <2>2, <2>3
       DEF Atomic!CancelOrder, Atomic!Idle, Atomic!Record, Atomic!NoPass, Logged, Ended
  <2> QED
    BY <2>4 DEF Atomic!Next
<1> QED
  BY <1>3, <1>4

\* A reset or a panic control.
LEMMA ControlLands ==
    ASSUME SettledType(settled), NEW k \in Nat, k + 1 <= MaxCalls, SettledBound(settled, k),
           settled.cursor = 0, NEW u, Lands(u),
           \/ ResetTo(settled, u) \/ HaltedTo(settled, u)
           \/ AllCanceledTo(settled, u) \/ FlattenedTo(settled, u)
    PROVE  Atomic!Next
<1>0. /\ Atomic!DefaultAccount = DefaultAccount /\ Atomic!AllOrders = Exchange!AllOrders
      /\ \A o : Atomic!IsOpen(o) <=> IsOpen(o)
      /\ \A o, x : Atomic!WithStatus(o, x) = WithStatus(o, x)
  BY OperatorsSame
<1>1. settled.snapshot = <<>>
  BY DEF SettledBound
<1>2. Atomic!Room(1)
  BY RoomLeft
<1>3. CASE ResetTo(settled, u)
  <2>1. Ended(DefaultAccount, <<>>, <<>>, FALSE, settled.riskState)
    BY <1>3, EndsRequest DEF ResetTo
  <2>2. Atomic!Reset
    BY <1>1, <2>1, <1>0 DEF Ended, Atomic!Reset, Atomic!Idle, Atomic!NoPass
  <2> QED
    BY <2>2 DEF Atomic!Next
<1>4. CASE HaltedTo(settled, u)
  <2> DEFINE rs == [DefaultRiskState EXCEPT !.panic = TRUE]
  <2>1. Ended(settled.account, settled.orders, settled.events, TRUE, rs)
    BY <1>4, EndsRequest DEF HaltedTo
  <2>2. rs = [Atomic!DefaultRiskState EXCEPT !.panic = TRUE]
    BY OperatorsSame
  <2> HIDE DEF rs
  <2>3. Atomic!PanicHalt
    BY <1>1, <2>1, <2>2 DEF Ended, Atomic!PanicHalt, Atomic!Idle, Atomic!NoPass
  <2> QED
    BY <2>3 DEF Atomic!Next
<1>5. CASE AllCanceledTo(settled, u)
  <2> DEFINE os == [n \in DOMAIN settled.orders |-> IF IsOpen(settled.orders[n])
                                                    THEN WithStatus(settled.orders[n], "CANCELED")
                                                    ELSE settled.orders[n]]
             es == Logged(settled.events, Exchange!AllOrders, "CANCELED")
  <2>1. Ended(settled.account, os, es, settled.halted, settled.riskState)
    BY <1>5, EndsRequest DEF AllCanceledTo
  <2>2. os = [n \in DOMAIN settled.orders |-> IF Atomic!IsOpen(settled.orders[n])
                                              THEN Atomic!WithStatus(settled.orders[n], "CANCELED")
                                              ELSE settled.orders[n]]
    BY DEF Atomic!WithStatus, WithStatus, Atomic!IsOpen, IsOpen, Atomic!OpenStatus, OpenStatus
  <2>3. Atomic!PanicCancelOpenOrders
    BY <1>1, <1>2, <2>1, <2>2, <1>0
       DEF Atomic!PanicCancelOpenOrders, Atomic!Idle, Atomic!NoPass, Atomic!Record, Logged, Ended
  <2> QED
    BY <2>3 DEF Atomic!Next
<1>6. CASE FlattenedTo(settled, u)
  <2> DEFINE es == Logged(settled.events, Exchange!AllOrders, "MATCHED")
  <2>1. Ended(DefaultAccount, settled.orders, es, settled.halted, settled.riskState)
    BY <1>6, EndsRequest DEF FlattenedTo
  <2>2. Atomic!PanicFlattenPositions
    <3>1. es = Append(settled.events, [order |-> Atomic!AllOrders, status |-> "MATCHED"])
      BY <1>0 DEF Logged
    <3>2. Atomic!DefaultAccount = DefaultAccount
      BY <1>0, Zenon
    <3> HIDE DEF es
    <3> QED
      BY <1>1, <1>2, <2>1, <3>1, <3>2
         DEF Atomic!PanicFlattenPositions, Atomic!Idle, Atomic!NoPass, Atomic!Record, Ended
  <2> QED
    BY <2>2 DEF Atomic!Next
<1> QED
  BY <1>3, <1>4, <1>5, <1>6

\* A fill of the pass, or its end.
LEMMA FillLands ==
    ASSUME SettledType(settled), NEW u, FilledTo(settled, u), Lands(u)
    PROVE  Atomic!ProcessFill
<1> DEFINE s == settled
           o == s.snapshot[s.cursor]
           q == PassQuantity(o)
           f == FilledOrder(o, q)
           next == [pc |-> "loop", snapshot |-> s.snapshot, cursor |-> s.cursor + 1]
           status == IF f.status = "FILLED" THEN "MATCHED" ELSE "PARTIALLY_FILLED"
<1>1. /\ s.cursor \in 1 .. Len(s.snapshot)
      /\ IsOpen(o) /\ q > 0
      /\ u = Settle(ApplyPaperFill(s.account, o.intent, q), RebuiltIn(s.orders, f),
                    Logged(s.events, o.id, status), s.halted, s.riskState, next)
  BY DEF FilledTo, FillsVisited, FillStatus
<1>2. next.pc = "loop" /\ next.snapshot = s.snapshot /\ next.cursor = s.cursor + 1
  OBVIOUS
<1>3. s.cursor \in Nat /\ s.cursor + 1 # 0
  BY DEF SettledType
<1> HIDE DEF next
<1> HIDE DEF o, q, f, status
<1>4. /\ u.account = ApplyPaperFill(s.account, o.intent, q)
      /\ u.orders = RebuiltIn(s.orders, f)
      /\ u.events = Logged(s.events, o.id, status)
      /\ u.halted = s.halted /\ u.riskState = s.riskState
      /\ u.snapshot = s.snapshot /\ u.cursor = s.cursor + 1
  BY <1>1, <1>2, SettleFields
<1>4a. settled' = u /\ saved' = saved
  BY <1>3, <1>4 DEF Lands
<1>5. Atomic!IsOpen(o) /\ Atomic!PassQuantity(o) = q /\ Atomic!FilledOrder(o, q) = f
      /\ Atomic!ApplyPaperFill(s.account, o.intent, q) = ApplyPaperFill(s.account, o.intent, q)
  BY <1>1, OperatorsSame DEF q, f
<1>6. RebuiltIn(s.orders, f) =
          [n \in DOMAIN s.orders |-> IF s.orders[n].id = o.id THEN f ELSE s.orders[n]]
  BY DEF RebuiltIn, f, FilledOrder
<1> QED
  BY <1>1, <1>4, <1>4a, <1>5, <1>6 DEF Atomic!ProcessFill, Atomic!Record, Logged, o, status

\* The end of a pass.
LEMMA EndLands ==
    ASSUME NEW u, EndedTo(settled, u), Lands(u)
    PROVE  Atomic!ProcessEnd
<1>1. /\ settled.cursor = Len(settled.snapshot) + 1
      /\ Ended(settled.account, settled.orders, settled.events, settled.halted, settled.riskState)
  BY EndsRequest DEF EndedTo
<1> QED
  BY <1>1 DEF Atomic!ProcessEnd, Ended

\* What the handler leads to is a step of PaperExchange.
LEMMA LeadsToStep ==
    ASSUME SettledType(settled), NEW k \in Nat, k + 1 <= MaxCalls, SettledBound(settled, k),
           NEW u, Leads(settled, u), Lands(u)
    PROVE  Atomic!Next
<1>1. CASE FilledTo(settled, u)
  BY <1>1, FillLands DEF Atomic!Next, Atomic!Process
<1>2. CASE EndedTo(settled, u)
  BY <1>2, EndLands DEF Atomic!Next, Atomic!Process
<1> QED
  BY <1>1, <1>2, SubmitLands, CloseLands, ControlLands DEF Leads

-----------------------------------------------------------------------------
(* What finished requests leave *)

\* A list whose orders are numbered by their places, of at most m orders.
Numbered(os, m) == Len(os) <= m /\ \A n \in DOMAIN os : os[n].id = n

\* A request that ends stays within what one more request may leave.
LEMMA EndedBound ==
    ASSUME NEW k \in Nat, NEW a, NEW os, NEW es, NEW hd, NEW rs,
           Numbered(os, k + 1), Len(es) <= (k + 1) * MaxCalls
    PROVE  LET u == Settle(a, os, es, hd, rs, Saving) IN
           u.cursor = 0 /\ SettledBound(u, k + 1)
<1> DEFINE u == Settle(a, os, es, hd, rs, Saving)
<1>1. u.orders = os /\ u.events = es /\ u.snapshot = <<>> /\ u.cursor = 0
  BY SettleFields, SavingPc
<1> HIDE DEF u
<1>2. u.cursor = 0 /\ SettledBound(u, k + 1)
  BY <1>1 DEF SettledBound, Numbered
<1> QED
  BY <1>2 DEF u

\* One more event is one more than before.
LEMMA EventsBound ==
    ASSUME NEW k \in Nat, NEW m \in Nat, k + 1 <= m, NEW e \in Nat, NEW c \in Nat,
           e <= k * m + c, c <= k
    PROVE  e <= (k + 1) * m /\ (c = 0 => e + 1 <= (k + 1) * m)
<1>1. (k + 1) * m = k * m + m /\ k * m \in Nat
  OBVIOUS
<1> QED
  BY <1>1

\* A log entry is one event.
LEMMA LoggedLength ==
    ASSUME NEW es \in Seq(Exchange!Event), NEW id, NEW status
    PROVE  Len(Logged(es, id, status)) = Len(es) + 1 /\ Len(es) \in Nat
BY DEF Logged

\* A list rewritten without changing an id.
LEMMA RewrittenNumbered ==
    ASSUME NEW os \in Seq(SoundOrder), NEW m \in Nat, Numbered(os, m), NEW f,
           DOMAIN f = DOMAIN os, f = [n \in DOMAIN os |-> f[n]],
           \A n \in DOMAIN os : f[n].id = os[n].id
    PROVE  Numbered(f, m)
<1>1. f \in [DOMAIN os -> {f[n] : n \in DOMAIN os}]
  OBVIOUS
<1>2. Len(f) = Len(os)
  BY <1>1, MappedSequence
<1> QED
  BY <1>2 DEF Numbered

\* A new status leaves an order its id.
LEMMA StatusKeepsId ==
    ASSUME NEW os \in Seq(SoundOrder), NEW n \in DOMAIN os, NEW x \in {"CANCELED", "EXPIRED"}
    PROVE  WithStatus(os[n], x).id = os[n].id
<1>1. os[n] \in Order /\ x \in OpenStatus \cup TerminalStatus
  BY DEF SoundOrder, TerminalStatus
<1> QED
  BY <1>1, WithStatusFields

\* The fields of a handler in the loop of a pass.
LEMMA LoopFields ==
    ASSUME NEW list, NEW next
    PROVE  LET h == [pc |-> "loop", snapshot |-> list, cursor |-> next] IN
           h.pc = "loop" /\ h.snapshot = list /\ h.cursor = next
OBVIOUS

\* What a handler leads to stays within what one more request may leave.
LEMMA LeadsBound ==
    ASSUME NEW s, SettledType(s), NEW k \in Nat, k + 1 <= MaxCalls, SettledBound(s, k),
           NEW u, Leads(s, u)
    PROVE  SettledBound(u, IF u.cursor = 0 THEN k + 1 ELSE k)
<1>0. /\ MaxCalls \in Nat /\ Len(s.events) \in Nat /\ s.orders \in Seq(SoundOrder)
      /\ Len(s.orders) \in Nat /\ s.cursor \in Nat
      /\ s.events \in Seq(Exchange!Event)
      /\ Len(s.snapshot) \in Nat
  BY ThreadAssumption DEF SettledType
<1>1. Numbered(s.orders, k) /\ Numbered(s.orders, k + 1) /\ Numbered(<<>>, k + 1)
  BY <1>0 DEF SettledBound, Numbered
<1>2. \A e \in Seq(Exchange!Event) : Len(e) \in Nat
  OBVIOUS
<1>3. s.cursor = 0 => Len(s.events) <= k * MaxCalls + 0
  <2>1. s.cursor = 0 => Len(s.events) <= k * MaxCalls
    BY DEF SettledBound
  <2>2. k * MaxCalls \in Nat
    BY <1>0
  <2> QED
    BY <1>0, <2>1, <2>2
<1>4. s.cursor = 0 => /\ Len(s.events) <= (k + 1) * MaxCalls
                      /\ \A id, status : Len(Logged(s.events, id, status)) <= (k + 1) * MaxCalls
  BY <1>0, <1>3, EventsBound, LoggedLength
<1> DEFINE Done == u.cursor = 0 /\ SettledBound(u, k + 1)
<1> HIDE DEF Done
<1>5. ASSUME s.cursor = 0, AcceptedTo(s, u) PROVE Done
  <2>1. PICK i \in Intents :
            u = Settle(s.account, Append(s.orders, NewOrder(Len(s.orders) + 1, i)),
                       Logged(s.events, Len(s.orders) + 1, "RESTING"), s.halted, s.riskState, Saving)
    BY <1>5 DEF AcceptedTo
  <2> DEFINE os == Append(s.orders, NewOrder(Len(s.orders) + 1, i))
  <2>2. Numbered(os, k + 1)
    <3>1. NewOrder(Len(s.orders) + 1, i).id = Len(s.orders) + 1
      BY DEF NewOrder
    <3>2. /\ Len(os) = Len(s.orders) + 1
          /\ DOMAIN os = 1 .. Len(s.orders) + 1
          /\ os[Len(s.orders) + 1] = NewOrder(Len(s.orders) + 1, i)
          /\ \A n \in DOMAIN s.orders : os[n] = s.orders[n]
      BY <1>0
    <3> HIDE DEF os
    <3>3. \A n \in DOMAIN os : n = Len(s.orders) + 1 \/ n \in DOMAIN s.orders
      BY <1>0, <3>2
    <3>4. \A n \in DOMAIN os : os[n].id = n
      BY <1>1, <3>1, <3>2, <3>3 DEF Numbered
    <3> QED
      BY <1>0, <1>1, <3>2, <3>4 DEF Numbered
  <2> QED
    BY <1>4, <1>5, <2>1, <2>2, EndedBound DEF Done
<1>6. ASSUME s.cursor = 0, RejectedTo(s, u) PROVE Done
  BY <1>1, <1>4, <1>6, EndedBound DEF Done, RejectedTo
<1>7. ASSUME s.cursor = 0, ExpiredTo(s, u) PROVE Done
  <2>1. PICK n \in DOMAIN s.orders :
            u = Settle(s.account, [s.orders EXCEPT ![n] = WithStatus(s.orders[n], "EXPIRED")],
                       Logged(s.events, s.orders[n].id, "EXPIRED"), s.halted, s.riskState, Saving)
    BY <1>7 DEF ExpiredTo
  <2> DEFINE os == [s.orders EXCEPT ![n] = WithStatus(s.orders[n], "EXPIRED")]
  <2>2. Numbered(os, k + 1)
    <3> DEFINE f == os
    <3>1. DOMAIN f = DOMAIN s.orders /\ f = [m \in DOMAIN s.orders |-> f[m]]
      OBVIOUS
    <3>2. \A m \in DOMAIN s.orders : f[m].id = s.orders[m].id
      BY <1>0, StatusKeepsId
    <3> HIDE DEF f
    <3>3. k + 1 \in Nat
      OBVIOUS
    <3>4. Numbered(f, k + 1)
      BY <1>0, <1>1, <3>1, <3>2, <3>3, RewrittenNumbered
    <3> QED
      BY <3>4 DEF f
  <2> QED
    BY <1>4, <1>7, <2>1, <2>2, EndedBound DEF Done
<1>8. ASSUME s.cursor = 0, CanceledTo(s, u) PROVE Done
  <2> DEFINE os(n) == [s.orders EXCEPT ![n] = IF IsOpen(s.orders[n])
                                              THEN WithStatus(s.orders[n], "CANCELED")
                                              ELSE s.orders[n]]
  <2>1. PICK n \in DOMAIN s.orders :
            u = Settle(s.account, os(n), Logged(s.events, s.orders[n].id, "CANCELED"),
                       s.halted, s.riskState, Saving)
    BY <1>8 DEF CanceledTo
  <2>2. Numbered(os(n), k + 1)
    <3> DEFINE f == os(n)
    <3>1. DOMAIN f = DOMAIN s.orders /\ f = [m \in DOMAIN s.orders |-> f[m]]
      OBVIOUS
    <3>2. \A m \in DOMAIN s.orders : f[m].id = s.orders[m].id
      BY <1>0, StatusKeepsId
    <3> HIDE DEF f
    <3>3. k + 1 \in Nat
      OBVIOUS
    <3>4. Numbered(f, k + 1)
      BY <1>0, <1>1, <3>1, <3>2, <3>3, RewrittenNumbered
    <3> QED
      BY <3>4 DEF f
  <2> QED
    BY <1>4, <1>8, <2>1, <2>2, EndedBound DEF Done
<1>9. ASSUME s.cursor = 0, ResetTo(s, u) PROVE Done
  <2>1. Len(<<>>) = 0 /\ 0 <= (k + 1) * MaxCalls
    BY <1>0
  <2> QED
    BY <1>1, <1>9, <2>1, EndedBound DEF Done, ResetTo
<1>10. ASSUME s.cursor = 0, HaltedTo(s, u) \/ FlattenedTo(s, u) PROVE Done
  <2>1. PICK a, es, hd, rs : u = Settle(a, s.orders, es, hd, rs, Saving)
                             /\ Len(es) <= (k + 1) * MaxCalls
    BY <1>4, <1>10 DEF HaltedTo, FlattenedTo
  <2> QED
    BY <1>1, <2>1, EndedBound DEF Done
<1>11. ASSUME s.cursor = 0, AllCanceledTo(s, u) PROVE Done
  <2> DEFINE os == [n \in DOMAIN s.orders |-> IF IsOpen(s.orders[n])
                                              THEN WithStatus(s.orders[n], "CANCELED")
                                              ELSE s.orders[n]]
  <2>1. Numbered(os, k + 1)
    <3>1. DOMAIN os = DOMAIN s.orders /\ os = [n \in DOMAIN s.orders |-> os[n]]
      OBVIOUS
    <3>2. \A n \in DOMAIN s.orders : os[n].id = s.orders[n].id
      BY <1>0, StatusKeepsId
    <3>3. k + 1 \in Nat
      OBVIOUS
    <3> HIDE DEF os
    <3> QED
      BY <1>0, <1>1, <3>1, <3>2, <3>3, RewrittenNumbered
  <2> QED
    BY <1>4, <1>11, <2>1, EndedBound DEF Done, AllCanceledTo
<1>12. ASSUME EndedTo(s, u) PROVE Done
  <2>0. s.cursor = Len(s.snapshot) + 1
    BY <1>12 DEF EndedTo
  <2>1. s.cursor > 0 /\ s.cursor - 1 \in Nat /\ s.cursor - 1 <= k
    <3>1. s.cursor > 0
      BY <1>0, <2>0
    <3>2. Len(s.snapshot) <= k
      BY <3>1 DEF SettledBound
    <3> QED
      BY <1>0, <2>0, <3>2
  <2>2. Len(s.events) <= k * MaxCalls + (s.cursor - 1)
    BY <2>1 DEF SettledBound
  <2>3. Len(s.events) <= (k + 1) * MaxCalls
    BY <1>0, <2>1, <2>2, EventsBound
  <2> QED
    BY <1>1, <1>12, <2>3, EndedBound DEF Done, EndedTo
<1>13. ASSUME FilledTo(s, u) PROVE u.cursor # 0 /\ SettledBound(u, k)
  <2> DEFINE o == s.snapshot[s.cursor]
             f == FilledOrder(o, PassQuantity(o))
             next == [pc |-> "loop", snapshot |-> s.snapshot, cursor |-> s.cursor + 1]
             es == Logged(s.events, o.id, FillStatus(f.status))
  <2>1. /\ s.cursor \in 1 .. Len(s.snapshot)
        /\ u = Settle(ApplyPaperFill(s.account, o.intent, PassQuantity(o)), RebuiltIn(s.orders, f),
                      es, s.halted, s.riskState, next)
    BY <1>13 DEF FilledTo
  <2>2. next.pc = "loop" /\ next.snapshot = s.snapshot /\ next.cursor = s.cursor + 1
    BY ONLY LoopFields, Zenon
  <2> HIDE DEF next
  <2>3. /\ u.orders = RebuiltIn(s.orders, f) /\ u.events = es
        /\ u.snapshot = s.snapshot /\ u.cursor = s.cursor + 1
    BY <2>1, <2>2, SettleFields
  <2>4. Numbered(RebuiltIn(s.orders, f), k)
    BY <1>0, <1>1, RewrittenNumbered DEF RebuiltIn
  <2>5. Len(es) = Len(s.events) + 1
    BY <1>0, LoggedLength
  <2> HIDE DEF es, f, o
  <2>6. Len(s.events) <= k * MaxCalls + (s.cursor - 1) /\ Len(s.snapshot) <= k
    BY <2>1 DEF SettledBound
  <2>7. k * MaxCalls \in Nat
    BY <1>0
  <2> DEFINE km == k * MaxCalls
  <2>8. Len(es) <= km + (s.cursor + 1 - 1) /\ s.cursor + 1 <= Len(s.snapshot) + 1 /\ s.cursor + 1 > 0
    <3> HIDE DEF km
    <3>1. Len(s.events) <= km + (s.cursor - 1) /\ km \in Nat
      BY <2>6, <2>7 DEF km
    <3>2. Len(s.events) \in Nat /\ Len(s.snapshot) \in Nat /\ s.cursor \in Nat
      BY <1>0, Zenon
    <3>3. s.cursor \in 1 .. Len(s.snapshot)
      BY <2>1, Zenon
    <3> QED
      BY ONLY <2>5, <3>1, <3>2, <3>3
  <2>9. Len(u.snapshot) <= k /\ u.cursor > 0 /\ u.cursor <= Len(u.snapshot) + 1
        /\ Len(u.events) <= km + (u.cursor - 1) /\ u.cursor # 0
    <3> HIDE DEF km
    <3>1. s.cursor \in Nat
      BY <1>0, Zenon
    <3>2. Len(s.snapshot) <= k
      BY <2>6, Zenon
    <3> QED
      BY ONLY <2>3, <2>8, <3>1, <3>2
  <2>10. Len(u.orders) <= k /\ \A n \in DOMAIN u.orders : u.orders[n].id = n
    BY <2>3, <2>4 DEF Numbered
  <2> QED
    BY <2>9, <2>10 DEF SettledBound
<1> QED
  BY <1>5, <1>6, <1>7, <1>8, <1>9, <1>10, <1>11, <1>12, <1>13 DEF Leads, Done

-----------------------------------------------------------------------------
(* The steps of the only handler *)

\* What every step has to keep and to be.
Follows == SInv' /\ [Atomic!Next]_(Atomic!vars)

AtomicStutter == settled' = settled /\ saved' = saved

\* Where neither history moves, PaperExchange stutters.
LEMMA StutterIsAtomic == AtomicStutter => UNCHANGED Atomic!vars
BY DEF AtomicStutter, Atomic!vars

\* The settled exchange at rest is of its types.
LEMMA RestType ==
    ASSUME OneThread, NEW t \in Threads, TInv', thread'[t].pc \in {"idle", "loop"}
    PROVE  /\ SettledType(View')
           /\ View'.account = account' /\ View'.orders = orders' /\ View'.events = events'
           /\ View'.halted = halted'
           /\ thread'[t].pc = "idle" => View'.cursor = 0
           /\ thread'[t].pc = "loop" => View'.cursor > 0 /\ View'.cursor = thread'[t].cursor
<1>1. Handler' = thread'[t]
  BY TheHandler
<1> DEFINE h == thread'[t]
           u == View'
<1>2. orders' \in Seq(SoundOrder) /\ events' \in Seq(Exchange!Event)
  BY DEF TInv, MemoryOK
<1>3. h.pc = "loop" => h.snapshot \in Seq(SoundOrder) /\ h.cursor \in Nat \ {0}
  BY DEF TInv, HandlerOK, Pass
<1>4. /\ u.account = account' /\ u.orders = orders' /\ u.events = events' /\ u.halted = halted'
      /\ h.pc # "loop" => u.snapshot = <<>> /\ u.cursor = 0
      /\ h.pc = "loop" => u.snapshot = h.snapshot /\ u.cursor = h.cursor
  BY <1>1, ViewSettled, SettleFields
<1> HIDE DEF u, h
<1>5. SettledType(u)
  <2>1. u.snapshot \in Seq(SoundOrder) /\ u.cursor \in Nat
    <3>1. CASE h.pc = "loop"
      BY <1>3, <1>4, <3>1
    <3>2. CASE h.pc # "loop"
      <4>1. <<>> \in Seq(SoundOrder) /\ 0 \in Nat
        OBVIOUS
      <4> QED
        BY <1>4, <3>2, <4>1
    <3> QED
      BY <3>1, <3>2
  <2> QED
    BY <1>2, <1>4, <2>1 DEF SettledType
<1>6. h.pc \in {"idle", "loop"}
  BY DEF h
<1> QED
  BY <1>3, <1>4, <1>5, <1>6 DEF h, u

\* A handler at rest has nothing under way.
LEMMA RestOK ==
    ASSUME NEW h, h.pc \in {"idle", "loop"}, NEW s, NEW a, NEW os, NEW es, NEW hd, NEW rs
    PROVE  SerialOK(h, s, a, os, es, hd, rs)
BY DEF SerialOK

\* Between two points of rest nothing happens to PaperExchange.
LEMMA GoesOn ==
    ASSUME OneThread, SInv, TInv', NEW t \in Threads, NEW h, Go(t, h), h.pc \notin {"idle", "loop"},
           IF thread[t].pc = "idle" THEN calls' = calls + 1 ELSE calls' = calls,
           settled' = (IF AtRest' THEN View' ELSE settled), saved' = saved,
           SerialOK(h, settled, account', orders', events', halted', riskState')
    PROVE  Follows
<1>1. thread'[t] = h
  BY DEF Go, SInv, TInv
<1>2. Handler = thread[t] /\ Handler' = h
  BY <1>1, TheHandler
<1>3. ~AtRest'
  BY <1>2 DEF AtRest
<1>4. AtomicStutter
  BY <1>3 DEF AtomicStutter
<1>5. Finished' = Finished
  <2>1. calls \in Int
    BY ThreadAssumption DEF SInv, TInv, MemoryOK
  <2> QED
    BY <1>2, <2>1 DEF Finished
<1>6. SInv'
  BY <1>2, <1>3, <1>4, <1>5 DEF SInv, AtomicStutter
<1> QED
  BY <1>4, <1>6, StutterIsAtomic DEF Follows

\* Coming to rest, the handler has made what it led to.
LEMMA ComesToRest ==
    ASSUME OneThread, SInv, TInv', NEW t \in Threads, NEW h, Go(t, h), h.pc \in {"idle", "loop"},
           thread[t].pc # "idle", calls' = calls, settled' = (IF AtRest' THEN View' ELSE settled),
           saved' = (IF h.pc = "idle" THEN SavedMemory' ELSE saved),
           Leads(settled, Settle(account', orders', events', halted', riskState', h))
    PROVE  Follows
<1>1. thread'[t] = h
  BY DEF Go, SInv, TInv
<1>2. Handler = thread[t] /\ Handler' = h
  BY <1>1, TheHandler
<1> DEFINE u == View'
           k == Finished
<1>3. settled' = u /\ Leads(settled, u)
  BY <1>2, ViewSettled DEF AtRest
<1>4. /\ SettledType(u)
      /\ u.account = account' /\ u.orders = orders' /\ u.events = events' /\ u.halted = halted'
      /\ h.pc = "idle" => u.cursor = 0
      /\ h.pc = "loop" => u.cursor > 0
  BY <1>1, RestType
<1> HIDE DEF u
<1>5. u.cursor \in Nat
  BY <1>4 DEF SettledType
<1>6. Lands(u)
  BY <1>3, <1>4, <1>5 DEF Lands, SavedMemory
<1>7. calls \in 0 .. MaxCalls /\ MaxCalls \in Nat /\ k = calls - 1 /\ k \in Nat
  BY <1>2, ThreadAssumption DEF SInv, TInv, MemoryOK, Finished
<1>8. k + 1 <= MaxCalls
  BY <1>7
<1>9. Atomic!Next
  BY <1>3, <1>6, <1>7, <1>8, LeadsToStep DEF SInv
<1>10. SettledBound(u, IF u.cursor = 0 THEN k + 1 ELSE k)
  BY <1>3, <1>7, <1>8, LeadsBound DEF SInv
<1>11. Finished' = (IF u.cursor = 0 THEN k + 1 ELSE k)
  BY <1>2, <1>4, <1>5, <1>7 DEF Finished
<1>12. SInv'
  <2>1. SettledBound(settled', Finished') /\ SettledType(settled') /\ Finished' \in Nat
    BY <1>3, <1>4, <1>7, <1>10, <1>11
  <2>2. SerialOK(Handler', settled', account', orders', events', halted', riskState')
    BY <1>2, RestOK
  <2> QED
    BY <1>3, <2>1, <2>2 DEF SInv, u
<1> QED
  BY <1>9, <1>12 DEF Follows

\* A handler that logs and goes on.
LEMMA LoggingSerial ==
    ASSUME NEW s, NEW a, NEW os, NEW es, NEW hd, NEW rs, NEW id, NEW status, NEW then,
           then = Saving \/ then.pc = "loop",
           Leads(s, Settle(a, os, Logged(es, id, status), hd, rs, then))
    PROVE  LET h == Logging(id, status, then) IN
           /\ h.pc = "log"
           /\ LogLeads(h, s, a, os, es, hd, rs)
           /\ SerialOK(h, s, a, os, es, hd, rs)
<1> DEFINE h == Logging(id, status, then)
<1>1. h.pc = "log" /\ h.order = id /\ h.status = status /\ h.then = then
  BY DEF Logging
<1> HIDE DEF h
<1>2. LogLeads(h, s, a, os, es, hd, rs)
  BY <1>1 DEF LogLeads
<1>3. SerialOK(h, s, a, os, es, hd, rs)
  BY <1>1, <1>2 DEF SerialOK
<1> QED
  BY <1>1, <1>2, <1>3 DEF h

\* A handler that assigns a list and then logs.
LEMMA SwappingSerial ==
    ASSUME NEW s, NEW a, NEW os, NEW es, NEW hd, NEW rs, NEW list, NEW then,
           then.pc = "log", LogLeads(then, s, a, list, es, hd, rs)
    PROVE  LET h == Swapping(list, then) IN
           h.pc = "swap" /\ SerialOK(h, s, a, os, es, hd, rs)
<1> DEFINE h == Swapping(list, then)
<1>1. h.pc = "swap" /\ h.list = list /\ h.then = then
  BY DEF Swapping
<1> HIDE DEF h
<1>2. SerialOK(h, s, a, os, es, hd, rs)
  BY <1>1 DEF SerialOK
<1> QED
  BY <1>1, <1>2 DEF h

\* A handler that is about to save.
LEMMA SavingSerial ==
    ASSUME OneThread, NEW s, NEW a, NEW os, NEW es, NEW hd, NEW rs,
           Leads(s, Settle(a, os, es, hd, rs, Saving))
    PROVE  Saving.pc = "save" /\ SerialOK(Saving, s, a, os, es, hd, rs)
<1>1. Saving.pc = "save"
  BY DEF OneThread, Saving
<1> QED
  BY <1>1 DEF SerialOK

\* Before a request the settled exchange is the memory.
LEMMA IdleSettled ==
    ASSUME OneThread, SInv, NEW t \in Threads, At(t, "idle")
    PROVE  /\ settled = Settle(account, orders, events, halted, riskState, Saving)
           /\ settled.cursor = 0 /\ settled.snapshot = <<>>
           /\ settled.account = account /\ settled.orders = orders /\ settled.events = events
           /\ settled.halted = halted /\ settled.riskState = riskState
           /\ \A n \in DOMAIN orders : orders[n].id = n
<1>1. Handler.pc = "idle" /\ Saving.pc # "loop"
  BY TheHandler DEF At
<1>2. settled = Settle(account, orders, events, halted, riskState, Saving)
  BY <1>1, ViewSettled, SettledEnd DEF SInv, AtRest
<1> DEFINE u == Settle(account, orders, events, halted, riskState, Saving)
<1>3. /\ u.account = account /\ u.orders = orders /\ u.events = events
      /\ u.halted = halted /\ u.riskState = riskState /\ u.snapshot = <<>> /\ u.cursor = 0
  BY <1>1, SettleFields
<1> HIDE DEF u
<1> QED
  BY <1>2, <1>3 DEF u, SInv, SettledBound

\* What a step of the only thread does to the histories.
Histories(t, step) ==
    /\ settled' = (IF AtRest' THEN View' ELSE settled)
    /\ saved' = (IF step /\ LastFile(t) THEN SavedMemory ELSE saved)

\* A submission carries its preview's answer.
LEMMA SubmitFollows ==
    ASSUME OneThread, SInv, TInv', NEW t \in Threads, NEW i \in Intents, Submit(t, i),
           Histories(t, FALSE)
    PROVE  Follows
<1> DEFINE h == [pc |-> "number", intent |-> i, accepted |-> Exchange!PreviewAccepts(i)]
<1>1. h.pc = "number" /\ h.intent = i /\ (h.accepted <=> Previewed(halted, i))
  BY PreviewSame
<1>2. Go(t, h) /\ UNCHANGED memory /\ Called(t)
  BY DEF Submit
<1> HIDE DEF h
<1>3. SerialOK(h, settled, account, orders, events, halted, riskState)
  BY <1>1, <1>2, IdleSettled DEF SerialOK, Called
<1> QED
  BY <1>1, <1>2, <1>3, GoesOn DEF Called, At, memory, Histories

\* To settle what has settled changes nothing.
LEMMA SettleAgain ==
    \A a, os, es, hd, rs, p :
        LET s == Settle(a, os, es, hd, rs, p) IN
        p.pc # "loop" => s = Settle(s.account, s.orders, s.events, s.halted, s.riskState, p)
BY DEF Settle

\* A rejected submission goes on to its log entry, another one to the risk engine.
LEMMA NumberOrderFollows ==
    ASSUME OneThread, SInv, TInv', NEW t \in Threads, NumberOrder(t), Histories(t, TRUE)
    PROVE  Follows
<1> DEFINE i == thread[t].intent
           id == Len(orders) + 1
           s == settled
<1>1. /\ s = Settle(account, orders, events, halted, riskState, Saving)
      /\ thread[t].accepted <=> Previewed(halted, i)
      /\ i \in Intents
  BY TheHandler DEF NumberOrder, At, SInv, SerialOK, TInv, HandlerOK
<1>2. /\ s.account = account /\ s.orders = orders /\ s.events = events
      /\ s.halted = halted /\ s.riskState = riskState /\ s.cursor = 0
  BY <1>1, SettleFields, TheHandler
<1> HIDE DEF s
<1>3. CASE thread[t].accepted
  <2> DEFINE h == [pc |-> "risk", intent |-> i, id |-> id]
  <2>1. h.pc = "risk" /\ h.intent = i /\ h.id = id
    OBVIOUS
  <2>2. Go(t, h) /\ UNCHANGED memory
    BY <1>3 DEF NumberOrder
  <2> HIDE DEF h
  <2>3. SerialOK(h, s, account, orders, events, halted, riskState)
    BY <1>1, <1>3, <2>1 DEF SerialOK
  <2> QED
    BY <2>1, <2>2, <2>3, GoesOn DEF NumberOrder, At, memory, Histories, LastFile, s
<1>4. CASE ~thread[t].accepted
  <2> DEFINE h == Logging(id, "REJECTED", Saving)
  <2>1. RejectedTo(s, Settle(account, orders, Logged(events, id, "REJECTED"), halted, riskState, Saving))
    BY <1>1, <1>2, <1>4 DEF RejectedTo
  <2>2. h.pc = "log" /\ SerialOK(h, s, account, orders, events, halted, riskState)
    BY <1>2, <2>1, LoggingSerial DEF Leads
  <2>3. Go(t, h) /\ UNCHANGED memory
    BY <1>4 DEF NumberOrder
  <2> HIDE DEF h
  <2> QED
    BY <2>2, <2>3, GoesOn DEF NumberOrder, At, memory, Histories, LastFile, s
<1> QED
  BY <1>3, <1>4

\* The risk engine answers on the account of the settled exchange.
LEMMA EvaluateRiskFollows ==
    ASSUME OneThread, SInv, TInv', NEW t \in Threads, EvaluateRisk(t), Histories(t, TRUE)
    PROVE  Follows
<1> DEFINE i == thread[t].intent
           id == thread[t].id
           s == settled
<1>1. /\ s = Settle(account, orders, events, halted, riskState, Saving)
      /\ Previewed(halted, i) /\ id = Len(orders) + 1
      /\ i \in Intents
      /\ thread[t] \in [pc: {"risk", "append"}, intent: Orderable, id: Nat]
  BY TheHandler DEF EvaluateRisk, At, SInv, SerialOK, TInv, HandlerOK, Orderable
<1>2. /\ s.account = account /\ s.orders = orders /\ s.events = events
      /\ s.halted = halted /\ s.riskState = riskState /\ s.cursor = 0
  BY <1>1, SettleFields, TheHandler
<1> HIDE DEF s
<1>3. CASE RiskAccepts(account, 0, riskState, i)
  <2> DEFINE h == [thread[t] EXCEPT !.pc = "append"]
  <2>1. h.pc = "append" /\ h.intent = i /\ h.id = id
    BY <1>1
  <2>2. Go(t, h) /\ UNCHANGED memory
    BY <1>3 DEF EvaluateRisk
  <2> HIDE DEF h
  <2>3. SerialOK(h, s, account, orders, events, halted, riskState)
    BY <1>1, <1>3, <2>1 DEF SerialOK
  <2> QED
    BY <2>1, <2>2, <2>3, GoesOn DEF EvaluateRisk, At, memory, Histories, LastFile, s
<1>4. CASE ~RiskAccepts(account, 0, riskState, i)
  <2> DEFINE h == Logging(id, "REJECTED", Saving)
  <2>1. RejectedTo(s, Settle(account, orders, Logged(events, id, "REJECTED"), halted, riskState, Saving))
    BY <1>1, <1>2, <1>4 DEF RejectedTo
  <2>2. h.pc = "log" /\ SerialOK(h, s, account, orders, events, halted, riskState)
    BY <1>2, <2>1, LoggingSerial DEF Leads
  <2>3. Go(t, h) /\ UNCHANGED memory
    BY <1>4 DEF EvaluateRisk
  <2> HIDE DEF h
  <2> QED
    BY <2>2, <2>3, GoesOn DEF EvaluateRisk, At, memory, Histories, LastFile, s
<1> QED
  BY <1>3, <1>4

\* An accepted order goes to the end of the list.
LEMMA AppendOrderFollows ==
    ASSUME OneThread, SInv, TInv', NEW t \in Threads, AppendOrder(t), Histories(t, TRUE)
    PROVE  Follows
<1> DEFINE i == thread[t].intent
           id == thread[t].id
           s == settled
           h == Logging(id, "RESTING", Saving)
<1>1. /\ s = Settle(account, orders, events, halted, riskState, Saving)
      /\ Previewed(halted, i) /\ RiskAccepts(account, 0, riskState, i) /\ id = Len(orders) + 1
      /\ i \in Intents
  BY TheHandler DEF AppendOrder, At, SInv, SerialOK, TInv, HandlerOK, Orderable
<1>2. /\ s.account = account /\ s.orders = orders /\ s.events = events
      /\ s.halted = halted /\ s.riskState = riskState /\ s.cursor = 0
  BY <1>1, SettleFields, TheHandler
<1> HIDE DEF s
<1>3. AcceptedTo(s, Settle(account, Append(orders, NewOrder(id, i)),
                           Logged(events, id, "RESTING"), halted, riskState, Saving))
  BY <1>1, <1>2 DEF AcceptedTo
<1>4. h.pc = "log" /\ SerialOK(h, s, account, Append(orders, NewOrder(id, i)), events, halted, riskState)
  BY <1>2, <1>3, LoggingSerial DEF Leads
<1>5. /\ Go(t, h) /\ orders' = Append(orders, NewOrder(id, i))
      /\ UNCHANGED <<account, events, halted, riskState, calls>> /\ thread[t].pc = "append"
  BY DEF AppendOrder, At
<1> HIDE DEF h
<1> QED
  BY <1>4, <1>5, GoesOn DEF Histories, LastFile, At, s

\* A pass begins.
LEMMA ProcessOpenOrdersFollows ==
    ASSUME OneThread, SInv, TInv', NEW t \in Threads, ProcessOpenOrders(t), Histories(t, FALSE)
    PROVE  Follows
<1> DEFINE h == [pc |-> "loop", snapshot |-> orders, cursor |-> 1]
           u == View'
<1>1. h.pc = "loop" /\ h.snapshot = orders /\ h.cursor = 1
  OBVIOUS
<1>2. Go(t, h) /\ UNCHANGED memory /\ Called(t)
  BY DEF ProcessOpenOrders
<1> HIDE DEF h
<1>3. thread'[t] = h /\ Handler' = h /\ Handler = thread[t]
  BY <1>2, TheHandler DEF Go, SInv, TInv
<1>4. settled' = u /\ saved' = saved
  BY <1>1, <1>3 DEF Histories, AtRest
<1>5. u = Settle(account, orders, events, halted, riskState, h)
  BY <1>2, <1>3, ViewSettled DEF memory
<1>6. /\ u.account = account /\ u.orders = orders /\ u.events = events /\ u.halted = halted
      /\ u.riskState = riskState /\ u.snapshot = orders /\ u.cursor = 1
  BY <1>1, <1>5, SettleFields
<1>7. SettledType(u)
  BY <1>1, <1>3, RestType
<1> HIDE DEF u
<1>8. /\ settled.cursor = 0 /\ settled.snapshot = <<>>
      /\ settled.account = account /\ settled.orders = orders /\ settled.events = events
      /\ settled.halted = halted /\ settled.riskState = riskState
  BY <1>2, IdleSettled DEF Called
<1>9. Atomic!ProcessBegin
  BY <1>4, <1>6, <1>8 DEF Atomic!ProcessBegin, Atomic!Idle
<1>10. Finished' = Finished /\ Finished \in Nat
  BY <1>1, <1>2, <1>3, ThreadAssumption DEF Finished, Called, At, SInv, TInv, MemoryOK
<1>11. SettledBound(u, Finished)
  <2>1. SettledBound(settled, Finished)
    BY DEF SInv
  <2>2. /\ \A n \in DOMAIN orders : orders[n].id = n
        /\ Len(orders) <= Finished
        /\ Len(events) <= Finished * MaxCalls
    BY <1>8, <2>1 DEF SettledBound
  <2>3. Finished * MaxCalls \in Nat
    BY <1>10, ThreadAssumption
  <2>4. Len(orders) \in Nat /\ Len(events) \in Nat
    BY DEF SInv, TInv, MemoryOK
  <2>5. Len(events) <= Finished * MaxCalls + (1 - 1) /\ 1 <= Len(orders) + 1
    BY <2>2, <2>3, <2>4
  <2> QED
    BY <1>6, <2>2, <2>5 DEF SettledBound
<1>12. SerialOK(Handler', settled', account', orders', events', halted', riskState')
  BY <1>1, <1>3, RestOK
<1>13. SInv'
  BY <1>4, <1>7, <1>10, <1>11, <1>12 DEF SInv, u
<1> QED
  BY <1>9, <1>13 DEF Follows, Atomic!Next, Atomic!Process

\* The settled exchange while a pass is at an order.
LEMMA PassSettled ==
    ASSUME OneThread, SInv, NEW t \in Threads, At(t, "loop")
    PROVE  /\ settled = Settle(account, orders, events, halted, riskState, thread[t])
           /\ settled.cursor = thread[t].cursor /\ settled.snapshot = thread[t].snapshot
           /\ settled.account = account /\ settled.orders = orders /\ settled.events = events
           /\ settled.halted = halted /\ settled.riskState = riskState
           /\ thread[t] \in Pass
<1>1. Handler = thread[t] /\ thread[t].pc = "loop"
  BY TheHandler DEF At
<1>2. settled = Settle(account, orders, events, halted, riskState, thread[t])
  BY <1>1, ViewSettled DEF SInv, AtRest
<1>3. thread[t] \in Pass
  BY <1>1 DEF SInv, TInv, HandlerOK
<1> QED
  BY <1>1, <1>2, <1>3, SettleFields

\* The handler that goes on to the next order of its pass.
LEMMA AdvancedFields ==
    ASSUME NEW p \in Pass
    PROVE  /\ Advanced(p).pc = "loop" /\ Advanced(p).snapshot = p.snapshot
           /\ Advanced(p).cursor = p.cursor + 1
           /\ Advanced(p) = [pc |-> "loop", snapshot |-> p.snapshot, cursor |-> p.cursor + 1]
BY DEF Advanced, Pass

\* A pass leaves an order alone.
LEMMA SkipOrderFollows ==
    ASSUME OneThread, SInv, TInv', NEW t \in Threads, SkipOrder(t), Histories(t, TRUE)
    PROVE  Follows
<1> DEFINE p == thread[t]
           h == Advanced(p)
           u == View'
           o == p.snapshot[p.cursor]
<1>1. /\ p \in Pass /\ p.pc = "loop" /\ settled.cursor = p.cursor /\ settled.snapshot = p.snapshot
      /\ settled.account = account /\ settled.orders = orders /\ settled.events = events
      /\ settled.halted = halted /\ settled.riskState = riskState
  BY PassSettled DEF SkipOrder, InLoop, At
<1>2. h.pc = "loop" /\ h.snapshot = p.snapshot /\ h.cursor = p.cursor + 1
  BY <1>1, AdvancedFields
<1>3. Go(t, h) /\ UNCHANGED <<memory, calls>> /\ p.cursor <= Len(p.snapshot) /\ ~FillsVisited(o)
  BY DEF SkipOrder, InLoop, Visited
<1> HIDE DEF h
<1>4. thread'[t] = h /\ Handler' = h /\ Handler = p
  BY <1>3, TheHandler DEF Go, SInv, TInv
<1>5. settled' = u /\ saved' = saved
  BY <1>1, <1>2, <1>4 DEF Histories, AtRest, LastFile, At
<1>6. u = Settle(account, orders, events, halted, riskState, h)
  BY <1>3, <1>4, ViewSettled DEF memory
<1>7. /\ u.account = account /\ u.orders = orders /\ u.events = events /\ u.halted = halted
      /\ u.riskState = riskState /\ u.snapshot = p.snapshot /\ u.cursor = p.cursor + 1
  BY <1>2, <1>6, SettleFields
<1>8. SettledType(u)
  BY <1>2, <1>4, RestType
<1> HIDE DEF u
<1>9. p.snapshot \in Seq(SoundOrder) /\ p.cursor \in Nat \ {0} /\ p.cursor \in 1 .. Len(p.snapshot)
  BY <1>1, <1>3 DEF Pass
<1>10. IsOpen(o) => PassQuantity(o) <= 0
  <2>1. o \in Order
    BY <1>9, SoundElements
  <2> QED
    BY <1>3, <2>1, PassQuantityType DEF FillsVisited
<1>11. Atomic!ProcessSkip
  <2>1. Atomic!IsOpen(o) => Atomic!PassQuantity(o) <= 0
    BY <1>10, OperatorsSame
  <2> QED
    BY <1>1, <1>5, <1>7, <1>9, <2>1 DEF Atomic!ProcessSkip
<1>12. Finished' = Finished /\ Finished \in Nat
  BY <1>1, <1>2, <1>3, <1>4 DEF Finished, SInv
<1>13. SettledBound(u, Finished)
  <2>1. SettledBound(settled, Finished)
    BY DEF SInv
  <2>2. /\ \A n \in DOMAIN orders : orders[n].id = n
        /\ Len(orders) <= Finished
        /\ Len(p.snapshot) <= Finished
        /\ Len(events) <= Finished * MaxCalls + (p.cursor - 1)
    BY <1>1, <1>9, <2>1 DEF SettledBound
  <2> DEFINE km == Finished * MaxCalls
  <2>3. km \in Nat
    BY <1>12, ThreadAssumption
  <2>4. Len(orders) \in Nat /\ Len(events) \in Nat /\ Len(p.snapshot) \in Nat
    BY <1>9 DEF SInv, TInv, MemoryOK
  <2>5. Len(events) <= km + (p.cursor - 1)
    BY <2>2
  <2> HIDE DEF km
  <2>6. Len(events) <= km + (p.cursor + 1 - 1)
    BY <1>9, <2>3, <2>4, <2>5
  <2>7. Len(events) <= Finished * MaxCalls + (p.cursor + 1 - 1)
    BY <2>6 DEF km
  <2>8. p.cursor + 1 <= Len(p.snapshot) + 1 /\ p.cursor + 1 > 0
    BY <1>9, <2>4
  <2> QED
    BY <1>7, <1>9, <2>2, <2>7, <2>8 DEF SettledBound
<1>14. SerialOK(Handler', settled', account', orders', events', halted', riskState')
  BY <1>2, <1>4, RestOK
<1>15. SInv'
  BY <1>5, <1>8, <1>12, <1>13, <1>14 DEF SInv, u
<1> QED
  BY <1>11, <1>15 DEF Follows, Atomic!Next, Atomic!Process

\* A fill starts.
LEMMA FillOrderFollows ==
    ASSUME OneThread, SInv, TInv', NEW t \in Threads, FillOrder(t), Histories(t, TRUE)
    PROVE  Follows
<1> DEFINE p == thread[t]
           s == settled
           o == p.snapshot[p.cursor]
           q == PassQuantity(o)
           f == FilledOrder(o, q)
           next == [pc |-> "read account", order |-> o, quantity |-> q, then |-> Advanced(p)]
           h == Swapping(RebuiltIn(orders, f), next)
           l == Logging(o.id, FillStatus(f.status), Advanced(p))
<1>1. /\ p \in Pass /\ p.pc = "loop" /\ s.cursor = p.cursor /\ s.snapshot = p.snapshot
      /\ s.account = account /\ s.orders = orders /\ s.events = events
      /\ s.halted = halted /\ s.riskState = riskState
  BY PassSettled DEF FillOrder, InLoop, At
<1>2. Go(t, h) /\ UNCHANGED <<memory, calls>> /\ p.cursor <= Len(p.snapshot) /\ FillsVisited(o)
  BY DEF FillOrder, InLoop, Visited, Rebuilt, RebuiltIn
<1>3. next.pc = "read account" /\ next.order = o /\ next.quantity = q /\ next.then = Advanced(p)
  OBVIOUS
<1>4. h.pc = "swap" /\ h.list = RebuiltIn(orders, f) /\ h.then = next
  BY DEF Swapping
<1> HIDE DEF s, h, next
<1>5. p.cursor \in 1 .. Len(p.snapshot)
  BY <1>1, <1>2 DEF Pass
<1>6. FilledTo(s, Settle(ApplyPaperFill(account, o.intent, q), RebuiltIn(orders, f),
                         Logged(events, o.id, FillStatus(f.status)), halted, riskState, Advanced(p)))
  <2>1. /\ o = s.snapshot[s.cursor] /\ s.cursor \in 1 .. Len(s.snapshot) /\ FillsVisited(o)
        /\ Advanced(p) = [pc |-> "loop", snapshot |-> s.snapshot, cursor |-> s.cursor + 1]
    BY <1>1, <1>2, <1>5, AdvancedFields
  <2> HIDE DEF o, p
  <2> QED
    BY <1>1, <2>1 DEF FilledTo
<1>7. LogLeads(l, s, ApplyPaperFill(account, o.intent, q), RebuiltIn(orders, f), events, halted, riskState)
  BY <1>1, <1>6, LoggingSerial, AdvancedFields DEF Leads
<1> HIDE DEF f, q, o
<1>8. SerialOK(h, s, account, orders, events, halted, riskState)
  BY <1>3, <1>4, <1>7 DEF SerialOK, f
<1> QED
  BY <1>1, <1>2, <1>4, <1>8, GoesOn DEF Histories, LastFile, At, memory, s

\* The account is read, and then assigned.
LEMMA FillAccountFollows ==
    ASSUME OneThread, SInv, TInv', NEW t \in Threads, ReadAccount(t) \/ ApplyFill(t),
           Histories(t, TRUE)
    PROVE  Follows
<1>1. CASE ReadAccount(t)
  <2> DEFINE p == thread[t]
             f == FilledOrder(p.order, p.quantity)
             acct == ApplyPaperFill(account, p.order.intent, p.quantity)
             h == [pc |-> "apply", order |-> p.order, then |-> p.then, account |-> acct,
                   status |-> f.status]
  <2>1. p.pc = "read account" /\ Go(t, h) /\ UNCHANGED <<memory, calls>>
    BY <1>1 DEF ReadAccount, At
  <2>2. LogLeads(Logging(p.order.id, FillStatus(f.status), p.then), settled, acct, orders, events,
                 halted, riskState)
    BY <2>1, TheHandler DEF SInv, SerialOK
  <2>3. h.pc = "apply" /\ h.order = p.order /\ h.then = p.then /\ h.account = acct
        /\ h.status = f.status
    OBVIOUS
  <2> HIDE DEF h, acct, f
  <2>4. SerialOK(h, settled, account, orders, events, halted, riskState)
    BY <2>2, <2>3 DEF SerialOK
  <2> QED
    BY <2>1, <2>3, <2>4, GoesOn DEF Histories, LastFile, At, memory
<1>2. CASE ApplyFill(t)
  <2> DEFINE p == thread[t]
             h == Logging(p.order.id, FillStatus(p.status), p.then)
  <2>1. /\ p.pc = "apply" /\ Go(t, h) /\ account' = p.account
        /\ UNCHANGED <<orders, events, halted, riskState, calls>>
    BY <1>2 DEF ApplyFill, At, FillStatus
  <2>2. LogLeads(h, settled, p.account, orders, events, halted, riskState)
    BY <2>1, TheHandler DEF SInv, SerialOK
  <2>3. h.pc = "log"
    BY DEF Logging
  <2> HIDE DEF h
  <2>4. SerialOK(h, settled, p.account, orders, events, halted, riskState)
    BY <2>2, <2>3 DEF SerialOK
  <2> QED
    BY <2>1, <2>3, <2>4, GoesOn DEF Histories, LastFile, At
<1> QED
  BY <1>1, <1>2

\* A pass is over.
LEMMA EndPassFollows ==
    ASSUME OneThread, SInv, TInv', NEW t \in Threads, EndPass(t), Histories(t, TRUE)
    PROVE  Follows
<1> DEFINE p == thread[t]
           s == settled
<1>1. /\ p \in Pass /\ p.pc = "loop" /\ s.cursor = p.cursor /\ s.snapshot = p.snapshot
      /\ s.account = account /\ s.orders = orders /\ s.events = events
      /\ s.halted = halted /\ s.riskState = riskState
  BY PassSettled DEF EndPass, At
<1>2. Go(t, Saving) /\ UNCHANGED <<memory, calls>> /\ p.cursor > Len(p.snapshot)
  BY DEF EndPass
<1>3. p.cursor \in Nat /\ Len(p.snapshot) \in Nat
  BY <1>1 DEF Pass
<1>4. s.cursor > 0 => s.cursor <= Len(s.snapshot) + 1
  BY DEF SInv, SettledBound
<1> HIDE DEF s
<1>5. EndedTo(s, Settle(account, orders, events, halted, riskState, Saving))
  BY <1>1, <1>2, <1>3, <1>4 DEF EndedTo, Pass
<1>6. Saving.pc = "save" /\ SerialOK(Saving, s, account, orders, events, halted, riskState)
  BY <1>5, SavingSerial DEF Leads
<1> QED
  BY <1>1, <1>2, <1>6, GoesOn DEF Histories, LastFile, At, memory, s

\* Ids are places, so rebuilding a list around an order replaces that order only.
LEMMA RebuiltPlace ==
    ASSUME NEW os \in Seq(SoundOrder), \A n \in DOMAIN os : os[n].id = n,
           NEW n \in DOMAIN os, NEW o, o.id = n
    PROVE  RebuiltIn(os, o) = [os EXCEPT ![n] = o]
BY DEF RebuiltIn

\* A cancel carries the closed order, or logs that there was none to close.
LEMMA CancelOrderFollows ==
    ASSUME OneThread, SInv, TInv', NEW t \in Threads, NEW n \in DOMAIN orders, CancelOrder(t, n),
           Histories(t, FALSE)
    PROVE  Follows
<1> DEFINE s == settled
           o == WithStatus(orders[n], "CANCELED")
           es == Logged(events, orders[n].id, "CANCELED")
<1>1. /\ s.cursor = 0
      /\ s.account = account /\ s.orders = orders /\ s.events = events
      /\ s.halted = halted /\ s.riskState = riskState
      /\ \A m \in DOMAIN orders : orders[m].id = m
  BY IdleSettled DEF CancelOrder, Called
<1>2. orders \in Seq(SoundOrder)
  BY DEF SInv, TInv, MemoryOK
<1> HIDE DEF s
<1>3. CASE IsOpen(orders[n])
  <2> DEFINE h == [pc |-> "rebuild", order |-> o]
  <2>1. o.id = n
    BY <1>1, <1>2, StatusKeepsId
  <2>2. RebuiltIn(orders, o) = [orders EXCEPT ![n] = IF IsOpen(orders[n]) THEN o ELSE orders[n]]
    BY <1>1, <1>2, <1>3, <2>1, RebuiltPlace
  <2>3. CanceledTo(s, Settle(account, RebuiltIn(orders, o), es, halted, riskState, Saving))
    BY <1>1, <2>2 DEF CanceledTo
  <2>4. LogLeads(Logging(o.id, "CANCELED", Saving), s, account, RebuiltIn(orders, o), events,
                 halted, riskState)
    BY <1>1, <2>1, <2>3, LoggingSerial DEF Leads
  <2>5. Go(t, h) /\ UNCHANGED memory /\ Called(t)
    BY <1>3 DEF CancelOrder
  <2>6. h.pc = "rebuild" /\ h.order = o
    OBVIOUS
  <2> HIDE DEF h, o
  <2>7. SerialOK(h, s, account, orders, events, halted, riskState)
    BY <2>4, <2>6 DEF SerialOK
  <2> QED
    BY <2>5, <2>6, <2>7, GoesOn DEF Called, At, memory, Histories, s
<1>4. CASE ~IsOpen(orders[n])
  <2> DEFINE h == Logging(orders[n].id, "CANCELED", Saving)
  <2>1. orders = [orders EXCEPT ![n] = IF IsOpen(orders[n]) THEN o ELSE orders[n]]
    BY <1>2, <1>4
  <2>2. CanceledTo(s, Settle(account, orders, es, halted, riskState, Saving))
    BY <1>1, <2>1 DEF CanceledTo
  <2>3. h.pc = "log" /\ SerialOK(h, s, account, orders, events, halted, riskState)
    BY <1>1, <2>2, LoggingSerial DEF Leads
  <2>4. Go(t, h) /\ UNCHANGED memory /\ Called(t)
    BY <1>4 DEF CancelOrder
  <2> HIDE DEF h
  <2> QED
    BY <2>3, <2>4, GoesOn DEF Called, At, memory, Histories, s
<1> QED
  BY <1>3, <1>4

\* An expiry carries the index it found and the closed order.
LEMMA ExpireOrderFollows ==
    ASSUME OneThread, SInv, TInv', NEW t \in Threads, NEW n \in DOMAIN orders, ExpireOrder(t, n),
           Histories(t, FALSE)
    PROVE  Follows
<1> DEFINE s == settled
           o == WithStatus(orders[n], "EXPIRED")
           es == Logged(events, orders[n].id, "EXPIRED")
           h == [pc |-> "expire", index |-> n, order |-> o]
<1>1. /\ s.cursor = 0
      /\ s.account = account /\ s.orders = orders /\ s.events = events
      /\ s.halted = halted /\ s.riskState = riskState
      /\ \A m \in DOMAIN orders : orders[m].id = m
  BY IdleSettled DEF ExpireOrder, Called
<1>2. orders \in Seq(SoundOrder)
  BY DEF SInv, TInv, MemoryOK
<1> HIDE DEF s
<1>3. o.id = n
  BY <1>1, <1>2, StatusKeepsId
<1>4. ExpiredTo(s, Settle(account, [orders EXCEPT ![n] = o], es, halted, riskState, Saving))
  BY <1>1 DEF ExpiredTo, ExpireOrder
<1>5. LogLeads(Logging(o.id, "EXPIRED", Saving), s, account, [orders EXCEPT ![n] = o], events,
               halted, riskState)
  BY <1>1, <1>3, <1>4, LoggingSerial DEF Leads
<1>6. Go(t, h) /\ UNCHANGED memory /\ Called(t)
  BY DEF ExpireOrder
<1>7. h.pc = "expire" /\ h.order = o /\ h.index = n
  OBVIOUS
<1> HIDE DEF h, o
<1>8. SerialOK(h, s, account, orders, events, halted, riskState)
  BY <1>5, <1>7 DEF SerialOK
<1> QED
  BY <1>6, <1>7, <1>8, GoesOn DEF Called, At, memory, Histories, s

\* The list is rebuilt or overwritten; it is never found cleared.
LEMMA CloseFollows ==
    ASSUME OneThread, SInv, TInv', NEW t \in Threads, Histories(t, TRUE),
           RebuildOrders(t) \/ ExpireAtIndex(t) \/ ExpireIndexError(t)
    PROVE  Follows
<1> DEFINE p == thread[t]
<1>1. CASE RebuildOrders(t)
  <2> DEFINE l == Logging(p.order.id, "CANCELED", Saving)
             h == Swapping(RebuiltIn(orders, p.order), l)
  <2>1. p.pc = "rebuild" /\ Go(t, h) /\ UNCHANGED <<memory, calls>>
    BY <1>1 DEF RebuildOrders, At, Rebuilt, RebuiltIn
  <2>2. LogLeads(l, settled, account, RebuiltIn(orders, p.order), events, halted, riskState)
    BY <2>1, TheHandler DEF SInv, SerialOK
  <2>3. l.pc = "log"
    BY DEF Logging
  <2>4. h.pc = "swap" /\ SerialOK(h, settled, account, orders, events, halted, riskState)
    BY <2>2, <2>3, SwappingSerial
  <2> HIDE DEF h, l
  <2> QED
    BY <2>1, <2>4, GoesOn DEF Histories, LastFile, At, memory
<1>2. CASE ExpireAtIndex(t)
  <2> DEFINE h == Logging(p.order.id, "EXPIRED", Saving)
             os == [orders EXCEPT ![p.index] = p.order]
  <2>1. /\ p.pc = "expire" /\ Go(t, h) /\ orders' = os
        /\ UNCHANGED <<account, events, halted, riskState, calls>>
    BY <1>2 DEF ExpireAtIndex, At
  <2>2. LogLeads(h, settled, account, os, events, halted, riskState)
    BY <2>1, TheHandler DEF SInv, SerialOK
  <2>3. h.pc = "log"
    BY DEF Logging
  <2> HIDE DEF h, os
  <2>4. SerialOK(h, settled, account, os, events, halted, riskState)
    BY <2>2, <2>3 DEF SerialOK
  <2> QED
    BY <2>1, <2>3, <2>4, GoesOn DEF Histories, LastFile, At
<1>3. CASE ExpireIndexError(t)
  <2>1. p.pc = "expire" /\ p.index > Len(orders)
    BY <1>3 DEF ExpireIndexError, At
  <2>2. p.index \in DOMAIN orders
    BY <2>1, TheHandler DEF SInv, SerialOK
  <2> QED
    BY <2>1, <2>2 DEF SInv, TInv, MemoryOK
<1> QED
  BY <1>1, <1>2, <1>3

\* A list is assigned.
LEMMA SwapOrdersFollows ==
    ASSUME OneThread, SInv, TInv', NEW t \in Threads, SwapOrders(t), Histories(t, TRUE)
    PROVE  Follows
<1> DEFINE p == thread[t]
           h == p.then
<1>1. /\ p.pc = "swap" /\ Go(t, h) /\ orders' = p.list
      /\ UNCHANGED <<account, events, halted, riskState, calls>>
  BY DEF SwapOrders, At
<1>2. SerialOK(p, settled, account, orders, events, halted, riskState)
  BY TheHandler DEF SInv
<1>3. h.pc \in {"log", "read account"}
  BY <1>1 DEF SInv, TInv, HandlerOK, SwapOK
<1>4. SerialOK(h, settled, account, p.list, events, halted, riskState)
  BY <1>1, <1>2, <1>3 DEF SerialOK
<1> QED
  BY <1>1, <1>3, <1>4, GoesOn DEF Histories, LastFile, At

\* An event is logged: a fill is over, or the handler goes on to save.
LEMMA RecordEventFollows ==
    ASSUME OneThread, SInv, TInv', NEW t \in Threads, RecordEvent(t), Histories(t, TRUE)
    PROVE  Follows
<1> DEFINE p == thread[t]
           h == p.then
           es == Logged(events, p.order, p.status)
<1>1. /\ p.pc = "log" /\ Go(t, h) /\ events' = es
      /\ UNCHANGED <<account, orders, halted, riskState, calls>>
  BY DEF RecordEvent, At, Logged
<1>2. /\ h = Saving \/ h.pc = "loop"
      /\ Leads(settled, Settle(account, orders, es, halted, riskState, h))
  BY <1>1, TheHandler DEF SInv, SerialOK, LogLeads
<1> HIDE DEF es
<1>3. saved' = saved
  BY <1>1 DEF Histories, LastFile, At
<1>4. CASE h = Saving
  <2>1. h.pc = "save" /\ SerialOK(h, settled, account, orders, es, halted, riskState)
    BY <1>2, <1>4, SavingSerial
  <2> QED
    BY <1>1, <1>3, <2>1, GoesOn DEF Histories
<1>5. CASE h.pc = "loop"
  BY <1>1, <1>2, <1>3, <1>5, ComesToRest DEF Histories
<1> QED
  BY <1>2, <1>4, <1>5

\* The handlers that carry nothing but their place.
LEMMA PlainSerial ==
    ASSUME NEW s, NEW a, NEW os, NEW es, NEW hd, NEW rs, NEW p
    PROVE  /\ [pc |-> p].pc = p
           /\ p = "clear orders" /\ Leads(s, Settle(a, <<>>, <<>>, FALSE, rs, Saving)) =>
                 SerialOK([pc |-> p], s, a, os, es, hd, rs)
           /\ p = "clear events" /\ Leads(s, Settle(a, os, <<>>, FALSE, rs, Saving)) =>
                 SerialOK([pc |-> p], s, a, os, es, hd, rs)
           /\ p = "resume" /\ Leads(s, Settle(a, os, es, FALSE, rs, Saving)) =>
                 SerialOK([pc |-> p], s, a, os, es, hd, rs)
           /\ p = "veto"
              /\ Leads(s, Settle(a, os, es, hd, [DefaultRiskState EXCEPT !.panic = TRUE], Saving)) =>
                 SerialOK([pc |-> p], s, a, os, es, hd, rs)
<1> DEFINE h == [pc |-> p]
<1>1. h.pc = p
  OBVIOUS
<1> HIDE DEF h
<1> QED
  BY <1>1 DEF SerialOK, h

\* A reset.
LEMMA ResetFollows ==
    ASSUME OneThread, SInv, TInv', NEW t \in Threads,
           \/ Reset(t) /\ Histories(t, FALSE)
           \/ (ClearOrders(t) \/ ClearEvents(t) \/ ClearHalt(t)) /\ Histories(t, TRUE)
    PROVE  Follows
<1> DEFINE p == thread[t]
<1>1. CASE Reset(t) /\ Histories(t, FALSE)
  <2> DEFINE h == [pc |-> "clear orders"]
  <2>1. /\ settled.cursor = 0 /\ settled.riskState = riskState
    BY <1>1, IdleSettled DEF Reset, Called
  <2>2. Leads(settled, Settle(DefaultAccount, <<>>, <<>>, FALSE, riskState, Saving))
    BY <2>1 DEF Leads, ResetTo
  <2>3. h.pc = "clear orders" /\ SerialOK(h, settled, DefaultAccount, orders, events, halted, riskState)
    BY <2>2, PlainSerial
  <2>4. /\ Go(t, h) /\ account' = DefaultAccount /\ Called(t)
        /\ UNCHANGED <<orders, events, halted, riskState>>
    BY <1>1 DEF Reset
  <2> HIDE DEF h
  <2> QED
    BY <1>1, <2>3, <2>4, GoesOn DEF Called, At, Histories
<1>2. CASE ClearOrders(t) /\ Histories(t, TRUE)
  <2> DEFINE h == [pc |-> "clear events"]
  <2>1. /\ p.pc = "clear orders" /\ Go(t, h) /\ orders' = <<>>
        /\ UNCHANGED <<account, events, halted, riskState, calls>>
    BY <1>2 DEF ClearOrders, At
  <2>2. Leads(settled, Settle(account, <<>>, <<>>, FALSE, riskState, Saving))
    BY <2>1, TheHandler DEF SInv, SerialOK
  <2>3. h.pc = "clear events" /\ SerialOK(h, settled, account, <<>>, events, halted, riskState)
    BY <2>2, PlainSerial
  <2> HIDE DEF h
  <2> QED
    BY <1>2, <2>1, <2>3, GoesOn DEF Histories, LastFile, At
<1>3. CASE ClearEvents(t) /\ Histories(t, TRUE)
  <2> DEFINE h == [pc |-> "resume"]
  <2>1. /\ p.pc = "clear events" /\ Go(t, h) /\ events' = <<>>
        /\ UNCHANGED <<account, orders, halted, riskState, calls>>
    BY <1>3 DEF ClearEvents, At
  <2>2. Leads(settled, Settle(account, orders, <<>>, FALSE, riskState, Saving))
    BY <2>1, TheHandler DEF SInv, SerialOK
  <2>3. h.pc = "resume" /\ SerialOK(h, settled, account, orders, <<>>, halted, riskState)
    BY <2>2, PlainSerial
  <2> HIDE DEF h
  <2> QED
    BY <1>3, <2>1, <2>3, GoesOn DEF Histories, LastFile, At
<1>4. CASE ClearHalt(t) /\ Histories(t, TRUE)
  <2>1. /\ p.pc = "resume" /\ Go(t, Saving) /\ halted' = FALSE
        /\ UNCHANGED <<account, orders, events, riskState, calls>>
    BY <1>4 DEF ClearHalt, At
  <2>2. Leads(settled, Settle(account, orders, events, FALSE, riskState, Saving))
    BY <2>1, TheHandler DEF SInv, SerialOK
  <2>3. Saving.pc = "save" /\ SerialOK(Saving, settled, account, orders, events, FALSE, riskState)
    BY <2>2, SavingSerial
  <2> QED
    BY <1>4, <2>1, <2>3, GoesOn DEF Histories, LastFile, At
<1> QED
  BY <1>1, <1>2, <1>3, <1>4

\* The panic controls.
LEMMA PanicFollows ==
    ASSUME OneThread, SInv, TInv', NEW t \in Threads,
           \/ (PanicHalt(t) \/ PanicCancelOpenOrders(t) \/ PanicFlattenPositions(t))
              /\ Histories(t, FALSE)
           \/ VetoOrders(t) /\ Histories(t, TRUE)
    PROVE  Follows
<1> DEFINE p == thread[t]
           s == settled
           vetoed == [DefaultRiskState EXCEPT !.panic = TRUE]
<1>1. Called(t) => /\ s.cursor = 0
                   /\ s.account = account /\ s.orders = orders /\ s.events = events
                   /\ s.halted = halted /\ s.riskState = riskState
  BY IdleSettled DEF Called
<1> HIDE DEF vetoed, s
<1>2. CASE PanicHalt(t) /\ Histories(t, FALSE)
  <2> DEFINE h == [pc |-> "veto"]
  <2>1. /\ Go(t, h) /\ halted' = TRUE /\ Called(t)
        /\ UNCHANGED <<account, orders, events, riskState>>
    BY <1>2 DEF PanicHalt
  <2>2. Leads(s, Settle(account, orders, events, TRUE, vetoed, Saving))
    BY <1>1, <2>1 DEF Leads, HaltedTo, vetoed
  <2>3. h.pc = "veto" /\ SerialOK(h, s, account, orders, events, TRUE, riskState)
    BY <2>2, PlainSerial DEF vetoed
  <2> HIDE DEF h
  <2> QED
    BY <1>2, <2>1, <2>3, GoesOn DEF Called, At, Histories, s
<1>3. CASE VetoOrders(t) /\ Histories(t, TRUE)
  <2>1. /\ p.pc = "veto" /\ Go(t, Saving) /\ riskState' = vetoed
        /\ UNCHANGED <<account, orders, events, halted, calls>>
    BY <1>3 DEF VetoOrders, At, vetoed
  <2>2. Leads(s, Settle(account, orders, events, halted, vetoed, Saving))
    BY <2>1, TheHandler DEF SInv, SerialOK, vetoed, s
  <2>3. Saving.pc = "save" /\ SerialOK(Saving, s, account, orders, events, halted, vetoed)
    BY <2>2, SavingSerial
  <2> QED
    BY <1>3, <2>1, <2>3, GoesOn DEF Histories, LastFile, At, s
<1>4. CASE PanicCancelOpenOrders(t) /\ Histories(t, FALSE)
  <2> DEFINE list == [n \in DOMAIN orders |-> IF IsOpen(orders[n])
                                              THEN WithStatus(orders[n], "CANCELED")
                                              ELSE orders[n]]
             l == Logging(Exchange!AllOrders, "CANCELED", Saving)
             h == Swapping(list, l)
  <2>1. Go(t, h) /\ UNCHANGED memory /\ Called(t)
    BY <1>4 DEF PanicCancelOpenOrders
  <2>2. Leads(s, Settle(account, list, Logged(events, Exchange!AllOrders, "CANCELED"), halted,
                        riskState, Saving))
    BY <1>1, <2>1 DEF Leads, AllCanceledTo
  <2>3. l.pc = "log" /\ LogLeads(l, s, account, list, events, halted, riskState)
    BY <2>2, LoggingSerial
  <2>4. h.pc = "swap" /\ SerialOK(h, s, account, orders, events, halted, riskState)
    BY <2>3, SwappingSerial
  <2> HIDE DEF h
  <2> QED
    BY <1>4, <2>1, <2>4, GoesOn DEF Called, At, memory, Histories, s
<1>5. CASE PanicFlattenPositions(t) /\ Histories(t, FALSE)
  <2> DEFINE h == Logging(Exchange!AllOrders, "MATCHED", Saving)
  <2>1. /\ Go(t, h) /\ account' = DefaultAccount /\ Called(t)
        /\ UNCHANGED <<orders, events, halted, riskState>>
    BY <1>5 DEF PanicFlattenPositions
  <2>2. Leads(s, Settle(DefaultAccount, orders, Logged(events, Exchange!AllOrders, "MATCHED"),
                        halted, riskState, Saving))
    BY <1>1, <2>1 DEF Leads, FlattenedTo
  <2>3. h.pc = "log" /\ SerialOK(h, s, DefaultAccount, orders, events, halted, riskState)
    BY <2>2, LoggingSerial
  <2> HIDE DEF h
  <2> QED
    BY <1>5, <2>1, <2>3, GoesOn DEF Called, At, Histories, s
<1> QED
  BY <1>2, <1>3, <1>4, <1>5

\* The files are written; with the last one the request is over.
LEMMA SaveFollows ==
    ASSUME OneThread, SInv, TInv', NEW t \in Threads, BeginSave(t) \/ WriteFile(t),
           Histories(t, TRUE)
    PROVE  Follows
<1> DEFINE p == thread[t]
<1>0. \A k : Writing(k).pc = "write" /\ Writing(k).file = k
  BY DEF Writing
<1>1. p.pc \in {"save", "write"} /\ UNCHANGED <<memory, calls>>
  BY DEF BeginSave, WriteFile, At
<1>2. Leads(settled, Settle(account, orders, events, halted, riskState, Saving))
  BY <1>1, TheHandler DEF SInv, SerialOK
<1>3. \A k : SerialOK(Writing(k), settled, account, orders, events, halted, riskState)
  BY <1>0, <1>2 DEF SerialOK
<1>4. CASE BeginSave(t)
  <2>1. Go(t, Writing(1)) /\ p.pc = "save"
    BY <1>4 DEF BeginSave, At
  <2> QED
    BY <1>0, <1>1, <1>3, <2>1, GoesOn DEF Histories, LastFile, At, memory
<1>5. CASE WriteFile(t)
  <2>1. p.pc = "write" /\ p.file \in 1 .. 4 /\ Len(FileOrder) = 4
    BY <1>5 DEF WriteFile, At, SInv, TInv, HandlerOK, FileOrder
  <2>2. CASE p.file < 4
    <3>1. Go(t, Writing(p.file + 1)) /\ ~LastFile(t)
      BY <1>5, <2>1, <2>2 DEF WriteFile, LastFile
    <3> QED
      BY <1>0, <1>1, <1>3, <2>1, <3>1, GoesOn DEF Histories, memory
  <2>3. CASE p.file = 4
    <3>1. Go(t, Idle) /\ LastFile(t) /\ Idle.pc = "idle"
      BY <1>5, <2>1, <2>3, SavingPc DEF WriteFile, LastFile, At
    <3>2. Settle(account, orders, events, halted, riskState, Idle) =
          Settle(account, orders, events, halted, riskState, Saving)
      BY <3>1, SettledEnd, TheHandler
    <3>3. saved' = SavedMemory'
      BY <1>1, <3>1 DEF Histories, SavedMemory, memory
    <3> QED
      BY <1>1, <1>2, <2>1, <3>1, <3>2, <3>3, ComesToRest DEF Histories, memory
  <2> QED
    BY <2>1, <2>2, <2>3
<1> QED
  BY <1>4, <1>5

\* The server dies: whatever was under way has not happened.
LEMMA RestartFollows ==
    ASSUME OneThread, SInv, TInv', NEW t \in Threads, Restart, saved' = saved,
           settled' = (IF AtRest' THEN View' ELSE settled)
    PROVE  Follows
<1> DEFINE u == View'
<1>1. thread'[t] = Idle /\ Idle.pc = "idle" /\ Handler' = Idle
  BY SavingPc, TheHandler DEF Restart
<1>2. settled' = u
  BY <1>1 DEF AtRest
<1>3. u = Settle(DefaultAccount, <<>>, <<>>, FALSE, DefaultRiskState, Idle)
  BY <1>1, ViewSettled, SameDefaults DEF Restart, Exchange!Boot
<1>4. /\ u.account = DefaultAccount /\ u.orders = <<>> /\ u.events = <<>> /\ u.halted = FALSE
      /\ u.riskState = DefaultRiskState /\ u.snapshot = <<>> /\ u.cursor = 0
  BY <1>3, BootSettled
<1>5. SettledType(u)
  BY <1>1, RestType
<1> HIDE DEF u
<1>6. Atomic!Restart
  BY <1>2, <1>4, OperatorsSame DEF Atomic!Restart, Atomic!Boot
<1>7. Finished' = calls /\ calls \in Nat
  BY <1>1 DEF Restart, Finished, SInv, TInv, MemoryOK
<1>8. SettledBound(u, calls)
  <2>1. 0 <= calls * MaxCalls
    BY <1>7, ThreadAssumption
  <2> QED
    BY <1>4, <1>7, <2>1 DEF SettledBound
<1>9. SerialOK(Handler', settled', account', orders', events', halted', riskState')
  BY <1>1, RestOK
<1>10. SInv'
  BY <1>2, <1>5, <1>7, <1>8, <1>9 DEF SInv, u
<1> QED
  BY <1>6, <1>10 DEF Follows, Atomic!Next

\* Every step follows.
LEMMA SerialNextFollows == ASSUME OneThread, SInv, [SerialNext]_serialVars PROVE Follows
<1>1. PICK t \in Threads : Threads = {t}
  BY DEF OneThread
<1>2. [Next]_vars
  BY DEF SerialNext, serialVars, Next
<1>3. TInv'
  BY <1>2, NextTInv DEF SInv
<1>4. CASE Request(t) /\ saved' = saved /\ settled' = (IF AtRest' THEN View' ELSE settled)
  <2>1. Histories(t, FALSE)
    BY <1>4 DEF Histories
  <2> QED
    BY <1>3, <1>4, <2>1, SubmitFollows, ProcessOpenOrdersFollows, CancelOrderFollows,
       ExpireOrderFollows, ResetFollows, PanicFollows DEF Request
<1>5. CASE HandlerStep(t) /\ saved' = (IF LastFile(t) THEN SavedMemory ELSE saved)
           /\ settled' = (IF AtRest' THEN View' ELSE settled)
  <2>1. Histories(t, TRUE)
    BY <1>5 DEF Histories
  <2> QED
    BY <1>3, <1>5, <2>1, NumberOrderFollows, EvaluateRiskFollows, AppendOrderFollows,
       SkipOrderFollows, FillOrderFollows, FillAccountFollows, EndPassFollows, CloseFollows,
       SwapOrdersFollows, RecordEventFollows, ResetFollows, PanicFollows, SaveFollows DEF HandlerStep
<1>6. CASE Restart /\ saved' = saved /\ settled' = (IF AtRest' THEN View' ELSE settled)
  BY <1>3, <1>6, RestartFollows
<1>7. CASE UNCHANGED serialVars
  <2>1. AtomicStutter /\ UNCHANGED vars
    BY <1>7 DEF serialVars, AtomicStutter
  <2>2. View' = View /\ Handler' = Handler
    BY <2>1 DEF vars, View, Handler
  <2>3. SInv'
    BY <1>3, <2>1, <2>2 DEF SInv, AtomicStutter, vars, AtRest, Finished
  <2> QED
    BY <2>1, <2>3, StutterIsAtomic DEF Follows
<1> QED
  BY <1>1, <1>4, <1>5, <1>6, <1>7 DEF SerialNext

\* A new server and its exchange start alike.
LEMMA SerialInitFollows == ASSUME OneThread, SerialInit PROVE SInv /\ Atomic!Init
<1>1. PICK t \in Threads : Threads = {t}
  BY DEF OneThread
<1>2. Handler = Idle /\ Idle.pc = "idle"
  BY TheHandler, SavingPc DEF SerialInit, Init
<1>3. TInv
  BY InitTInv DEF SerialInit
<1>4. settled = Settle(DefaultAccount, <<>>, <<>>, FALSE, DefaultRiskState, Idle)
  BY <1>2, ViewSettled, SameDefaults DEF SerialInit, Init, Exchange!Boot
<1> DEFINE u == Settle(DefaultAccount, <<>>, <<>>, FALSE, DefaultRiskState, Idle)
<1>5. /\ u.account = DefaultAccount /\ u.orders = <<>> /\ u.events = <<>> /\ u.halted = FALSE
      /\ u.riskState = DefaultRiskState /\ u.snapshot = <<>> /\ u.cursor = 0
  BY BootSettled
<1>5a. settled = u
  BY <1>4
<1> HIDE DEF u
<1>6. saved = <<DefaultAccount, <<>>, <<>>, FALSE>>
  BY SameDefaults DEF SerialInit, SavedMemory, Init, Exchange!Boot
<1>7. Atomic!Init
  BY <1>5, <1>5a, <1>6, OperatorsSame DEF Atomic!Init, Atomic!Boot, Atomic!BootMemory
<1>8. Finished = 0
  BY <1>2 DEF Finished, SerialInit, Init
<1>9. SettledType(settled)
  <2>1. <<>> \in Seq(SoundOrder) /\ <<>> \in Seq(Exchange!Event) /\ 0 \in Nat
    OBVIOUS
  <2> QED
    BY <1>5, <1>5a, <2>1 DEF SettledType
<1>10. SettledBound(settled, 0)
  <2>1. 0 <= 0 * MaxCalls
    BY ThreadAssumption
  <2> QED
    BY <1>5, <1>5a, <2>1 DEF SettledBound
<1>11. SerialOK(Handler, settled, account, orders, events, halted, riskState)
  BY <1>2, RestOK
<1> QED
  BY <1>3, <1>7, <1>8, <1>9, <1>10, <1>11 DEF SInv, SerialInit

\* With one thread and a state store, the steps of the handlers implement the exchange
\* with atomic handlers and one file, server deaths included.
THEOREM SerialImplements == ASSUME OneThread PROVE SerialSpec => ImplementsPaperExchange
<1>1. SerialInit => SInv /\ Atomic!Init
  BY SerialInitFollows
<1>2. SInv /\ [SerialNext]_serialVars => SInv' /\ [Atomic!Next]_(Atomic!vars)
  BY SerialNextFollows DEF Follows
<1> QED
  BY <1>1, <1>2, PTL DEF SerialSpec, ImplementsPaperExchange, Atomic!Spec

-----------------------------------------------------------------------------
(* The four files *)

\* What a handler that saves has written and is about to write is the present memory:
\* no other handler changes it.
SavedSoFar ==
    Handler.pc = "write" =>
        /\ Handler.data = Payload(FileOrder[Handler.file])
        /\ \A k \in 1 .. Handler.file - 1 : files[FileOrder[k]] = Payload(FileOrder[k])

\* No step but those of _persist_state ends a request or writes.
LEMMA OnlySavingEnds ==
    ASSUME OneThread, SInv, NEW t \in Threads, Request(t) \/ HandlerStep(t),
           ~BeginSave(t), ~WriteFile(t)
    PROVE  thread'[t].pc \notin {"idle", "write"}
<1>1. \A h : Go(t, h) => thread'[t] = h
  BY DEF Go, SInv, TInv
<1>2. /\ Saving.pc = "save"
      /\ \A id, x, p : Logging(id, x, p).pc = "log"
      /\ \A l, p : Swapping(l, p).pc = "swap"
      /\ \A p : [pc |-> p].pc = p
  BY TheHandler DEF Logging, Swapping
<1>3. CASE Request(t)
  <2>1. ASSUME NEW i \in Intents, Submit(t, i) PROVE \E h : Go(t, h) /\ h.pc = "number"
    BY <2>1 DEF Submit
  <2>2. ProcessOpenOrders(t) => \E h : Go(t, h) /\ h.pc = "loop"
    BY DEF ProcessOpenOrders
  <2>3. ASSUME NEW n, CancelOrder(t, n) PROVE \E h : Go(t, h) /\ h.pc \in {"rebuild", "log"}
    <3>1. \A o : [pc |-> "rebuild", order |-> o].pc = "rebuild"
      OBVIOUS
    <3> QED
      BY <1>2, <2>3, <3>1 DEF CancelOrder
  <2>4. ASSUME NEW n, ExpireOrder(t, n) PROVE \E h : Go(t, h) /\ h.pc = "expire"
    BY <2>4 DEF ExpireOrder
  <2>5. Reset(t) => \E h : Go(t, h) /\ h.pc = "clear orders"
    BY <1>2 DEF Reset
  <2>6. PanicHalt(t) => \E h : Go(t, h) /\ h.pc = "veto"
    BY <1>2 DEF PanicHalt
  <2>7. PanicCancelOpenOrders(t) \/ PanicFlattenPositions(t) =>
            \E h : Go(t, h) /\ h.pc \in {"swap", "log"}
    BY <1>2 DEF PanicCancelOpenOrders, PanicFlattenPositions
  <2> QED
    BY <1>1, <1>3, <2>1, <2>2, <2>3, <2>4, <2>5, <2>6, <2>7 DEF Request
<1>4. CASE NumberOrder(t) \/ AppendOrder(t) \/ FillOrder(t) \/ ReadAccount(t) \/ ApplyFill(t)
           \/ EndPass(t) \/ RebuildOrders(t) \/ ExpireAtIndex(t) \/ ClearOrders(t)
           \/ ClearEvents(t) \/ ClearHalt(t) \/ VetoOrders(t)
  <2>1. NumberOrder(t) => \E h : Go(t, h) /\ h.pc \in {"risk", "log"}
    <3>1. \A i, id : [pc |-> "risk", intent |-> i, id |-> id].pc = "risk"
      OBVIOUS
    <3> QED
      BY <1>2, <3>1 DEF NumberOrder
  <2>2. AppendOrder(t) \/ ApplyFill(t) \/ ExpireAtIndex(t) => \E h : Go(t, h) /\ h.pc = "log"
    BY <1>2 DEF AppendOrder, ApplyFill, ExpireAtIndex
  <2>3. FillOrder(t) \/ RebuildOrders(t) => \E h : Go(t, h) /\ h.pc = "swap"
    BY <1>2 DEF FillOrder, RebuildOrders
  <2>4. ReadAccount(t) => \E h : Go(t, h) /\ h.pc = "apply"
    <3> DEFINE o == thread[t].order
               h == [pc |-> "apply", order |-> o, then |-> thread[t].then,
                     account |-> ApplyPaperFill(account, o.intent, thread[t].quantity),
                     status |-> FilledOrder(o, thread[t].quantity).status]
    <3>1. ReadAccount(t) => Go(t, h)
      BY DEF ReadAccount
    <3>2. h.pc = "apply"
      OBVIOUS
    <3> HIDE DEF h
    <3> QED
      BY <3>1, <3>2
  <2>5. EndPass(t) \/ ClearHalt(t) \/ VetoOrders(t) => \E h : Go(t, h) /\ h.pc = "save"
    BY <1>2 DEF EndPass, ClearHalt, VetoOrders
  <2>6. ClearOrders(t) \/ ClearEvents(t) => \E h : Go(t, h) /\ h.pc \in {"clear events", "resume"}
    BY <1>2 DEF ClearOrders, ClearEvents
  <2> QED
    BY <1>1, <1>4, <2>1, <2>2, <2>3, <2>4, <2>5, <2>6
<1>5. CASE EvaluateRisk(t)
  <2>1. thread[t] \in [pc: {"risk", "append"}, intent: Orderable, id: Nat]
    BY <1>5 DEF EvaluateRisk, At, SInv, TInv, HandlerOK
  <2>2. [thread[t] EXCEPT !.pc = "append"].pc = "append"
    BY <2>1
  <2> DEFINE appending == [thread[t] EXCEPT !.pc = "append"]
             rejecting == Logging(thread[t].id, "REJECTED", Saving)
  <2>3. Go(t, appending) \/ Go(t, rejecting)
    BY <1>5 DEF EvaluateRisk
  <2>4. appending.pc = "append" /\ rejecting.pc = "log"
    BY <1>2, <2>2
  <2> HIDE DEF appending, rejecting
  <2> QED
    BY <1>1, <2>3, <2>4
<1>6. CASE SkipOrder(t)
  <2>1. Advanced(thread[t]).pc = "loop"
    BY <1>6, PassSettled, AdvancedFields DEF SkipOrder, InLoop
  <2> QED
    BY <1>1, <1>6, <2>1 DEF SkipOrder
<1>7. CASE SwapOrders(t)
  <2>1. thread[t].then.pc \in {"log", "read account"}
    BY <1>7 DEF SwapOrders, At, SInv, TInv, HandlerOK, SwapOK
  <2> QED
    BY <1>1, <1>7, <2>1 DEF SwapOrders
<1>8. CASE RecordEvent(t)
  <2>1. thread[t].then = Saving \/ thread[t].then.pc = "loop"
    BY <1>8, TheHandler DEF RecordEvent, At, SInv, SerialOK, LogLeads
  <2> QED
    BY <1>1, <1>2, <1>8, <2>1 DEF RecordEvent
<1>9. CASE ExpireIndexError(t)
  <2>1. thread[t].pc = "expire" /\ thread[t].index > Len(orders)
    BY <1>9 DEF ExpireIndexError, At
  <2>2. thread[t].index \in DOMAIN orders
    BY <2>1, TheHandler DEF SInv, SerialOK
  <2> QED
    BY <2>1, <2>2 DEF SInv, TInv, MemoryOK
<1> QED
  BY <1>3, <1>4, <1>5, <1>6, <1>7, <1>8, <1>9 DEF HandlerStep

\* BeginSave and WriteFile: the file about to be written gets the present memory's payload.
LEMMA SaveFiles ==
    ASSUME OneThread, SInv, SavedSoFar, NEW t \in Threads, BeginSave(t) \/ WriteFile(t)
    PROVE  (Handler'.pc = "idle" => FilesMatch') /\ SavedSoFar'
<1> DEFINE p == thread[t]
<1>0. \A k : Writing(k).pc = "write" /\ Writing(k).file = k /\ Writing(k).data = Payload(FileOrder[k])
  BY DEF Writing
<1>1. \A h : Go(t, h) => thread'[t] = h
  BY DEF Go, SInv, TInv
<1>2. UNCHANGED memory
  BY DEF BeginSave, WriteFile
<1>3. \A f : Payload(f)' = Payload(f)
  BY <1>2 DEF Payload, memory
<1>4. Handler = p /\ Handler' = thread'[t]
  BY TheHandler
<1>5. CASE BeginSave(t)
  <2>1. Handler' = Writing(1)
    BY <1>1, <1>4, <1>5 DEF BeginSave
  <2> QED
    BY <1>0, <1>3, <2>1 DEF SavedSoFar
<1>6. CASE WriteFile(t)
  <2>0. p.pc = "write" /\ p.file \in 1 .. 4 /\ Len(FileOrder) = 4
    BY <1>6 DEF WriteFile, At, SInv, TInv, HandlerOK, FileOrder
  <2>1. PICK k \in 1 .. 4 : p.file = k
    BY <2>0
  <2>2. /\ p.data = Payload(FileOrder[k])
        /\ \A j \in 1 .. k - 1 : files[FileOrder[j]] = Payload(FileOrder[j])
    BY <1>4, <2>0, <2>1 DEF SavedSoFar
  <2>3. DOMAIN files = FileNames /\ files' = [files EXCEPT ![FileOrder[k]] = p.data]
    BY <1>6, <2>1 DEF WriteFile, SInv, TInv, FilesOK
  <2>4. \A j \in 1 .. 4 : FileOrder[j] \in FileNames
    BY DEF FileOrder, FileNames
  <2>5. \A j \in 1 .. k : files'[FileOrder[j]] = Payload(FileOrder[j])'
    <3> SUFFICES ASSUME NEW j \in 1 .. k
                 PROVE  files'[FileOrder[j]] = Payload(FileOrder[j])
      BY <1>3
    <3>1. j \in 1 .. 4 /\ (j = k \/ j \in 1 .. k - 1)
      BY <2>1
    <3> QED
      BY <2>2, <2>3, <2>4, <3>1
  <2>6. CASE k < 4
    <3>1. Handler' = Writing(k + 1)
      BY <1>1, <1>4, <1>6, <2>0, <2>1, <2>6 DEF WriteFile
    <3>2. k + 1 - 1 = k
      BY <2>1
    <3>3. Handler'.pc = "write" /\ Handler'.file = k + 1 /\ Handler'.data = Payload(FileOrder[k + 1])
      BY <1>0, <3>1
    <3>4. Handler'.pc # "idle"
      BY <3>3
    <3>5. Handler'.data = PayloadOf(FileOrder[Handler'.file], account', orders', events', halted')
      BY <1>2, <3>3 DEF Payload, memory
    <3>6. \A j \in 1 .. Handler'.file - 1 : files'[FileOrder[j]] = Payload(FileOrder[j])'
      BY <2>5, <3>2, <3>3
    <3> QED
      BY <3>4, <3>5, <3>6 DEF SavedSoFar, Payload
  <2>7. CASE k = 4
    <3>1. Handler' = Idle /\ Idle.pc = "idle"
      BY <1>1, <1>4, <1>6, <2>0, <2>1, <2>7, SavingPc DEF WriteFile
    <3>2. DOMAIN files' = FileNames
      BY <2>3
    <3>3. \A f \in FileNames : \E j \in 1 .. 4 : f = FileOrder[j]
      BY DEF FileOrder, FileNames
    <3>4. FilesMatch'
      BY <2>5, <2>7, <3>2, <3>3 DEF FilesMatch
    <3> QED
      BY <3>1, <3>4 DEF SavedSoFar
  <2> QED
    BY <2>1, <2>6, <2>7
<1> QED
  BY <1>5, <1>6

\* With one thread, the memory settles by handlers of PaperExchange, and a handler
\* under way is on its way to one of them.
THEOREM SerialHandlersCorrect == ASSUME OneThread PROVE SerialSpec => []SInv
<1>1. SerialInit => SInv
  BY SerialInitFollows
<1>2. SInv /\ [SerialNext]_serialVars => SInv'
  BY SerialNextFollows DEF Follows
<1> QED
  BY <1>1, <1>2, PTL DEF SerialSpec

\* With one thread and a state store, every request that ends leaves the four files in
\* agreement with the memory and with each other.
THEOREM FilesCurrentCorrect == ASSUME OneThread PROVE SerialSpec => FilesCurrent
<1>1. SerialInit => SavedSoFar
  BY TheHandler, SavingPc DEF OneThread, SerialInit, Init, SavedSoFar
<1>2. ASSUME SInv, SavedSoFar, NEW t \in Threads, Request(t) \/ HandlerStep(t)
      PROVE  (Handler'.pc = "idle" => FilesMatch') /\ SavedSoFar'
  <2>1. CASE BeginSave(t) \/ WriteFile(t)
    BY <1>2, <2>1, SaveFiles
  <2>2. CASE ~BeginSave(t) /\ ~WriteFile(t)
    BY <1>2, <2>2, OnlySavingEnds, TheHandler DEF SavedSoFar
  <2> QED
    BY <2>1, <2>2
<1>3. SInv /\ SavedSoFar /\ [SerialNext]_serialVars => SavedSoFar'
  <2> SUFFICES ASSUME SInv, SavedSoFar, [SerialNext]_serialVars PROVE SavedSoFar'
    OBVIOUS
  <2>1. CASE Restart
    BY <2>1, TheHandler, SavingPc DEF OneThread, Restart, SavedSoFar
  <2>2. CASE UNCHANGED vars
    BY <2>2 DEF vars, SavedSoFar, Handler, Payload
  <2> QED
    BY <1>2, <2>1, <2>2 DEF SerialNext, serialVars
<1>4. SInv /\ SavedSoFar /\ [SerialNext]_serialVars =>
        [Handler'.pc = "idle" /\ ~Restart => FilesMatch']_serialVars
  BY <1>2 DEF SerialNext
<1> QED
  BY <1>1, <1>3, <1>4, SerialHandlersCorrect, PTL DEF SerialSpec, FilesCurrent
=============================================================================
