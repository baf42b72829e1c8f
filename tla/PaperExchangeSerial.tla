-------------------------- MODULE PaperExchangeSerial --------------------------
(***************************************************************************)
(* The step-by-step paper exchange on one thread implements PaperExchange, *)
(* where a handler is one step and the files are one: what an atomic       *)
(* handler and an atomic _persist_state promise is what the code delivers  *)
(* as long as requests do not overlap, even when the server dies in the    *)
(* middle of a handler or between two files.                               *)
(*                                                                         *)
(* Two history variables say when a handler takes effect.                  *)
(***************************************************************************)
EXTENDS PaperExchangeThreads

VARIABLES
    settled,  \* the memory, and the pass, when no handler was between two steps
    saved     \* the memory when all four files had last been written

serialVars == <<vars, settled, saved>>

\* One thread serves the requests, and there is a state store.
OneThread == Stored /\ \E t \in Threads : Threads = {t}

Handler == thread[CHOOSE t \in Threads : TRUE]

\* Between two requests, or between two orders of a pass.
AtRest == Handler.pc \in {"idle", "loop"}

View ==
    [account |-> account, orders |-> orders, events |-> events, halted |-> halted,
     riskState |-> riskState,
     snapshot |-> IF Handler.pc = "loop" THEN Handler.snapshot ELSE <<>>,
     cursor |-> IF Handler.pc = "loop" THEN Handler.cursor ELSE 0]

SavedMemory == <<account, orders, events, halted>>

SerialInit ==
    /\ Init
    /\ settled = View
    /\ saved = SavedMemory

LastFile(t) == At(t, "write") /\ thread[t].file = Len(FileOrder)

SerialNext ==
    /\ \/ \E t \in Threads : Request(t) /\ UNCHANGED saved
       \/ \E t \in Threads :
             HandlerStep(t) /\ saved' = IF LastFile(t) THEN SavedMemory ELSE saved
       \/ Restart /\ UNCHANGED saved
    /\ settled' = IF AtRest' THEN View' ELSE settled

\* Nothing in a handler waits: it goes on as long as the server lives.
SerialSpec ==
    /\ SerialInit
    /\ [][SerialNext]_serialVars
    /\ WF_vars(\E t \in Threads : HandlerStep(t))
-----------------------------------------------------------------------------
Atomic == INSTANCE PaperExchange
              WITH account <- settled.account, orders <- settled.orders,
                   events <- settled.events, halted <- settled.halted,
                   riskState <- settled.riskState, age <- 0,
                   snapshot <- settled.snapshot, cursor <- settled.cursor, disk <- saved

\* Every behaviour of the handlers' steps, the server's deaths in between included,
\* is a behaviour of the exchange with atomic handlers: a handler that dies half
\* way has not happened, one that dies before its last file was never saved.
ImplementsPaperExchange == Atomic!Spec

FilesMatch == \A f \in DOMAIN files : files[f] = Payload(f)

\* A request that ends, whether it changed orders, reset or was rejected, leaves the
\* four files in agreement with the memory and with each other.  Only a restart may
\* leave them behind: files that a crash left from different moments do not outlive
\* the new server's first handler.
FilesCurrent == [][Handler'.pc = "idle" /\ ~Restart => FilesMatch']_serialVars

\* A handler that was called ends with its effects in the files, unless the server
\* dies first and starts empty.
FilesCatchUp ==
    (Handler.pc # "idle")
        ~> (Handler.pc = "idle" /\ (FilesMatch \/ SavedMemory = Exchange!BootMemory))
=============================================================================
