----------------------------- MODULE MCCommandApi -----------------------------
(***************************************************************************)
(* Instances of the command endpoints for TLC: the default environment, a  *)
(* paper session and a live read-only one; two keys, a command that needs  *)
(* approval, one that is read-only and one the catalog does not know.      *)
(***************************************************************************)
EXTENDS CommandApi

PaperSession == [DefaultConfig EXCEPT !.stage = "human_approval"]
LiveReadonly ==
    [DefaultConfig EXCEPT !.mode = "live", !.venue = "binance_live", !.scope = "read_only",
                          !.readonlyKeys = TRUE]
MCConfigs == {DefaultConfig, PaperSession, LiveReadonly}
OnePaperConfig == {PaperSession}
TwoConfigs == {DefaultConfig, PaperSession}

MCKeys == {"k1", "k2"}
MCPayloads == {"p1", "p2"}
MCShapeOf == [p \in MCPayloads |-> "shape"]

Body(key, type, payload) == [key |-> key, type |-> type, payload |-> payload]
KnownRequests ==
    {Body("k1", "get_system_status", "p1"), Body("k1", "get_system_status", "p2"),
     Body("k2", "cancel_order_intent", "p1"), Body("k2", "get_system_status", "p1")}
MCRequests == KnownRequests \cup {Body("k2", "unknown", "p1")}
TwoRequests ==
    {Body("k1", "get_system_status", "p1"), Body("k2", "submit_paper_order", "p1")}

MCEndpoints == {"submit_paper_order", "get_live_readonly_account", "activate_panic_halt"}
PaperEndpoints == {"submit_paper_order"}
=============================================================================
