----------------------------- MODULE NetClients -----------------------------
(***************************************************************************)
(* The network clients on one thread pool.  They share nothing but the     *)
(* pool, so one of them, of either kind, stands for all.                   *)
(***************************************************************************)
EXTENDS WsClient, HttpClient

VARIABLE client     \* "ws", "async" or "sync"

netVars == <<client, wsVars, httpVars>>

NetInit == client \in {"ws", "async", "sync"} /\ WsInit /\ HttpInit

NetNext ==
    /\ UNCHANGED client
    /\ \/ client = "ws" /\ WsNext /\ UNCHANGED httpVars
       \/ client = "async" /\ AsyncNext /\ UNCHANGED <<syncVars, wsVars>>
       \/ client = "sync" /\ SyncNext /\ UNCHANGED <<asyncVars, wsVars>>

NetSpec == NetInit /\ [][NetNext]_netVars /\ WsFairness /\ HttpFairness

-----------------------------------------------------------------------------
\* Every use of a client has an outcome.  An HTTP request is answered as it should
\* be, and a WebSocket client that connects hears of it, unless it is closed.
UsesAnswered ==
    /\ HttpAnswered
    /\ (state = "connecting" ~> told # "none" \/ stopped)
=============================================================================
