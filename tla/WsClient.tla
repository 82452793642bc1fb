------------------------------ MODULE WsClient ------------------------------
(***************************************************************************)
(* The WebSocket client (module/access, WsClient and its Impl).  The       *)
(* client's calls post their work to the Impl's strand, where the handlers *)
(* of its operations run too, one at a time.                               *)
(***************************************************************************)
EXTENDS Naturals, Sequences

CONSTANTS
    MAX_RECONNECT_ATTEMPTS,
    MaxPosted   \* bound: calls posted and not yet run

ASSUME WsClientAssumption == {MAX_RECONNECT_ATTEMPTS, MaxPosted} \subseteq Nat

VARIABLES
    state,      \* m_state of the client, which the Impl writes
    attached,   \* m_impl is set
    stopped, attempts,
    posted,     \* what is posted to the strand, in order
    op,         \* the operation of the connection that is under way
    ws,         \* the stream exists
    writing,    \* a write is under way, perhaps of a stream since reset
    closing,    \* async_close is under way
    told        \* history variable: the last event reported to the delegate

wsVars == <<state, attached, stopped, attempts, posted, op, ws, writing, closing, told>>

WsInit ==
    /\ state = "closed" /\ attached = FALSE
    /\ stopped = FALSE /\ attempts = 0 /\ posted = << >>
    /\ op = "none" /\ ws = FALSE /\ writing = FALSE /\ closing = FALSE
    /\ told = "none"

-----------------------------------------------------------------------------
(* The client, on any thread.                                              *)

Post(call) ==
    /\ attached /\ Len(posted) < MaxPosted
    /\ posted' = Append(posted, call)

\* A second connect finds the client in use and changes nothing.
WsConnect ==
    /\ state = "closed" /\ state' = "connecting"
    /\ attached' = TRUE /\ posted' = Append(posted, "start")
    /\ UNCHANGED <<stopped, attempts, op, ws, writing, closing, told>>

WsSend ==
    /\ Post("send")
    /\ UNCHANGED <<state, attached, stopped, attempts, op, ws, writing, closing, told>>

WsClose ==
    /\ Post("close") /\ attached' = FALSE
    /\ UNCHANGED <<state, stopped, attempts, op, ws, writing, closing, told>>

-----------------------------------------------------------------------------
(* The strand.                                                             *)

Handled == UNCHANGED <<attached, posted>>

\* The operation ends on a client that gave up.
WsDrop ==
    /\ stopped /\ op # "none" /\ op' = "none"
    /\ UNCHANGED <<state, stopped, attempts, ws, writing, closing, told>> /\ Handled

\* fail: the first failure is the last.
WsFail ==
    IF stopped THEN UNCHANGED <<state, told, stopped, ws>>
    ELSE /\ state' = "disconnected" /\ told' = "error"
         /\ stopped' = TRUE /\ ws' = FALSE

WsOpFails ==
    /\ ~stopped /\ op \in {"resolve", "connect", "handshake", "read"}
    /\ WsFail /\ op' = "none"
    /\ UNCHANGED <<attempts, writing, closing>> /\ Handled

Advances(from, to) == ~stopped /\ op = from /\ op' = to

WsResolved ==
    /\ Advances("resolve", "connect")
    /\ UNCHANGED <<state, stopped, attempts, ws, writing, closing, told>> /\ Handled

WsTcpConnected ==
    /\ Advances("connect", "handshake") /\ ws' = TRUE
    /\ UNCHANGED <<state, stopped, attempts, writing, closing, told>> /\ Handled

\* Fault: the handler does not ask whether the client was closed meanwhile.
WsHandshakenAnyway ==
    /\ op = "handshake" /\ op' = "read"
    /\ attempts' = 0 /\ state' = "connected" /\ told' = "connected"
    /\ UNCHANGED <<stopped, ws, writing, closing>> /\ Handled

WsHandshaken ==
    /\ Advances("handshake", "read")
    /\ attempts' = 0 /\ state' = "connected" /\ told' = "connected"
    /\ UNCHANGED <<stopped, ws, writing, closing>> /\ Handled

\* scheduleReconnect.  state stays as it was while the client reconnects.
ScheduleReconnect ==
    IF attempts >= MAX_RECONNECT_ATTEMPTS
    THEN /\ state' = "disconnected" /\ stopped' = TRUE /\ op' = "none"
         /\ UNCHANGED <<attempts, ws>>
    ELSE /\ attempts' = attempts + 1 /\ ws' = FALSE /\ op' = "timer"
         /\ UNCHANGED <<state, stopped>>

\* The peer closed the connection.  (Data that arrives changes nothing.)
WsLost ==
    /\ ~stopped /\ op = "read" /\ told' = "disconnected"
    /\ ScheduleReconnect
    /\ UNCHANGED <<writing, closing>> /\ Handled

WsReconnects ==
    /\ Advances("timer", "resolve")
    /\ UNCHANGED <<state, stopped, attempts, ws, writing, closing, told>> /\ Handled

\* A call that was posted runs.  A send without a stream is dropped; two writes
\* at one time, which the stream does not allow, are left out.
WsRun ==
    /\ posted # << >> /\ posted' = Tail(posted) /\ UNCHANGED attached
    /\ CASE Head(posted) = "start" ->
              op' = "resolve" /\ UNCHANGED <<stopped, writing, closing>>
         [] Head(posted) = "send" ->
              /\ ~(writing /\ ws /\ ~stopped)
              /\ writing' = (writing \/ (ws /\ ~stopped))
              /\ UNCHANGED <<op, stopped, closing>>
         [] Head(posted) = "close" ->
              /\ stopped' = TRUE /\ closing' = ws
              /\ op' = IF op = "timer" THEN "none" ELSE op
              /\ UNCHANGED writing
    /\ UNCHANGED <<state, attempts, ws, told>>

\* A write ends.  Reset with its stream, it fails, and the client with it, even
\* one that is reconnecting.
WsWritten ==
    /\ writing /\ writing' = FALSE
    /\ \/ ws /\ UNCHANGED <<state, stopped, ws, told, op>>
       \/ WsFail /\ op' = IF op = "timer" THEN "none" ELSE op
    /\ UNCHANGED <<attempts, closing>> /\ Handled

WsClosed ==
    /\ closing /\ closing' = FALSE
    /\ state' = "disconnected" /\ ws' = FALSE
    /\ UNCHANGED <<stopped, attempts, op, writing, told>> /\ Handled

WsStrand ==
    \/ WsDrop \/ WsOpFails \/ WsResolved \/ WsTcpConnected \/ WsHandshaken
    \/ WsLost \/ WsReconnects \/ WsRun \/ WsWritten \/ WsClosed

WsNext == WsConnect \/ WsSend \/ WsClose \/ WsStrand

\* Calls run; resolving ends, and so does what runs under the stream's timeout.
WsFairness ==
    /\ WF_wsVars(WsRun)
    /\ WF_wsVars(WsOpFails \/ WsResolved \/ WsTcpConnected \/ WsHandshaken)

-----------------------------------------------------------------------------
\* What the delegate hears is a story that makes sense: connected and lost in
\* turn, at most one error, and nothing after it or once the client was closed; a
\* connection is read only once it was announced; and the client's state becomes
\* connected only as that is reported, disconnected only for good.
InOrder ==
    /\ stopped => told' = told
    /\ told' # told => <<told, told'>> \in
           {<<"none", "connected">>, <<"none", "error">>, <<"connected", "disconnected">>,
            <<"connected", "error">>, <<"disconnected", "connected">>,
            <<"disconnected", "error">>}
    /\ op # "read" /\ op' = "read" => told' = "connected"
    /\ state' # state => \/ state' = "connecting"
                         \/ state' = "connected" /\ told' = "connected"
                         \/ state' = "disconnected" /\ stopped'

ReportsInOrder == [][InOrder]_wsVars

\* A client that lost its connection tries again, and gives up only after
\* MAX_RECONNECT_ATTEMPTS attempts (module/core/README.md:12).
ReconnectsToTheMax ==
    [][told = "disconnected" /\ told' = "error" => attempts = MAX_RECONNECT_ATTEMPTS]_wsVars
=============================================================================
