------------------------------ MODULE Session ------------------------------
(***************************************************************************)
(* The access layer's WebSocket server: Session, SessionManager and the    *)
(* accept path of Listener (module/access).                                *)
(*                                                                         *)
(* A session's handlers run on its strand, so each is one action here.     *)
(* What runs beside the strand is a step of its own: socket completions,   *)
(* the heartbeat timer, the pool task that runs a legacy app's             *)
(* app_process, the output thread of an asynchronous app, and the caller   *)
(* (an agent's tool) that drives an app through AppManager::controlApp.    *)
(*                                                                         *)
(* Where the code reaches undefined behaviour (an app used after its       *)
(* destruction, one legacy app used by two threads, the heartbeat's        *)
(* second arming) the step chooses between `crashed` and carrying on; a    *)
(* null app pointer handed to an app always crashes.                       *)
(***************************************************************************)
EXTENDS Integers, FiniteSets

CONSTANTS
    Conn,       \* Session objects, one per accepted TCP connection
    App,        \* app instances, one per app_create
    AsyncApp,   \* those whose module exports app_on_input and app_set_output
    Window,     \* non-empty window ids
    Caller,     \* threads that call AppManager::controlApp
    NoConn, NoApp, NoWindow,
    MaxConn,    \* Listener::max_connections_, 0 for unlimited
    StashTtl,   \* whether stash_ttl_sec is positive
    MaxOut      \* bound: messages in a session's write queue

MaxMissedPongs == 2

ASSUME SessionAssumption ==
    /\ AsyncApp \subseteq App
    /\ NoConn \notin Conn /\ NoApp \notin App /\ NoWindow \notin Window
    /\ MaxConn \in Nat /\ MaxOut \in Nat \ {0} /\ StashTtl \in BOOLEAN
    /\ IsFiniteSet(Conn)

VARIABLES
    phase,      \* "new", "http" until the WebSocket upgrade, "live", "gone"
    wid,        \* window_id_
    mod,        \* mod_: "none" until an app is routed, then "async" or "legacy"
    closing,    \* closing_
    closeAfter, \* close_after_write_
    missed,     \* missed_pongs_
    pinging,    \* the heartbeat interval is armed
    reading,    \* async_read: "no", "pending", or "ready" (completion queued)
    out,        \* write_queue_.size()
    writing,    \* writing_
    sock,       \* "open", "broken" by the peer or network, "closed" by close_ws
    app,        \* app_
    registered, \* SessionManager::sessions_
    stash,      \* SessionManager::stashedApps_
    aged,       \* the windows whose stashed app is older than the TTL
    status,     \* of an app: "unborn", "live", "done" (app_is_done), "dead"
    cb,         \* the session an asynchronous app's output callback points to
    task,       \* the session's pool task and the strand posts it ends with
    taskApp,    \* the raw app pointer the task captured
    call,       \* what each caller is doing
    crashed     \* the process is gone

lifeVars == <<closing, pinging, registered, app>>
stashVars == <<stash, aged>>
outVars  == <<out, writing>>
taskVars == <<task, taskApp>>
stateVars == <<phase, wid, mod, closeAfter, missed, reading, sock, lifeVars,
               stashVars, outVars, status, cb, taskVars, call>>
vars == <<stateVars, crashed>>

Live(c)     == phase[c] = "live"
Routed(c)   == Live(c) /\ mod[c] # "none"
IsOpen(c)   == Live(c) /\ ~closing[c] /\ sock[c] # "closed"
KindOf(a)   == IF a \in AsyncApp THEN "async" ELSE "legacy"
Connections == Cardinality({c \in Conn : phase[c] \in {"http", "live"}})

IdleCall == [at |-> "idle", conn |-> NoConn, app |-> NoApp]

Init ==
    /\ phase = [c \in Conn |-> "new"]
    /\ wid = [c \in Conn |-> NoWindow]
    /\ mod = [c \in Conn |-> "none"]
    /\ closing = [c \in Conn |-> FALSE]
    /\ closeAfter = [c \in Conn |-> FALSE]
    /\ missed = [c \in Conn |-> 0]
    /\ pinging = [c \in Conn |-> FALSE]
    /\ reading = [c \in Conn |-> "no"]
    /\ out = [c \in Conn |-> 0]
    /\ writing = [c \in Conn |-> FALSE]
    /\ sock = [c \in Conn |-> "open"]
    /\ app = [c \in Conn |-> NoApp]
    /\ registered = {}
    /\ stash = [w \in Window |-> NoApp]
    /\ aged = {}
    /\ status = [a \in App |-> "unborn"]
    /\ cb = [a \in App |-> NoConn]
    /\ task = [c \in Conn |-> "none"]
    /\ taskApp = [c \in Conn |-> NoApp]
    /\ call = [t \in Caller |-> IdleCall]
    /\ crashed = FALSE

-----------------------------------------------------------------------------
(* What the handlers are built from.                                       *)

\* Threads inside app_process of app a: pool workers and callers.
Users(a) == {c \in Conn : task[c] = "running" /\ taskApp[c] = a}
            \cup {t \in Caller : call[t].at = "inside" /\ call[t].app = a}

\* Undefined behaviour: the build may crash, or may carry on.
Undefined(unsafe) == crashed' \in {FALSE, unsafe}

\* Using app a while it is destroyed or, for a legacy app, which has no lock
\* of its own, while another thread is inside.
UnsafeEntry(a) == status[a] = "dead" \/ (a \notin AsyncApp /\ Users(a) # {})

\* A legacy command or a controlled app may have ended the app.
MayFinish(a) ==
    status' \in {status, [status EXCEPT ![a] = IF @ = "live" THEN "done" ELSE @]}

Kill(dying) == status' = [a \in App |-> IF a \in dying THEN "dead" ELSE status[a]]

\* Fault: a message queued on an idle session does not start the write.
EnqueueNoWrite(c) ==
    IF closing[c] THEN UNCHANGED outVars
    ELSE /\ out' = [out EXCEPT ![c] = @ + 1]
         /\ writing' = [writing EXCEPT ![c] = out[c] > 0]

Enqueue(c) ==
    IF closing[c] THEN UNCHANGED outVars
    ELSE /\ out' = [out EXCEPT ![c] = @ + 1]
         /\ writing' = [writing EXCEPT ![c] = TRUE]

DoRead(c) == reading' = [reading EXCEPT ![c] = IF closing[c] THEN "no" ELSE "pending"]

StopReading(c) == reading' = [reading EXCEPT ![c] = "no"]

\* Fault: the session is routed without being registered.
RegisterNothing(c) == UNCHANGED registered

Register(c) == registered' = registered \cup {c}

\* Fault: the cleanup leaves the heartbeat armed.
DetachKeepPing(c) ==
    /\ closing' = [closing EXCEPT ![c] = TRUE]
    /\ registered' = registered \ {c}
    /\ app' = [app EXCEPT ![c] = NoApp]
    /\ UNCHANGED pinging

\* The part of do_cleanup that every path shares.
Detach(c) ==
    /\ closing' = [closing EXCEPT ![c] = TRUE]
    /\ pinging' = [pinging EXCEPT ![c] = FALSE]
    /\ registered' = registered \ {c}
    /\ app' = [app EXCEPT ![c] = NoApp]

\* Fault: only a session whose connection still works parks its app.
StashableOpen(c) ==
    wid[c] # NoWindow /\ app[c] # NoApp /\ status[app[c]] = "live" /\ sock[c] = "open"

Stashable(c) == wid[c] # NoWindow /\ app[c] # NoApp /\ status[app[c]] = "live"

\* do_cleanup when the user did not ask for the close: park the app in its
\* window's slot, evicting what the slot held, or destroy it.
DoCleanup(c) ==
    /\ Detach(c)
    /\ IF Stashable(c)
       THEN /\ stash' = [stash EXCEPT ![wid[c]] = app[c]]
            /\ aged' = aged \ {wid[c]}
            /\ Kill({stash[wid[c]]})
       ELSE /\ Kill({app[c]})
            /\ UNCHANGED stashVars

CloseWs(c) ==
    IF closing[c] THEN UNCHANGED <<lifeVars, stashVars, status, sock>>
    ELSE /\ DoCleanup(c)
         /\ sock' = [sock EXCEPT ![c] = "closed"]

SlotApp(w) == IF w \in Window THEN stash[w] ELSE NoApp

\* Fault: an app taken from its slot stays in the slot.
KeepSlot(w) == UNCHANGED stashVars

EmptySlot(w) ==
    /\ stash' = [v \in Window |-> IF v = w THEN NoApp ELSE stash[v]]
    /\ aged' = aged \ {w}

\* close_ws for a session whose cleanup parks nothing: it holds no app yet, or
\* the app has ended, or the user closed the window.
DropWs(c) ==
    IF closing[c] THEN UNCHANGED <<lifeVars, sock>>
    ELSE /\ Detach(c)
         /\ sock' = [sock EXCEPT ![c] = "closed"]

\* Fault: after the overload answer the session does not read on.
ProcessLegacyNoRead(c, a) ==
    \/ /\ task' = [task EXCEPT ![c] = "queued"]
       /\ taskApp' = [taskApp EXCEPT ![c] = a]
       /\ StopReading(c)
       /\ UNCHANGED outVars
    \/ /\ out[c] < MaxOut
       /\ Enqueue(c)
       /\ StopReading(c)
       /\ UNCHANGED taskVars

\* process_legacy: hand the command to the pool, with the raw pointer; when
\* the pool's queue is full, answer at once and read on.
ProcessLegacy(c, a) ==
    \/ /\ task' = [task EXCEPT ![c] = "queued"]
       /\ taskApp' = [taskApp EXCEPT ![c] = a]
       /\ StopReading(c)
       /\ UNCHANGED outVars
    \/ /\ out[c] < MaxOut
       /\ Enqueue(c)
       /\ DoRead(c)
       /\ UNCHANGED taskVars

-----------------------------------------------------------------------------
(* Listener::on_accept; the HTTP request, which a plain response answers   *)
(* or which upgrades: then the hello message is written, the heartbeat     *)
(* starts and the first read is posted.                                    *)

AtLimit == MaxConn > 0 /\ Connections >= MaxConn

Accept(c) ==
    /\ phase[c] = "new" /\ ~AtLimit
    /\ phase' = [phase EXCEPT ![c] = "http"]
    /\ UNCHANGED <<wid, mod, closeAfter, missed, reading, sock, lifeVars, stashVars,
                   outVars, status, cb, taskVars, call, crashed>>

Refuse(c) ==
    /\ phase[c] = "new" /\ AtLimit
    /\ phase' = [phase EXCEPT ![c] = "gone"]
    /\ UNCHANGED <<wid, mod, closeAfter, missed, reading, sock, lifeVars, stashVars,
                   outVars, status, cb, taskVars, call, crashed>>

\* The request was not an upgrade, or reading it or the handshake failed.
PlainHttp(c) ==
    /\ phase[c] = "http"
    /\ phase' = [phase EXCEPT ![c] = "gone"]
    /\ UNCHANGED <<wid, mod, closeAfter, missed, reading, sock, lifeVars, stashVars,
                   outVars, status, cb, taskVars, call, crashed>>

Upgrade(c) ==
    /\ phase[c] = "http"
    /\ phase' = [phase EXCEPT ![c] = "live"]
    /\ Enqueue(c)
    /\ pinging' = [pinging EXCEPT ![c] = TRUE]
    /\ reading' = [reading EXCEPT ![c] = "pending"]
    /\ UNCHANGED <<wid, mod, closeAfter, missed, sock, closing, registered, app,
                   stashVars, status, cb, taskVars, call, crashed>>

-----------------------------------------------------------------------------
(* route_and_setup: the first message names a window (or none) and asks    *)
(* for a resume or a new app.  The heartbeat may have closed a session     *)
(* whose first message was already on its way: the handler does not look   *)
(* at closing_, so every branch runs then too.                             *)

Fresh(w) == SlotApp(w) # NoApp /\ w \notin aged

\* Fault: a session that finds an app to resume does not note its window.
FirstMsgNoWindow(c, w) ==
    /\ Live(c) /\ mod[c] = "none" /\ reading[c] = "ready"
    /\ wid' = IF Fresh(w) THEN wid ELSE [wid EXCEPT ![c] = w]
    /\ UNCHANGED <<phase, closeAfter, missed, call, crashed>>

FirstMsg(c, w) ==
    /\ Live(c) /\ mod[c] = "none" /\ reading[c] = "ready"
    /\ wid' = [wid EXCEPT ![c] = w]
    /\ UNCHANGED <<phase, closeAfter, missed, call, crashed>>

SetMod(c, a) == mod' = [mod EXCEPT ![c] = KindOf(a)]
GiveApp(c, a) == app' = [app EXCEPT ![c] = a]

\* Fault: a resumed app keeps the callback of its first session.
SetOutputOnce(c, a) ==
    cb' = IF a \in AsyncApp /\ cb[a] = NoConn THEN [cb EXCEPT ![a] = c] ELSE cb

\* app_set_output (and app_set_io_context) for an asynchronous app.
SetOutput(c, a) == cb' = IF a \in AsyncApp THEN [cb EXCEPT ![a] = c] ELSE cb

\* No window named, nothing stashed for it, or stashed for too long.
ResumeFails(c, w) ==
    /\ FirstMsg(c, w)
    /\ ~Fresh(w)
    /\ EmptySlot(w)
    /\ Kill({SlotApp(w)})
    /\ Enqueue(c)
    /\ DropWs(c)
    /\ StopReading(c)
    /\ UNCHANGED <<mod, cb, taskVars>>

\* The app ended while it was stashed.
ResumeEnded(c, w) ==
    /\ FirstMsg(c, w)
    /\ Fresh(w) /\ status[stash[w]] = "done"
    /\ SetMod(c, stash[w])
    /\ EmptySlot(w)
    /\ IF closing[c]
       THEN /\ GiveApp(c, stash[w])
            /\ Register(c)
            /\ UNCHANGED <<closing, pinging, sock, status>>
       ELSE /\ Kill({stash[w]})
            /\ DropWs(c)
    /\ Enqueue(c)
    /\ StopReading(c)
    /\ UNCHANGED <<cb, taskVars>>

Resume(c, w) ==
    /\ FirstMsg(c, w)
    /\ Fresh(w) /\ status[stash[w]] = "live"
    /\ SetMod(c, stash[w])
    /\ GiveApp(c, stash[w])
    /\ EmptySlot(w)
    /\ Register(c)
    /\ SetOutput(c, stash[w])
    /\ DoRead(c)
    /\ UNCHANGED <<closing, pinging, sock, outVars, status, taskVars>>

\* The module does not load, or app_create returns null.
NewAppFails(c, w) ==
    /\ FirstMsg(c, w)
    /\ Enqueue(c)
    /\ DropWs(c)
    /\ StopReading(c)
    /\ UNCHANGED <<mod, stashVars, status, cb, taskVars>>

\* A new app takes the first message: an asynchronous one through
\* app_on_input, a legacy one through the pool.
NewApp(c, w, a) ==
    /\ FirstMsg(c, w)
    /\ status[a] = "unborn"
    /\ status' = [status EXCEPT ![a] = "live"]
    /\ SetMod(c, a)
    /\ GiveApp(c, a)
    /\ Register(c)
    /\ SetOutput(c, a)
    /\ IF a \in AsyncApp
       THEN DoRead(c) /\ UNCHANGED <<outVars, taskVars>>
       ELSE ProcessLegacy(c, a)
    /\ UNCHANGED <<closing, pinging, sock, stashVars>>

\* A legacy app's first message may itself be close_window.
NewAppUserCloses(c, w, a) ==
    /\ FirstMsg(c, w)
    /\ a \notin AsyncApp /\ status[a] = "unborn"
    /\ SetMod(c, a)
    /\ EmptySlot(w)
    /\ IF closing[c]
       THEN /\ status' = [b \in App |-> CASE b = a          -> "live"
                                          [] b = SlotApp(w) -> "dead"
                                          [] OTHER          -> status[b]]
            /\ GiveApp(c, a)
            /\ Register(c)
            /\ UNCHANGED <<closing, pinging, sock>>
       ELSE /\ Kill({a, SlotApp(w)})
            /\ DropWs(c)
    /\ StopReading(c)
    /\ UNCHANGED <<outVars, cb, taskVars>>

Route(c) ==
    \/ \E w \in Window \cup {NoWindow} : ResumeFails(c, w) \/ NewAppFails(c, w)
    \/ \E w \in Window : ResumeEnded(c, w) \/ Resume(c, w)
    \/ \E w \in Window \cup {NoWindow}, a \in App :
          NewApp(c, w, a) \/ NewAppUserCloses(c, w, a)

-----------------------------------------------------------------------------
(* The socket's completions.                                               *)

\* The peer's message completes the read; its handler waits for the strand.
MsgArrives(c) ==
    /\ Live(c) /\ reading[c] = "pending" /\ sock[c] = "open"
    /\ reading' = [reading EXCEPT ![c] = "ready"]
    /\ UNCHANGED <<phase, wid, mod, closeAfter, missed, sock, lifeVars, stashVars,
                   outVars, status, cb, taskVars, call, crashed>>

PeerGone(c) ==
    /\ Live(c) /\ sock[c] = "open"
    /\ sock' = [sock EXCEPT ![c] = "broken"]
    /\ UNCHANGED <<phase, wid, mod, closeAfter, missed, reading, lifeVars, stashVars,
                   outVars, status, cb, taskVars, call, crashed>>

\* A read fails.  Before the first message nobody cleans up: the session is
\* left to its heartbeat.
ReadErr(c) ==
    /\ Live(c) /\ reading[c] = "pending" /\ sock[c] # "open"
    /\ StopReading(c)
    /\ IF mod[c] = "none" \/ closing[c]
       THEN UNCHANGED <<lifeVars, stashVars, status>>
       ELSE DoCleanup(c)
    /\ UNCHANGED <<phase, wid, mod, closeAfter, missed, sock, outVars, cb, taskVars,
                   call, crashed>>

\* A write fails: the queue is dropped and the session cleaned up, but the
\* socket stays open.
WriteErr(c) ==
    /\ Live(c) /\ writing[c] /\ sock[c] # "open"
    /\ out' = [out EXCEPT ![c] = 0]
    /\ writing' = [writing EXCEPT ![c] = FALSE]
    /\ IF closing[c] THEN UNCHANGED <<lifeVars, stashVars, status>> ELSE DoCleanup(c)
    /\ UNCHANGED <<phase, wid, mod, closeAfter, missed, reading, sock, cb, taskVars,
                   call, crashed>>

\* A write completes: the next message, or the close that waited for the last.
WriteOk(c) ==
    /\ Live(c) /\ writing[c]
    /\ out' = [out EXCEPT ![c] = @ - 1]
    /\ writing' = [writing EXCEPT ![c] = out[c] > 1 /\ ~closing[c]]
    /\ IF out[c] = 1 /\ closeAfter[c]
       THEN CloseWs(c)
       ELSE UNCHANGED <<lifeVars, stashVars, status, sock>>
    /\ UNCHANGED <<phase, wid, mod, closeAfter, missed, reading, cb, taskVars, call,
                   crashed>>

-----------------------------------------------------------------------------
(* on_read, for a routed session.  The completion of a read that was       *)
(* queued when the session was cleaned up runs on a session without app.   *)

OnRead(c) ==
    /\ Routed(c) /\ reading[c] = "ready"
    /\ missed' = [missed EXCEPT ![c] = 0]
    /\ UNCHANGED <<phase, wid, mod, cb, call>>

OnReadCloseWindow(c) ==
    /\ OnRead(c)
    /\ EmptySlot(wid[c])
    /\ Kill({SlotApp(wid[c])} \cup (IF closing[c] THEN {} ELSE {app[c]}))
    /\ DropWs(c)
    /\ StopReading(c)
    /\ UNCHANGED <<closeAfter, outVars, taskVars, crashed>>

\* An asynchronous app takes the input; when it has ended (by this input or
\* on its own before), app_exited is queued and the close follows the write.
OnReadAsync(c) ==
    /\ OnRead(c)
    /\ mod[c] = "async" /\ app[c] # NoApp
    /\ MayFinish(app[c])
    /\ IF status'[app[c]] = "done"
       THEN /\ Enqueue(c)
            /\ closeAfter' = [closeAfter EXCEPT ![c] = TRUE]
            /\ StopReading(c)
       ELSE /\ DoRead(c)
            /\ UNCHANGED <<outVars, closeAfter>>
    /\ UNCHANGED <<lifeVars, stashVars, sock, taskVars, crashed>>

OnReadAsyncNoApp(c) ==
    /\ Routed(c) /\ reading[c] = "ready"
    /\ mod[c] = "async" /\ app[c] = NoApp
    /\ crashed' = TRUE
    /\ UNCHANGED stateVars

OnReadLegacy(c) ==
    /\ OnRead(c)
    /\ mod[c] = "legacy"
    /\ ProcessLegacy(c, app[c])
    /\ UNCHANGED <<closeAfter, lifeVars, stashVars, status, sock, crashed>>

-----------------------------------------------------------------------------
(* The pool's side of process_legacy.                                      *)

TaskStart(c) ==
    /\ task[c] = "queued" /\ taskApp[c] # NoApp
    /\ Undefined(UnsafeEntry(taskApp[c]))
    /\ task' = [task EXCEPT ![c] = "running"]
    /\ UNCHANGED <<phase, wid, mod, closeAfter, missed, reading, sock, lifeVars,
                   stashVars, outVars, status, cb, taskApp, call>>

TaskStartNoApp(c) ==
    /\ task[c] = "queued" /\ taskApp[c] = NoApp
    /\ crashed' = TRUE
    /\ UNCHANGED stateVars

TaskEnd(c) ==
    /\ task[c] = "running"
    /\ Undefined(status[taskApp[c]] = "dead")
    /\ MayFinish(taskApp[c])
    /\ task' = [task EXCEPT ![c] = "results"]
    /\ taskApp' = [taskApp EXCEPT ![c] = NoApp]
    /\ UNCHANGED <<phase, wid, mod, closeAfter, missed, reading, sock, lifeVars,
                   stashVars, outVars, cb, call>>

\* The first post writes what app_process returned, which may be nothing.
PostResults(c) ==
    /\ task[c] = "results"
    /\ task' = [task EXCEPT ![c] = "turn"]
    /\ \/ UNCHANGED outVars
       \/ out[c] < MaxOut /\ Enqueue(c)
    /\ UNCHANGED <<phase, wid, mod, closeAfter, missed, reading, sock, lifeVars,
                   stashVars, status, cb, taskApp, call, crashed>>

\* The second post closes the session of an app that ended, or reads on.
TurnEnd(c) ==
    /\ task[c] = "turn" /\ app[c] # NoApp
    /\ task' = [task EXCEPT ![c] = "none"]
    /\ IF status[app[c]] = "done"
       THEN CloseWs(c) /\ UNCHANGED reading
       ELSE DoRead(c) /\ UNCHANGED <<lifeVars, stashVars, status, sock>>
    /\ UNCHANGED <<phase, wid, mod, closeAfter, missed, outVars, cb, taskApp, call,
                   crashed>>

\* It asks app_is_done of the session's app: a cleanup in between left none.
TurnEndNoApp(c) ==
    /\ task[c] = "turn" /\ app[c] = NoApp
    /\ crashed' = TRUE
    /\ UNCHANGED stateVars

-----------------------------------------------------------------------------
(* The heartbeat.  Timer::setInterval's handler arms itself again through  *)
(* a reference to a local of a call that has returned: the next interval   *)
(* may come, may never come, or the process crashes.  The close on the     *)
(* strand and the arming on the timer's thread may come in either order.   *)

\* Fault: one more missed pong than allowed.
PongsMissedLate(c) == missed[c] > MaxMissedPongs

PongsMissed(c) == missed[c] >= MaxMissedPongs

Rearm(c) ==
    /\ pinging' \in {pinging, [pinging EXCEPT ![c] = FALSE]}
    /\ Undefined(TRUE)

HeartbeatLost(c) ==
    /\ Live(c) /\ pinging[c] /\ ~closing[c]
    /\ PongsMissed(c)
    /\ CloseWs(c)
    /\ Undefined(TRUE)
    /\ UNCHANGED <<phase, wid, mod, closeAfter, missed, reading, outVars, cb, taskVars,
                   call>>

Ping(c) ==
    /\ Live(c) /\ pinging[c] /\ ~closing[c]
    /\ ~PongsMissed(c)
    /\ missed' = [missed EXCEPT ![c] = @ + 1]
    /\ Rearm(c)
    /\ UNCHANGED <<phase, wid, mod, closeAfter, reading, sock, closing, registered, app,
                   stashVars, outVars, status, cb, taskVars, call>>

-----------------------------------------------------------------------------
(* Asynchronous apps on threads of their own, and the stash's clock.       *)

\* on_app_output, through the pointer app_set_output was given.
AppOutput(a) ==
    /\ status[a] \in {"live", "done"} /\ cb[a] # NoConn
    /\ Live(cb[a]) /\ ~closing[cb[a]] /\ out[cb[a]] < MaxOut
    /\ missed' = [missed EXCEPT ![cb[a]] = 0]
    /\ Enqueue(cb[a])
    /\ UNCHANGED <<phase, wid, mod, closeAfter, reading, sock, lifeVars, stashVars,
                   status, cb, taskVars, call, crashed>>

\* The pointer still names the session of a connection that is gone.
AppOutputDangling(a) ==
    /\ status[a] \in {"live", "done"} /\ cb[a] # NoConn
    /\ phase[cb[a]] = "gone"
    /\ crashed' = TRUE
    /\ UNCHANGED stateVars

\* An asynchronous app ends on its own (a shell exits).
AppExits(a) ==
    /\ a \in AsyncApp /\ status[a] = "live"
    /\ status' = [status EXCEPT ![a] = "done"]
    /\ UNCHANGED <<phase, wid, mod, closeAfter, missed, reading, sock, lifeVars,
                   stashVars, outVars, cb, taskVars, call, crashed>>

StashAges(w) ==
    /\ StashTtl /\ stash[w] # NoApp
    /\ aged' = aged \cup {w}
    /\ UNCHANGED <<phase, wid, mod, closeAfter, missed, reading, sock, lifeVars, stash,
                   outVars, status, cb, taskVars, call, crashed>>

-----------------------------------------------------------------------------
(* AppManager::controlApp on a thread of the caller: findSession under the *)
(* registry's mutex (it prunes what is not open), then app_process on the  *)
(* session's app with no lock held.                                        *)

FindSession(t, c) ==
    /\ call[t].at = "idle" /\ c \in registered /\ IsOpen(c)
    /\ call' = [call EXCEPT ![t] = [at |-> "found", conn |-> c, app |-> NoApp]]
    /\ registered' = {d \in registered : mod[d] # mod[c] \/ IsOpen(d)}
    /\ UNCHANGED <<phase, wid, mod, closeAfter, missed, reading, sock, closing, pinging,
                   app, stashVars, outVars, status, cb, taskVars, crashed>>

EnterApp(t) ==
    /\ call[t].at = "found"
    /\ LET a == app[call[t].conn] IN
       IF a = NoApp
       THEN call' = [call EXCEPT ![t] = IdleCall] /\ UNCHANGED crashed
       ELSE /\ Undefined(UnsafeEntry(a))
            /\ call' = [call EXCEPT ![t] = [@ EXCEPT !.at = "inside", !.app = a]]
    /\ UNCHANGED <<phase, wid, mod, closeAfter, missed, reading, sock, lifeVars,
                   stashVars, outVars, status, cb, taskVars>>

\* call_app_process_and_notify also posts the result to the session's client.
LeaveApp(t) ==
    /\ call[t].at = "inside"
    /\ Undefined(status[call[t].app] = "dead")
    /\ MayFinish(call[t].app)
    /\ call' = [call EXCEPT ![t] = IdleCall]
    /\ \/ UNCHANGED outVars
       \/ out[call[t].conn] < MaxOut /\ Enqueue(call[t].conn)
    /\ UNCHANGED <<phase, wid, mod, closeAfter, missed, reading, sock, lifeVars,
                   stashVars, cb, taskVars>>

-----------------------------------------------------------------------------
\* Fault: a pending read does not keep its session alive.
UnreferencedByRead(c) ==
    /\ ~writing[c] /\ ~pinging[c] /\ task[c] = "none"
    /\ \A t \in Caller : call[t].conn # c

\* The last shared_ptr to a session goes with the last pending operation;
\* what app_ still holds goes with it.
Unreferenced(c) ==
    /\ reading[c] = "no" /\ ~writing[c] /\ ~pinging[c] /\ task[c] = "none"
    /\ \A t \in Caller : call[t].conn # c

Destruct(c) ==
    /\ Live(c) /\ Unreferenced(c)
    /\ phase' = [phase EXCEPT ![c] = "gone"]
    /\ registered' = registered \ {c}
    /\ app' = [app EXCEPT ![c] = NoApp]
    /\ Kill({app[c]})
    /\ UNCHANGED <<wid, mod, closeAfter, missed, reading, sock, closing, pinging,
                   stashVars, outVars, cb, taskVars, call, crashed>>

-----------------------------------------------------------------------------
HandleMsg(c) ==
    Route(c) \/ OnReadCloseWindow(c) \/ OnReadAsync(c) \/ OnReadAsyncNoApp(c)
             \/ OnReadLegacy(c)

Tick(c) == HeartbeatLost(c) \/ Ping(c)

PoolStep(c) == TaskStart(c) \/ TaskStartNoApp(c) \/ TaskEnd(c) \/ PostResults(c)
               \/ TurnEnd(c) \/ TurnEndNoApp(c)

ConnNext(c) ==
    \/ Accept(c) \/ Refuse(c) \/ PlainHttp(c) \/ Upgrade(c) \/ MsgArrives(c) \/ PeerGone(c)
    \/ HandleMsg(c) \/ ReadErr(c) \/ WriteErr(c) \/ WriteOk(c) \/ Tick(c) \/ PoolStep(c)
    \/ Destruct(c)

CallerNext(t) == (\E c \in Conn : FindSession(t, c)) \/ EnterApp(t) \/ LeaveApp(t)

AppNext(a) == AppOutput(a) \/ AppOutputDangling(a) \/ AppExits(a)

Next ==
    /\ ~crashed
    /\ \/ \E c \in Conn : ConnNext(c)
       \/ \E a \in App : AppNext(a)
       \/ \E w \in Window : StashAges(w)
       \/ \E t \in Caller : CallerNext(t)

Spec == Init /\ [][Next]_vars

\* The strands, the timer and the pool's threads keep running; an operation
\* on a broken or closed socket completes with an error sooner or later.
\* Nothing is assumed of the clients, the apps or the callers' next call.
Fairness ==
    /\ \A c \in Conn :
          /\ WF_vars(~crashed /\ HandleMsg(c))
          /\ WF_vars(~crashed /\ ReadErr(c))
          /\ WF_vars(~crashed /\ WriteErr(c))
          /\ WF_vars(~crashed /\ WriteOk(c))
          /\ WF_vars(~crashed /\ Tick(c))
          /\ WF_vars(~crashed /\ PoolStep(c))
          /\ WF_vars(~crashed /\ Destruct(c))
    /\ \A t \in Caller : WF_vars(~crashed /\ (EnterApp(t) \/ LeaveApp(t)))

FairSpec == Spec /\ Fairness

-----------------------------------------------------------------------------
TypeOK ==
    /\ phase \in [Conn -> {"new", "http", "live", "gone"}]
    /\ wid \in [Conn -> Window \cup {NoWindow}]
    /\ mod \in [Conn -> {"none", "async", "legacy"}]
    /\ closing \in [Conn -> BOOLEAN]
    /\ closeAfter \in [Conn -> BOOLEAN]
    /\ missed \in [Conn -> 0..MaxMissedPongs]
    /\ pinging \in [Conn -> BOOLEAN]
    /\ reading \in [Conn -> {"no", "pending", "ready"}]
    /\ out \in [Conn -> Nat]
    /\ writing \in [Conn -> BOOLEAN]
    /\ sock \in [Conn -> {"open", "broken", "closed"}]
    /\ app \in [Conn -> App \cup {NoApp}]
    /\ registered \in SUBSET Conn
    /\ stash \in [Window -> App \cup {NoApp}]
    /\ aged \in SUBSET Window
    /\ status \in [App -> {"unborn", "live", "done", "dead"}]
    /\ cb \in [App -> Conn \cup {NoConn}]
    /\ task \in [Conn -> {"none", "queued", "running", "results", "turn"}]
    /\ taskApp \in [Conn -> App \cup {NoApp}]
    /\ call \in [Caller -> [at : {"idle", "found", "inside"},
                            conn : Conn \cup {NoConn}, app : App \cup {NoApp}]]
    /\ crashed \in BOOLEAN

\* The unique_ptr discipline across sessions and the stash: a living app has
\* exactly one owner, and nothing owns an app that is not alive.
OneSessionPerApp == \A c, d \in Conn : app[c] = app[d] /\ app[c] # NoApp => c = d
OneSlotPerApp    == \A v, w \in Window : stash[v] = stash[w] /\ stash[v] # NoApp => v = w
SessionOrSlot    == \A c \in Conn, w \in Window : app[c] = stash[w] => app[c] = NoApp
OwnedIffAlive    ==
    \A a \in App : status[a] \in {"live", "done"}
                    <=> (\E c \in Conn : app[c] = a) \/ (\E w \in Window : stash[w] = a)

SingleOwner == OneSessionPerApp /\ OneSlotPerApp /\ SessionOrSlot /\ OwnedIffAlive

\* What controlApp and listActiveWindows rely on: an open session can be
\* found exactly while it holds an app.
RegistrySound ==
    \A c \in Conn : Live(c) /\ ~closing[c] => (c \in registered <=> app[c] # NoApp)

\* A routed session that is not closing always waits for exactly one thing:
\* its next message, the turn of a legacy command, or the write of
\* app_exited that closes it.  It never stalls and never runs two turns.
Waits(c) == {x \in {"message", "turn", "exit"} :
                CASE x = "message" -> reading[c] # "no"
                  [] x = "turn"    -> task[c] # "none"
                  [] x = "exit"    -> closeAfter[c]}
OneWait == \A c \in Conn : Routed(c) /\ ~closing[c] => Cardinality(Waits(c)) = 1

\* While a session is not closing a write is in flight exactly while its queue
\* has messages, so no message is left behind; and a session that closes after
\* its last write has one in flight to do it.
WriterRuns ==
    \A c \in Conn : Live(c) /\ ~closing[c] =>
        /\ writing[c] <=> out[c] > 0
        /\ closeAfter[c] => writing[c]

\* The output of a session's asynchronous app comes to that session, after any
\* number of reconnections.
OutputToOwner ==
    \A c \in Conn : app[c] \in AsyncApp /\ ~closing[c] => cb[app[c]] = c

\* A session lost without a message (read or write error, heartbeat) parks
\* its running app in its window's slot: only a message destroys it.
LossKeepsApp ==
    [][\A c \in Conn :
         /\ ~closing[c] /\ wid[c] # NoWindow /\ app[c] # NoApp
         /\ status[app[c]] = "live" /\ reading[c] # "ready"
         /\ app'[c] # app[c]
         => stash'[wid[c]] = app[c]]_vars

\* The destructor never has to undo what do_cleanup would have: a routed
\* session is destroyed only after it was closed.
DestroyedAfterClose ==
    [][\A c \in Conn : Routed(c) /\ phase'[c] = "gone" => closing[c]]_vars

\* A connection that broke or was closed gives its slot of max_connections
\* back: no reference to the session survives for good.
SlotReleased ==
    \A c \in Conn : Live(c) /\ sock[c] # "open" ~> phase[c] = "gone" \/ crashed

-----------------------------------------------------------------------------
(* Where each app is, for the abstract specification.                      *)

AppHolder ==
    [a \in App |->
        IF status[a] = "unborn" THEN [at |-> "unborn"]
        ELSE IF \E c \in Conn : app[c] = a
        THEN LET c == CHOOSE c \in Conn : app[c] = a
             IN [at |-> "session", conn |-> c, window |-> wid[c]]
        ELSE IF \E w \in Window : stash[w] = a
        THEN [at |-> "stash", window |-> CHOOSE w \in Window : stash[w] = a]
        ELSE [at |-> "destroyed"]]

Ownership == INSTANCE AppOwnership WITH holder <- AppHolder

OwnershipSpec == Ownership!Spec

-----------------------------------------------------------------------------
(* What the documentation says, against what the code does.                *)

\* app_api.hpp: the app may call its output callback many times during its
\* lifetime.  So the session it points to must exist while the app lives.
CallbackTargetExists ==
    \A a \in App : status[a] \in {"live", "done"} /\ cb[a] # NoConn
                    => phase[cb[a]] # "gone"

\* ws_server.cpp logs "heartbeat lost after 2 missed pongs" when it closes:
\* a client whose connection works answers pings, and is not closed.
OnlyDeadPeersDropped ==
    [][\A c \in Conn : HeartbeatLost(c) => sock[c] # "open"]_vars
=============================================================================
