----------------------------- MODULE HttpClient -----------------------------
(***************************************************************************)
(* The HTTP client (module/access, HttpClient and AsyncHttpSession).  An   *)
(* asynchronous request goes through four operations, and each arms the    *)
(* session's one timer again.  There is no strand: a handler of an          *)
(* operation and expired timers run on any threads of the pool, and        *)
(* cancelling the timer does not recall a handler already queued.           *)
(*                                                                         *)
(* A blocking request (get, post) is a task of the pool, and the client's   *)
(* state lets one run at a time.                                           *)
(***************************************************************************)
EXTENDS Naturals

CONSTANT Request    \* blocking requests of one client

Stages == {"resolve", "connect", "write", "read"}

VARIABLES
    stage,      \* the operation under way, "none" before and "done" after
    handler,    \* its handler: "waiting", "ok" or "failed", "running" past its check
    armed,      \* the stage the timer runs for, or "none"
    due,        \* stages whose timer expired and whose handler has not run
    late,       \* of these, those whose handler is past its check
    gaveUp,     \* stopped of the session
    errors, answers,    \* how often on_error and on_connected were called
    m_state,    \* of the client
    request     \* of each blocking request, where it is

asyncVars == <<stage, handler, armed, due, late, gaveUp, errors, answers>>
syncVars == <<m_state, request>>
httpVars == <<asyncVars, syncVars>>

HttpInit ==
    /\ stage = "none" /\ handler = "none" /\ armed = "none" /\ due = {} /\ late = {}
    /\ gaveUp = FALSE /\ errors = 0 /\ answers = 0
    /\ m_state = "closed" /\ request = [r \in Request |-> "new"]

-----------------------------------------------------------------------------
(* An asynchronous request.                                                *)

\* An operation begins, and the timer with it; what it ran for before is off.
Begin(s) == stage' = s /\ handler' = "waiting" /\ armed' = s

HttpStart ==
    /\ stage = "none" /\ Begin("resolve")
    /\ UNCHANGED <<due, late, gaveUp, errors, answers>>

\* Fault: fail reports although another handler has.
FailAgain ==
    /\ gaveUp' = TRUE /\ errors' = errors + 1 /\ armed' = "none"

\* fail: only the first to stop the session reports.
Fail ==
    IF gaveUp THEN UNCHANGED <<gaveUp, errors, armed>>
    ELSE gaveUp' = TRUE /\ errors' = errors + 1 /\ armed' = "none"

\* The operation ends.  On a stream that was closed it may still succeed, as
\* when it ended just before, or as resolving and connecting do.
OpEnds ==
    /\ handler = "waiting" /\ handler' \in {"ok", "failed"}
    /\ UNCHANGED <<stage, armed, due, late, gaveUp, errors, answers>>

\* The handler's check: on an error, or once the session has stopped, it fails.
OpFails ==
    /\ handler = "failed" \/ (handler = "ok" /\ gaveUp)
    /\ Fail /\ stage' = "done" /\ handler' = "none"
    /\ UNCHANGED <<due, late, answers>>

OpPasses ==
    /\ handler = "ok" /\ ~gaveUp /\ handler' = "running"
    /\ UNCHANGED <<stage, armed, due, late, gaveUp, errors, answers>>

After(s) == CASE s = "resolve" -> "connect" [] s = "connect" -> "write" [] s = "write" -> "read"

\* The handler goes on, whatever happened since its check.
OpGoesOn ==
    /\ handler = "running" /\ stage # "read" /\ Begin(After(stage))
    /\ UNCHANGED <<due, late, gaveUp, errors, answers>>

\* finish leaves the session as it is but for the timer.
Finish ==
    /\ handler = "running" /\ stage = "read"
    /\ armed' = "none" /\ answers' = answers + 1 /\ stage' = "done" /\ handler' = "none"
    /\ UNCHANGED <<due, late, gaveUp, errors>>

Expire ==
    /\ armed # "none" /\ due' = due \cup {armed} /\ armed' = "none"
    /\ UNCHANGED <<stage, handler, late, gaveUp, errors, answers>>

\* The handler of an expired timer asks whether the session has stopped, and
\* otherwise closes the stream and fails.
TimerChecks(s) ==
    /\ s \in due /\ s \notin late
    /\ IF gaveUp THEN due' = due \ {s} /\ UNCHANGED late
                  ELSE late' = late \cup {s} /\ UNCHANGED due
    /\ UNCHANGED <<stage, handler, armed, gaveUp, errors, answers>>

TimerFails(s) ==
    /\ s \in late /\ Fail
    /\ late' = late \ {s} /\ due' = due \ {s}
    /\ UNCHANGED <<stage, handler, answers>>

AsyncNext ==
    \/ HttpStart \/ OpEnds \/ OpFails \/ OpPasses \/ OpGoesOn \/ Finish \/ Expire
    \/ \E s \in Stages : TimerChecks(s) \/ TimerFails(s)

-----------------------------------------------------------------------------
(* Blocking requests.                                                      *)

Submit(r) ==
    /\ request[r] = "new" /\ request' = [request EXCEPT ![r] = "submitted"]
    /\ UNCHANGED m_state

\* doHttp takes the client if it is closed, and is refused otherwise.
DoHttp(r) ==
    /\ request[r] = "submitted"
    /\ IF m_state = "closed"
       THEN m_state' = "connecting" /\ request' = [request EXCEPT ![r] = "running"]
       ELSE request' = [request EXCEPT ![r] = "refused"] /\ UNCHANGED m_state

\* An answer leaves the client disconnected, and so of no further use; an error
\* gives it back, and is reported after that.
Answer(r) ==
    /\ request[r] = "running" /\ request' = [request EXCEPT ![r] = "answered"]
    /\ m_state' = "disconnected"

GiveBack(r) ==
    /\ request[r] = "running" /\ request' = [request EXCEPT ![r] = "failing"]
    /\ m_state' = "closed"

ReportError(r) ==
    /\ request[r] = "failing" /\ request' = [request EXCEPT ![r] = "failed"]
    /\ UNCHANGED m_state

SyncNext ==
    \E r \in Request :
        Submit(r) \/ DoHttp(r) \/ Answer(r) \/ GiveBack(r) \/ ReportError(r)

\* The pool's threads run what is ready, and timers expire.  A blocking request
\* ends when the peer answers: its stream's timeout does not bound blocking calls.
HttpFairness ==
    /\ WF_asyncVars(Expire)
    /\ WF_asyncVars(OpFails \/ OpPasses \/ OpGoesOn \/ Finish)
    /\ \A s \in Stages : WF_asyncVars(TimerChecks(s) \/ TimerFails(s))

-----------------------------------------------------------------------------
\* The error and the answer of an asynchronous request: each is reported once at
\* the most, though both may be, when the timer expires as the answer arrives.
OneReport == errors <= 1 /\ answers <= 1

\* Blocking requests of one client do not overlap, and an answered one is the last.
OneAtATime ==
    \A q, r \in Request :
        request[q] = "running" /\ request[r] \in {"running", "answered"} => q = r

\* A request is reported as it should be, and an asynchronous one is reported.
HttpAnswered ==
    /\ [](OneReport /\ OneAtATime)
    /\ stage # "none" ~> errors + answers > 0
=============================================================================
