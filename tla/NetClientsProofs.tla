-------------------------- MODULE NetClientsProofs --------------------------
(***************************************************************************)
(* Proofs about the network clients: the order of what a WebSocket client  *)
(* reports, for any number of calls and reconnections, and that a request  *)
(* is reported once.                                                       *)
(***************************************************************************)
EXTENDS NetClients, SequenceTheorems, TLAPS

-----------------------------------------------------------------------------
(* The WebSocket client.                                                   *)

Calls == {"start", "send", "close"}
Ops   == {"none", "resolve", "connect", "handshake", "read", "timer"}

WsType ==
    /\ posted \in Seq(Calls) /\ op \in Ops
    /\ state \in {"closed", "connecting", "connected", "disconnected"}
    /\ told \in {"none", "connected", "disconnected", "error"}

\* Nothing runs before connect.
UnusedWhileClosed ==
    state = "closed" =>
        /\ posted = << >> /\ ~attached /\ op = "none"
        /\ told = "none" /\ ~stopped /\ ~writing

\* The start is the first call posted, and nothing was reported before it runs.
StartsOnce ==
    \A i \in 1 .. Len(posted) :
        posted[i] = "start" => i = 1 /\ op = "none" /\ told = "none" /\ ~writing

\* Where the connection stands and what was last reported of it agree.
ToldInStep ==
    /\ op = "read" /\ ~stopped => told = "connected"
    /\ op \in {"resolve", "connect", "handshake", "timer"} /\ ~stopped =>
           told \in {"none", "disconnected"}
    /\ op = "none" /\ ~stopped => told = "none"
    /\ told = "error" => stopped

ClosesForGood == closing => stopped

WsInv == WsType /\ UnusedWhileClosed /\ StartsOnce /\ ToldInStep /\ ClosesForGood

LEMMA WsInitInv == WsInit => WsInv
<1>. SUFFICES ASSUME WsInit PROVE WsInv
  OBVIOUS
<1>1. posted = << >> /\ posted \in Seq(Calls) /\ Len(posted) = 0
  <2>1. posted = << >>
    BY DEF WsInit
  <2>. QED BY <2>1
<1>2. WsType
  BY <1>1 DEF WsInit, WsType, Ops
<1>3. UnusedWhileClosed /\ ToldInStep /\ ClosesForGood
  BY <1>1 DEF WsInit, UnusedWhileClosed, ToldInStep, ClosesForGood
<1>4. StartsOnce
  BY <1>1 DEF StartsOnce
<1>. QED BY <1>2, <1>3, <1>4 DEF WsInv

\* What a handler of the connection leaves to show, once it posted nothing.
LEMMA HandledInv ==
    ASSUME WsInv, Handled, op # "none", UNCHANGED writing,
           op' \in Ops, state' \in {"connected", "disconnected", state},
           told' \in {"none", "connected", "disconnected", "error"},
           ToldInStep', ClosesForGood'
    PROVE  WsInv'
BY DEF WsInv, WsType, UnusedWhileClosed, StartsOnce, Handled

LEMMA PostInv ==
    ASSUME WsInv, NEW call \in {"send", "close"}, Post(call)
    PROVE  /\ posted' \in Seq(Calls) /\ state # "closed"
           /\ \A i \in 1 .. Len(posted') : posted'[i] = "start" =>
                 i = 1 /\ op = "none" /\ told = "none" /\ ~writing
<1>1. posted' = Append(posted, call) /\ posted \in Seq(Calls) /\ call \in Calls
  BY DEF Post, WsInv, WsType, Calls
<1>2. /\ posted' \in Seq(Calls) /\ Len(posted') = Len(posted) + 1 /\ Len(posted) \in Nat
      /\ \A i \in 1 .. Len(posted) : posted'[i] = posted[i]
      /\ posted'[Len(posted) + 1] = call
  BY <1>1, AppendProperties
<1>3. \A i \in 1 .. Len(posted') : i \in 1 .. Len(posted) \/ i = Len(posted) + 1
  BY <1>2
<1>. QED BY <1>2, <1>3 DEF Post, WsInv, StartsOnce, UnusedWhileClosed

LEMMA RunInv ==
    ASSUME WsInv, posted # << >>, posted' = Tail(posted)
    PROVE  /\ posted' \in Seq(Calls) /\ state # "closed"
           /\ Head(posted) = "start" => op = "none" /\ told = "none"
           /\ \A i \in 1 .. Len(posted') : posted'[i] # "start"
<1>1. posted \in Seq(Calls)
  BY DEF WsInv, WsType
<1>2. /\ posted' \in Seq(Calls) /\ Len(posted') = Len(posted) - 1 /\ Len(posted) \in Nat \ {0}
      /\ \A i \in 1 .. Len(posted') : posted'[i] = posted[i + 1]
      /\ Head(posted) = posted[1]
  BY <1>1, HeadTailProperties, EmptySeq
<1>3. \A i \in 1 .. Len(posted') : i + 1 \in 1 .. Len(posted) /\ i + 1 # 1
  BY <1>2
<1>. QED BY <1>2, <1>3 DEF WsInv, StartsOnce, UnusedWhileClosed

LEMMA WsStep == WsInv /\ [WsNext]_wsVars => WsInv'
<1>. SUFFICES ASSUME WsInv, [WsNext]_wsVars PROVE WsInv'
  OBVIOUS
<1>. USE DEF Ops
<1>1. CASE WsConnect
  <2>1. posted = << >> /\ posted' = Append(posted, "start")
    BY <1>1 DEF WsConnect, WsInv, UnusedWhileClosed
  <2>2. posted' \in Seq(Calls) /\ Len(posted') = 1
    BY <2>1, AppendProperties DEF Calls
  <2>3. state' = "connecting" /\ UNCHANGED <<stopped, op, closing, told, writing>>
        /\ op = "none" /\ told = "none" /\ ~writing
    BY <1>1 DEF WsConnect, WsInv, UnusedWhileClosed
  <2>4. WsType'
    BY <2>2, <2>3 DEF WsInv, WsType
  <2>5. UnusedWhileClosed' /\ ToldInStep' /\ ClosesForGood'
    BY <2>3 DEF WsInv, UnusedWhileClosed, ToldInStep, ClosesForGood
  <2>6. StartsOnce'
    BY <2>2, <2>3 DEF WsInv, ToldInStep, StartsOnce
  <2>. QED BY <2>4, <2>5, <2>6 DEF WsInv
<1>2. CASE WsSend
  BY <1>2, PostInv
     DEF WsSend, WsInv, WsType, UnusedWhileClosed, StartsOnce, ToldInStep, ClosesForGood
<1>3. CASE WsClose
  BY <1>3, PostInv
     DEF WsClose, WsInv, WsType, UnusedWhileClosed, StartsOnce, ToldInStep, ClosesForGood
<1>4. CASE WsDrop
  BY <1>4, HandledInv DEF WsDrop, WsInv, WsType, ToldInStep, ClosesForGood
<1>5. CASE WsOpFails
  BY <1>5, HandledInv DEF WsOpFails, WsFail, WsInv, WsType, ToldInStep, ClosesForGood
<1>6. CASE WsResolved \/ WsTcpConnected \/ WsReconnects
  BY <1>6, HandledInv
     DEF WsResolved, WsTcpConnected, WsReconnects, Advances, WsInv, WsType, ToldInStep,
         ClosesForGood
<1>7. CASE WsHandshaken
  BY <1>7, HandledInv
     DEF WsHandshaken, Advances, WsInv, WsType, ToldInStep, ClosesForGood
<1>8. CASE WsLost
  BY <1>8, HandledInv
     DEF WsLost, ScheduleReconnect, WsInv, WsType, ToldInStep, ClosesForGood
<1>9. CASE WsRun
  <2>1. posted' \in Seq(Calls) /\ state # "closed" /\ StartsOnce'
    BY <1>9, RunInv DEF WsRun, StartsOnce
  <2>2. Head(posted) = "start" => op = "none" /\ told = "none"
    BY <1>9, RunInv DEF WsRun
  <2>3. CASE Head(posted) = "start"
    BY <1>9, <2>1, <2>2, <2>3
       DEF WsRun, WsInv, WsType, UnusedWhileClosed, ToldInStep, ClosesForGood
  <2>4. CASE Head(posted) = "send"
    BY <1>9, <2>1, <2>4
       DEF WsRun, WsInv, WsType, UnusedWhileClosed, ToldInStep, ClosesForGood
  <2>5. CASE Head(posted) = "close"
    BY <1>9, <2>1, <2>5
       DEF WsRun, WsInv, WsType, UnusedWhileClosed, ToldInStep, ClosesForGood
  <2>6. Head(posted) \in Calls
    BY <1>9, HeadTailProperties DEF WsRun, WsInv, WsType
  <2>. QED BY <2>3, <2>4, <2>5, <2>6 DEF Calls
<1>10. CASE WsWritten
  <2>1. /\ UNCHANGED <<posted, attached, closing>> /\ op' \in {op, "none"}
        /\ (op' # op => stopped') /\ writing
    BY <1>10 DEF WsWritten, WsFail, Handled, WsInv, ToldInStep
  <2>2. \/ UNCHANGED <<state, stopped, told>> /\ op' = op
        \/ UNCHANGED <<state, stopped, told>> /\ stopped
        \/ state' = "disconnected" /\ told' = "error" /\ stopped' = TRUE /\ ~stopped
    BY <1>10 DEF WsWritten, WsFail
  <2>3. WsType' /\ ToldInStep'
    BY <2>1, <2>2 DEF WsInv, WsType, ToldInStep
  <2>4. ClosesForGood' /\ UnusedWhileClosed'
    BY <2>1, <2>2 DEF WsInv, UnusedWhileClosed, ClosesForGood
  <2>5. StartsOnce'
    BY <2>1, <2>2 DEF WsInv, StartsOnce
  <2>. QED BY <2>3, <2>4, <2>5 DEF WsInv
<1>11. CASE WsClosed
  BY <1>11 DEF WsClosed, Handled, WsInv, WsType, UnusedWhileClosed, StartsOnce,
               ToldInStep, ClosesForGood
<1>12. CASE UNCHANGED wsVars
  BY <1>12 DEF wsVars, WsInv, WsType, UnusedWhileClosed, StartsOnce, ToldInStep,
               ClosesForGood
<1>. QED
  BY <1>1, <1>2, <1>3, <1>4, <1>5, <1>6, <1>7, <1>8, <1>9, <1>10, <1>11, <1>12
     DEF WsNext, WsStrand

-----------------------------------------------------------------------------
(* The clients together.                                                   *)

\* A step of the network clients is one of a WebSocket client or leaves it alone.
LEMMA WsSteps == [NetNext]_netVars => [WsNext]_wsVars
BY DEF NetNext, netVars, httpVars, asyncVars, syncVars, wsVars

\* Every step of a WebSocket client tells the delegate what comes next.
LEMMA WsTells == WsInv /\ [WsNext]_wsVars => [InOrder]_wsVars
<1>. SUFFICES ASSUME WsInv, WsNext PROVE InOrder
  OBVIOUS
<1>. USE DEF WsInv, WsType, ToldInStep, ClosesForGood, InOrder
<1>1. CASE WsConnect \/ WsSend \/ WsClose
  BY <1>1 DEF WsConnect, WsSend, WsClose
<1>2. CASE WsDrop \/ WsResolved \/ WsTcpConnected \/ WsReconnects
  BY <1>2 DEF WsDrop, WsResolved, WsTcpConnected, WsReconnects, Advances
<1>3. CASE WsOpFails \/ WsWritten
  BY <1>3 DEF WsOpFails, WsWritten, WsFail
<1>4. CASE WsHandshaken
  BY <1>4 DEF WsHandshaken, Advances
<1>5. CASE WsLost
  BY <1>5 DEF WsLost, ScheduleReconnect
<1>6. CASE WsRun
  <2>1. UNCHANGED <<state, told>>
    BY <1>6 DEF WsRun
  <2>2. Head(posted) \in Calls
    BY <1>6, HeadTailProperties DEF WsRun
  <2>3. op # "read" => op' # "read"
    BY <1>6, <2>2 DEF WsRun, Calls
  <2>. QED BY <2>1, <2>3
<1>7. CASE WsClosed
  BY <1>7 DEF WsClosed
<1>. QED
  BY <1>1, <1>2, <1>3, <1>4, <1>5, <1>6, <1>7 DEF WsNext, WsStrand

\* WsClient::Impl: for any number of calls and of reconnections, the delegate
\* hears of one connection at a time, of one error at the most, and of nothing after
\* it or after close; and the client's state never runs ahead of what was reported.
THEOREM ReportsHold == NetSpec => ReportsInOrder
<1>1. NetInit => WsInv
  BY WsInitInv DEF NetInit
<1>2. WsInv /\ [NetNext]_netVars => WsInv'
  BY WsSteps, WsStep
<1>3. NetSpec => []WsInv
  BY <1>1, <1>2, PTL DEF NetSpec
<1>4. NetSpec => [][NetNext]_netVars
  BY PTL DEF NetSpec
<1>5. WsInv /\ [NetNext]_netVars => [InOrder]_wsVars
  BY WsSteps, WsTells
<1>. QED BY <1>3, <1>4, <1>5, PTL DEF ReportsInOrder

-----------------------------------------------------------------------------
(* The HTTP client.                                                        *)

\* The session stopped just when an error was reported, and one that answered has
\* no handler left that could do so again.
AsyncInv ==
    /\ stage \in Stages \cup {"none", "done"}
    /\ (~gaveUp /\ errors = 0) \/ (gaveUp /\ errors = 1)
    /\ answers = 0 \/ (answers = 1 /\ stage = "done")
    /\ stage \notin Stages => handler = "none"

\* The client's state says which of the blocking requests may be where.
SyncInv ==
    /\ request \in [Request -> {"new", "submitted", "refused", "running", "answered",
                                "failing", "failed"}]
    /\ \A r \in Request :
         /\ request[r] = "running" => m_state = "connecting"
         /\ request[r] = "answered" => m_state = "disconnected"
    /\ OneAtATime

LEMMA AsyncStep == AsyncInv /\ [AsyncNext]_asyncVars => AsyncInv'
<1>. SUFFICES ASSUME AsyncInv, [AsyncNext]_asyncVars PROVE AsyncInv'
  OBVIOUS
<1>. USE DEF AsyncInv, Stages
<1>1. CASE HttpStart \/ OpEnds \/ OpPasses \/ OpGoesOn
  BY <1>1 DEF HttpStart, OpEnds, OpPasses, OpGoesOn, Begin, After
<1>2. CASE OpFails
  BY <1>2 DEF OpFails, Fail
<1>3. CASE Finish
  BY <1>3 DEF Finish
<1>4. CASE Expire
  BY <1>4 DEF Expire
<1>5. ASSUME NEW s \in Stages, TimerChecks(s) PROVE AsyncInv'
  BY <1>5 DEF TimerChecks
<1>6. ASSUME NEW s \in Stages, TimerFails(s) PROVE AsyncInv'
  BY <1>6 DEF TimerFails, Fail
<1>7. CASE UNCHANGED asyncVars
  BY <1>7 DEF asyncVars
<1>. QED BY <1>1, <1>2, <1>3, <1>4, <1>5, <1>6, <1>7 DEF AsyncNext

LEMMA SyncStep == SyncInv /\ [SyncNext]_syncVars => SyncInv'
<1>. SUFFICES ASSUME SyncInv, [SyncNext]_syncVars PROVE SyncInv'
  OBVIOUS
<1>. USE DEF SyncInv, OneAtATime
<1>1. ASSUME NEW r \in Request, Submit(r) PROVE SyncInv'
  BY <1>1 DEF Submit
<1>2. ASSUME NEW r \in Request, DoHttp(r) PROVE SyncInv'
  BY <1>2 DEF DoHttp
<1>3. ASSUME NEW r \in Request, Answer(r) PROVE SyncInv'
  BY <1>3 DEF Answer
<1>4. ASSUME NEW r \in Request, GiveBack(r) PROVE SyncInv'
  BY <1>4 DEF GiveBack
<1>5. ASSUME NEW r \in Request, ReportError(r) PROVE SyncInv'
  BY <1>5 DEF ReportError
<1>6. CASE UNCHANGED syncVars
  BY <1>6 DEF syncVars
<1>. QED BY <1>1, <1>2, <1>3, <1>4, <1>5, <1>6 DEF SyncNext

\* AsyncHttpSession::fail and finish: however timers and handlers interleave, the
\* error is reported once at the most, and so is the answer.
THEOREM ReportedOnce == NetSpec => []OneReport
<1>1. NetInit => AsyncInv
  BY DEF NetInit, HttpInit, AsyncInv
<1>2. [NetNext]_netVars => [AsyncNext]_asyncVars
  BY DEF NetNext, netVars, httpVars, asyncVars
<1>3. AsyncInv /\ [NetNext]_netVars => AsyncInv'
  BY <1>2, AsyncStep
<1>4. AsyncInv => OneReport
  BY DEF AsyncInv, OneReport
<1>. QED BY <1>1, <1>3, <1>4, PTL DEF NetSpec

\* doHttp: whatever the number of requests posted to the pool, two of one client
\* never run together, and none runs once one was answered.
THEOREM RunsOneAtATime == NetSpec => []OneAtATime
<1>1. NetInit => SyncInv
  BY DEF NetInit, HttpInit, SyncInv, OneAtATime
<1>2. [NetNext]_netVars => [SyncNext]_syncVars
  BY DEF NetNext, netVars, httpVars, syncVars
<1>3. SyncInv /\ [NetNext]_netVars => SyncInv'
  BY <1>2, SyncStep
<1>4. SyncInv => OneAtATime
  BY DEF SyncInv
<1>. QED BY <1>1, <1>3, <1>4, PTL DEF NetSpec
=============================================================================
