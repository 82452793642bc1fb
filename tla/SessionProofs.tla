--------------------------- MODULE SessionProofs ---------------------------
(***************************************************************************)
(* Proofs about Session, for any number of connections, apps, windows and  *)
(* callers: its types, the owner of each app, what a single session waits  *)
(* for, its write queue, its place in the registry, its app's output, and  *)
(* its action properties, and that Session implements AppOwnership.        *)
(***************************************************************************)
EXTENDS Session, FiniteSetTheorems, TLAPS

\* Why out, missed and app stay in their types: a write in flight has its
\* message in the queue, and a caller that is busy has a session.
TypeInv ==
    /\ TypeOK
    /\ \A c \in Conn : writing[c] => out[c] > 0
    /\ \A t \in Caller : call[t].at # "idle" => call[t].conn \in Conn

LEMMA TypeInvInit == Init => TypeInv
<1>. SUFFICES ASSUME Init PROVE TypeInv
  OBVIOUS
<1>1. missed \in [Conn -> 0..MaxMissedPongs]
  BY DEF Init, MaxMissedPongs
<1>2. call \in [Caller -> [at : {"idle", "found", "inside"},
                          conn : Conn \cup {NoConn}, app : App \cup {NoApp}]]
  BY DEF Init, IdleCall
<1>3. TypeOK
  BY <1>1, <1>2 DEF Init, TypeOK
<1>. QED BY <1>3 DEF Init, TypeInv, IdleCall

\* What closing a session leaves well typed.
LEMMA CleanupTyped ==
    ASSUME TypeOK, NEW c \in Conn, DoCleanup(c)
    PROVE  /\ closing' \in [Conn -> BOOLEAN]
           /\ pinging' \in [Conn -> BOOLEAN]
           /\ registered' \in SUBSET Conn
           /\ app' \in [Conn -> App \cup {NoApp}]
           /\ stash' \in [Window -> App \cup {NoApp}]
           /\ aged' \in SUBSET Window
           /\ status' \in [App -> {"unborn", "live", "done", "dead"}]
  BY DEF TypeOK, DoCleanup, Detach, Stashable, Kill, stashVars

LEMMA CloseTyped ==
    ASSUME TypeOK, NEW c \in Conn, CloseWs(c)
    PROVE  /\ closing' \in [Conn -> BOOLEAN]
           /\ pinging' \in [Conn -> BOOLEAN]
           /\ registered' \in SUBSET Conn
           /\ app' \in [Conn -> App \cup {NoApp}]
           /\ stash' \in [Window -> App \cup {NoApp}]
           /\ aged' \in SUBSET Window
           /\ status' \in [App -> {"unborn", "live", "done", "dead"}]
           /\ sock' \in [Conn -> {"open", "broken", "closed"}]
<1>1. CASE closing[c]
  BY <1>1 DEF TypeOK, CloseWs, lifeVars, stashVars
<1>2. CASE ~closing[c]
  BY <1>2, CleanupTyped DEF CloseWs, TypeOK
<1>. QED BY <1>1, <1>2

\* What the helpers of the handlers leave well typed.
LEMMA EnqueueTyped ==
    ASSUME TypeInv, NEW c \in Conn, Enqueue(c) \/ UNCHANGED outVars
    PROVE  /\ out' \in [Conn -> Nat]
           /\ writing' \in [Conn -> BOOLEAN]
           /\ \A d \in Conn : writing'[d] => out'[d] > 0
<1>1. CASE UNCHANGED outVars
  BY <1>1 DEF outVars, TypeInv, TypeOK
<1>2. CASE Enqueue(c) /\ ~closing[c]
  <2>. out \in [Conn -> Nat] /\ writing \in [Conn -> BOOLEAN]
    BY DEF TypeInv, TypeOK
  <2>. out' = [out EXCEPT ![c] = out[c] + 1] /\ writing' = [writing EXCEPT ![c] = TRUE]
    BY <1>2 DEF Enqueue
  <2>1. out' \in [Conn -> Nat] /\ writing' \in [Conn -> BOOLEAN]
    OBVIOUS
  <2>2. ASSUME NEW d \in Conn, writing'[d] PROVE out'[d] > 0
    BY <2>2 DEF TypeInv
  <2>. QED BY <2>1, <2>2
<1>. QED BY <1>1, <1>2 DEF Enqueue

LEMMA ReadTyped ==
    ASSUME TypeOK, NEW c \in Conn, DoRead(c) \/ StopReading(c)
    PROVE  reading' \in [Conn -> {"no", "pending", "ready"}]
  BY DEF DoRead, StopReading, TypeOK

LEMMA MayFinishTyped ==
    ASSUME TypeOK, NEW a, MayFinish(a)
    PROVE  status' \in [App -> {"unborn", "live", "done", "dead"}]
  BY DEF MayFinish, TypeOK

LEMMA KillTyped ==
    ASSUME TypeOK, NEW dying, Kill(dying)
    PROVE  status' \in [App -> {"unborn", "live", "done", "dead"}]
  BY DEF Kill, TypeOK

LEMMA EmptySlotTyped ==
    ASSUME TypeOK, NEW w, EmptySlot(w)
    PROVE  /\ stash' \in [Window -> App \cup {NoApp}]
           /\ aged' \in SUBSET Window
  BY DEF EmptySlot, TypeOK

LEMMA DropTyped ==
    ASSUME TypeOK, NEW c \in Conn, DropWs(c)
    PROVE  /\ closing' \in [Conn -> BOOLEAN]
           /\ pinging' \in [Conn -> BOOLEAN]
           /\ registered' \in SUBSET Conn
           /\ app' \in [Conn -> App \cup {NoApp}]
           /\ sock' \in [Conn -> {"open", "broken", "closed"}]
<1>1. CASE closing[c]
  BY <1>1 DEF DropWs, lifeVars, TypeOK
<1>2. CASE ~closing[c]
  <2>1. Detach(c) /\ sock' = [sock EXCEPT ![c] = "closed"]
    BY <1>2 DEF DropWs
  <2>2. sock' \in [Conn -> {"open", "broken", "closed"}]
    BY <2>1 DEF TypeOK
  <2>. QED BY <2>1, <2>2 DEF Detach, TypeOK
<1>. QED BY <1>1, <1>2

LEMMA ProcessLegacyTyped ==
    ASSUME TypeInv, NEW c \in Conn, NEW a \in App \cup {NoApp}, ProcessLegacy(c, a)
    PROVE  /\ task' \in [Conn -> {"none", "queued", "running", "results", "turn"}]
           /\ taskApp' \in [Conn -> App \cup {NoApp}]
           /\ reading' \in [Conn -> {"no", "pending", "ready"}]
           /\ Enqueue(c) \/ UNCHANGED outVars
  BY ReadTyped DEF ProcessLegacy, taskVars, TypeInv, TypeOK

LEMMA FirstMsgTyped ==
    ASSUME TypeOK, NEW c \in Conn, NEW w \in Window \cup {NoWindow}, FirstMsg(c, w)
    PROVE  wid' \in [Conn -> Window \cup {NoWindow}]
  BY DEF FirstMsg, TypeOK

LEMMA SetModTyped ==
    ASSUME TypeOK, NEW c \in Conn, NEW a, SetMod(c, a)
    PROVE  mod' \in [Conn -> {"none", "async", "legacy"}]
  BY DEF SetMod, KindOf, TypeOK

LEMMA GiveAppTyped ==
    ASSUME TypeOK, NEW c \in Conn, NEW a \in App \cup {NoApp}, GiveApp(c, a)
    PROVE  app' \in [Conn -> App \cup {NoApp}]
  BY DEF GiveApp, TypeOK

LEMMA SetOutputTyped ==
    ASSUME TypeOK, NEW c \in Conn, NEW a, SetOutput(c, a)
    PROVE  cb' \in [App -> Conn \cup {NoConn}]
  BY DEF SetOutput, TypeOK

LEMMA OnReadTyped ==
    ASSUME TypeOK, NEW c \in Conn, OnRead(c)
    PROVE  missed' \in [Conn -> 0..MaxMissedPongs]
  BY DEF OnRead, TypeOK, MaxMissedPongs

LEMMA TypeInvNext == TypeInv /\ [Next]_vars => TypeInv'
<1>. SUFFICES ASSUME TypeInv, [Next]_vars PROVE TypeInv'
  OBVIOUS
<1>. USE SessionAssumption DEF TypeInv
<1>1. ASSUME NEW c \in Conn, Upgrade(c) PROVE TypeInv'
  BY <1>1, EnqueueTyped
     DEF TypeOK, Upgrade, lifeVars, stashVars, taskVars
<1>2. ASSUME NEW c \in Conn, Accept(c) \/ Refuse(c) \/ PlainHttp(c) PROVE TypeInv'
  BY <1>2
     DEF TypeOK, Accept, Refuse, PlainHttp, lifeVars, stashVars, outVars, taskVars
<1>3. ASSUME NEW c \in Conn, NEW w \in Window \cup {NoWindow}, ResumeFails(c, w) PROVE TypeInv'
  BY <1>3, FirstMsgTyped, EmptySlotTyped, KillTyped, EnqueueTyped,
     DropTyped, ReadTyped
     DEF TypeOK, ResumeFails, FirstMsg, taskVars
<1>4. ASSUME NEW c \in Conn, NEW w \in Window, ResumeEnded(c, w) PROVE TypeInv'
  BY <1>4, FirstMsgTyped, SetModTyped, GiveAppTyped, EmptySlotTyped,
     KillTyped, EnqueueTyped, DropTyped, ReadTyped
     DEF TypeOK, ResumeEnded, FirstMsg, Register, Fresh, SlotApp, taskVars
<1>5. ASSUME NEW c \in Conn, NEW w \in Window, Resume(c, w) PROVE TypeInv'
  BY <1>5, FirstMsgTyped, SetModTyped, GiveAppTyped, SetOutputTyped,
     EmptySlotTyped, ReadTyped
     DEF TypeOK, Resume, FirstMsg, Register, outVars, taskVars
<1>6. ASSUME NEW c \in Conn, NEW w \in Window \cup {NoWindow}, NewAppFails(c, w) PROVE TypeInv'
  BY <1>6, FirstMsgTyped, EnqueueTyped, DropTyped, ReadTyped
     DEF TypeOK, NewAppFails, FirstMsg, stashVars, taskVars
<1>7. ASSUME NEW c \in Conn, NEW w \in Window \cup {NoWindow}, NEW a \in App, NewApp(c, w, a) PROVE TypeInv'
  BY <1>7, FirstMsgTyped, SetModTyped, GiveAppTyped, SetOutputTyped,
     EnqueueTyped, ReadTyped, ProcessLegacyTyped
     DEF TypeOK, NewApp, FirstMsg, Register, stashVars, taskVars
<1>8. ASSUME NEW c \in Conn, NEW w \in Window \cup {NoWindow}, NEW a \in App, NewAppUserCloses(c, w, a) PROVE TypeInv'
  BY <1>8, FirstMsgTyped, SetModTyped, GiveAppTyped, EmptySlotTyped,
     KillTyped, DropTyped, ReadTyped
     DEF TypeOK, NewAppUserCloses, FirstMsg, Register, outVars, taskVars
<1>9. ASSUME NEW c \in Conn, MsgArrives(c) PROVE TypeInv'
  BY <1>9
     DEF TypeOK, MsgArrives, lifeVars, stashVars, outVars, taskVars
<1>10. ASSUME NEW c \in Conn, PeerGone(c) PROVE TypeInv'
  BY <1>10
     DEF TypeOK, PeerGone, lifeVars, stashVars, outVars, taskVars
<1>11. ASSUME NEW c \in Conn, ReadErr(c) PROVE TypeInv'
  BY <1>11, CleanupTyped, ReadTyped
     DEF TypeOK, ReadErr, lifeVars, stashVars, outVars, taskVars
<1>12. ASSUME NEW c \in Conn, WriteErr(c) PROVE TypeInv'
  BY <1>12, CleanupTyped
     DEF TypeOK, WriteErr, lifeVars, stashVars, taskVars
<1>13. ASSUME NEW c \in Conn, WriteOk(c) PROVE TypeInv'
  <2>1. out \in [Conn -> Nat] /\ writing \in [Conn -> BOOLEAN] /\ out[c] > 0
    BY <1>13 DEF TypeOK, WriteOk
  <2>2. out' = [out EXCEPT ![c] = out[c] - 1]
    BY <1>13 DEF WriteOk
  <2>3. writing' = [writing EXCEPT ![c] = out[c] > 1 /\ ~closing[c]]
    BY <1>13 DEF WriteOk
  <2>4. out' \in [Conn -> Nat] /\ writing' \in [Conn -> BOOLEAN]
    BY <2>1, <2>2, <2>3
  <2>5. ASSUME NEW d \in Conn, writing'[d] PROVE out'[d] > 0
    <3>1. CASE d = c
      <4>1. out[c] > 1
        BY <2>1, <2>3, <2>5, <3>1
      <4>. QED BY <2>1, <2>2, <3>1, <4>1
    <3>2. CASE d # c
      <4>1. writing[d] /\ out'[d] = out[d]
        BY <2>1, <2>2, <2>3, <2>5, <3>2
      <4>. QED BY <4>1
    <3>. QED BY <3>1, <3>2
  <2>6. TypeOK'
    BY <1>13, <2>4, CloseTyped DEF TypeOK, WriteOk, lifeVars, stashVars, taskVars
  <2>. QED BY <1>13, <2>5, <2>6 DEF WriteOk
<1>14. ASSUME NEW c \in Conn, OnReadCloseWindow(c) PROVE TypeInv'
  BY <1>14, OnReadTyped, EmptySlotTyped, KillTyped, DropTyped, ReadTyped
     DEF TypeOK, OnReadCloseWindow, OnRead, outVars, taskVars
<1>15. ASSUME NEW c \in Conn, OnReadAsync(c) PROVE TypeInv'
  BY SMTT(20), ZenonT(40), <1>15, OnReadTyped, MayFinishTyped, EnqueueTyped, ReadTyped
     DEF TypeOK, OnReadAsync, OnRead, lifeVars, stashVars, taskVars
<1>16. ASSUME NEW c \in Conn, OnReadAsyncNoApp(c) PROVE TypeInv'
  BY <1>16
     DEF TypeOK, OnReadAsyncNoApp, stateVars, lifeVars, stashVars,
         outVars, taskVars
<1>17. ASSUME NEW c \in Conn, OnReadLegacy(c) PROVE TypeInv'
  BY <1>17, OnReadTyped, ProcessLegacyTyped, EnqueueTyped
     DEF TypeOK, OnReadLegacy, OnRead, lifeVars, stashVars
<1>18. ASSUME NEW c \in Conn, TaskStart(c) PROVE TypeInv'
  BY <1>18
     DEF TypeOK, TaskStart, Undefined, UnsafeEntry, lifeVars, stashVars,
         outVars
<1>19. ASSUME NEW c \in Conn, TaskStartNoApp(c) PROVE TypeInv'
  BY <1>19
     DEF TypeOK, TaskStartNoApp, stateVars, lifeVars, stashVars, outVars,
         taskVars
<1>20. ASSUME NEW c \in Conn, TaskEnd(c) PROVE TypeInv'
  BY <1>20, MayFinishTyped
     DEF TypeOK, TaskEnd, Undefined, lifeVars, stashVars, outVars
<1>21. ASSUME NEW c \in Conn, PostResults(c) PROVE TypeInv'
  BY <1>21, EnqueueTyped
     DEF TypeOK, PostResults, lifeVars, stashVars
<1>22. ASSUME NEW c \in Conn, TurnEnd(c) PROVE TypeInv'
  BY <1>22, CloseTyped, ReadTyped
     DEF TypeOK, TurnEnd, lifeVars, stashVars, outVars
<1>23. ASSUME NEW c \in Conn, TurnEndNoApp(c) PROVE TypeInv'
  BY <1>23
     DEF TypeOK, TurnEndNoApp, stateVars, lifeVars, stashVars, outVars,
         taskVars
<1>24. ASSUME NEW c \in Conn, HeartbeatLost(c) PROVE TypeInv'
  BY <1>24, CloseTyped
     DEF TypeOK, HeartbeatLost, Undefined, outVars, taskVars
<1>25. ASSUME NEW c \in Conn, Ping(c) PROVE TypeInv'
  <2>1. missed' \in [Conn -> 0..MaxMissedPongs]
    BY <1>25 DEF Ping, PongsMissed, MaxMissedPongs, TypeOK
  <2>2. pinging' \in [Conn -> BOOLEAN] /\ crashed' \in BOOLEAN
    BY SMTT(20), ZenonT(40), <1>25 DEF Ping, Rearm, Undefined, TypeOK
  <2>. QED
    BY <1>25, <2>1, <2>2 DEF Ping, TypeOK, stashVars, outVars, taskVars
<1>26. ASSUME NEW c \in Conn, Destruct(c) PROVE TypeInv'
  BY <1>26, KillTyped
     DEF TypeOK, Destruct, stashVars, outVars, taskVars
<1>27. ASSUME NEW a \in App, AppOutput(a) PROVE TypeInv'
  BY <1>27, EnqueueTyped
     DEF TypeOK, AppOutput, MaxMissedPongs, lifeVars, stashVars, taskVars
<1>28. ASSUME NEW a \in App, AppOutputDangling(a) PROVE TypeInv'
  BY <1>28
     DEF TypeOK, AppOutputDangling, stateVars, lifeVars, stashVars,
         outVars, taskVars
<1>29. ASSUME NEW a \in App, AppExits(a) PROVE TypeInv'
  BY <1>29
     DEF TypeOK, AppExits, lifeVars, stashVars, outVars, taskVars
<1>30. ASSUME NEW w \in Window, StashAges(w) PROVE TypeInv'
  BY <1>30
     DEF TypeOK, StashAges, lifeVars, outVars, taskVars
<1>31. ASSUME NEW t \in Caller, NEW c \in Conn, FindSession(t, c) PROVE TypeInv'
  BY <1>31
     DEF TypeOK, FindSession, stashVars, outVars, taskVars
<1>32. ASSUME NEW t \in Caller, EnterApp(t) PROVE TypeInv'
  <2>. DEFINE a == app[call[t].conn]
  <2>1. call[t].conn \in Conn /\ a \in App \cup {NoApp}
    BY <1>32 DEF EnterApp, TypeOK
  <2>2. crashed' \in BOOLEAN
    BY <1>32 DEF EnterApp, Undefined, UnsafeEntry, TypeOK
  <2>3. \/ call' = [call EXCEPT ![t] = IdleCall]
        \/ call' = [call EXCEPT ![t] = [call[t] EXCEPT !.at = "inside", !.app = a]]
    BY <1>32 DEF EnterApp
  <2>4. /\ call' \in [Caller -> [at : {"idle", "found", "inside"},
                             conn : Conn \cup {NoConn}, app : App \cup {NoApp}]]
        /\ \A u \in Caller : call'[u].at # "idle" => call'[u].conn \in Conn
    <3>1. CASE call' = [call EXCEPT ![t] = IdleCall]
      BY <3>1 DEF IdleCall, TypeOK
    <3>2. CASE call' = [call EXCEPT ![t] = [call[t] EXCEPT !.at = "inside", !.app = a]]
      <4>1. call[t] \in [at : {"idle", "found", "inside"},
                         conn : Conn \cup {NoConn}, app : App \cup {NoApp}]
        BY DEF TypeOK
      <4>2. call'[t] = [at |-> "inside", conn |-> call[t].conn, app |-> a]
        BY SMTT(20), ZenonT(40), <3>2, <4>1 DEF TypeOK
      <4>3. \A u \in Caller : u # t => call'[u] = call[u]
        BY <3>2 DEF TypeOK
      <4>4. call' = [u \in Caller |-> call'[u]]
        BY <3>2 DEF TypeOK
      <4>. HIDE DEF a
      <4>5. call'[t] \in [at : {"idle", "found", "inside"},
                          conn : Conn \cup {NoConn}, app : App \cup {NoApp}]
        BY <2>1, <4>2
      <4>6. \A u \in Caller : call'[u] \in
              [at : {"idle", "found", "inside"},
               conn : Conn \cup {NoConn}, app : App \cup {NoApp}]
        BY <4>3, <4>5 DEF TypeOK
      <4>7. \A u \in Caller : call'[u].at # "idle" => call'[u].conn \in Conn
        BY <2>1, <4>2, <4>3
      <4>8. call' \in [Caller -> [at : {"idle", "found", "inside"},
                       conn : Conn \cup {NoConn}, app : App \cup {NoApp}]]
        BY <4>4, <4>6
      <4>. QED BY <4>7, <4>8
    <3>. QED BY <2>3, <3>1, <3>2
  <2>. QED
    BY <1>32, <2>2, <2>4
       DEF EnterApp, TypeOK, lifeVars, stashVars, outVars, taskVars
<1>33. ASSUME NEW t \in Caller, LeaveApp(t) PROVE TypeInv'
  BY <1>33, MayFinishTyped, EnqueueTyped
     DEF TypeOK, LeaveApp, Undefined, IdleCall, lifeVars, stashVars,
         taskVars
<1>34. CASE UNCHANGED vars
  BY <1>34
     DEF TypeOK, vars, stateVars, lifeVars, stashVars, outVars, taskVars
<1>. QED
  BY <1>1, <1>2, <1>3, <1>4, <1>5, <1>6, <1>7, <1>8, <1>9, <1>10, <1>11,
     <1>12, <1>13, <1>14, <1>15, <1>16, <1>17, <1>18, <1>19, <1>20, <1>21,
     <1>22, <1>23, <1>24, <1>25, <1>26, <1>27, <1>28, <1>29, <1>30, <1>31,
     <1>32, <1>33, <1>34
     DEF Next, ConnNext, HandleMsg, Route, Tick, PoolStep, AppNext,
         CallerNext
-----------------------------------------------------------------------------
(* Ownership.                                                              *)


\* What makes SingleOwner inductive: an app is only ever given to a session
\* that was not routed before, and such a session has none to lose.
OwnInv ==
    /\ TypeInv
    /\ SingleOwner
    /\ \A c \in Conn : mod[c] = "none" => app[c] = NoApp

\* A step that moves no app and at most lets one end keeps every owner.
LEMMA OwnersStay ==
    ASSUME TypeOK, SingleOwner, app' = app, stash' = stash,
           status' = status \/ \E a : MayFinish(a)
    PROVE  SingleOwner'
<1>1. \A a \in App : status'[a] \in {"live", "done"} <=> status[a] \in {"live", "done"}
  BY DEF MayFinish, TypeOK
<1>. QED
  BY <1>1 DEF SingleOwner, OneSessionPerApp, OneSlotPerApp, SessionOrSlot, OwnedIffAlive

\* A step that destroys some apps takes them from whoever owns them.
LEMMA OwnersShed ==
    ASSUME TypeOK, SingleOwner, NEW dying, Kill(dying),
           \A d \in Conn : app'[d] = IF app[d] \in dying THEN NoApp ELSE app[d],
           \A v \in Window : stash'[v] = IF stash[v] \in dying THEN NoApp ELSE stash[v]
    PROVE  SingleOwner'
<1>. USE SessionAssumption DEF TypeOK, SingleOwner
<1>1. OneSessionPerApp' /\ OneSlotPerApp' /\ SessionOrSlot'
  BY DEF OneSessionPerApp, OneSlotPerApp, SessionOrSlot
<1>2. ASSUME NEW a \in App
      PROVE  status'[a] \in {"live", "done"}
               <=> (\E c \in Conn : app'[c] = a) \/ (\E w \in Window : stash'[w] = a)
  <2>1. CASE a \in dying
    BY <2>1 DEF Kill
  <2>2. CASE a \notin dying
    <3>1. status'[a] = status[a]
      BY <2>2 DEF Kill
    <3>2. \A c \in Conn : app'[c] = a <=> app[c] = a
      BY <2>2
    <3>3. \A w \in Window : stash'[w] = a <=> stash[w] = a
      BY <2>2
    <3>. QED BY <3>1, <3>2, <3>3 DEF OwnedIffAlive
  <2>. QED BY <2>1, <2>2
<1>. QED BY <1>1, <1>2 DEF OwnedIffAlive

\* do_cleanup, with an app to park or without.
LEMMA OwnersCleanup ==
    ASSUME TypeOK, SingleOwner, NEW c \in Conn, DoCleanup(c)
    PROVE  SingleOwner'
<1>. USE SessionAssumption DEF TypeOK
<1>. app' = [app EXCEPT ![c] = NoApp]
  BY DEF DoCleanup, Detach
<1>1. CASE Stashable(c)
  <2>. DEFINE w == wid[c]  a == app[c]
  <2>1. /\ w \in Window /\ a \in App
        /\ stash' = [stash EXCEPT ![w] = a]
        /\ Kill({stash[w]})
        /\ status[a] = "live"
    BY <1>1 DEF DoCleanup, Stashable
  <2>. HIDE DEF w
  <2>2. \A v \in Window : stash[v] # a
    BY <2>1 DEF SingleOwner, SessionOrSlot
  <2>3. OneSessionPerApp' /\ OneSlotPerApp' /\ SessionOrSlot'
    BY <2>1, <2>2 DEF SingleOwner, OneSessionPerApp, OneSlotPerApp, SessionOrSlot
  <2>4. ASSUME NEW b \in App
        PROVE  status'[b] \in {"live", "done"}
                 <=> (\E d \in Conn : app'[d] = b) \/ (\E v \in Window : stash'[v] = b)
    <3>1. CASE b = a
      <4>1. status'[b] = "live" /\ stash'[w] = b
        BY <2>1, <2>2, <3>1 DEF Kill
      <4>. QED BY <4>1, <2>1
    <3>2. CASE b = stash[w]
      <4>1. status'[b] = "dead"
        BY <2>1, <3>2 DEF Kill
      <4>2. \A d \in Conn : app'[d] # b
        BY <2>1, <3>2 DEF SingleOwner, SessionOrSlot
      <4>3. \A v \in Window : stash'[v] # b
        BY <2>1, <2>2, <3>2 DEF SingleOwner, OneSlotPerApp
      <4>. QED BY <4>1, <4>2, <4>3
    <3>3. CASE b # a /\ b # stash[w]
      <4>1. status'[b] = status[b]
        BY <2>1, <3>3 DEF Kill
      <4>2. \A d \in Conn : app'[d] = b <=> app[d] = b
        BY <3>3
      <4>3. \A v \in Window : stash'[v] = b <=> stash[v] = b
        BY <2>1, <3>3
      <4>. QED BY <4>1, <4>2, <4>3 DEF SingleOwner, OwnedIffAlive
    <3>. QED BY <3>1, <3>2, <3>3
  <2>. QED BY <2>3, <2>4 DEF SingleOwner, OwnedIffAlive
<1>2. CASE ~Stashable(c)
  <2>1. Kill({app[c]}) /\ stash' = stash
    BY <1>2 DEF DoCleanup, stashVars
  <2>2. \A d \in Conn : app'[d] = IF app[d] \in {app[c]} THEN NoApp ELSE app[d]
    BY DEF SingleOwner, OneSessionPerApp
  <2>3. \A v \in Window : stash'[v] = IF stash[v] \in {app[c]} THEN NoApp ELSE stash[v]
    BY <2>1 DEF SingleOwner, SessionOrSlot
  <2>. QED BY <2>1, <2>2, <2>3, OwnersShed
<1>. QED BY <1>1, <1>2

LEMMA OwnersClose ==
    ASSUME TypeOK, SingleOwner, NEW c \in Conn, CloseWs(c)
    PROVE  SingleOwner'
  BY OwnersStay, OwnersCleanup DEF CloseWs, lifeVars, stashVars

\* A slot's app is nobody else's, so emptying the slot takes that app alone.
LEMMA SlotEmptied ==
    ASSUME TypeOK, SingleOwner, NEW w \in Window \cup {NoWindow}, EmptySlot(w)
    PROVE  /\ SlotApp(w) \in App \cup {NoApp}
           /\ \A d \in Conn : app[d] = SlotApp(w) => app[d] = NoApp
           /\ \A v \in Window :
                 stash'[v] = IF stash[v] \in {SlotApp(w)} THEN NoApp ELSE stash[v]
  BY SessionAssumption
     DEF TypeOK, SingleOwner, OneSlotPerApp, SessionOrSlot, EmptySlot, SlotApp

\* A session without app takes over the app of a slot.
LEMMA OwnersAdopt ==
    ASSUME TypeOK, SingleOwner, NEW c \in Conn, app[c] = NoApp,
           NEW w \in Window, stash[w] # NoApp, EmptySlot(w), GiveApp(c, stash[w]),
           status' = status
    PROVE  SingleOwner'
<1>. USE SessionAssumption DEF TypeOK, SingleOwner
<1>1. app' = [app EXCEPT ![c] = stash[w]] /\ stash' = [stash EXCEPT ![w] = NoApp]
  BY DEF GiveApp, EmptySlot
<1>2. OneSessionPerApp' /\ OneSlotPerApp' /\ SessionOrSlot'
  BY <1>1 DEF OneSessionPerApp, OneSlotPerApp, SessionOrSlot
<1>3. ASSUME NEW a \in App
      PROVE  (\E d \in Conn : app'[d] = a) \/ (\E v \in Window : stash'[v] = a)
               <=> (\E d \in Conn : app[d] = a) \/ (\E v \in Window : stash[v] = a)
  <2>1. CASE a = stash[w]
    <3>1. app'[c] = a
      BY <1>1, <2>1
    <3>. QED BY <2>1, <3>1
  <2>2. CASE a # stash[w]
    BY <1>1, <2>2
  <2>. QED BY <2>1, <2>2
<1>. QED BY <1>2, <1>3 DEF OwnedIffAlive

\* A session without app gets a new one, while some parked ones may be lost.
LEMMA OwnersBorn ==
    ASSUME TypeOK, SingleOwner, NEW c \in Conn, app[c] = NoApp,
           NEW a \in App, status[a] = "unborn", GiveApp(c, a), NEW lost,
           \A d \in Conn : app[d] \in lost => app[d] = NoApp,
           \A v \in Window : stash'[v] = IF stash[v] \in lost THEN NoApp ELSE stash[v],
           \A b \in App : status'[b] = IF b = a THEN "live"
                                       ELSE IF b \in lost THEN "dead" ELSE status[b]
    PROVE  SingleOwner'
<1>. USE SessionAssumption DEF TypeOK, SingleOwner
<1>1. app' = [app EXCEPT ![c] = a]
  BY DEF GiveApp
<1>2. (\A d \in Conn : app[d] # a) /\ (\A v \in Window : stash[v] # a)
  BY DEF OwnedIffAlive
<1>3. OneSessionPerApp' /\ OneSlotPerApp' /\ SessionOrSlot'
  BY <1>1, <1>2 DEF OneSessionPerApp, OneSlotPerApp, SessionOrSlot
<1>4. ASSUME NEW b \in App
      PROVE  status'[b] \in {"live", "done"}
               <=> (\E d \in Conn : app'[d] = b) \/ (\E v \in Window : stash'[v] = b)
  <2>1. CASE b = a
    <3>1. status'[b] = "live" /\ app'[c] = b
      BY <1>1, <2>1
    <3>. QED BY <3>1
  <2>2. CASE b # a /\ b \in lost
    BY <1>1, <2>2
  <2>3. CASE b # a /\ b \notin lost
    <3>1. \A d \in Conn : app'[d] = b <=> app[d] = b
      BY <1>1, <2>3
    <3>2. \A v \in Window : stash'[v] = b <=> stash[v] = b
      BY <2>3
    <3>. QED BY <2>3, <3>1, <3>2 DEF OwnedIffAlive
  <2>. QED BY <2>1, <2>2, <2>3
<1>. QED BY <1>3, <1>4 DEF OwnedIffAlive

LEMMA OwnInvInit == Init => OwnInv
  BY TypeInvInit, SessionAssumption
     DEF Init, OwnInv, SingleOwner, OneSessionPerApp, OneSlotPerApp, SessionOrSlot,
         OwnedIffAlive

\* The first message of a session: routing gives an app only to a session
\* without one.
LEMMA OwnersRoute ==
    ASSUME OwnInv, NEW c \in Conn, Route(c)
    PROVE  SingleOwner'
<1>. USE SessionAssumption DEF OwnInv, TypeInv
<1>1. app[c] = NoApp
  BY DEF Route, ResumeFails, ResumeEnded, Resume, NewAppFails, NewApp,
         NewAppUserCloses, FirstMsg
<1>2. DropWs(c) => app' = app
  BY <1>1 DEF DropWs, Detach, lifeVars, TypeOK
<1>3. ASSUME NEW w \in Window \cup {NoWindow}, ResumeFails(c, w) PROVE SingleOwner'
  <2>1. Kill({SlotApp(w)}) /\ EmptySlot(w) /\ app' = app
    BY <1>2, <1>3 DEF ResumeFails
  <2>. QED BY <2>1, SlotEmptied, OwnersShed
<1>4. ASSUME NEW w \in Window \cup {NoWindow}, NewAppFails(c, w) PROVE SingleOwner'
  BY <1>2, <1>4, OwnersStay DEF NewAppFails, stashVars
<1>5. ASSUME NEW w \in Window, ResumeEnded(c, w) PROVE SingleOwner'
  <2>1. EmptySlot(w) /\ stash[w] # NoApp /\ SlotApp(w) = stash[w]
    BY <1>5 DEF ResumeEnded, Fresh, SlotApp
  <2>2. CASE closing[c]
    BY <1>1, <1>5, <2>1, <2>2, OwnersAdopt DEF ResumeEnded
  <2>3. CASE ~closing[c]
    <3>1. Kill({SlotApp(w)}) /\ app' = app
      BY <1>2, <1>5, <2>1, <2>3 DEF ResumeEnded
    <3>. QED BY <2>1, <3>1, SlotEmptied, OwnersShed
  <2>. QED BY <2>2, <2>3
<1>6. ASSUME NEW w \in Window, Resume(c, w) PROVE SingleOwner'
  <2>1. EmptySlot(w) /\ stash[w] # NoApp /\ GiveApp(c, stash[w]) /\ status' = status
    BY <1>6 DEF Resume, Fresh, SlotApp
  <2>. QED BY <1>1, <2>1, OwnersAdopt
<1>7. ASSUME NEW w \in Window \cup {NoWindow}, NEW a \in App, NewApp(c, w, a)
      PROVE  SingleOwner'
  <2>1. /\ status[a] = "unborn" /\ GiveApp(c, a) /\ stash' = stash
        /\ \A b \in App : status'[b] = IF b = a THEN "live" ELSE status[b]
    BY <1>7 DEF NewApp, stashVars, TypeOK
  <2>. DEFINE lost == {}
  <2>2. /\ \A d \in Conn : app[d] \in lost => app[d] = NoApp
        /\ \A v \in Window : stash'[v] = IF stash[v] \in lost THEN NoApp ELSE stash[v]
        /\ \A b \in App : status'[b] = IF b = a THEN "live"
                                       ELSE IF b \in lost THEN "dead" ELSE status[b]
    BY <2>1
  <2>. HIDE DEF lost
  <2>. QED BY <1>1, <2>1, <2>2, OwnersBorn
<1>8. ASSUME NEW w \in Window \cup {NoWindow}, NEW a \in App, NewAppUserCloses(c, w, a)
      PROVE  SingleOwner'
  <2>1. EmptySlot(w) /\ status[a] = "unborn"
    BY <1>8 DEF NewAppUserCloses
  <2>2. (\A d \in Conn : app[d] # a) /\ (\A v \in Window : stash[v] # a) /\ a # SlotApp(w)
    BY <2>1 DEF SingleOwner, OwnedIffAlive, SlotApp
  <2>3. CASE closing[c]
    <3>1. /\ GiveApp(c, a)
          /\ \A b \in App : status'[b] = IF b = a THEN "live"
                                         ELSE IF b \in {SlotApp(w)} THEN "dead"
                                         ELSE status[b]
      BY <1>8, <2>2, <2>3 DEF NewAppUserCloses
    <3>. DEFINE lost == {SlotApp(w)}
    <3>2. /\ \A d \in Conn : app[d] \in lost => app[d] = NoApp
          /\ \A v \in Window : stash'[v] = IF stash[v] \in lost THEN NoApp ELSE stash[v]
          /\ \A b \in App : status'[b] = IF b = a THEN "live"
                                         ELSE IF b \in lost THEN "dead" ELSE status[b]
      BY <2>1, <3>1, SlotEmptied
    <3>. HIDE DEF lost
    <3>. QED BY <1>1, <2>1, <3>1, <3>2, OwnersBorn
  <2>4. CASE ~closing[c]
    <3>1. Kill({a, SlotApp(w)}) /\ app' = app
      BY <1>2, <1>8, <2>4 DEF NewAppUserCloses
    <3>. QED BY <2>1, <2>2, <3>1, SlotEmptied, OwnersShed
  <2>. QED BY <2>3, <2>4
<1>. QED BY <1>3, <1>4, <1>5, <1>6, <1>7, <1>8 DEF Route

LEMMA OwnersKept ==
    ASSUME OwnInv, Next
    PROVE  SingleOwner'
<1>. USE SessionAssumption DEF OwnInv, TypeInv
<1>1. ASSUME NEW c \in Conn, Route(c) PROVE SingleOwner'
  BY <1>1, OwnersRoute
     DEF Route
<1>2. ASSUME NEW c \in Conn, ReadErr(c) PROVE SingleOwner'
  BY <1>2, OwnersCleanup, OwnersStay
     DEF ReadErr, lifeVars, stashVars
<1>3. ASSUME NEW c \in Conn, WriteErr(c) PROVE SingleOwner'
  BY <1>3, OwnersCleanup, OwnersStay
     DEF WriteErr, lifeVars, stashVars
<1>4. ASSUME NEW c \in Conn, WriteOk(c) PROVE SingleOwner'
  BY <1>4, OwnersClose, OwnersStay
     DEF WriteOk, lifeVars, stashVars
<1>5. ASSUME NEW c \in Conn, TurnEnd(c) PROVE SingleOwner'
  BY <1>5, OwnersClose, OwnersStay
     DEF TurnEnd, lifeVars, stashVars
<1>6. ASSUME NEW c \in Conn, HeartbeatLost(c) PROVE SingleOwner'
  BY <1>6, OwnersClose
     DEF HeartbeatLost
<1>7. ASSUME NEW c \in Conn, OnReadAsync(c) PROVE SingleOwner'
  BY <1>7, OwnersStay
     DEF OnReadAsync, lifeVars, stashVars
<1>8. ASSUME NEW c \in Conn, TaskEnd(c) PROVE SingleOwner'
  BY <1>8, OwnersStay
     DEF TaskEnd, lifeVars, stashVars
<1>9. ASSUME NEW t \in Caller, LeaveApp(t) PROVE SingleOwner'
  BY <1>9, OwnersStay
     DEF LeaveApp, lifeVars, stashVars
<1>10. ASSUME NEW c \in Conn, OnReadCloseWindow(c) PROVE SingleOwner'
  <2>. DEFINE dying == {SlotApp(wid[c])} \cup (IF closing[c] THEN {} ELSE {app[c]})
  <2>1. EmptySlot(wid[c]) /\ Kill(dying) /\ wid[c] \in Window \cup {NoWindow}
    BY <1>10 DEF OnReadCloseWindow, TypeOK
  <2>2. app' = IF closing[c] THEN app ELSE [app EXCEPT ![c] = NoApp]
    BY <1>10 DEF OnReadCloseWindow, DropWs, Detach, lifeVars
  <2>3. \A d \in Conn : app'[d] = IF app[d] \in dying THEN NoApp ELSE app[d]
    BY <2>1, <2>2, SlotEmptied DEF SingleOwner, OneSessionPerApp, TypeOK
  <2>4. \A v \in Window : stash'[v] = IF stash[v] \in dying THEN NoApp ELSE stash[v]
    BY <2>1, SlotEmptied DEF SingleOwner, SessionOrSlot
  <2>. QED BY <2>1, <2>3, <2>4, OwnersShed
<1>11. ASSUME NEW c \in Conn, Destruct(c) PROVE SingleOwner'
  <2>1. /\ app' = [app EXCEPT ![c] = NoApp] /\ Kill({app[c]}) /\ stash' = stash
    BY <1>11 DEF Destruct, stashVars
  <2>2. \A d \in Conn : app'[d] = IF app[d] \in {app[c]} THEN NoApp ELSE app[d]
    BY <2>1 DEF SingleOwner, OneSessionPerApp, TypeOK
  <2>3. \A v \in Window : stash'[v] = IF stash[v] \in {app[c]} THEN NoApp ELSE stash[v]
    BY <2>1 DEF SingleOwner, SessionOrSlot
  <2>. QED BY <2>1, <2>2, <2>3, OwnersShed
<1>12. ASSUME NEW a \in App, AppNext(a) PROVE SingleOwner'
  <2>1. app' = app /\ stash' = stash
    BY <1>12 DEF AppNext, AppOutput, AppOutputDangling, AppExits, stateVars, lifeVars, stashVars
  <2>2. status' = status \/ MayFinish(a)
    BY <1>12 DEF AppNext, AppOutput, AppOutputDangling, AppExits, stateVars, MayFinish
  <2>. QED BY <2>1, <2>2, OwnersStay
<1>13. ASSUME NEW c \in Conn,
          \/ Accept(c) \/ Refuse(c) \/ PlainHttp(c) \/ Upgrade(c)
          \/ MsgArrives(c) \/ PeerGone(c)
          \/ OnReadAsyncNoApp(c) \/ OnReadLegacy(c) \/ TaskStart(c)
          \/ TaskStartNoApp(c) \/ PostResults(c) \/ TurnEndNoApp(c) \/ Ping(c)
   PROVE  SingleOwner'
  <2>1. app' = app /\ stash' = stash /\ status' = status
    BY <1>13
       DEF Accept, Refuse, PlainHttp, Upgrade, MsgArrives, PeerGone, OnReadAsyncNoApp,
           OnReadLegacy, TaskStart, TaskStartNoApp, PostResults,
           TurnEndNoApp, Ping, stateVars, lifeVars, stashVars
  <2>. QED BY <2>1, OwnersStay
<1>14. ASSUME NEW w \in Window, StashAges(w) PROVE SingleOwner'
  BY <1>14, OwnersStay
     DEF StashAges, lifeVars
<1>15. ASSUME NEW t \in Caller, (\E c \in Conn : FindSession(t, c)) \/ EnterApp(t)
   PROVE  SingleOwner'
  BY <1>15, OwnersStay
     DEF FindSession, EnterApp, lifeVars, stashVars
<1>. QED
  BY <1>1, <1>2, <1>3, <1>4, <1>5, <1>6, <1>7, <1>8, <1>9, <1>10, <1>11,
     <1>12, <1>13, <1>14, <1>15
     DEF Next, ConnNext, HandleMsg, Tick, PoolStep, CallerNext

\* An unrouted session never holds an app: every action that gives one also
\* sets mod_, and no action takes mod_ back.
LEMMA UnroutedFree ==
    ASSUME OwnInv, [Next]_vars
    PROVE  \A c \in Conn : mod'[c] = "none" => app'[c] = NoApp
<1>1. ASSUME NEW d \in Conn, Route(d)
      PROVE  \A c \in Conn : mod'[c] = "none" => app'[c] = NoApp
  <2>. mod \in [Conn -> {"none", "async", "legacy"}] /\ app \in [Conn -> App \cup {NoApp}]
    BY DEF OwnInv, TypeInv, TypeOK
  <2>1. ASSUME NEW a, SetMod(d, a), GiveApp(d, a) \/ DropWs(d)
        PROVE  \A c \in Conn : mod'[c] = "none" => app'[c] = NoApp
    BY <2>1 DEF SetMod, KindOf, GiveApp, DropWs, Detach, lifeVars, OwnInv
  <2>2. ASSUME mod' = mod, DropWs(d)
        PROVE  \A c \in Conn : mod'[c] = "none" => app'[c] = NoApp
    BY <2>2 DEF DropWs, Detach, lifeVars, OwnInv
  <2>3. ASSUME NEW w \in Window \cup {NoWindow}, ResumeFails(d, w) \/ NewAppFails(d, w)
        PROVE  mod' = mod /\ DropWs(d)
    BY <2>3 DEF ResumeFails, NewAppFails
  <2>4. ASSUME NEW w \in Window, ResumeEnded(d, w) \/ Resume(d, w)
        PROVE  SetMod(d, stash[w]) /\ (GiveApp(d, stash[w]) \/ DropWs(d))
    BY <2>4 DEF ResumeEnded, Resume
  <2>5. ASSUME NEW w \in Window \cup {NoWindow}, NEW a \in App,
               NewApp(d, w, a) \/ NewAppUserCloses(d, w, a)
        PROVE  SetMod(d, a) /\ (GiveApp(d, a) \/ DropWs(d))
    BY <2>5 DEF NewApp, NewAppUserCloses
  <2>. QED BY <1>1, <2>1, <2>2, <2>3, <2>4, <2>5 DEF Route
<1>2. ASSUME mod' = mod, \A c \in Conn : app'[c] \in {app[c], NoApp}
      PROVE  \A c \in Conn : mod'[c] = "none" => app'[c] = NoApp
  BY <1>2 DEF OwnInv
<1>. USE DEF OwnInv, TypeInv, TypeOK
<1>3. ASSUME NEW d \in Conn, CloseWs(d) \/ DoCleanup(d) \/ DropWs(d)
      PROVE  \A c \in Conn : app'[c] \in {app[c], NoApp}
  BY <1>3 DEF CloseWs, DoCleanup, DropWs, Detach, lifeVars
<1>4. ASSUME NEW d \in Conn,
             \/ ReadErr(d) \/ WriteErr(d) \/ WriteOk(d) \/ OnReadCloseWindow(d)
             \/ TurnEnd(d) \/ HeartbeatLost(d) \/ Destruct(d)
      PROVE  mod' = mod /\ \A c \in Conn : app'[c] \in {app[c], NoApp}
  BY SMTT(20), ZenonT(40), <1>3, <1>4 DEF ReadErr, WriteErr, WriteOk, OnReadCloseWindow, OnRead, TurnEnd,
                    HeartbeatLost, Destruct, lifeVars
<1>5. ASSUME NEW d \in Conn,
             \/ Accept(d) \/ Refuse(d) \/ PlainHttp(d) \/ Upgrade(d)
             \/ MsgArrives(d) \/ PeerGone(d)
             \/ OnReadAsync(d) \/ OnReadAsyncNoApp(d) \/ OnReadLegacy(d)
             \/ TaskStart(d) \/ TaskStartNoApp(d) \/ TaskEnd(d) \/ PostResults(d)
             \/ TurnEndNoApp(d) \/ Ping(d)
      PROVE  mod' = mod /\ app' = app
  BY <1>5 DEF Accept, Refuse, PlainHttp, Upgrade, MsgArrives, PeerGone, OnReadAsync, OnReadAsyncNoApp,
              OnReadLegacy, OnRead, TaskStart, TaskStartNoApp, TaskEnd, PostResults,
              TurnEndNoApp, Ping, stateVars, lifeVars
<1>6. ASSUME NEW a \in App, AppNext(a) PROVE mod' = mod /\ app' = app
  BY <1>6 DEF AppNext, AppOutput, AppOutputDangling, AppExits, stateVars, lifeVars
<1>7. ASSUME NEW w \in Window, StashAges(w) PROVE mod' = mod /\ app' = app
  BY <1>7 DEF StashAges, lifeVars
<1>8. ASSUME NEW t \in Caller, CallerNext(t) PROVE mod' = mod /\ app' = app
  BY <1>8 DEF CallerNext, FindSession, EnterApp, LeaveApp, lifeVars
<1>9. CASE UNCHANGED vars
  BY <1>9 DEF vars, stateVars, lifeVars
<1>. QED
  BY <1>1, <1>2, <1>4, <1>5, <1>6, <1>7, <1>8, <1>9
     DEF Next, ConnNext, HandleMsg, Tick, PoolStep

LEMMA OwnInvNext == OwnInv /\ [Next]_vars => OwnInv'
<1>. SUFFICES ASSUME OwnInv, [Next]_vars PROVE OwnInv'
  OBVIOUS
<1>1. TypeInv'
  BY TypeInvNext DEF OwnInv
<1>2. SingleOwner'
  <2>1. CASE Next
    BY <2>1, OwnersKept
  <2>2. CASE UNCHANGED vars
    BY <2>2, OwnersStay DEF vars, stateVars, lifeVars, stashVars, OwnInv, TypeInv
  <2>. QED BY <2>1, <2>2
<1>. QED BY <1>1, <1>2, UnroutedFree DEF OwnInv

-----------------------------------------------------------------------------
\* Every variable of the server keeps its type, whatever clients, apps, the
\* pool and the timers do.
THEOREM TypeCorrect == Spec => []TypeOK
<1>1. Spec => []TypeInv
  BY TypeInvInit, TypeInvNext, PTL DEF Spec
<1>2. TypeInv => TypeOK
  BY DEF TypeInv
<1>. QED BY <1>1, <1>2, PTL

\* A living app has exactly one owner, a session or a window's slot, and
\* what has been destroyed is owned by nobody.
THEOREM OwnershipHolds == Spec => []SingleOwner
<1>1. OwnInv => SingleOwner
  BY DEF OwnInv
<1>. QED BY OwnInvInit, OwnInvNext, <1>1, PTL DEF Spec

-----------------------------------------------------------------------------
(* The write queue.  A step keeps WriterRuns if each session is closing    *)
(* after it, has a write in flight for its queue, or is as before.         *)

Writes(c)     == out'[c] > 0 /\ writing'[c]
Writerless(c) == out'[c] = out[c] /\ writing'[c] = writing[c]
                 /\ closeAfter'[c] = closeAfter[c]
                 /\ (phase'[c] = "live" => Live(c)) /\ (closing[c] => closing'[c])

LEMMA WriterStep ==
    ASSUME TypeInv, WriterRuns, TypeOK',
           \A c \in Conn : closing'[c] \/ Writes(c) \/ Writerless(c)
    PROVE  WriterRuns'
  BY DEF WriterRuns, Writes, Writerless, Live, TypeOK, TypeInv

\* Queueing a message on one session, closed ones excepted, starts its write.
LEMMA WriterEnqueue ==
    ASSUME TypeInv, NEW c \in Conn, Enqueue(c)
    PROVE  /\ closing[c] \/ Writes(c)
           /\ \A d \in Conn : (d # c \/ closing[c])
                              => out'[d] = out[d] /\ writing'[d] = writing[d]
  BY DEF Enqueue, Writes, outVars, TypeInv, TypeOK

\* Closing never undoes itself.
LEMMA ClosingGrows ==
    ASSUME TypeInv, NEW c \in Conn,
           \/ DoCleanup(c) \/ CloseWs(c) \/ DropWs(c) \/ closing' = closing
    PROVE  \A d \in Conn : closing[d] => closing'[d]
  BY DEF DoCleanup, CloseWs, DropWs, Detach, lifeVars, TypeInv, TypeOK

LEMMA WriterSocket ==
    ASSUME TypeInv, TypeOK', WriterRuns, NEW c \in Conn,
           ReadErr(c) \/ WriteErr(c) \/ WriteOk(c)
    PROVE  WriterRuns'
<1>. USE DEF TypeInv, TypeOK
<1>1. phase' = phase /\ closeAfter' = closeAfter
  BY DEF ReadErr, WriteErr, WriteOk
<1>2. \A d \in Conn : closing[d] => closing'[d]
  BY ClosingGrows DEF ReadErr, WriteErr, WriteOk, lifeVars
<1>3. CASE ReadErr(c)
  BY <1>1, <1>2, <1>3, WriterStep DEF ReadErr, Writerless, Live, outVars
<1>4. CASE WriteErr(c)
  <2>1. closing'[c]
    BY <1>4 DEF WriteErr, DoCleanup, Detach, lifeVars
  <2>2. \A d \in Conn : d # c => out'[d] = out[d] /\ writing'[d] = writing[d]
    BY <1>4 DEF WriteErr
  <2>. QED BY <1>1, <1>2, <2>1, <2>2, WriterStep DEF Writerless, Live
<1>5. CASE WriteOk(c)
  <2>1. \A d \in Conn : d # c => out'[d] = out[d] /\ writing'[d] = writing[d]
    BY <1>5 DEF WriteOk
  <2>2. CASE closing'[c]
    BY <1>1, <1>2, <2>1, <2>2, WriterStep DEF Writerless, Live
  <2>3. CASE ~closing'[c]
    <3>1. ~closing[c] /\ out[c] > 0 /\ out'[c] = out[c] - 1 /\ writing'[c] = (out[c] > 1)
      BY <1>2, <1>5, <2>3 DEF WriteOk
    <3>2. out[c] = 1 => ~closeAfter[c]
      BY <1>5, <2>3, <3>1 DEF WriteOk, CloseWs, DoCleanup, Detach
    <3>3. \A d \in Conn : d # c => closing'[d] \/ Writes(d) \/ Writerless(d)
      BY <1>1, <1>2, <2>1 DEF Writerless, Live
    <3>4. CASE out[c] > 1
      BY <3>1, <3>3, <3>4, WriterStep DEF Writes
    <3>5. CASE out[c] = 1
      BY <1>1, <1>2, <2>1, <3>1, <3>2, <3>5 DEF WriterRuns, Live
    <3>. QED BY <3>1, <3>4, <3>5
  <2>. QED BY <2>2, <2>3
<1>. QED BY <1>3, <1>4, <1>5

LEMMA WriterKept ==
    ASSUME TypeInv, TypeOK', WriterRuns, [Next]_vars
    PROVE  WriterRuns'
<1>1. ASSUME NEW c \in Conn,
             phase' = phase, \A d \in Conn : closing[d] => closing'[d],
             closeAfter' = closeAfter, outVars' = outVars \/ Enqueue(c)
      PROVE  WriterRuns'
  <2>1. \A d \in Conn : closing'[d] \/ Writes(d) \/ Writerless(d)
    BY <1>1, WriterEnqueue DEF Writerless, Live, outVars
  <2>. QED BY <2>1, WriterStep
<1>2. ASSUME NEW c \in Conn, Route(c) PROVE WriterRuns'
  <2>1. phase' = phase /\ closeAfter' = closeAfter
    BY <1>2 DEF Route, ResumeFails, ResumeEnded, Resume, NewAppFails, NewApp,
                NewAppUserCloses, FirstMsg
  <2>2. DropWs(c) \/ closing' = closing
    BY <1>2 DEF Route, ResumeFails, ResumeEnded, Resume, NewAppFails, NewApp,
                NewAppUserCloses
  <2>3. outVars' = outVars \/ Enqueue(c)
    BY <1>2 DEF Route, ResumeFails, ResumeEnded, Resume, NewAppFails, NewApp,
                NewAppUserCloses, ProcessLegacy
  <2>. QED BY <1>1, <2>1, <2>2, <2>3, ClosingGrows
<1>3. ASSUME NEW c \in Conn, ReadErr(c) \/ WriteErr(c) \/ WriteOk(c) PROVE WriterRuns'
  BY <1>3, WriterSocket
<1>4. ASSUME NEW c \in Conn, OnReadAsync(c) PROVE WriterRuns'
  <2>1. phase' = phase /\ closing' = closing
    BY <1>4 DEF OnReadAsync, OnRead, lifeVars
  <2>2. CASE outVars' = outVars /\ closeAfter' = closeAfter
    BY <1>1, <2>1, <2>2
  <2>3. CASE Enqueue(c) /\ closeAfter' = [closeAfter EXCEPT ![c] = TRUE]
    <3>1. \A d \in Conn : d # c => closeAfter'[d] = closeAfter[d]
      BY <2>3 DEF TypeInv, TypeOK
    <3>2. \A d \in Conn : closing'[d] \/ Writes(d) \/ Writerless(d)
      BY <2>1, <2>3, <3>1, WriterEnqueue DEF Writerless, Live
    <3>. QED BY <3>2, WriterStep
  <2>. QED BY <1>4, <2>2, <2>3 DEF OnReadAsync
<1>5. ASSUME NEW c \in Conn,
             OnReadCloseWindow(c) \/ OnReadLegacy(c) \/ TurnEnd(c) \/ HeartbeatLost(c)
      PROVE  WriterRuns'
  <2>1. phase' = phase /\ closeAfter' = closeAfter /\ (outVars' = outVars \/ Enqueue(c))
    BY <1>5 DEF OnReadCloseWindow, OnReadLegacy, OnRead, ProcessLegacy, TurnEnd,
                HeartbeatLost
  <2>2. CloseWs(c) \/ DropWs(c) \/ closing' = closing
    BY <1>5 DEF OnReadCloseWindow, OnReadLegacy, TurnEnd, HeartbeatLost, lifeVars
  <2>. QED BY <1>1, <2>1, <2>2, ClosingGrows
<1>6. ASSUME NEW c \in Conn,
             \/ Accept(c) \/ Refuse(c) \/ PlainHttp(c) \/ Destruct(c)
      PROVE  WriterRuns'
  <2>1. \A d \in Conn : phase'[d] = "live" => phase[d] = "live"
    BY <1>6 DEF Accept, Refuse, PlainHttp, Destruct, TypeInv, TypeOK
  <2>2. out' = out /\ writing' = writing /\ closeAfter' = closeAfter /\ closing' = closing
    BY <1>6 DEF Accept, Refuse, PlainHttp, Destruct, outVars, lifeVars
  <2>. QED BY <2>1, <2>2, WriterStep DEF Writerless, Live
<1>7. ASSUME NEW c \in Conn, Upgrade(c) PROVE WriterRuns'
  <2>1. /\ Enqueue(c) /\ closing' = closing /\ closeAfter' = closeAfter
        /\ \A d \in Conn : d # c => phase'[d] = phase[d]
    BY <1>7 DEF Upgrade, TypeInv, TypeOK
  <2>2. \A d \in Conn : closing'[d] \/ Writes(d) \/ Writerless(d)
    BY <2>1, WriterEnqueue DEF Writerless, Live
  <2>. QED BY <2>2, WriterStep
<1>8. ASSUME NEW c \in Conn,
             \/ MsgArrives(c) \/ PeerGone(c) \/ OnReadAsyncNoApp(c) \/ TaskStart(c)
             \/ TaskStartNoApp(c) \/ TaskEnd(c) \/ PostResults(c) \/ TurnEndNoApp(c)
             \/ Ping(c)
      PROVE  WriterRuns'
  <2>1. phase' = phase /\ closing' = closing /\ closeAfter' = closeAfter
    BY <1>8 DEF MsgArrives, PeerGone, OnReadAsyncNoApp, TaskStart, TaskStartNoApp,
                TaskEnd, PostResults, TurnEndNoApp, Ping, stateVars, lifeVars
  <2>2. outVars' = outVars \/ Enqueue(c)
    BY <1>8 DEF MsgArrives, PeerGone, OnReadAsyncNoApp, TaskStart, TaskStartNoApp,
                TaskEnd, PostResults, TurnEndNoApp, Ping, stateVars
  <2>. QED BY <1>1, <2>1, <2>2
<1>9. ASSUME NEW c \in Conn, phase' = phase, closing' = closing, closeAfter' = closeAfter,
             outVars' = outVars \/ Enqueue(c)
      PROVE  WriterRuns'
  BY <1>1, <1>9
<1>10. ASSUME phase' = phase, closing' = closing, closeAfter' = closeAfter, outVars' = outVars
       PROVE  WriterRuns'
  BY <1>10 DEF WriterRuns, Live, outVars
<1>11. ASSUME NEW a \in App, AppNext(a) PROVE WriterRuns'
  <2>1. CASE AppOutput(a)
    <3>1. cb[a] \in Conn
      BY <2>1 DEF AppOutput, TypeInv, TypeOK
    <3>. QED BY <1>9, <2>1, <3>1 DEF AppOutput, lifeVars
  <2>2. CASE AppOutputDangling(a) \/ AppExits(a)
    BY <1>10, <2>2 DEF AppOutputDangling, AppExits, stateVars, lifeVars
  <2>. QED BY <1>11, <2>1, <2>2 DEF AppNext
<1>12. ASSUME NEW t \in Caller, CallerNext(t) PROVE WriterRuns'
  <2>1. CASE LeaveApp(t)
    <3>1. call[t].conn \in Conn
      BY <2>1 DEF LeaveApp, TypeInv
    <3>. QED BY <1>9, <1>10, <2>1, <3>1 DEF LeaveApp, lifeVars
  <2>2. CASE (\E c \in Conn : FindSession(t, c)) \/ EnterApp(t)
    BY <1>10, <2>2 DEF FindSession, EnterApp, lifeVars
  <2>. QED BY <1>12, <2>1, <2>2 DEF CallerNext
<1>13. ASSUME NEW w \in Window, StashAges(w) PROVE WriterRuns'
  BY <1>10, <1>13 DEF StashAges, lifeVars
<1>14. CASE UNCHANGED vars
  BY <1>10, <1>14 DEF vars, stateVars, lifeVars
<1>. QED
  BY <1>2, <1>3, <1>4, <1>5, <1>6, <1>7, <1>8, <1>11, <1>12, <1>13, <1>14
     DEF Next, ConnNext, HandleMsg, Tick, PoolStep

-----------------------------------------------------------------------------
(* Sessions one at a time.  A step either is one of session d, or leaves   *)
(* what the invariants say of d alone: only a caller's findSession may     *)
(* still prune d from the registry, when it is no longer open.             *)

Same(d) ==
    /\ phase'[d] = phase[d] /\ mod'[d] = mod[d] /\ wid'[d] = wid[d]
    /\ closing'[d] = closing[d] /\ closeAfter'[d] = closeAfter[d]
    /\ reading'[d] = reading[d] /\ task'[d] = task[d]
    /\ sock'[d] = sock[d] /\ app'[d] = app[d]
    /\ d \in registered' => d \in registered
    /\ d \in registered /\ IsOpen(d) => d \in registered'

\* What an action of session c can touch, for the actions made of helpers.
LEMMA SameCleanup ==
    ASSUME TypeInv, NEW c \in Conn, NEW d \in Conn, c # d,
           \/ DoCleanup(c) \/ CloseWs(c) \/ DropWs(c)
           \/ UNCHANGED <<closing, registered, app>>
    PROVE  /\ closing'[d] = closing[d] /\ app'[d] = app[d]
           /\ d \in registered' <=> d \in registered
  BY DEF DoCleanup, CloseWs, DropWs, Detach, lifeVars, TypeInv, TypeOK

\* The same for the read and the pool task of c.
LEMMA SameRead ==
    ASSUME TypeInv, NEW c \in Conn, NEW d \in Conn, c # d,
           DoRead(c) \/ StopReading(c) \/ reading' = reading
    PROVE  reading'[d] = reading[d]
  BY DEF DoRead, StopReading, TypeInv, TypeOK

LEMMA SameTask ==
    ASSUME TypeInv, NEW c \in Conn, NEW d \in Conn, c # d,
           (\E a \in App \cup {NoApp} : ProcessLegacy(c, a)) \/ taskVars' = taskVars
    PROVE  task'[d] = task[d]
  BY DEF ProcessLegacy, taskVars, TypeInv, TypeOK

LEMMA SameRoute ==
    ASSUME TypeInv, NEW c \in Conn, NEW d \in Conn, c # d, Route(c)
    PROVE  Same(d)
<1>. USE DEF TypeInv, TypeOK
<1>1. /\ phase' = phase /\ closeAfter' = closeAfter /\ wid'[d] = wid[d]
  BY SMTT(20), ZenonT(40) DEF Route, ResumeFails, ResumeEnded, Resume, NewAppFails, NewApp,
         NewAppUserCloses, FirstMsg
<1>2. mod'[d] = mod[d]
  BY SMTT(20), ZenonT(40) DEF Route, ResumeFails, ResumeEnded, Resume, NewAppFails, NewApp,
         NewAppUserCloses, SetMod
<1>3. reading'[d] = reading[d] /\ task'[d] = task[d]
  <2>1. DoRead(c) \/ StopReading(c)
    BY DEF Route, ResumeFails, ResumeEnded, Resume, NewAppFails, NewApp,
           NewAppUserCloses, ProcessLegacy
  <2>2. (\E a \in App \cup {NoApp} : ProcessLegacy(c, a)) \/ taskVars' = taskVars
    BY DEF Route, ResumeFails, ResumeEnded, Resume, NewAppFails, NewApp,
           NewAppUserCloses
  <2>. QED BY <2>1, <2>2, SameRead, SameTask
<1>4. sock'[d] = sock[d]
  BY DEF Route, ResumeFails, ResumeEnded, Resume, NewAppFails, NewApp,
         NewAppUserCloses, DropWs
<1>5. \/ DropWs(c)
      \/ /\ closing' = closing /\ registered' = registered \cup {c}
         /\ \E a \in App \cup {NoApp} : app' = [app EXCEPT ![c] = a]
  BY DEF Route, ResumeFails, ResumeEnded, Resume, NewAppFails, NewApp,
         NewAppUserCloses, Register, GiveApp
<1>6. /\ closing'[d] = closing[d] /\ app'[d] = app[d]
      /\ d \in registered' <=> d \in registered
  BY <1>5, SameCleanup
<1>. QED BY <1>1, <1>2, <1>3, <1>4, <1>6 DEF Same

LEMMA SameOthers ==
    ASSUME TypeInv, NEW c \in Conn, NEW d \in Conn, c # d, ConnNext(c)
    PROVE  Same(d)
<1>. USE DEF TypeInv, TypeOK
<1>1. CASE Route(c)
  BY <1>1, SameRoute
<1>2. CASE Accept(c) \/ Refuse(c) \/ PlainHttp(c) \/ Upgrade(c) \/ Destruct(c)
  BY <1>2 DEF Accept, Refuse, PlainHttp, Upgrade, Destruct, Same, lifeVars, taskVars
<1>3. CASE MsgArrives(c) \/ PeerGone(c) \/ Ping(c) \/ TaskStart(c) \/ TaskEnd(c)
           \/ PostResults(c)
  BY <1>3 DEF MsgArrives, PeerGone, Ping, TaskStart, TaskEnd, PostResults, Same,
              lifeVars, taskVars
<1>4. CASE OnReadAsyncNoApp(c) \/ TaskStartNoApp(c) \/ TurnEndNoApp(c)
  BY <1>4 DEF OnReadAsyncNoApp, TaskStartNoApp, TurnEndNoApp, Same, stateVars,
              lifeVars, taskVars
<1>5. CASE ReadErr(c) \/ WriteErr(c) \/ WriteOk(c)
  <2>1. \/ DoCleanup(c) \/ CloseWs(c) \/ UNCHANGED <<closing, registered, app>>
    BY <1>5 DEF ReadErr, WriteErr, WriteOk, lifeVars
  <2>2. sock'[d] = sock[d]
    BY <1>5 DEF ReadErr, WriteErr, WriteOk, CloseWs
  <2>3. reading'[d] = reading[d]
    BY <1>5 DEF ReadErr, WriteErr, WriteOk, StopReading
  <2>4. phase' = phase /\ mod' = mod /\ wid' = wid /\ closeAfter' = closeAfter /\ task' = task
    BY <1>5 DEF ReadErr, WriteErr, WriteOk, taskVars
  <2>. QED BY <2>1, <2>2, <2>3, <2>4, SameCleanup DEF Same
<1>6. CASE OnReadCloseWindow(c) \/ OnReadAsync(c) \/ OnReadLegacy(c)
  <2>1. DropWs(c) \/ UNCHANGED <<closing, registered, app>>
    BY <1>6 DEF OnReadCloseWindow, OnReadAsync, OnReadLegacy, lifeVars
  <2>2. sock'[d] = sock[d]
    BY <1>6 DEF OnReadCloseWindow, OnReadAsync, OnReadLegacy, DropWs
  <2>3. reading'[d] = reading[d] /\ task'[d] = task[d]
    BY <1>6 DEF OnReadCloseWindow, OnReadAsync, OnReadLegacy, StopReading, DoRead,
                ProcessLegacy, taskVars
  <2>4. phase' = phase /\ mod' = mod /\ wid' = wid /\ closeAfter'[d] = closeAfter[d]
    BY <1>6 DEF OnReadCloseWindow, OnReadAsync, OnReadLegacy, OnRead
  <2>. QED BY <2>1, <2>2, <2>3, <2>4, SameCleanup DEF Same
<1>7. CASE TurnEnd(c) \/ HeartbeatLost(c)
  <2>1. CloseWs(c) \/ UNCHANGED <<closing, registered, app>>
    BY <1>7 DEF TurnEnd, HeartbeatLost, lifeVars
  <2>2. sock'[d] = sock[d]
    BY SMTT(20), ZenonT(40), <1>7 DEF TurnEnd, HeartbeatLost, CloseWs
  <2>3. reading'[d] = reading[d] /\ task'[d] = task[d]
    <3>1. DoRead(c) \/ reading' = reading
      BY <1>7 DEF TurnEnd, HeartbeatLost
    <3>2. CASE TurnEnd(c)
      <4>1. task' = [task EXCEPT ![c] = "none"]
        BY <3>2 DEF TurnEnd
      <4>. QED BY <3>1, <4>1, SameRead
    <3>3. CASE HeartbeatLost(c)
      <4>1. task' = task
        BY <3>3 DEF HeartbeatLost, taskVars
      <4>. QED BY <3>1, <4>1, SameRead
    <3>. QED BY <1>7, <3>2, <3>3
  <2>4. phase' = phase /\ mod' = mod /\ wid' = wid /\ closeAfter' = closeAfter
    BY <1>7 DEF TurnEnd, HeartbeatLost
  <2>. QED BY <2>1, <2>2, <2>3, <2>4, SameCleanup DEF Same
<1>. QED BY <1>1, <1>2, <1>3, <1>4, <1>5, <1>6, <1>7 DEF ConnNext, HandleMsg, Tick, PoolStep

LEMMA StepOfSession ==
    ASSUME TypeInv, [Next]_vars, NEW d \in Conn
    PROVE  ConnNext(d) \/ Same(d)
<1>. USE DEF TypeInv, TypeOK
<1>1. ASSUME NEW c \in Conn, ConnNext(c) PROVE ConnNext(d) \/ Same(d)
  BY <1>1, SameOthers
<1>2. ASSUME NEW a \in App, AppNext(a) PROVE Same(d)
  BY <1>2 DEF AppNext, AppOutput, AppOutputDangling, AppExits, Same, stateVars,
              lifeVars, taskVars
<1>3. ASSUME NEW w \in Window, StashAges(w) PROVE Same(d)
  BY <1>3 DEF StashAges, Same, lifeVars, taskVars
<1>4. ASSUME NEW t \in Caller, NEW c \in Conn, FindSession(t, c) PROVE Same(d)
  BY <1>4 DEF FindSession, Same, taskVars
<1>5. ASSUME NEW t \in Caller, EnterApp(t) \/ LeaveApp(t) PROVE Same(d)
  BY <1>5 DEF EnterApp, LeaveApp, Same, lifeVars, taskVars
<1>6. CASE UNCHANGED vars
  BY <1>6 DEF vars, stateVars, Same, lifeVars, taskVars
<1>. QED BY <1>1, <1>2, <1>3, <1>4, <1>5, <1>6 DEF Next, CallerNext

-----------------------------------------------------------------------------
(* The registry and the one thing a session waits for.                     *)

\* A session that has not seen its first message has nothing yet, and only
\* close_ws closes a socket.
NotRouted(d) ==
    /\ phase[d] \in {"new", "http"} => mod[d] = "none"
    /\ mod[d] = "none" => task[d] = "none" /\ ~closeAfter[d] /\ d \notin registered
    /\ ~closing[d] => sock[d] # "closed"

Registered(d) == Live(d) /\ ~closing[d] => (d \in registered <=> app[d] # NoApp)

\* Waits(d), one case for each thing it may wait for.
WaitsOnce(d) ==
    Routed(d) /\ ~closing[d] =>
        \/ reading[d] # "no" /\ task[d] = "none" /\ ~closeAfter[d]
        \/ reading[d] = "no" /\ task[d] # "none" /\ ~closeAfter[d]
        \/ reading[d] = "no" /\ task[d] = "none" /\ closeAfter[d]

LocalInv(d) == NotRouted(d) /\ Registered(d) /\ WaitsOnce(d)

SafeInv ==
    /\ OwnInv
    /\ WriterRuns
    /\ OutputToOwner
    /\ \A d \in Conn : LocalInv(d)

LEMMA LocalSame ==
    ASSUME OwnInv, NEW d \in Conn, LocalInv(d), Same(d)
    PROVE  LocalInv(d)'
<1>1. NotRouted(d)'
  BY DEF LocalInv, NotRouted, Same
<1>2. Registered(d)'
  BY DEF LocalInv, NotRouted, Registered, Same, Live, IsOpen
<1>3. WaitsOnce(d)'
  BY DEF LocalInv, WaitsOnce, Same, Routed, Live
<1>. QED BY <1>1, <1>2, <1>3 DEF LocalInv

\* A session that is closing after the step only has NotRouted to keep.
LEMMA LocalClosing ==
    ASSUME NEW d \in Conn, LocalInv(d), closing'[d],
           phase'[d] = phase[d] \/ phase'[d] = "gone",
           \/ mod'[d] # "none"
           \/ /\ mod'[d] = mod[d] /\ task'[d] = task[d] /\ closeAfter'[d] = closeAfter[d]
              /\ d \in registered' => d \in registered,
           phase[d] = "live"
    PROVE  LocalInv(d)'
  BY DEF LocalInv, NotRouted, Registered, WaitsOnce

LEMMA CloseCloses ==
    ASSUME TypeInv, NEW d \in Conn, DoCleanup(d) \/ CloseWs(d) \/ DropWs(d)
    PROVE  closing'[d] /\ (d \in registered' => d \in registered)
  BY DEF DoCleanup, CloseWs, DropWs, Detach, lifeVars, TypeInv, TypeOK

LEMMA LocalRoute ==
    ASSUME OwnInv, NEW d \in Conn, LocalInv(d), Route(d)
    PROVE  LocalInv(d)'
<1>. USE SessionAssumption DEF OwnInv, TypeInv, TypeOK
<1>1. /\ phase' = phase /\ closeAfter' = closeAfter /\ phase[d] = "live"
      /\ mod[d] = "none" /\ app[d] = NoApp /\ task[d] = "none" /\ ~closeAfter[d]
      /\ d \notin registered /\ (~closing[d] => sock[d] # "closed")
  BY DEF Route, ResumeFails, ResumeEnded, Resume, NewAppFails, NewApp,
         NewAppUserCloses, FirstMsg, Live, LocalInv, NotRouted
<1>2. ASSUME NEW w \in Window \cup {NoWindow}, ResumeFails(d, w) \/ NewAppFails(d, w)
      PROVE  LocalInv(d)'
  <2>1. DropWs(d) /\ mod' = mod /\ task' = task
    BY <1>2 DEF ResumeFails, NewAppFails, taskVars
  <2>. QED BY <1>1, <2>1, CloseCloses, LocalClosing
<1>3. ASSUME NEW a \in App, SetMod(d, a) PROVE mod'[d] \in {"async", "legacy"}
  BY <1>3 DEF SetMod, KindOf
<1>4. ASSUME closing'[d], mod'[d] \in {"async", "legacy"} PROVE LocalInv(d)'
  BY <1>1, <1>4, LocalClosing
<1>5. ASSUME NEW w \in Window, ResumeEnded(d, w) PROVE LocalInv(d)'
  <2>1. stash[w] \in App /\ SetMod(d, stash[w])
    BY <1>5 DEF ResumeEnded, Fresh, SlotApp
  <2>2. closing'[d]
    BY <1>5, CloseCloses DEF ResumeEnded
  <2>. QED BY <1>3, <1>4, <2>1, <2>2
<1>6. ASSUME NEW w \in Window \cup {NoWindow}, NEW a \in App, NewAppUserCloses(d, w, a)
      PROVE  LocalInv(d)'
  <2>1. SetMod(d, a)
    BY <1>6 DEF NewAppUserCloses
  <2>2. closing'[d]
    BY <1>6, CloseCloses DEF NewAppUserCloses
  <2>. QED BY <1>3, <1>4, <2>1, <2>2
\* A session that got an app and is not closing is registered, and reads or
\* has a command in the pool.
<1>7. ASSUME NEW a \in App, SetMod(d, a), GiveApp(d, a), Register(d),
             closing' = closing, sock' = sock, ~closing[d],
             \/ reading'[d] # "no" /\ task'[d] = "none"
             \/ reading'[d] = "no" /\ task'[d] # "none"
      PROVE  LocalInv(d)'
  <2>1. mod'[d] # "none" /\ app'[d] # NoApp /\ d \in registered'
    BY <1>3, <1>7 DEF GiveApp, Register
  <2>2. NotRouted(d)'
    BY <1>1, <1>7, <2>1 DEF NotRouted
  <2>3. Registered(d)'
    BY <2>1 DEF Registered
  <2>4. WaitsOnce(d)'
    BY <1>1, <1>7 DEF WaitsOnce
  <2>. QED BY <2>2, <2>3, <2>4 DEF LocalInv
<1>8. ASSUME NEW w \in Window, Resume(d, w) PROVE LocalInv(d)'
  <2>1. stash[w] \in App /\ SetMod(d, stash[w]) /\ GiveApp(d, stash[w]) /\ Register(d)
        /\ closing' = closing /\ sock' = sock
    BY <1>8 DEF Resume, Fresh, SlotApp
  <2>2. ~closing[d] => reading'[d] # "no" /\ task'[d] = "none"
    BY <1>1, <1>8 DEF Resume, DoRead, taskVars
  <2>. QED BY <1>3, <1>4, <1>7, <2>1, <2>2
<1>9. ASSUME NEW w \in Window \cup {NoWindow}, NEW a \in App, NewApp(d, w, a)
      PROVE  LocalInv(d)'
  <2>1. SetMod(d, a) /\ GiveApp(d, a) /\ Register(d) /\ closing' = closing /\ sock' = sock
    BY <1>9 DEF NewApp
  <2>2. (DoRead(d) /\ taskVars' = taskVars) \/ ProcessLegacy(d, a)
    BY <1>9 DEF NewApp
  <2>3. ~closing[d] => \/ reading'[d] # "no" /\ task'[d] = "none"
                       \/ reading'[d] = "no" /\ task'[d] # "none"
    BY <1>1, <2>2 DEF DoRead, StopReading, ProcessLegacy, taskVars
  <2>. QED BY <1>3, <1>4, <1>7, <2>1, <2>3
<1>. QED BY <1>2, <1>5, <1>6, <1>8, <1>9 DEF Route

LEMMA LocalStep ==
    ASSUME OwnInv, NEW d \in Conn, LocalInv(d), ConnNext(d)
    PROVE  LocalInv(d)'
<1>. USE DEF OwnInv, TypeInv, TypeOK
<1>1. CASE Route(d)
  BY <1>1, LocalRoute
<1>2. CASE Accept(d) \/ Refuse(d) \/ PlainHttp(d) \/ Upgrade(d) \/ Destruct(d)
  <2>1. /\ mod' = mod /\ task' = task /\ closeAfter' = closeAfter /\ closing' = closing
        /\ sock' = sock /\ (d \in registered' => d \in registered)
    BY <1>2 DEF Accept, Refuse, PlainHttp, Upgrade, Destruct, lifeVars, taskVars
  <2>2. \/ phase'[d] \in {"http", "gone"}
        \/ phase'[d] = "live" /\ registered' = registered /\ app' = app
    BY <1>2 DEF Accept, Refuse, PlainHttp, Upgrade, Destruct
  <2>3. phase'[d] \in {"http", "live"} => mod[d] = "none"
    BY <1>2 DEF Accept, Refuse, PlainHttp, Upgrade, Destruct, LocalInv, NotRouted
  <2>. QED BY <2>1, <2>2, <2>3
           DEF LocalInv, NotRouted, Registered, WaitsOnce, Live, Routed
<1>3. CASE MsgArrives(d) \/ PeerGone(d) \/ Ping(d) \/ TaskStart(d) \/ TaskEnd(d)
           \/ PostResults(d)
  <2>1. /\ phase' = phase /\ mod' = mod /\ closeAfter' = closeAfter /\ closing' = closing
        /\ registered' = registered /\ app' = app
    BY <1>3 DEF MsgArrives, PeerGone, Ping, TaskStart, TaskEnd, PostResults, lifeVars
  <2>2. /\ sock'[d] = "closed" => sock[d] = "closed"
        /\ reading'[d] = "no" <=> reading[d] = "no"
        /\ task'[d] = "none" <=> task[d] = "none"
    BY <1>3 DEF MsgArrives, PeerGone, Ping, TaskStart, TaskEnd, PostResults, taskVars
  <2>. QED BY <2>1, <2>2 DEF LocalInv, NotRouted, Registered, WaitsOnce, Live, Routed
<1>4. CASE OnReadAsyncNoApp(d) \/ TaskStartNoApp(d) \/ TurnEndNoApp(d)
  BY <1>4 DEF OnReadAsyncNoApp, TaskStartNoApp, TurnEndNoApp, stateVars, lifeVars,
              taskVars, LocalInv, NotRouted, Registered, WaitsOnce, Live, Routed
<1>5. ASSUME DoCleanup(d) \/ CloseWs(d) \/ DropWs(d), phase[d] = "live",
             phase' = phase, mod' = mod,
             mod[d] # "none" \/ (task' = task /\ closeAfter' = closeAfter)
      PROVE  LocalInv(d)'
  BY <1>5, CloseCloses, LocalClosing
<1>6. CASE ReadErr(d)
  <2>1. phase[d] = "live" /\ phase' = phase /\ mod' = mod /\ task' = task
        /\ closeAfter' = closeAfter /\ sock' = sock
    BY <1>6 DEF ReadErr, Live, taskVars
  <2>2. CASE DoCleanup(d)
    BY <1>5, <2>1, <2>2
  <2>3. CASE (mod[d] = "none" \/ closing[d]) /\ UNCHANGED lifeVars
    BY <2>1, <2>3 DEF lifeVars, LocalInv, NotRouted, Registered, WaitsOnce, Live, Routed
  <2>. QED BY <1>6, <2>2, <2>3 DEF ReadErr
<1>7. CASE WriteErr(d)
  <2>1. phase[d] = "live" /\ phase' = phase /\ mod' = mod /\ task' = task
        /\ closeAfter' = closeAfter /\ sock' = sock
    BY <1>7 DEF WriteErr, Live, taskVars
  <2>2. CASE DoCleanup(d)
    BY <1>5, <2>1, <2>2
  <2>3. CASE closing[d] /\ UNCHANGED lifeVars
    BY <2>1, <2>3, LocalClosing DEF lifeVars
  <2>. QED BY <1>7, <2>2, <2>3 DEF WriteErr
<1>8. CASE WriteOk(d) \/ HeartbeatLost(d)
  <2>1. phase[d] = "live" /\ phase' = phase /\ mod' = mod /\ task' = task
        /\ closeAfter' = closeAfter /\ reading' = reading
    BY <1>8 DEF WriteOk, HeartbeatLost, Live, taskVars
  <2>2. CASE CloseWs(d)
    BY <1>5, <2>1, <2>2
  <2>3. CASE UNCHANGED lifeVars /\ sock' = sock
    BY <2>1, <2>3 DEF lifeVars, LocalInv, NotRouted, Registered, WaitsOnce, Live, Routed
  <2>. QED BY <1>8, <2>2, <2>3 DEF WriteOk, HeartbeatLost
<1>9. CASE OnReadCloseWindow(d)
  <2>1. phase[d] = "live" /\ phase' = phase /\ mod' = mod /\ task' = task
        /\ closeAfter' = closeAfter /\ DropWs(d)
    BY <1>9 DEF OnReadCloseWindow, OnRead, Routed, Live, taskVars
  <2>. QED BY <1>5, <2>1
\* The message was what the session waited for.
<1>10. CASE OnReadAsync(d) \/ OnReadLegacy(d)
  <2>1. /\ phase[d] = "live" /\ phase' = phase /\ mod' = mod /\ mod[d] # "none"
        /\ closing' = closing /\ registered' = registered /\ app' = app /\ sock' = sock
        /\ reading[d] = "ready"
    BY <1>10 DEF OnReadAsync, OnReadLegacy, OnRead, Routed, Live, lifeVars
  <2>2. ~closing[d] => task[d] = "none" /\ ~closeAfter[d]
    BY <2>1 DEF LocalInv, WaitsOnce, Routed, Live
  <2>3. ~closing[d] =>
          \/ reading'[d] # "no" /\ task'[d] = "none" /\ ~closeAfter'[d]
          \/ reading'[d] = "no" /\ task'[d] # "none" /\ ~closeAfter'[d]
          \/ reading'[d] = "no" /\ task'[d] = "none" /\ closeAfter'[d]
    <3>1. CASE OnReadAsync(d)
      BY <2>2, <3>1 DEF OnReadAsync, DoRead, StopReading, taskVars
    <3>2. CASE OnReadLegacy(d)
      BY <2>2, <3>2 DEF OnReadLegacy, ProcessLegacy, DoRead, StopReading, taskVars
    <3>. QED BY <1>10, <3>1, <3>2
  <2>. QED BY <2>1, <2>3 DEF LocalInv, NotRouted, Registered, WaitsOnce, Live, Routed
<1>11. CASE TurnEnd(d)
  <2>1. phase' = phase /\ mod' = mod /\ closeAfter' = closeAfter /\ task'[d] = "none"
        /\ task[d] = "turn" /\ mod[d] # "none"
    BY <1>11 DEF TurnEnd, LocalInv, NotRouted
  <2>2. CASE CloseWs(d)
    <3>1. closing'[d]
      BY <2>2, CloseCloses
    <3>. QED BY <2>1, <3>1 DEF LocalInv, NotRouted, Registered, WaitsOnce
  <2>3. CASE DoRead(d) /\ UNCHANGED lifeVars /\ sock' = sock
    BY <2>1, <2>3 DEF lifeVars, DoRead, LocalInv, NotRouted, Registered, WaitsOnce,
                      Live, Routed
  <2>. QED BY <1>11, <2>2, <2>3 DEF TurnEnd
<1>. QED BY <1>1, <1>2, <1>3, <1>4, <1>6, <1>7, <1>8, <1>9, <1>10, <1>11
         DEF ConnNext, HandleMsg, Tick, PoolStep

-----------------------------------------------------------------------------
(* The output callback.                                                    *)

\* Only routing gives an app to a session or moves a callback.
LEMMA ReleaseOnly ==
    ASSUME TypeInv, NEW c \in Conn, ConnNext(c), ~Route(c)
    PROVE  cb' = cb /\ \A d \in Conn : /\ app'[d] \in {app[d], NoApp}
                                       /\ closing[d] => closing'[d]
<1>. USE DEF TypeInv, TypeOK
<1>1. ASSUME DoCleanup(c) \/ CloseWs(c) \/ DropWs(c) \/ UNCHANGED lifeVars
      PROVE  \A d \in Conn : app'[d] \in {app[d], NoApp} /\ (closing[d] => closing'[d])
  BY <1>1 DEF DoCleanup, CloseWs, DropWs, Detach, lifeVars
<1>2. CASE ReadErr(c) \/ WriteErr(c) \/ WriteOk(c) \/ HeartbeatLost(c) \/ TurnEnd(c)
  BY <1>1, <1>2 DEF ReadErr, WriteErr, WriteOk, HeartbeatLost, TurnEnd
<1>3. CASE OnReadCloseWindow(c) \/ OnReadAsync(c) \/ OnReadLegacy(c)
  BY <1>1, <1>3 DEF OnReadCloseWindow, OnReadAsync, OnReadLegacy, OnRead
<1>4. CASE OnReadAsyncNoApp(c) \/ TaskStartNoApp(c) \/ TurnEndNoApp(c)
  BY <1>1, <1>4 DEF OnReadAsyncNoApp, TaskStartNoApp, TurnEndNoApp, stateVars
<1>5. CASE Accept(c) \/ Refuse(c) \/ PlainHttp(c) \/ Upgrade(c) \/ MsgArrives(c)
           \/ PeerGone(c) \/ Ping(c) \/ TaskStart(c) \/ TaskEnd(c) \/ PostResults(c)
  BY <1>5 DEF Accept, Refuse, PlainHttp, Upgrade, MsgArrives, PeerGone, Ping, TaskStart,
              TaskEnd, PostResults, lifeVars
<1>6. CASE Destruct(c)
  BY <1>6 DEF Destruct
<1>. QED BY <1>2, <1>3, <1>4, <1>5, <1>6 DEF ConnNext, HandleMsg, Tick, PoolStep

LEMMA OutputRoute ==
    ASSUME OwnInv, TypeOK', OutputToOwner, NEW c \in Conn, Route(c)
    PROVE  OutputToOwner'
<1>. USE SessionAssumption DEF OwnInv, TypeInv, TypeOK
<1>1. ASSUME NEW d \in Conn, d # c PROVE app'[d] = app[d] /\ closing'[d] = closing[d]
  BY <1>1, SameRoute DEF Same
<1>2. CASE cb' = cb /\ closing'[c]
  BY <1>1, <1>2 DEF OutputToOwner
<1>3. ASSUME NEW a \in App, SetOutput(c, a), GiveApp(c, a), \A d \in Conn : app[d] # a
      PROVE  OutputToOwner'
  <2>1. app'[c] = a
    BY <1>3 DEF GiveApp
  <2>2. \A b \in App : b # a => cb'[b] = cb[b]
    BY <1>3 DEF SetOutput
  <2>3. a \in AsyncApp => cb'[a] = c
    BY <1>3 DEF SetOutput
  <2>. QED BY <1>1, <1>3, <2>1, <2>2, <2>3 DEF OutputToOwner
<1>4. ASSUME NEW w \in Window \cup {NoWindow},
             \/ ResumeFails(c, w) \/ NewAppFails(c, w)
             \/ w \in Window /\ ResumeEnded(c, w)
             \/ \E a \in App : NewAppUserCloses(c, w, a)
      PROVE  cb' = cb /\ closing'[c]
  <2>1. cb' = cb /\ (DropWs(c) \/ (closing[c] /\ closing' = closing))
    BY <1>4 DEF ResumeFails, NewAppFails, ResumeEnded, NewAppUserCloses
  <2>2. DropWs(c) => closing'[c]
    BY CloseCloses
  <2>. QED BY <2>1, <2>2
<1>5. ASSUME NEW w \in Window, Resume(c, w) PROVE OutputToOwner'
  <2>1. stash[w] \in App /\ SetOutput(c, stash[w]) /\ GiveApp(c, stash[w])
    BY <1>5 DEF Resume, Fresh, SlotApp
  <2>2. \A d \in Conn : app[d] # stash[w]
    BY <2>1 DEF SingleOwner, SessionOrSlot
  <2>. QED BY <1>3, <2>1, <2>2
<1>6. ASSUME NEW w \in Window \cup {NoWindow}, NEW a \in App, NewApp(c, w, a)
      PROVE  OutputToOwner'
  <2>1. SetOutput(c, a) /\ GiveApp(c, a) /\ status[a] = "unborn"
    BY <1>6 DEF NewApp
  <2>2. \A d \in Conn : app[d] # a
    BY <2>1 DEF SingleOwner, OwnedIffAlive
  <2>. QED BY <1>3, <2>1, <2>2
<1>. QED BY <1>2, <1>4, <1>5, <1>6 DEF Route

LEMMA OutputKept ==
    ASSUME OwnInv, TypeOK', OutputToOwner, [Next]_vars
    PROVE  OutputToOwner'
<1>1. ASSUME cb' = cb, \A d \in Conn : /\ app'[d] \in {app[d], NoApp}
                                       /\ closing[d] => closing'[d]
      PROVE  OutputToOwner'
  BY <1>1, SessionAssumption DEF OutputToOwner
<1>2. ASSUME NEW c \in Conn, ConnNext(c) PROVE OutputToOwner'
  BY <1>1, <1>2, OutputRoute, ReleaseOnly DEF OwnInv
<1>3. ASSUME NEW a \in App, AppNext(a) PROVE OutputToOwner'
  BY <1>1, <1>3 DEF AppNext, AppOutput, AppOutputDangling, AppExits, stateVars, lifeVars
<1>4. ASSUME NEW w \in Window, StashAges(w) PROVE OutputToOwner'
  BY <1>1, <1>4 DEF StashAges, lifeVars
<1>5. ASSUME NEW t \in Caller, CallerNext(t) PROVE OutputToOwner'
  BY <1>1, <1>5 DEF CallerNext, FindSession, EnterApp, LeaveApp, lifeVars
<1>6. CASE UNCHANGED vars
  BY <1>1, <1>6 DEF vars, stateVars, lifeVars
<1>. QED BY <1>2, <1>3, <1>4, <1>5, <1>6 DEF Next

-----------------------------------------------------------------------------
(* The invariant, and what follows from it.                                *)

LEMMA SafeHolds == Spec => []SafeInv
<1>1. Init => SafeInv
  <2>. SUFFICES ASSUME Init PROVE SafeInv
    OBVIOUS
  <2>1. WriterRuns /\ OutputToOwner
    BY SessionAssumption DEF Init, WriterRuns, Live, OutputToOwner
  <2>2. \A d \in Conn : LocalInv(d)
    BY DEF Init, LocalInv, NotRouted, Registered, WaitsOnce, Routed, Live
  <2>. QED BY <2>1, <2>2, OwnInvInit DEF SafeInv
<1>2. SafeInv /\ [Next]_vars => SafeInv'
  <2>. SUFFICES ASSUME SafeInv, [Next]_vars PROVE SafeInv'
    OBVIOUS
  <2>1. OwnInv'
    BY OwnInvNext DEF SafeInv
  <2>2. WriterRuns' /\ OutputToOwner'
    BY <2>1, WriterKept, OutputKept DEF SafeInv, OwnInv, TypeInv
  <2>3. ASSUME NEW d \in Conn PROVE LocalInv(d)'
    BY StepOfSession, LocalSame, LocalStep DEF SafeInv, OwnInv
  <2>. QED BY <2>1, <2>2, <2>3 DEF SafeInv
<1>. QED BY <1>1, <1>2, PTL DEF Spec

\* A session that is not closing writes exactly while messages are queued, and
\* one that closes after its last write has that write in flight: do_write's
\* chain never breaks.
THEOREM WriterHolds == Spec => []WriterRuns
<1>1. SafeInv => WriterRuns
  BY DEF SafeInv
<1>. QED BY <1>1, SafeHolds, PTL

\* An asynchronous app's output callback points to the session that owns it,
\* after any number of losses and resumes.
THEOREM OutputHolds == Spec => []OutputToOwner
<1>1. SafeInv => OutputToOwner
  BY DEF SafeInv
<1>. QED BY <1>1, SafeHolds, PTL

\* An open session is registered exactly while it holds an app, so what
\* findSession returns can be driven until the next cleanup.
THEOREM RegistryHolds == Spec => []RegistrySound
<1>1. SafeInv => RegistrySound
  BY DEF SafeInv, LocalInv, Registered, RegistrySound
<1>. QED BY <1>1, SafeHolds, PTL

\* A routed session that is not closing waits for its next message, for its
\* turn in the pool or for its last write, and for one of them only.
THEOREM WaitHolds == Spec => []OneWait
<1>1. ASSUME SafeInv, NEW c \in Conn, Routed(c), ~closing[c]
      PROVE  \E x : Waits(c) = {x}
  <2>1. CASE reading[c] # "no" /\ task[c] = "none" /\ ~closeAfter[c]
    <3>1. Waits(c) = {"message"}
      BY <2>1 DEF Waits
    <3>. QED BY <3>1
  <2>2. CASE reading[c] = "no" /\ task[c] # "none" /\ ~closeAfter[c]
    <3>1. Waits(c) = {"turn"}
      BY <2>2 DEF Waits
    <3>. QED BY <3>1
  <2>3. CASE reading[c] = "no" /\ task[c] = "none" /\ closeAfter[c]
    <3>1. Waits(c) = {"exit"}
      BY <2>3 DEF Waits
    <3>. QED BY <3>1
  <2>. QED BY <1>1, <2>1, <2>2, <2>3 DEF SafeInv, LocalInv, WaitsOnce
<1>2. SafeInv => OneWait
  BY <1>1, FS_Singleton DEF OneWait
<1>. QED BY <1>2, SafeHolds, PTL

\* A routed session that is not closing is referred to by what it waits for.
LEMMA Referenced ==
    ASSUME SafeInv, NEW c \in Conn, Routed(c), ~closing[c]
    PROVE  ~Unreferenced(c)
  BY DEF SafeInv, LocalInv, WaitsOnce, WriterRuns, Unreferenced, Routed

\* A session that got an app is destroyed only after do_cleanup ran.
THEOREM DestroyedHolds == Spec => DestroyedAfterClose
<1>1. ASSUME SafeInv, [Next]_vars, NEW c \in Conn, Routed(c), phase'[c] = "gone", ~closing[c]
      PROVE  FALSE
  <2>1. phase[c] = "live"
    BY <1>1 DEF Routed, Live
  <2>2. ConnNext(c)
    BY <1>1, <2>1, StepOfSession DEF Same, SafeInv, OwnInv
  <2>3. Destruct(c)
    <3>1. Route(c) => phase' = phase
      BY DEF Route, ResumeFails, ResumeEnded, Resume, NewAppFails, NewApp,
             NewAppUserCloses, FirstMsg
    <3>. QED BY <1>1, <2>1, <2>2, <3>1
             DEF ConnNext, HandleMsg, Tick, PoolStep, Accept, Refuse, PlainHttp, Upgrade,
                 MsgArrives, PeerGone, OnReadCloseWindow, OnReadAsync, OnReadAsyncNoApp,
                 OnReadLegacy, OnRead, ReadErr, WriteErr, WriteOk, HeartbeatLost, Ping,
                 TaskStart, TaskStartNoApp, TaskEnd, PostResults, TurnEnd, TurnEndNoApp,
                 stateVars
  <2>. QED BY <1>1, <2>3, Referenced DEF Destruct
<1>2. SafeInv /\ [Next]_vars =>
        [\A c \in Conn : Routed(c) /\ phase'[c] = "gone" => closing[c]]_vars
  BY <1>1
<1>. QED BY <1>2, SafeHolds, PTL DEF Spec, DestroyedAfterClose

\* A session lost to an error or to the heartbeat parks its running app under
\* its window; nothing but a message takes the app away from it.
THEOREM LossHolds == Spec => LossKeepsApp
<1>1. ASSUME SafeInv, [Next]_vars, NEW c \in Conn,
             ~closing[c], wid[c] # NoWindow, app[c] # NoApp, status[app[c]] = "live",
             reading[c] # "ready", app'[c] # app[c]
      PROVE  stash'[wid[c]] = app[c]
  <2>. USE DEF SafeInv, OwnInv, TypeInv, TypeOK
  <2>1. ConnNext(c) /\ wid[c] \in Window /\ mod[c] # "none"
    BY <1>1, StepOfSession DEF Same
  <2>2. DoCleanup(c) => stash'[wid[c]] = app[c]
    BY <1>1, <2>1 DEF DoCleanup, Stashable
  <2>3. CloseWs(c) => stash'[wid[c]] = app[c]
    BY <1>1, <2>2 DEF CloseWs
  <2>4. ~Destruct(c)
    BY <1>1, <2>1, Referenced DEF Destruct, Routed
  <2>5. ~HandleMsg(c)
    BY <1>1 DEF HandleMsg, Route, ResumeFails, ResumeEnded, Resume, NewAppFails, NewApp,
                NewAppUserCloses, FirstMsg, OnReadCloseWindow, OnReadAsync,
                OnReadAsyncNoApp, OnReadLegacy, OnRead
  <2>6. CASE ReadErr(c) \/ WriteErr(c) \/ WriteOk(c) \/ HeartbeatLost(c) \/ TurnEnd(c)
    BY <1>1, <2>2, <2>3, <2>6
       DEF ReadErr, WriteErr, WriteOk, HeartbeatLost, TurnEnd, lifeVars
  <2>7. CASE \/ Accept(c) \/ Refuse(c) \/ PlainHttp(c) \/ Upgrade(c) \/ MsgArrives(c)
             \/ PeerGone(c) \/ Ping(c) \/ TaskStart(c) \/ TaskStartNoApp(c) \/ TaskEnd(c)
             \/ PostResults(c) \/ TurnEndNoApp(c)
    BY <1>1, <2>7
       DEF Accept, Refuse, PlainHttp, Upgrade, MsgArrives, PeerGone, Ping, TaskStart,
           TaskStartNoApp, TaskEnd, PostResults, TurnEndNoApp, stateVars, lifeVars
  <2>. QED BY <2>1, <2>4, <2>5, <2>6, <2>7 DEF ConnNext, Tick, PoolStep
<1>2. SafeInv /\ [Next]_vars =>
        [\A c \in Conn :
           /\ ~closing[c] /\ wid[c] # NoWindow /\ app[c] # NoApp
           /\ status[app[c]] = "live" /\ reading[c] # "ready"
           /\ app'[c] # app[c]
           => stash'[wid[c]] = app[c]]_vars
  BY <1>1
<1>. QED BY <1>2, SafeHolds, PTL DEF Spec, LossKeepsApp

-----------------------------------------------------------------------------
(* Session implements AppOwnership: every step of a session, of the pool,  *)
(* of an app or of a caller moves app instances as the abstract            *)
(* specification allows, or moves none.                                    *)

Unborn       == Ownership!Unborn
Destroyed    == Ownership!Destroyed
Held(c, w)   == Ownership!Held(c, w)
Parked(w)    == Ownership!Parked(w)

\* What the refinement mapping says of an app, by its status and its owner.
Mapped ==
    /\ AppHolder = [a \in App |-> AppHolder[a]]
    /\ \A a \in App :
         /\ status[a] = "unborn" => AppHolder[a] = Unborn
         /\ \A c \in Conn : app[c] = a => AppHolder[a] = Held(c, wid[c])
         /\ \A w \in Window : stash[w] = a => AppHolder[a] = Parked(w)
         /\ status[a] = "dead" => AppHolder[a] = Destroyed

LEMMA MappedHolds == OwnInv => Mapped
<1>. SUFFICES ASSUME OwnInv PROVE Mapped
  OBVIOUS
<1>. USE SessionAssumption DEF OwnInv, TypeInv, TypeOK
<1>1. AppHolder = [a \in App |-> AppHolder[a]]
  BY DEF AppHolder
<1>2. ASSUME NEW a \in App, status[a] = "unborn" PROVE AppHolder[a] = Unborn
  BY <1>2 DEF AppHolder, Unborn, Ownership!Unborn
<1>3. ASSUME NEW a \in App, NEW c \in Conn, app[c] = a PROVE AppHolder[a] = Held(c, wid[c])
  <2>1. status[a] # "unborn"
    BY <1>3 DEF SingleOwner, OwnedIffAlive
  <2>2. \A d \in Conn : app[d] = a => d = c
    BY <1>3 DEF SingleOwner, OneSessionPerApp
  <2>. DEFINE d == CHOOSE d \in Conn : app[d] = a
  <2>3. d = c
    BY <1>3, <2>2
  <2>4. AppHolder[a] = [at |-> "session", conn |-> d, window |-> wid[d]]
    BY <1>3, <2>1 DEF AppHolder
  <2>. QED BY <2>3, <2>4 DEF Held, Ownership!Held
<1>4. ASSUME NEW a \in App, NEW w \in Window, stash[w] = a PROVE AppHolder[a] = Parked(w)
  <2>1. status[a] # "unborn"
    BY <1>4 DEF SingleOwner, OwnedIffAlive
  <2>2. \A c \in Conn : app[c] # a
    BY <1>4 DEF SingleOwner, SessionOrSlot
  <2>3. \A v \in Window : stash[v] = a => v = w
    BY <1>4 DEF SingleOwner, OneSlotPerApp
  <2>. DEFINE v == CHOOSE v \in Window : stash[v] = a
  <2>4. v = w
    BY <1>4, <2>3
  <2>5. AppHolder[a] = [at |-> "stash", window |-> v]
    BY <1>4, <2>1, <2>2 DEF AppHolder
  <2>. QED BY <2>4, <2>5 DEF Parked, Ownership!Parked
<1>5. ASSUME NEW a \in App, status[a] = "dead" PROVE AppHolder[a] = Destroyed
  <2>1. (\A c \in Conn : app[c] # a) /\ (\A w \in Window : stash[w] # a)
    BY <1>5 DEF SingleOwner, OwnedIffAlive
  <2>. QED BY <1>5, <2>1 DEF AppHolder, Destroyed, Ownership!Destroyed
<1>. QED BY <1>1, <1>2, <1>3, <1>4, <1>5 DEF Mapped

\* The places of the abstract specification are different places.
LEMMA Places ==
    /\ Unborn # Destroyed
    /\ \A c, w : Held(c, w) # Unborn /\ Held(c, w) # Destroyed
    /\ \A w : Parked(w) # Unborn /\ Parked(w) # Destroyed
    /\ \A c, w, v : Held(c, w) # Parked(v)
    /\ \A c, d, w, v : Held(c, w) = Held(d, v) => c = d /\ w = v
    /\ \A w, v : Parked(w) = Parked(v) => w = v
<1>. USE DEF Unborn, Destroyed, Held, Parked, Ownership!Unborn, Ownership!Destroyed,
             Ownership!Held, Ownership!Parked
<1>1. Unborn.at = "unborn" /\ Destroyed.at = "destroyed"
  OBVIOUS
<1>2. \A c, w : Held(c, w).at = "session" /\ Held(c, w).conn = c /\ Held(c, w).window = w
  OBVIOUS
<1>3. \A w : Parked(w).at = "stash" /\ Parked(w).window = w
  OBVIOUS
<1>. HIDE DEF Unborn, Destroyed, Held, Parked
<1>. QED BY <1>1, <1>2, <1>3

\* Every app is in one of the places the mapping names.
LEMMA Placed ==
    ASSUME OwnInv, NEW a \in App
    PROVE  \/ status[a] \in {"unborn", "dead"}
           \/ \E c \in Conn : app[c] = a
           \/ \E w \in Window : stash[w] = a
  BY DEF OwnInv, TypeInv, TypeOK, SingleOwner, OwnedIffAlive

-----------------------------------------------------------------------------
(* The moves of the abstract specification.                                *)

AbstractStep == Ownership!Next \/ AppHolder' = AppHolder

LEMMA AppStays ==
    ASSUME OwnInv, OwnInv', NEW b \in App,
           status'[b] = status[b] \/ {status[b], status'[b]} = {"live", "done"},
           \A c \in Conn : app[c] = b => app'[c] = b /\ wid'[c] = wid[c],
           \A w \in Window : stash[w] = b => stash'[w] = b
    PROVE  AppHolder'[b] = AppHolder[b]
<1>1. Mapped /\ Mapped'
  BY MappedHolds, PTL
<1>2. CASE status[b] \in {"unborn", "dead"}
  BY <1>1, <1>2 DEF Mapped
<1>3. ASSUME NEW c \in Conn, app[c] = b PROVE AppHolder'[b] = AppHolder[b]
  BY <1>1, <1>3 DEF Mapped
<1>4. ASSUME NEW w \in Window, stash[w] = b PROVE AppHolder'[b] = AppHolder[b]
  BY <1>1, <1>4 DEF Mapped
<1>. QED BY <1>2, <1>3, <1>4, Placed

\* No app moves; one that is alive may end.
LEMMA StepStays ==
    ASSUME OwnInv, OwnInv', app' = app, stash' = stash,
           \A c \in Conn : app[c] # NoApp => wid'[c] = wid[c],
           status' = status \/ \E a \in App : MayFinish(a)
    PROVE  AbstractStep
<1>1. Mapped /\ Mapped'
  BY MappedHolds, PTL
<1>2. ASSUME NEW b \in App PROVE AppHolder'[b] = AppHolder[b]
  <2>1. status'[b] = status[b] \/ {status[b], status'[b]} = {"live", "done"}
    BY DEF MayFinish, OwnInv, TypeInv, TypeOK
  <2>2. \A c \in Conn : app[c] = b => app'[c] = b /\ wid'[c] = wid[c]
    BY SessionAssumption
  <2>. QED BY <2>1, <2>2, AppStays
<1>. QED BY <1>1, <1>2 DEF Mapped, AbstractStep

\* Apps are destroyed where they are.
LEMMA StepDestroys ==
    ASSUME OwnInv, OwnInv', NEW dying, Kill(dying),
           \A c \in Conn : app[c] # NoApp => wid'[c] = wid[c],
           \A d \in Conn : app'[d] = IF app[d] \in dying THEN NoApp ELSE app[d],
           \A v \in Window : stash'[v] = IF stash[v] \in dying THEN NoApp ELSE stash[v]
    PROVE  AbstractStep
<1>. DEFINE D == {a \in App : a \in dying /\ status[a] # "dead"}
<1>1. Mapped /\ Mapped'
  BY MappedHolds, PTL
<1>2. ASSUME NEW b \in App, b \notin D PROVE AppHolder'[b] = AppHolder[b]
  <2>1. status'[b] = status[b]
    BY <1>2 DEF Kill
  <2>2. CASE status[b] = "dead"
    BY <1>1, <2>1, <2>2 DEF Mapped
  <2>3. CASE status[b] # "dead"
    <3>1. b \notin dying
      BY <1>2, <2>3
    <3>2. /\ \A c \in Conn : app[c] = b => app'[c] = b /\ wid'[c] = wid[c]
          /\ \A w \in Window : stash[w] = b => stash'[w] = b
      BY <3>1, SessionAssumption
    <3>. QED BY <2>1, <3>2, AppStays
  <2>. QED BY <2>2, <2>3
<1>3. ASSUME NEW b \in D PROVE AppHolder'[b] = Destroyed /\ AppHolder[b] # Destroyed
  <2>1. status'[b] = "dead"
    BY <1>3 DEF Kill
  <2>2. AppHolder[b] # Destroyed
    <3>1. CASE status[b] = "unborn"
      BY <1>1, <3>1, Places DEF Mapped
    <3>2. ASSUME NEW c \in Conn, app[c] = b PROVE AppHolder[b] # Destroyed
      BY <1>1, <3>2, Places DEF Mapped
    <3>3. ASSUME NEW w \in Window, stash[w] = b PROVE AppHolder[b] # Destroyed
      BY <1>1, <3>3, Places DEF Mapped
    <3>. QED BY <1>3, <3>1, <3>2, <3>3, Placed
  <2>. QED BY <1>1, <1>3, <2>1, <2>2 DEF Mapped
<1>4. CASE D = {}
  <2>1. \A b \in App : AppHolder'[b] = AppHolder[b]
    BY <1>2, <1>4
  <2>. QED BY <1>1, <2>1 DEF Mapped, AbstractStep
<1>5. CASE D # {}
  <2>1. AppHolder' = [a \in App |-> IF a \in D THEN Destroyed ELSE AppHolder[a]]
    BY <1>1, <1>2, <1>3 DEF Mapped
  <2>2. Ownership!Destroy(D)
    BY <1>3, <1>5, <2>1 DEF Ownership!Destroy, Destroyed
  <2>3. D \in SUBSET App
    OBVIOUS
  <2>. QED BY <2>2, <2>3 DEF AbstractStep, Ownership!Next
<1>. QED BY <1>4, <1>5

\* do_cleanup parks the app, which destroys what the slot held, or destroys it.
LEMMA StepCleanup ==
    ASSUME OwnInv, OwnInv', NEW c \in Conn, DoCleanup(c), wid' = wid
    PROVE  AbstractStep
<1>. USE SessionAssumption DEF OwnInv, TypeInv, TypeOK
<1>0. app' = [app EXCEPT ![c] = NoApp]
  BY DEF DoCleanup, Detach
<1>1. CASE Stashable(c)
  <2>. DEFINE w == wid[c]  a == app[c]
  <2>1. /\ w \in Window /\ a \in App
        /\ stash' = [stash EXCEPT ![w] = a]
        /\ Kill({stash[w]})
        /\ status[a] = "live"
    BY <1>1 DEF DoCleanup, Stashable
  <2>. HIDE DEF w
  <2>2. Mapped /\ Mapped'
    BY MappedHolds, PTL
  <2>3. AppHolder[a] = Held(c, w) /\ AppHolder'[a] = Parked(w)
    BY <2>1, <2>2 DEF Mapped, w
  <2>4. ASSUME NEW b \in App, b # a, b = stash[w]
        PROVE  AppHolder[b] = Parked(w) /\ AppHolder'[b] = Destroyed
    BY <2>1, <2>2, <2>4 DEF Mapped, Kill
  <2>5. ASSUME NEW b \in App, b # a, b # stash[w]
        PROVE  AppHolder[b] # Parked(w) /\ AppHolder'[b] = AppHolder[b]
    <3>1. /\ status'[b] = status[b]
          /\ \A d \in Conn : app[d] = b => app'[d] = b /\ wid'[d] = wid[d]
          /\ \A v \in Window : stash[v] = b => stash'[v] = b
      BY <1>0, <2>1, <2>5 DEF Kill
    <3>2. ASSUME status[b] \in {"unborn", "dead"} PROVE AppHolder[b] # Parked(w)
      BY <2>2, <3>2, Places DEF Mapped
    <3>3. ASSUME NEW d \in Conn, app[d] = b PROVE AppHolder[b] # Parked(w)
      BY <2>2, <3>3, Places DEF Mapped
    <3>4. ASSUME NEW v \in Window, stash[v] = b PROVE AppHolder[b] # Parked(w)
      BY <2>2, <2>5, <3>4, Places DEF Mapped
    <3>. QED BY SMTT(20), ZenonT(40), <3>1, <3>2, <3>3, <3>4, Placed, AppStays
  <2>6. AppHolder' = [b \in App |-> CASE b = a                     -> Parked(w)
                                      [] AppHolder[b] = Parked(w) -> Destroyed
                                      [] OTHER                     -> AppHolder[b]]
    <3>1. ASSUME NEW b \in App
          PROVE  AppHolder'[b] = CASE b = a                     -> Parked(w)
                                   [] AppHolder[b] = Parked(w) -> Destroyed
                                   [] OTHER                     -> AppHolder[b]
      BY <2>3, <2>4, <2>5, Places
    <3>. QED BY <2>2, <3>1 DEF Mapped
  <2>7. Ownership!Park(a, c, w)
    BY <2>3, <2>6 DEF Ownership!Park, Held, Parked, Destroyed
  <2>. QED BY <2>1, <2>7 DEF AbstractStep, Ownership!Next
<1>2. CASE ~Stashable(c)
  <2>1. Kill({app[c]}) /\ stash' = stash
    BY <1>2 DEF DoCleanup, stashVars
  <2>2. \A d \in Conn : app'[d] = IF app[d] \in {app[c]} THEN NoApp ELSE app[d]
    BY <1>0 DEF SingleOwner, OneSessionPerApp
  <2>3. \A v \in Window : stash'[v] = IF stash[v] \in {app[c]} THEN NoApp ELSE stash[v]
    BY <2>1 DEF SingleOwner, SessionOrSlot
  <2>. QED BY <2>1, <2>2, <2>3, StepDestroys
<1>. QED BY <1>1, <1>2

LEMMA StepCloses ==
    ASSUME OwnInv, OwnInv', NEW c \in Conn, CloseWs(c), wid' = wid
    PROVE  AbstractStep
  BY StepCleanup, StepStays DEF CloseWs, lifeVars, stashVars

\* A session that holds no app is free.
LEMMA Free ==
    ASSUME OwnInv, NEW c \in Conn, app[c] = NoApp
    PROVE  Ownership!SessionFree(c)
<1>1. Mapped
  BY MappedHolds
<1>2. ASSUME NEW a \in App, NEW w PROVE AppHolder[a] # Held(c, w)
  <2>1. CASE status[a] \in {"unborn", "dead"}
    BY <1>1, <2>1, Places DEF Mapped
  <2>2. ASSUME NEW d \in Conn, app[d] = a PROVE AppHolder[a] # Held(c, w)
    <3>1. AppHolder[a] = Held(d, wid[d]) /\ d # c
      BY <1>1, <2>2, SessionAssumption DEF Mapped
    <3>. QED BY <3>1, Places
  <2>3. ASSUME NEW v \in Window, stash[v] = a PROVE AppHolder[a] # Held(c, w)
    BY <1>1, <2>3, Places DEF Mapped
  <2>. QED BY <2>1, <2>2, <2>3, Placed
<1>. QED BY <1>2 DEF Ownership!SessionFree, Held

\* A session without app takes over the app of a slot.
LEMMA StepRestores ==
    ASSUME OwnInv, OwnInv', NEW c \in Conn, app[c] = NoApp,
           NEW w \in Window, stash[w] # NoApp, EmptySlot(w), GiveApp(c, stash[w]),
           status' = status, wid' = [wid EXCEPT ![c] = w]
    PROVE  AbstractStep
<1>. USE SessionAssumption DEF OwnInv, TypeInv, TypeOK
<1>. DEFINE a == stash[w]
<1>1. Mapped /\ Mapped'
  BY MappedHolds, PTL
<1>2. /\ a \in App
      /\ app' = [app EXCEPT ![c] = a]
      /\ stash' = [stash EXCEPT ![w] = NoApp]
  <2>1. a \in App
    OBVIOUS
  <2>2. app' = [app EXCEPT ![c] = a]
    BY DEF GiveApp
  <2>3. stash' = [stash EXCEPT ![w] = NoApp]
    BY DEF EmptySlot
  <2>. QED BY <2>1, <2>2, <2>3
<1>3. AppHolder[a] = Parked(w) /\ AppHolder'[a] = Held(c, w)
  BY <1>1, <1>2 DEF Mapped
<1>4. ASSUME NEW b \in App, b # a PROVE AppHolder'[b] = AppHolder[b]
  <2>1. /\ \A d \in Conn : app[d] = b => app'[d] = b /\ wid'[d] = wid[d]
        /\ \A v \in Window : stash[v] = b => stash'[v] = b
    BY <1>2, <1>4
  <2>. QED BY <2>1, AppStays
<1>5. AppHolder' = [AppHolder EXCEPT ![a] = Held(c, w)]
  BY <1>1, <1>3, <1>4 DEF Mapped
<1>6. Ownership!Restore(a, c, w)
  BY <1>3, <1>5, Free DEF Ownership!Restore, Held, Parked
<1>. QED BY <1>1, <1>6 DEF AbstractStep, Ownership!Next

\* A session without app gets a new one, and discards what its window had
\* parked when the message says so.
LEMMA StepCreates ==
    ASSUME OwnInv, OwnInv', NEW c \in Conn, app[c] = NoApp,
           NEW w \in Window \cup {NoWindow}, wid' = [wid EXCEPT ![c] = w],
           NEW a \in App, status[a] = "unborn", GiveApp(c, a),
           NEW discard \in BOOLEAN,
           IF discard THEN EmptySlot(w) ELSE stash' = stash,
           \A b \in App : status'[b] = IF b = a THEN "live"
                                       ELSE IF discard /\ b = SlotApp(w) THEN "dead"
                                       ELSE status[b]
    PROVE  AbstractStep
<1>. USE SessionAssumption DEF OwnInv, TypeInv, TypeOK
<1>1. Mapped /\ Mapped'
  BY MappedHolds, PTL
<1>2. app' = [app EXCEPT ![c] = a]
  BY DEF GiveApp
<1>3. AppHolder[a] = Unborn /\ AppHolder'[a] = Held(c, w)
  BY <1>1, <1>2 DEF Mapped
<1>4. ASSUME NEW b \in App, b # a, discard, b = SlotApp(w)
      PROVE  AppHolder[b] = Parked(w) /\ AppHolder'[b] = Destroyed
  <2>1. w \in Window /\ stash[w] = b /\ status'[b] = "dead"
    BY <1>4 DEF SlotApp
  <2>. QED BY <1>1, <2>1 DEF Mapped
<1>5. ASSUME NEW b \in App, b # a, ~(discard /\ b = SlotApp(w))
      PROVE  AppHolder'[b] = AppHolder[b]
  <2>1. status'[b] = status[b]
    BY <1>5
  <2>2. \A d \in Conn : app[d] = b => app'[d] = b /\ wid'[d] = wid[d]
    BY <1>2
  <2>3. \A v \in Window : stash[v] = b => stash'[v] = b
    <3>1. CASE discard
      BY <1>5, <3>1 DEF EmptySlot, SlotApp
    <3>2. CASE ~discard
      BY <3>2
    <3>. QED BY <3>1, <3>2
  <2>. QED BY <2>1, <2>2, <2>3, AppStays
<1>6. ASSUME NEW b \in App, b # SlotApp(w) PROVE AppHolder[b] # Parked(w)
  <2>1. CASE status[b] \in {"unborn", "dead"}
    BY <1>1, <2>1, Places DEF Mapped
  <2>2. ASSUME NEW d \in Conn, app[d] = b PROVE AppHolder[b] # Parked(w)
    BY <1>1, <2>2, Places DEF Mapped
  <2>3. ASSUME NEW v \in Window, stash[v] = b PROVE AppHolder[b] # Parked(w)
    <3>1. v # w /\ AppHolder[b] = Parked(v)
      BY <1>1, <1>6, <2>3 DEF Mapped, SlotApp
    <3>. QED BY <3>1, Places
  <2>. QED BY SMTT(20), ZenonT(40), <2>1, <2>2, <2>3, Placed
<1>7. AppHolder' = [b \in App |-> CASE b = a -> Held(c, w)
                                    [] discard /\ AppHolder[b] = Parked(w) -> Destroyed
                                    [] OTHER -> AppHolder[b]]
  <2>1. ASSUME NEW b \in App
        PROVE  AppHolder'[b] = CASE b = a -> Held(c, w)
                                 [] discard /\ AppHolder[b] = Parked(w) -> Destroyed
                                 [] OTHER -> AppHolder[b]
    <3>1. CASE b = a
      BY <1>3, <3>1, Places
    <3>2. CASE b # a /\ discard /\ b = SlotApp(w)
      BY <1>4, <3>2
    <3>3. CASE b # a /\ ~(discard /\ b = SlotApp(w))
      <4>1. AppHolder'[b] = AppHolder[b]
        BY <1>5, <3>3
      <4>2. ~(discard /\ AppHolder[b] = Parked(w))
        BY <1>6, <3>3
      <4>. QED BY <3>3, <4>1, <4>2
    <3>. QED BY <3>1, <3>2, <3>3
  <2>. QED BY <1>1, <2>1 DEF Mapped
<1>8. Ownership!Create(a, c, w, discard)
  BY <1>3, <1>7, Free DEF Ownership!Create, Held, Parked, Unborn, Destroyed
<1>. QED BY <1>8 DEF AbstractStep, Ownership!Next

-----------------------------------------------------------------------------
(* Every step of Session is one of these moves.                            *)

LEMMA RouteImplements ==
    ASSUME OwnInv, OwnInv', NEW c \in Conn, Route(c)
    PROVE  AbstractStep
<1>. USE SessionAssumption DEF OwnInv, TypeInv
<1>1. app[c] = NoApp
  BY DEF Route, ResumeFails, ResumeEnded, Resume, NewAppFails, NewApp,
         NewAppUserCloses, FirstMsg
<1>2. DropWs(c) => app' = app
  BY <1>1 DEF DropWs, Detach, lifeVars, TypeOK
<1>3. ASSUME NEW w, FirstMsg(c, w)
      PROVE  /\ wid' = [wid EXCEPT ![c] = w]
             /\ \A d \in Conn : app[d] # NoApp => wid'[d] = wid[d]
  BY <1>1, <1>3 DEF FirstMsg, TypeOK
<1>4. ASSUME NEW w \in Window \cup {NoWindow}, ResumeFails(c, w) PROVE AbstractStep
  <2>1. FirstMsg(c, w) /\ Kill({SlotApp(w)}) /\ EmptySlot(w) /\ app' = app
    BY <1>2, <1>4 DEF ResumeFails
  <2>2. \A d \in Conn : app'[d] = IF app[d] \in {SlotApp(w)} THEN NoApp ELSE app[d]
    BY <2>1, SlotEmptied
  <2>. QED BY <1>3, <2>1, <2>2, SlotEmptied, StepDestroys
<1>5. ASSUME NEW w \in Window \cup {NoWindow}, NewAppFails(c, w) PROVE AbstractStep
  BY <1>2, <1>3, <1>5, StepStays DEF NewAppFails, stashVars
<1>6. ASSUME NEW w \in Window, ResumeEnded(c, w) PROVE AbstractStep
  <2>1. FirstMsg(c, w) /\ EmptySlot(w) /\ stash[w] # NoApp /\ SlotApp(w) = stash[w]
    BY <1>6 DEF ResumeEnded, Fresh, SlotApp
  <2>2. CASE closing[c]
    <3>1. GiveApp(c, stash[w]) /\ status' = status
      BY <1>6, <2>2 DEF ResumeEnded
    <3>. QED BY <1>1, <1>3, <2>1, <3>1, StepRestores
  <2>3. CASE ~closing[c]
    <3>1. Kill({SlotApp(w)}) /\ app' = app
      BY <1>2, <1>6, <2>1, <2>3 DEF ResumeEnded
    <3>2. \A d \in Conn : app'[d] = IF app[d] \in {SlotApp(w)} THEN NoApp ELSE app[d]
      BY <2>1, <3>1, SlotEmptied
    <3>. QED BY <1>3, <2>1, <3>1, <3>2, SlotEmptied, StepDestroys
  <2>. QED BY <2>2, <2>3
<1>7. ASSUME NEW w \in Window, Resume(c, w) PROVE AbstractStep
  <2>1. /\ FirstMsg(c, w) /\ EmptySlot(w) /\ stash[w] # NoApp
        /\ GiveApp(c, stash[w]) /\ status' = status
    BY <1>7 DEF Resume, Fresh, SlotApp
  <2>. QED BY <1>1, <1>3, <2>1, StepRestores
<1>8. ASSUME NEW w \in Window \cup {NoWindow}, NEW a \in App, NewApp(c, w, a)
      PROVE  AbstractStep
  <2>1. /\ FirstMsg(c, w) /\ status[a] = "unborn" /\ GiveApp(c, a) /\ stash' = stash
        /\ \A b \in App : status'[b] = IF b = a THEN "live" ELSE status[b]
    BY <1>8 DEF NewApp, stashVars, TypeOK
  <2>. DEFINE discard == FALSE
  <2>2. /\ IF discard THEN EmptySlot(w) ELSE stash' = stash
        /\ \A b \in App : status'[b] = IF b = a THEN "live"
                                       ELSE IF discard /\ b = SlotApp(w) THEN "dead"
                                       ELSE status[b]
        /\ discard \in BOOLEAN
    BY <2>1
  <2>. HIDE DEF discard
  <2>. QED BY <1>1, <1>3, <2>1, <2>2, StepCreates
<1>9. ASSUME NEW w \in Window \cup {NoWindow}, NEW a \in App, NewAppUserCloses(c, w, a)
      PROVE  AbstractStep
  <2>1. FirstMsg(c, w) /\ EmptySlot(w) /\ status[a] = "unborn"
    BY <1>9 DEF NewAppUserCloses
  <2>2. (\A d \in Conn : app[d] # a) /\ (\A v \in Window : stash[v] # a) /\ a # SlotApp(w)
    BY <2>1 DEF SingleOwner, OwnedIffAlive, SlotApp
  <2>3. CASE closing[c]
    <3>. DEFINE discard == TRUE
    <3>1. /\ IF discard THEN EmptySlot(w) ELSE stash' = stash
          /\ \A b \in App : status'[b] = IF b = a THEN "live"
                                         ELSE IF discard /\ b = SlotApp(w) THEN "dead"
                                         ELSE status[b]
          /\ discard \in BOOLEAN
          /\ GiveApp(c, a)
      BY <1>9, <2>1, <2>2, <2>3 DEF NewAppUserCloses
    <3>. HIDE DEF discard
    <3>. QED BY <1>1, <1>3, <2>1, <3>1, StepCreates
  <2>4. CASE ~closing[c]
    <3>1. Kill({a, SlotApp(w)}) /\ app' = app
      BY <1>2, <1>9, <2>4 DEF NewAppUserCloses
    <3>. DEFINE dying == {a, SlotApp(w)}
    <3>2. /\ \A d \in Conn : app'[d] = IF app[d] \in dying THEN NoApp ELSE app[d]
          /\ \A v \in Window : stash'[v] = IF stash[v] \in dying THEN NoApp ELSE stash[v]
          /\ Kill(dying)
      BY <2>1, <2>2, <3>1, SlotEmptied
    <3>. HIDE DEF dying
    <3>. QED BY <1>3, <2>1, <3>2, StepDestroys
  <2>. QED BY <2>3, <2>4
<1>. QED BY <1>4, <1>5, <1>6, <1>7, <1>8, <1>9 DEF Route

LEMMA NextImplements ==
    ASSUME OwnInv, OwnInv', [Next]_vars
    PROVE  AbstractStep
<1>. USE SessionAssumption DEF OwnInv, TypeInv
<1>1. ASSUME NEW c \in Conn, Route(c) PROVE AbstractStep
  BY <1>1, RouteImplements
<1>2. ASSUME NEW c \in Conn, DoCleanup(c) \/ CloseWs(c), wid' = wid PROVE AbstractStep
  BY <1>2, StepCleanup, StepCloses
<1>3. ASSUME app' = app, stash' = stash, wid' = wid,
             status' = status \/ \E a \in App : MayFinish(a)
      PROVE  AbstractStep
  BY <1>3, StepStays
<1>4. ASSUME NEW c \in Conn,
             ReadErr(c) \/ WriteErr(c) \/ WriteOk(c) \/ HeartbeatLost(c) \/ TurnEnd(c)
      PROVE  AbstractStep
  <2>1. wid' = wid
    BY <1>4 DEF ReadErr, WriteErr, WriteOk, HeartbeatLost, TurnEnd
  <2>2. \/ DoCleanup(c) \/ CloseWs(c)
        \/ app' = app /\ stash' = stash /\ status' = status
    BY <1>4 DEF ReadErr, WriteErr, WriteOk, HeartbeatLost, TurnEnd, lifeVars, stashVars
  <2>. QED BY <1>2, <1>3, <2>1, <2>2
<1>5. ASSUME NEW c \in Conn, OnReadAsync(c) PROVE AbstractStep
  <2>1. app[c] \in App
    BY <1>5 DEF OnReadAsync, TypeOK
  <2>. QED BY <1>3, <1>5, <2>1 DEF OnReadAsync, OnRead, lifeVars, stashVars
<1>6. ASSUME NEW c \in Conn, TaskEnd(c) PROVE AbstractStep
  <2>1. CASE taskApp[c] \in App
    BY <1>3, <1>6, <2>1 DEF TaskEnd, lifeVars, stashVars
  <2>2. CASE taskApp[c] \notin App
    <3>1. status' = status
      BY <1>6, <2>2 DEF TaskEnd, MayFinish, TypeOK
    <3>. QED BY <1>3, <1>6, <3>1 DEF TaskEnd, lifeVars, stashVars
  <2>. QED BY <2>1, <2>2
<1>7. ASSUME NEW t \in Caller, LeaveApp(t) PROVE AbstractStep
  <2>1. CASE call[t].app \in App
    BY <1>3, <1>7, <2>1 DEF LeaveApp, lifeVars, stashVars
  <2>2. CASE call[t].app \notin App
    <3>1. status' = status
      BY <1>7, <2>2 DEF LeaveApp, MayFinish, TypeOK
    <3>. QED BY <1>3, <1>7, <3>1 DEF LeaveApp, lifeVars, stashVars
  <2>. QED BY <2>1, <2>2
<1>8. ASSUME NEW c \in Conn, OnReadCloseWindow(c) PROVE AbstractStep
  <2>. DEFINE dying == {SlotApp(wid[c])} \cup (IF closing[c] THEN {} ELSE {app[c]})
  <2>1. EmptySlot(wid[c]) /\ Kill(dying) /\ wid' = wid /\ wid[c] \in Window \cup {NoWindow}
    BY <1>8 DEF OnReadCloseWindow, OnRead, TypeOK
  <2>2. app' = IF closing[c] THEN app ELSE [app EXCEPT ![c] = NoApp]
    BY <1>8 DEF OnReadCloseWindow, DropWs, Detach, lifeVars
  <2>3. \A d \in Conn : app'[d] = IF app[d] \in dying THEN NoApp ELSE app[d]
    BY <2>1, <2>2, SlotEmptied DEF SingleOwner, OneSessionPerApp, TypeOK
  <2>4. \A v \in Window : stash'[v] = IF stash[v] \in dying THEN NoApp ELSE stash[v]
    BY <2>1, SlotEmptied DEF SingleOwner, SessionOrSlot
  <2>. HIDE DEF dying
  <2>. QED BY <2>1, <2>3, <2>4, StepDestroys
<1>9. ASSUME NEW c \in Conn, Destruct(c) PROVE AbstractStep
  <2>1. /\ app' = [app EXCEPT ![c] = NoApp] /\ Kill({app[c]}) /\ stash' = stash /\ wid' = wid
    BY <1>9 DEF Destruct, stashVars
  <2>2. \A d \in Conn : app'[d] = IF app[d] \in {app[c]} THEN NoApp ELSE app[d]
    BY <2>1 DEF SingleOwner, OneSessionPerApp, TypeOK
  <2>3. \A v \in Window : stash'[v] = IF stash[v] \in {app[c]} THEN NoApp ELSE stash[v]
    BY <2>1 DEF SingleOwner, SessionOrSlot
  <2>. QED BY <2>1, <2>2, <2>3, StepDestroys
<1>10. ASSUME NEW a \in App, AppNext(a) PROVE AbstractStep
  <2>1. app' = app /\ stash' = stash /\ wid' = wid
    BY <1>10 DEF AppNext, AppOutput, AppOutputDangling, AppExits, stateVars, lifeVars,
                 stashVars
  <2>2. status' = status \/ MayFinish(a)
    BY <1>10 DEF AppNext, AppOutput, AppOutputDangling, AppExits, stateVars, MayFinish
  <2>. QED BY <1>3, <2>1, <2>2
<1>11. ASSUME NEW c \in Conn,
              \/ Accept(c) \/ Refuse(c) \/ PlainHttp(c) \/ Upgrade(c)
              \/ MsgArrives(c) \/ PeerGone(c)
              \/ OnReadAsyncNoApp(c) \/ OnReadLegacy(c) \/ TaskStart(c)
              \/ TaskStartNoApp(c) \/ PostResults(c) \/ TurnEndNoApp(c) \/ Ping(c)
       PROVE  AbstractStep
  <2>1. app' = app /\ stash' = stash /\ status' = status /\ wid' = wid
    BY <1>11
       DEF Accept, Refuse, PlainHttp, Upgrade, MsgArrives, PeerGone, OnReadAsyncNoApp,
           OnReadLegacy, OnRead, TaskStart, TaskStartNoApp, PostResults,
           TurnEndNoApp, Ping, stateVars, lifeVars, stashVars
  <2>. QED BY <1>3, <2>1
<1>12. ASSUME NEW w \in Window, StashAges(w) PROVE AbstractStep
  BY <1>3, <1>12 DEF StashAges, lifeVars
<1>13. ASSUME NEW t \in Caller, (\E c \in Conn : FindSession(t, c)) \/ EnterApp(t)
       PROVE  AbstractStep
  BY <1>3, <1>13 DEF FindSession, EnterApp, lifeVars, stashVars
<1>14. CASE UNCHANGED vars
  BY <1>3, <1>14 DEF vars, stateVars, lifeVars, stashVars
<1>. QED
  BY <1>1, <1>4, <1>5, <1>6, <1>7, <1>8, <1>9, <1>10, <1>11, <1>12, <1>13, <1>14
     DEF Next, ConnNext, HandleMsg, Tick, PoolStep, CallerNext

\* Session implements AppOwnership: under sockets that break, heartbeats,
\* pool tasks and callers, an app instance is created once, keeps its window,
\* moves between one session and one slot, and is destroyed once.
THEOREM Implements == Spec => OwnershipSpec
<1>1. Init => Ownership!Init
  <2>. SUFFICES ASSUME Init PROVE Ownership!Init
    OBVIOUS
  <2>1. \A a \in App : status[a] = "unborn"
    BY DEF Init
  <2>2. Mapped
    BY OwnInvInit, MappedHolds
  <2>3. AppHolder = [a \in App |-> Unborn]
    BY <2>1, <2>2 DEF Mapped
  <2>. QED BY <2>3 DEF Ownership!Init, Unborn
<1>2. OwnInv /\ OwnInv' /\ [Next]_vars => [Ownership!Next]_AppHolder
  BY NextImplements DEF AbstractStep
<1>. QED BY OwnInvInit, OwnInvNext, <1>1, <1>2, PTL DEF Spec, OwnershipSpec, Ownership!Spec
=============================================================================
