------------------------- MODULE AgentServerProofs --------------------------
(***************************************************************************)
(* Proofs about the agent app: its types, that it serialises the turns of  *)
(* a conversation, and that the history it sends is complete, for any      *)
(* number of messages, tool calls and announcements.                       *)
(***************************************************************************)
EXTENDS AgentServer, TLAPS

Call == Turn \X (1 .. 2) \X Nat

Entry ==
    [role : {"user"}, n : Nat] \cup [role : {"assistant"}, calls : Seq(Call)]
        \cup [role : {"tool"}, call : Call] \cup [role : {"state"}]

Types ==
    /\ history \in Seq(Entry) /\ queue \in Seq(Nat)
    /\ turn \in Nat /\ current \in 0 .. turn
    /\ ends \in [Turn -> 0 .. 2] /\ calls \in [Turn -> Nat]
    /\ phase \in [Handler -> Phase] /\ todo \in [Handler -> Seq(Call)]
    /\ sent \in 0 .. MaxInput /\ input \in {"idle", "queue", "begin"}

\* Every message was taken by a turn, was dropped, or waits; only a turn that
\* began has a request that ends.
Numbered ==
    /\ turn + Len(queue) + (IF input = "idle" THEN 0 ELSE 1) <= sent
    /\ \A t \in Turn : t > turn => ends[t] = 0

\* A handler has calls to run while it runs them; one that was set off belongs
\* to an end of its turn's request.
HandlersSound ==
    /\ \A h \in Handler : (todo[h] # <<>>) <=> (phase[h] \in {"tools", "tools2"})
    /\ \A h \in Handler : phase[h] # "none" => key /\ h[2] <= ends[h[1]]

AgentType ==
    /\ Types /\ Numbered /\ HandlersSound
    /\ app \in {"alive", "stopped", "destroyed"}
    /\ app = "destroyed" => ~subscribed
    /\ app # "alive" => cancelled

OneAtATime     == \A t, u \in Turn : Busy(t) /\ Busy(u) => t = u
UnderStreaming == (\E t \in Turn : Busy(t)) => streaming
QueueKept      == queue # <<>> => streaming \/ \E h \in Handler : phase[h] = "dequeue"

AskedInOrder ==
    /\ {history[p].n : p \in Asked} = 1 .. turn
    /\ \A p, q \in Asked : p < q => history[p].n < history[q].n

WaitingInOrder ==
    /\ turn + Len(queue) + (IF input = "idle" THEN 0 ELSE 1) = sent
    /\ \A i \in 1 .. Len(queue) : queue[i] = turn + i

\* At most one handler is about to take from the queue, and streaming_ is free
\* as long as it has not.
OneDequeues ==
    \A h \in Handler : phase[h] = "dequeue" =>
        /\ ~streaming
        /\ \A g \in Handler : phase[g] = "dequeue" => g = h

\* What Serialised says of an undisturbed conversation, and what it rests on.
Orderly ==
    OneAtATime /\ UnderStreaming /\ QueueKept /\ AskedInOrder /\ WaitingInOrder
        /\ OneDequeues

AgentInv == AgentType /\ (Undisturbed => Orderly) /\ CallsAnswered

-----------------------------------------------------------------------------
(* Lemmas about logs.                                                      *)

\* What a log lacks nothing of, it lacks nothing of with one more entry that is
\* neither an answer nor a result, before the results that are due.
LEMMA CompleteInsert ==
    ASSUME NEW S, NEW a \in Seq(S), NEW b \in Seq(S), NEW m \in S,
           \/ m.role = "state"
           \/ m.role = "user" /\ b = <<>>,
           Complete(a \o b)
    PROVE  Complete(Append(a, m) \o b)
<1>. DEFINE log == a \o b
            new == Append(a, m) \o b
            L == Len(a)
            up(p) == IF p <= L THEN p ELSE p + 1
<1>1. /\ log \in Seq(S) /\ new \in Seq(S)
      /\ L \in Nat /\ Len(new) = Len(log) + 1 /\ L <= Len(log)
      /\ DOMAIN log = 1 .. Len(log) /\ DOMAIN new = 1 .. Len(new)
      /\ Len(log) \in Nat
  OBVIOUS
<1>2. \A p \in DOMAIN log : up(p) \in DOMAIN new /\ new[up(p)] = log[p]
  OBVIOUS
<1>3. new[L + 1] = m
  OBVIOUS
<1>4. \A q \in DOMAIN new : q # L + 1 => \E p \in DOMAIN log : q = up(p)
  <2>. TAKE q \in DOMAIN new
  <2>1. CASE q <= L
    BY <2>1, <1>1
  <2>2. CASE q > L + 1
    <3>1. q - 1 \in DOMAIN log /\ up(q - 1) = q
      BY <2>2, <1>1
    <3>. QED BY <3>1
  <2>. QED BY <2>1, <2>2, <1>1
<1>5. b # <<>> => m.role = "state"
  OBVIOUS
<1>6. Len(log) > L => m.role = "state"
  BY <1>5
<1>7. Complete(log)
  OBVIOUS
<1>. HIDE DEF log, new, L
<1>8. ASSUME NEW i \in DOMAIN log, NEW q \in DOMAIN log, Follows(log, i, q)
      PROVE  Follows(new, up(i), up(q))
  <2>1. up(i) < up(q) /\ new[up(i)].role = "assistant"
    BY <1>1, <1>2, <1>8 DEF Follows
  <2>2. ASSUME NEW r \in up(i) + 1 .. up(q) PROVE new[r].role \in {"tool", "state"}
    <3>1. r \in DOMAIN new
      BY <1>1, <1>2, <1>8, <2>2 DEF Follows
    <3>2. CASE r = L + 1
      BY <3>2, <1>1, <1>3, <1>6, <2>2
    <3>3. CASE r # L + 1
      <4>1. PICK p \in DOMAIN log : r = up(p)
        BY <3>1, <3>3, <1>4
      <4>2. p \in i + 1 .. q
        BY <4>1, <2>2, <1>1
      <4>. QED BY <4>1, <4>2, <1>2, <1>8 DEF Follows
    <3>. QED BY <3>2, <3>3
  <2>. QED BY <2>1, <2>2 DEF Follows
<1>9. ASSUME NEW i \in DOMAIN new, new[i].role = "assistant", NEW j \in DOMAIN new[i].calls
      PROVE  \E q \in DOMAIN new : Follows(new, i, q) /\ new[q] = ToolResult(new[i].calls[j])
  <2>1. i # L + 1
    BY <1>3, <1>9
  <2>2. PICK p \in DOMAIN log : i = up(p)
    BY <2>1, <1>4
  <2>3. PICK q \in DOMAIN log : Follows(log, p, q) /\ log[q] = ToolResult(log[p].calls[j])
    BY <2>2, <1>2, <1>7, <1>9 DEF Complete
  <2>. QED BY <2>2, <2>3, <1>2, <1>8
<1>10. ASSUME NEW q \in DOMAIN new, new[q].role = "tool"
       PROVE  \E i \in DOMAIN new :
                /\ Follows(new, i, q)
                /\ \E j \in DOMAIN new[i].calls :
                     /\ new[q].call = new[i].calls[j]
                     /\ \A r \in i + 1 .. q - 1 : new[r].role = "tool" =>
                          \E k \in 1 .. j - 1 : new[r].call = new[i].calls[k]
  <2>1. q # L + 1
    BY <1>3, <1>10
  <2>2. PICK p \in DOMAIN log : q = up(p)
    BY <2>1, <1>4
  <2>3. PICK i \in DOMAIN log :
           /\ Follows(log, i, p)
           /\ \E j \in DOMAIN log[i].calls :
                     /\ log[p].call = log[i].calls[j]
                     /\ \A r \in i + 1 .. p - 1 : log[r].role = "tool" =>
                          \E k \in 1 .. j - 1 : log[r].call = log[i].calls[k]
    BY <2>2, <1>2, <1>7, <1>10 DEF Complete
  <2>4. PICK j \in DOMAIN log[i].calls :
                     /\ log[p].call = log[i].calls[j]
                     /\ \A r \in i + 1 .. p - 1 : log[r].role = "tool" =>
                          \E k \in 1 .. j - 1 : log[r].call = log[i].calls[k]
    BY <2>3
  <2>5. ASSUME NEW r \in up(i) + 1 .. q - 1, new[r].role = "tool"
        PROVE  \E k \in 1 .. j - 1 : new[r].call = log[i].calls[k]
    <3>1. r # L + 1 /\ r \in DOMAIN new
      BY SMTT(20), <1>1, <1>2, <1>3, <2>5
    <3>2. PICK s \in DOMAIN log : r = up(s)
      BY <3>1, <1>4
    <3>3. s \in i + 1 .. p - 1
      BY SMTT(20), <3>2, <2>5, <2>2, <1>1
    <3>. QED BY <3>2, <3>3, <2>4, <2>5, <1>2
  <2>6. Follows(new, up(i), q) /\ up(i) \in DOMAIN new /\ new[up(i)] = log[i]
    BY <2>2, <2>3, <1>2, <1>8
  <2>. QED BY <2>2, <2>4, <2>5, <2>6, <1>2
<1>. QED
  BY <1>9, <1>10 DEF Complete, new

\* An answer with all its results completes a complete log.
LEMMA CompleteAnswer ==
    ASSUME NEW log \in Seq(Entry), NEW s \in Seq(Call), Complete(log)
    PROVE  Complete(Append(log, Assistant(s)) \o Results(s))
<1>. DEFINE new == Append(log, Assistant(s)) \o Results(s)
            L == Len(log)
<1>1. Results(s) \in Seq(Entry) /\ Len(Results(s)) = Len(s)
  BY DEF Results, ToolResult, Entry
<1>2. Assistant(s) \in Entry
  BY DEF Assistant, Entry
<1>3. /\ L \in Nat /\ Len(s) \in Nat /\ Len(new) = L + 1 + Len(s)
      /\ DOMAIN new = 1 .. Len(new) /\ DOMAIN log = 1 .. L /\ DOMAIN s = 1 .. Len(s)
      /\ new \in Seq(Entry)
  BY <1>1, <1>2
<1>4. \A p \in DOMAIN log : new[p] = log[p]
  BY <1>1, <1>2
<1>5. new[L + 1] = Assistant(s)
  BY <1>1, <1>2
<1>6. \A j \in DOMAIN s : new[L + 1 + j] = ToolResult(s[j])
  BY <1>1, <1>2 DEF Results
<1>. HIDE DEF new, L
<1>7. ASSUME NEW q \in L + 2 .. Len(new)
      PROVE  /\ q - L - 1 \in DOMAIN s /\ q \in DOMAIN new
             /\ new[q].role = "tool" /\ new[q].call = s[q - L - 1]
  <2>1. q - L - 1 \in DOMAIN s /\ L + 1 + (q - L - 1) = q /\ q \in DOMAIN new
    BY <1>3
  <2>2. new[q] = ToolResult(s[q - L - 1])
    BY <2>1, <1>6
  <2>. QED BY <2>1, <2>2 DEF ToolResult
<1>8. ASSUME NEW q \in L + 2 .. Len(new) PROVE Follows(new, L + 1, q)
  <2>1. new[L + 1].role = "assistant"
    BY <1>5 DEF Assistant
  <2>2. ASSUME NEW r \in L + 1 + 1 .. q PROVE new[r].role = "tool"
    <3>1. r \in L + 2 .. Len(new)
      BY <1>3, <2>2
    <3>. QED BY <3>1, <1>7
  <2>. QED BY <2>1, <2>2, <1>3 DEF Follows
<1>9. ASSUME NEW i \in DOMAIN log, NEW q \in DOMAIN log
      PROVE  Follows(log, i, q) <=> Follows(new, i, q)
  <2>1. \A r \in i + 1 .. q : r \in DOMAIN log
    BY <1>3
  <2>. QED BY <2>1, <1>4 DEF Follows
<1>10. ASSUME NEW i \in DOMAIN new, new[i].role = "assistant",
              NEW j \in DOMAIN new[i].calls
       PROVE  \E q \in DOMAIN new :
                 Follows(new, i, q) /\ new[q] = ToolResult(new[i].calls[j])
  <2>1. CASE i \in DOMAIN log
    <3>1. PICK q \in DOMAIN log : Follows(log, i, q) /\ log[q] = ToolResult(log[i].calls[j])
      BY <2>1, <1>4, <1>10 DEF Complete
    <3>. QED BY <3>1, <2>1, <1>3, <1>4, <1>9
  <2>2. CASE i = L + 1
    <3>1. j \in DOMAIN s /\ new[i].calls = s
      BY <2>2, <1>5, <1>10 DEF Assistant
    <3>2. L + 1 + j \in L + 2 .. Len(new)
      BY <3>1, <1>3
    <3>. QED BY <3>1, <3>2, <2>2, <1>3, <1>6, <1>8
  <2>3. CASE i \in L + 2 .. Len(new)
    BY <2>3, <1>7, <1>10
  <2>. QED BY <2>1, <2>2, <2>3, <1>3
<1>11. ASSUME NEW q \in DOMAIN new, new[q].role = "tool"
       PROVE  \E i \in DOMAIN new :
                /\ Follows(new, i, q)
                /\ \E j \in DOMAIN new[i].calls :
                     /\ new[q].call = new[i].calls[j]
                     /\ \A r \in i + 1 .. q - 1 : new[r].role = "tool" =>
                          \E k \in 1 .. j - 1 : new[r].call = new[i].calls[k]
  <2>1. CASE q \in DOMAIN log
    <3>1. PICK i \in DOMAIN log :
                /\ Follows(log, i, q)
                /\ \E j \in DOMAIN log[i].calls :
                     /\ log[q].call = log[i].calls[j]
                     /\ \A r \in i + 1 .. q - 1 : log[r].role = "tool" =>
                          \E k \in 1 .. j - 1 : log[r].call = log[i].calls[k]
      BY <2>1, <1>4, <1>11 DEF Complete
    <3>2. \A r \in i + 1 .. q - 1 : r \in DOMAIN log
      BY <2>1, <1>3
    <3>3. Follows(new, i, q) /\ i \in DOMAIN new /\ new[i] = log[i] /\ new[q] = log[q]
      BY <3>1, <2>1, <1>3, <1>4, <1>9
    <3>4. \A r \in i + 1 .. q - 1 : new[r] = log[r]
      BY <3>2, <1>4
    <3>. QED BY SMTT(20), <3>1, <3>3, <3>4
  <2>2. CASE q = L + 1
    BY <2>2, <1>5, <1>11 DEF Assistant
  <2>3. CASE q \in L + 2 .. Len(new)
    <3>. DEFINE j == q - L - 1
    <3>1. j \in DOMAIN s /\ new[q].call = s[j] /\ new[L + 1].calls = s
      BY <2>3, <1>5, <1>7 DEF Assistant
    <3>2. ASSUME NEW r \in L + 2 .. q - 1
          PROVE  r - L - 1 \in 1 .. j - 1 /\ new[r].call = s[r - L - 1]
      <4>1. r \in L + 2 .. Len(new)
        BY <3>2, <2>3, <1>3
      <4>. QED BY <4>1, <2>3, <3>2, <1>3, <1>7
    <3>3. L + 1 \in DOMAIN new /\ Follows(new, L + 1, q)
      BY <2>3, <1>3, <1>8
    <3>4. L + 1 + 1 = L + 2
      BY <1>3
    <3>. HIDE DEF j
    <3>. QED BY <3>1, <3>2, <3>3, <3>4
  <2>4. q \in DOMAIN log \/ q = L + 1 \/ q \in L + 2 .. Len(new)
    BY SMTT(20), <1>3
  <2>. QED BY <2>1, <2>2, <2>3, <2>4
<1>. QED
  BY <1>10, <1>11 DEF Complete, new

LEMMA CompleteEmpty == Complete(<<>>)
BY DEF Complete

LEMMA ResultsType ==
    ASSUME NEW s \in Seq(Call)
    PROVE  Results(s) \in Seq(Entry) /\ Len(Results(s)) = Len(s)
BY DEF Results, ToolResult, Entry

\* Running the first call of those due moves its result to the history.
LEMMA ResultsMove ==
    ASSUME NEW log \in Seq(Entry), NEW s \in Seq(Call), s # <<>>
    PROVE  Append(log, ToolResult(Head(s))) \o Results(Tail(s)) = log \o Results(s)
<1>. DEFINE x == Append(log, ToolResult(Head(s))) \o Results(Tail(s))
            y == log \o Results(s)
<1>1. ToolResult(Head(s)) \in Entry /\ Tail(s) \in Seq(Call) /\ Len(Tail(s)) = Len(s) - 1
  BY DEF ToolResult, Entry
<1>2. /\ Results(s) \in Seq(Entry) /\ Len(Results(s)) = Len(s)
      /\ Results(Tail(s)) \in Seq(Entry) /\ Len(Results(Tail(s))) = Len(s) - 1
  BY <1>1, ResultsType
<1>3. x \in Seq(Entry) /\ y \in Seq(Entry) /\ Len(x) = Len(y)
  <2>1. /\ Append(log, ToolResult(Head(s))) \in Seq(Entry)
        /\ Len(Append(log, ToolResult(Head(s)))) = Len(log) + 1
    BY <1>1
  <2>2. x \in Seq(Entry) /\ Len(x) = Len(log) + 1 + (Len(s) - 1)
    BY SMTT(20), <1>2, <2>1
  <2>3. y \in Seq(Entry) /\ Len(y) = Len(log) + Len(s)
    BY SMTT(20), <1>2
  <2>. QED BY <2>2, <2>3
<1>4. ASSUME NEW p \in 1 .. Len(y) PROVE x[p] = y[p]
  <2>1. CASE p <= Len(log)
    BY <2>1, <1>1, <1>2
  <2>2. CASE p = Len(log) + 1
    BY <2>2, <1>1, <1>2 DEF Results
  <2>3. CASE p > Len(log) + 1
    <3>1. p - Len(log) - 1 \in DOMAIN Tail(s) /\ p - Len(log) \in DOMAIN s
      BY <2>3, <1>1, <1>2
    <3>2. x[p] = ToolResult(Tail(s)[p - Len(log) - 1])
      BY <2>3, <3>1, <1>1, <1>2 DEF Results
    <3>3. y[p] = ToolResult(s[p - Len(log)])
      BY <2>3, <3>1, <1>1, <1>2 DEF Results
    <3>4. Tail(s)[p - Len(log) - 1] = s[p - Len(log)]
      BY <3>1
    <3>. QED BY <3>2, <3>3, <3>4
  <2>. QED BY <2>1, <2>2, <2>3, <1>2
<1>. HIDE DEF x, y
<1>5. x = y
  BY <1>3, <1>4
<1>. QED BY <1>5 DEF x, y

-----------------------------------------------------------------------------
(* Type correctness.                                                       *)

LEMMA CallIdsType ==
    ASSUME NEW t \in Turn, NEW a \in 1 .. 2, NEW n \in Nat
    PROVE  CallIds(t, a, n) \in Seq(Call) /\ (CallIds(t, a, n) = <<>> <=> n = 0)
BY DEF CallIds, Call

LEMMA InitType == Init => AgentType
<1>. SUFFICES ASSUME Init PROVE AgentType
  OBVIOUS
<1>1. \A h \in Handler : phase[h] = "none" /\ todo[h] = <<>>
  BY DEF Init
<1>2. Types
  BY AgentAssumption DEF Init, Types, Phase
<1>3. Numbered
  BY DEF Init, Numbered
<1>. QED BY <1>1, <1>2, <1>3 DEF Init, AgentType, HandlersSound

LEMMA StepType == AgentType /\ [Next]_vars => AgentType'
<1>. SUFFICES ASSUME AgentType, [Next]_vars PROVE AgentType'
  OBVIOUS
<1>. USE AgentAssumption DEF configVars, turnVars, answerVars, handlerVars, inputVars,
                             lifeVars
<1>1. CASE SetOutput
  BY <1>1 DEF SetOutput, AgentType, Types, Numbered, HandlersSound
<1>2. CASE OnInput
  BY <1>2 DEF OnInput, AgentType, Types, Numbered, HandlersSound
<1>3. CASE Enqueue
  BY <1>3 DEF Enqueue, AgentType, Types, Numbered, HandlersSound
<1>4. CASE Begin
  <2>1. User(sent) \in Entry
    BY DEF User, Entry, AgentType, Types
  <2>2. Types'
    BY <1>4, <2>1 DEF Begin, HandleUserMessage, AgentType, Types
  <2>3. Numbered'
    BY <1>4 DEF Begin, HandleUserMessage, AgentType, Types, Numbered, Turn
  <2>4. HandlersSound'
    BY <1>4 DEF Begin, AgentType, HandlersSound
  <2>. QED
    BY <1>4, <2>2, <2>3, <2>4 DEF Begin, AgentType
<1>5. CASE StopInput \/ Destroy
  <2>1. Stop /\ app' # "destroyed"
    BY <1>5 DEF StopInput, Destroy
  <2>2. Types' /\ HandlersSound'
    BY <2>1 DEF Stop, AgentType, Types, HandlersSound
  <2>3. Numbered'
    BY <2>1 DEF Stop, AgentType, Types, Numbered
  <2>. QED BY <1>5, <2>2, <2>3 DEF AgentType, StopInput, Destroy, Stop
<1>6. CASE Unsubscribe
  BY <1>6 DEF Unsubscribe, AgentType, Types, Numbered, HandlersSound
<1>7. CASE Announce
  <2>1. State \in Entry
    BY DEF State, Entry
  <2>. QED
    BY <1>7, <2>1 DEF Announce, AgentType, Types, Numbered, HandlersSound
<1>8. ASSUME NEW t \in Turn, StreamEnds(t) PROVE AgentType'
  <2>. DEFINE h == <<t, ends[t] + 1>>
  <2>1. /\ t <= turn /\ key /\ ends[t] \in {0, 1} /\ h \in Handler
        /\ h[1] = t /\ h[2] = ends[t] + 1 /\ todo[h] = <<>>
    <3>1. t <= turn /\ key /\ ends[t] \in 0 .. 2 /\ ends[t] # 2
      BY <1>8 DEF StreamEnds, CanEnd, AgentType, Types
    <3>2. ends[t] \in {0, 1} /\ ends[t] + 1 \in 1 .. 2
      BY <3>1
    <3>3. h \in Handler /\ h[1] = t /\ h[2] = ends[t] + 1
      BY <3>2 DEF Handler
    <3>4. phase[h] = "none"
      BY <3>2, <3>3 DEF AgentType, HandlersSound
    <3>5. todo[h] = <<>>
      BY <3>3, <3>4 DEF AgentType, HandlersSound
    <3>. QED BY <3>1, <3>2, <3>3, <3>5
  <2>2. /\ ends' = [ends EXCEPT ![t] = @ + 1]
        /\ UNCHANGED <<queue, turn, current, sent, input, app, subscribed, key, cancelled>>
    BY <1>8 DEF StreamEnds
  <2>3. ends' \in [Turn -> 0 .. 2] /\ ends'[t] = ends[t] + 1
    BY <2>1, <2>2 DEF AgentType, Types
  <2>4. Numbered'
    BY <2>1, <2>2, <2>3 DEF AgentType, Types, Numbered, Turn
  <2>5. \E p \in Phase :
           /\ Goto(h, p) /\ p # "none"
           /\ history' \in Seq(Entry) /\ calls' \in [Turn -> Nat]
           /\ todo' \in [Handler -> Seq(Call)]
           /\ \A g \in Handler \ {h} : todo'[g] = todo[g]
           /\ (todo'[h] # <<>>) <=> (p \in {"tools", "tools2"})
    <3>1. CASE cancelled
      BY <1>8, <2>1, <3>1 DEF StreamEnds, AgentType, Types, Phase
    <3>2. CASE ~cancelled
      <4>1. PICK n \in calls[t] .. MaxCall :
             /\ calls' = [calls EXCEPT ![t] = n]
             /\ history' = Append(history, Assistant(CallIds(t, 1, n)))
             /\ todo' = [todo EXCEPT ![h] = CallIds(t, 1, n)]
             /\ Goto(h, IF n = 0 THEN "release" ELSE "tools")
        BY <1>8, <3>2 DEF StreamEnds
      <4>2. n \in Nat
        BY DEF AgentType, Types
      <4>3. CallIds(t, 1, n) \in Seq(Call) /\ (CallIds(t, 1, n) = <<>> <=> n = 0)
        BY <4>2, CallIdsType
      <4>4. Assistant(CallIds(t, 1, n)) \in Entry
        BY <4>3 DEF Assistant, Entry
      <4>5. /\ history' \in Seq(Entry) /\ calls' \in [Turn -> Nat]
            /\ todo' \in [Handler -> Seq(Call)]
            /\ \A g \in Handler \ {h} : todo'[g] = todo[g]
            /\ todo'[h] = CallIds(t, 1, n)
        BY <4>1, <4>2, <4>3, <4>4, <2>1 DEF AgentType, Types
      <4>. HIDE DEF h
      <4>6. CASE n = 0
        BY <4>1, <4>3, <4>5, <4>6 DEF Phase
      <4>7. CASE n # 0
        BY <4>1, <4>3, <4>5, <4>7 DEF Phase
      <4>. QED BY <4>6, <4>7
    <3>. QED BY <3>1, <3>2
  <2>6. PICK p \in Phase :
           /\ Goto(h, p) /\ p # "none"
           /\ history' \in Seq(Entry) /\ calls' \in [Turn -> Nat]
           /\ todo' \in [Handler -> Seq(Call)]
           /\ \A g \in Handler \ {h} : todo'[g] = todo[g]
           /\ (todo'[h] # <<>>) <=> (p \in {"tools", "tools2"})
    BY <2>5
  <2>. HIDE DEF h
  <2>7. /\ phase' \in [Handler -> Phase] /\ phase'[h] = p
        /\ \A g \in Handler \ {h} : phase'[g] = phase[g]
    BY <2>1, <2>6 DEF Goto, AgentType, Types
  <2>8. Types'
    BY <2>2, <2>3, <2>6, <2>7 DEF AgentType, Types
  <2>9. HandlersSound'
    <3>. SUFFICES ASSUME NEW g \in Handler
                  PROVE  /\ (todo'[g] # <<>>) <=> (phase'[g] \in {"tools", "tools2"})
                         /\ phase'[g] # "none" => key' /\ g[2] <= ends'[g[1]]
      BY DEF HandlersSound
    <3>1. CASE g = h
      BY <3>1, <2>1, <2>2, <2>3, <2>6, <2>7
    <3>2. CASE g # h
      <4>1. (todo'[g] # <<>>) <=> (phase'[g] \in {"tools", "tools2"})
        BY <3>2, <2>6, <2>7 DEF AgentType, HandlersSound
      <4>2. g[1] \in Turn /\ g[2] \in 1 .. 2 /\ ends[g[1]] \in 0 .. 2 /\ ends'[g[1]] >= ends[g[1]]
        BY <2>2, <2>3 DEF Handler, AgentType, Types
      <4>. QED BY <4>1, <4>2, <3>2, <2>2, <2>3, <2>7 DEF AgentType, HandlersSound
    <3>. QED BY <3>1, <3>2
  <2>. QED BY <2>2, <2>4, <2>8, <2>9 DEF AgentType
<1>9. ASSUME NEW h \in Handler, RunTool(h) PROVE AgentType'
  <2>1. todo[h] \in Seq(Call) /\ todo[h] # <<>>
    BY <1>9 DEF RunTool, AgentType, Types, HandlersSound
  <2>2. /\ ToolResult(Head(todo[h])) \in Entry
        /\ Tail(todo[h]) \in Seq(Call) /\ Len(Tail(todo[h])) = Len(todo[h]) - 1
    BY <2>1 DEF ToolResult, Entry
  <2>3. Tail(todo[h]) # <<>> <=> Len(todo[h]) > 1
    <3>1. \A s \in Seq(Call) : s # <<>> <=> Len(s) > 0
      OBVIOUS
    <3>2. Tail(todo[h]) # <<>> <=> Len(Tail(todo[h])) > 0
      BY <2>2, <3>1
    <3>3. Len(todo[h]) \in Nat
      BY <2>1
    <3>. QED BY <2>2, <3>2, <3>3
  <2>4. Types'
    <3>1. history' \in Seq(Entry) /\ todo' \in [Handler -> Seq(Call)]
      BY <1>9, <2>2 DEF RunTool, AgentType, Types
    <3>2. phase' \in [Handler -> Phase]
      BY <1>9 DEF RunTool, AgentType, Types, Goto, Phase
    <3>. QED BY <1>9, <3>1, <3>2 DEF RunTool, AgentType, Types
  <2>5. HandlersSound'
    BY <1>9, <2>3 DEF RunTool, Goto, AgentType, Types, HandlersSound
  <2>6. Numbered'
    BY <1>9 DEF RunTool, AgentType, Numbered
  <2>. QED
    BY <1>9, <2>4, <2>5, <2>6 DEF RunTool, AgentType
<1>10. ASSUME NEW h \in Handler, FollowUp(h) PROVE AgentType'
  BY <1>10 DEF FollowUp, Goto, AgentType, Types, Numbered, HandlersSound, Phase
<1>11. ASSUME NEW h \in Handler, Answered(h) PROVE AgentType'
  <2>1. Numbered'
    BY <1>11 DEF Answered, AgentType, Numbered
  <2>2. CASE Goto(h, "release") /\ UNCHANGED <<history, todo>>
    BY <1>11, <2>1, <2>2 DEF Answered, Goto, AgentType, Types, HandlersSound, Phase
  <2>3. ASSUME NEW n \in 0 .. MaxCall,
               history' = Append(history, Assistant(CallIds(h[1], 2, n))),
               todo' = [todo EXCEPT ![h] = CallIds(h[1], 2, n)],
               Goto(h, IF n = 0 THEN "release" ELSE "tools2")
        PROVE  AgentType'
    <3>1. CallIds(h[1], 2, n) \in Seq(Call) /\ (CallIds(h[1], 2, n) = <<>> <=> n = 0)
      BY CallIdsType DEF Handler
    <3>2. Assistant(CallIds(h[1], 2, n)) \in Entry
      BY <3>1 DEF Assistant, Entry
    <3>3. Types'
      BY <1>11, <2>3, <3>1, <3>2 DEF Answered, AgentType, Types, Goto, Phase
    <3>4. HandlersSound'
      BY <1>11, <2>3, <3>1 DEF Answered, Goto, AgentType, Types, HandlersSound
    <3>. QED
      BY <1>11, <2>1, <3>3, <3>4 DEF Answered, AgentType
  <2>. QED BY <1>11, <2>2, <2>3 DEF Answered
<1>12. ASSUME NEW h \in Handler, Release(h) PROVE AgentType'
  BY <1>12 DEF Release, Goto, AgentType, Types, Numbered, HandlersSound, Phase
<1>13. ASSUME NEW h \in Handler, ProcessNextInQueue(h) PROVE AgentType'
  <2>1. HandlersSound'
    BY <1>13 DEF ProcessNextInQueue, Goto, AgentType, Types, HandlersSound
  <2>2. CASE cancelled \/ queue = <<>>
    BY <1>13, <2>1, <2>2 DEF ProcessNextInQueue, Goto, AgentType, Types, Numbered, Phase
  <2>3. CASE ~cancelled /\ queue # <<>>
    <3>1. Head(queue) \in Nat /\ Tail(queue) \in Seq(Nat) /\ Len(Tail(queue)) = Len(queue) - 1
      BY <2>3 DEF AgentType, Types
    <3>2. User(Head(queue)) \in Entry
      BY <3>1 DEF User, Entry
    <3>3. Types'
      <4>1. phase' \in [Handler -> Phase]
        BY <1>13 DEF ProcessNextInQueue, Goto, AgentType, Types, Phase
      <4>2. /\ HandleUserMessage(Head(queue)) /\ queue' = Tail(queue)
            /\ UNCHANGED <<ends, calls, todo, sent, input>>
        BY <1>13, <2>3 DEF ProcessNextInQueue
      <4>3. turn' \in Nat /\ current' \in 0 .. turn' /\ history' \in Seq(Entry)
        BY <3>2, <4>2 DEF HandleUserMessage, AgentType, Types
      <4>. QED
        BY <3>1, <4>1, <4>2, <4>3 DEF AgentType, Types
    <3>4. Numbered'
      BY SMTT(20), <1>13, <2>3, <3>1
         DEF ProcessNextInQueue, HandleUserMessage, AgentType, Types, Numbered, Turn
    <3>. QED
      BY <1>13, <2>1, <3>3, <3>4 DEF ProcessNextInQueue, AgentType
  <2>. QED BY <2>2, <2>3
<1>14. CASE UNCHANGED vars
  BY <1>14 DEF vars, AgentType, Types, Numbered, HandlersSound
<1>. QED
  BY <1>1, <1>2, <1>3, <1>4, <1>5, <1>6, <1>7, <1>8, <1>9, <1>10, <1>11, <1>12, <1>13,
     <1>14 DEF Next, Strand, Handle

\* The turns, the ends of their requests, the handlers and their calls stay what
\* the code keeps them to, and an app that is gone is not subscribed.
THEOREM TypeCorrect == Spec => []TypeOK
<1>1. AgentType => TypeOK
  <2>. SUFFICES ASSUME AgentType PROVE TypeOK
    OBVIOUS
  <2>1. turn \in 0 .. MaxInput /\ current \in 0 .. turn
    BY AgentAssumption DEF AgentType, Types, Numbered
  <2>2. \A t \in Turn : ends[t] \in 0 .. 2 /\ (t > turn => ends[t] = 0)
    BY DEF AgentType, Types, Numbered
  <2>3. \A h \in Handler : phase[h] \in Phase
    BY DEF AgentType, Types
  <2>. QED BY <2>1, <2>2, <2>3 DEF AgentType, HandlersSound, TypeOK
<1>. QED BY <1>1, InitType, StepType, PTL DEF Spec

-----------------------------------------------------------------------------
(* Serialisation.                                                          *)

\* What it takes to disturb a conversation, nobody takes back.
LEMMA UndisturbedBefore ==
    ASSUME AgentType, [Next]_vars, Undisturbed'
    PROVE  Undisturbed
<1>. USE DEF configVars, turnVars, answerVars, handlerVars, inputVars, lifeVars
<1>1. cancelled => cancelled'
  BY DEF Next, vars, Strand, Handle, SetOutput, OnInput, Enqueue, Begin, StopInput, Stop,
         Destroy, Unsubscribe, Announce, StreamEnds, RunTool, FollowUp, Answered, Release,
         ProcessNextInQueue
<1>2. raced => raced'
  BY DEF Next, vars, Strand, Handle, SetOutput, OnInput, Enqueue, Begin, StopInput, Stop,
         Destroy, Unsubscribe, Announce, StreamEnds, RunTool, FollowUp, Answered, Release,
         ProcessNextInQueue
<1>3. UNCHANGED ends \/ \E t \in Turn : ends' = [ends EXCEPT ![t] = @ + 1]
  BY DEF Next, vars, Strand, Handle, SetOutput, OnInput, Enqueue, Begin, StopInput, Stop,
         Destroy, Unsubscribe, Announce, StreamEnds, RunTool, FollowUp, Answered, Release,
         ProcessNextInQueue
<1>4. \A t \in Turn : ends[t] <= ends'[t] /\ ends[t] \in 0 .. 2 /\ ends'[t] \in Int
  <2>. TAKE u \in Turn
  <2>1. ends[u] \in 0 .. 2
    BY DEF AgentType, Types
  <2>2. ends'[u] = ends[u] \/ ends'[u] = ends[u] + 1
    BY <1>3 DEF AgentType, Types
  <2>. QED BY <2>1, <2>2
<1>. QED BY <1>1, <1>2, <1>4 DEF Undisturbed

\* A handler at work is the first of its turn, and its turn is at work.
LEMMA WorkersBusy ==
    ASSUME AgentType, Undisturbed, NEW h \in Handler, phase[h] # "none"
    PROVE  /\ h[1] \in Turn /\ h[2] = 1 /\ h = <<h[1], 1>>
           /\ ends[h[1]] = 1 /\ h[1] <= turn
           /\ phase[h] \notin {"dequeue", "end"} => Busy(h[1])
<1>1. h[1] \in Turn /\ h[2] \in 1 .. 2 /\ h = <<h[1], h[2]>>
  BY DEF Handler
<1>2. key /\ h[2] <= ends[h[1]] /\ ends[h[1]] \in 0 .. 2 /\ ends[h[1]] < 2
  BY <1>1 DEF AgentType, Types, HandlersSound, Undisturbed
<1>3. h[2] = 1 /\ ends[h[1]] = 1
  BY <1>1, <1>2
<1>4. h[1] <= turn
  BY <1>1, <1>3 DEF AgentType, Types, Numbered, Turn
<1>. QED BY <1>1, <1>2, <1>3, <1>4 DEF Busy

\* Conversely, a turn at work waits for its request or has a handler at work.
LEMMA BusyIs ==
    ASSUME AgentType, Undisturbed, NEW t \in Turn
    PROVE  Busy(t) <=>
              /\ key /\ t <= turn
              /\ \/ ends[t] = 0 /\ (hasIo => current = t)
                 \/ phase[<<t, 1>>] \notin {"none", "dequeue", "end"}
<1>1. <<t, 2>> \in Handler /\ <<t, 2>>[1] = t /\ <<t, 2>>[2] = 2
  BY DEF Handler
<1>2. phase[<<t, 2>>] = "none"
  BY <1>1, WorkersBusy
<1>3. \A k \in 1 .. 2 : k = 1 \/ k = 2
  OBVIOUS
<1>. QED BY <1>2, <1>3 DEF Busy

LEMMA WaitingIs ==
    ASSUME AgentType
    PROVE  (Waiting = [i \in 1 .. sent - turn |-> turn + i]) <=> WaitingInOrder
<1>. DEFINE G == [i \in 1 .. sent - turn |-> turn + i]
            n == Len(queue)
<1>1. /\ turn \in Nat /\ sent \in Nat /\ queue \in Seq(Nat) /\ n \in Nat
      /\ turn + n + (IF input = "idle" THEN 0 ELSE 1) <= sent
      /\ DOMAIN queue = 1 .. n
  BY AgentAssumption DEF AgentType, Types, Numbered
<1>2. CASE input = "idle"
  <2>1. Waiting = queue
    BY <1>1, <1>2 DEF Waiting
  <2>2. ASSUME WaitingInOrder PROVE queue = G
    BY <1>1, <1>2, <2>2 DEF WaitingInOrder
  <2>3. ASSUME queue = G PROVE WaitingInOrder
    <3>1. DOMAIN queue = 1 .. sent - turn
      BY <2>3
    <3>2. n = sent - turn
      BY <1>1, <1>2, <3>1
    <3>3. \A i \in 1 .. n : G[i] = turn + i
      BY <3>2
    <3>4. turn + n = sent
      BY <1>1, <3>2
    <3>5. \A i \in 1 .. Len(queue) : queue[i] = turn + i
      <4>. HIDE DEF G
      <4>. QED BY <2>3, <3>3
    <3>. QED BY <1>1, <1>2, <3>4, <3>5 DEF WaitingInOrder
  <2>. QED BY <2>1, <2>2, <2>3
<1>3. CASE input # "idle"
  <2>1. /\ Waiting = queue \o <<sent>> /\ Len(Waiting) = n + 1
        /\ Waiting[n + 1] = sent /\ \A i \in 1 .. n : Waiting[i] = queue[i]
        /\ Waiting \in Seq(Nat)
    BY <1>1, <1>3 DEF Waiting
  <2>. HIDE DEF n
  <2>2. ASSUME WaitingInOrder PROVE Waiting = G
    <3>1. sent = turn + n + 1 /\ \A i \in 1 .. n : queue[i] = turn + i
      BY <1>3, <2>2 DEF WaitingInOrder, n
    <3>2. ASSUME NEW i \in 1 .. n + 1 PROVE Waiting[i] = turn + i
      <4>1. CASE i = n + 1
        BY <1>1, <2>1, <3>1, <4>1
      <4>2. CASE i # n + 1
        <5>1. i \in 1 .. n
          BY <1>1, <4>2
        <5>. QED BY <2>1, <3>1, <5>1
      <4>. QED BY <4>1, <4>2
    <3>3. sent - turn = n + 1
      BY <1>1, <3>1
    <3>. QED BY SMTT(20), <1>1, <2>1, <3>2, <3>3
  <2>3. ASSUME Waiting = G PROVE WaitingInOrder
    <3>1. DOMAIN Waiting = 1 .. sent - turn
      BY <2>3
    <3>2. n + 1 = sent - turn
      BY <1>1, <1>3, <2>1, <3>1
    <3>3. \A i \in 1 .. n : queue[i] = turn + i
      <4>. TAKE i \in 1 .. n
      <4>1. i \in 1 .. sent - turn
        BY <1>1, <3>2
      <4>2. Waiting[i] = turn + i
        BY <2>3, <4>1
      <4>. QED BY <2>1, <4>2
    <3>. QED BY <1>1, <1>3, <3>2, <3>3 DEF WaitingInOrder, n
  <2>. QED BY <2>2, <2>3
<1>. QED BY <1>2, <1>3

LEMMA SerialisedIs == AgentType => (Serialised <=> (Undisturbed =>
                         OneAtATime /\ UnderStreaming /\ QueueKept /\ AskedInOrder
                             /\ WaitingInOrder))
<1>. SUFFICES ASSUME AgentType
              PROVE  TakenInOrder <=> AskedInOrder /\ WaitingInOrder
  BY DEF Serialised, OneAtATime, UnderStreaming, QueueKept
<1>. QED BY WaitingIs DEF TakenInOrder, AskedInOrder

\* The history's messages are the same when something else is added.
LEMMA AskedSame ==
    ASSUME AgentType, AskedInOrder, NEW m \in Entry, m.role # "user",
           history' = Append(history, m), turn' = turn
    PROVE  AskedInOrder'
<1>1. Asked' = Asked /\ \A p \in Asked : history'[p] = history[p]
  BY DEF AgentType, Types, Asked
<1>. QED BY <1>1 DEF AskedInOrder

LEMMA AskedMore ==
    ASSUME AgentType, AskedInOrder, HandleUserMessage(turn + 1)
    PROVE  AskedInOrder'
<1>. DEFINE L == Len(history)
<1>1. /\ history \in Seq(Entry) /\ L \in Nat /\ turn \in Nat /\ turn' = turn + 1
      /\ User(turn + 1) \in Entry
      /\ history' = Append(history, User(turn + 1))
  BY DEF AgentType, Types, HandleUserMessage, User, Entry
<1>2. /\ Asked' = Asked \cup {L + 1} /\ history'[L + 1].n = turn + 1
      /\ \A p \in Asked : p \in 1 .. L /\ history'[p] = history[p]
  BY <1>1 DEF Asked, User
<1>. HIDE DEF L
<1>3. {history'[p].n : p \in Asked'} = {history[p].n : p \in Asked} \cup {turn + 1}
  BY <1>1, <1>2
<1>4. {history'[p].n : p \in Asked'} = 1 .. turn'
  <2>1. (1 .. turn) \cup {turn + 1} = 1 .. turn + 1
    BY <1>1
  <2>. QED BY <1>1, <1>3, <2>1 DEF AskedInOrder
<1>5. ASSUME NEW p \in Asked', NEW q \in Asked', p < q
      PROVE  history'[p].n < history'[q].n
  <2>1. p # L + 1
    BY <1>1, <1>2, <1>5
  <2>2. p \in Asked /\ history'[p].n \in 1 .. turn
    BY <2>1, <1>2 DEF AskedInOrder
  <2>3. CASE q = L + 1
    <3>1. history'[q].n = turn + 1
      BY <2>3, <1>2
    <3>2. turn \in Nat
      BY <1>1
    <3>. QED BY <2>2, <3>1, <3>2
  <2>4. CASE q # L + 1
    BY <2>2, <2>4, <1>2, <1>5 DEF AskedInOrder
  <2>. QED BY <2>3, <2>4
<1>. QED BY <1>4, <1>5 DEF AskedInOrder

\* A turn begins when none is at work and no handler is about to begin one.
LEMMA TurnBegins ==
    ASSUME AgentType, AgentType', Undisturbed, AskedInOrder,
           \A t \in Turn : ~Busy(t), HandleUserMessage(turn + 1),
           UNCHANGED <<hasIo, key, ends>>,
           \A h \in Handler : phase'[h] \in {phase[h], "end"} /\ phase'[h] # "dequeue"
    PROVE  /\ OneAtATime' /\ UnderStreaming' /\ QueueKept' /\ AskedInOrder'
           /\ OneDequeues'
<1>1. AskedInOrder'
  BY AskedMore
<1>2. UnderStreaming' /\ QueueKept' /\ OneDequeues'
  BY DEF HandleUserMessage, UnderStreaming, QueueKept, OneDequeues
<1>3. ASSUME NEW t \in Turn, Busy(t)' PROVE t = turn + 1
  <2>1. key /\ t <= turn + 1
    BY <1>3 DEF Busy, HandleUserMessage
  <2>2. t \in Nat /\ turn \in Nat
    BY DEF Turn, AgentType, Types
  <2>3. ASSUME t # turn + 1 PROVE FALSE
    <3>1. t <= turn
      BY <2>1, <2>2, <2>3
    <3>2. CASE ends[t] = 0 /\ (hasIo => current' = t)
      <4>1. ~hasIo
        BY <2>1, <2>3, <3>2 DEF HandleUserMessage
      <4>. QED BY <2>1, <3>1, <3>2, <4>1 DEF Busy
    <3>3. ASSUME NEW k \in 1 .. 2, phase'[<<t, k>>] \notin {"none", "dequeue", "end"}
          PROVE  FALSE
      <4>1. <<t, k>> \in Handler
        BY DEF Handler
      <4>2. phase[<<t, k>>] = phase'[<<t, k>>]
        BY <3>3, <4>1
      <4>. QED BY <2>1, <3>1, <3>3, <4>2 DEF Busy
    <3>. QED BY <1>3, <3>2, <3>3 DEF Busy
  <2>. QED BY <2>3
<1>4. OneAtATime'
  BY <1>3 DEF OneAtATime
<1>. QED BY <1>1, <1>2, <1>4

\* A handler at work goes on, or gives its turn up.
LEMMA HandlerGoesOn ==
    ASSUME AgentType, Undisturbed, Orderly, UNCHANGED <<hasIo, key, turn, current>>,
           NEW h \in Handler, h[2] = 1, Busy(h[1]), NEW p, p \notin {"none", "dequeue", "end"},
           Goto(h, p), streaming' \/ streaming' = streaming, UNCHANGED queue,
           \/ UNCHANGED ends
           \/ ends' = [ends EXCEPT ![h[1]] = @ + 1]
    PROVE  OneAtATime' /\ UnderStreaming' /\ QueueKept' /\ OneDequeues'
<1>1. streaming /\ streaming'
  BY DEF Orderly, UnderStreaming, Handler
<1>2. /\ phase'[h] = p /\ \A g \in Handler \ {h} : phase'[g] = phase[g]
      /\ h[1] \in Turn /\ h = <<h[1], 1>>
  BY DEF Goto, AgentType, Types, Handler
<1>3. ASSUME NEW t \in Turn, Busy(t)', t # h[1] PROVE Busy(t)
  <2>1. \A k \in 1 .. 2 : <<t, k>> \in Handler \ {h}
    BY <1>3 DEF Handler
  <2>2. ends'[t] = ends[t]
    BY <1>2, <1>3 DEF AgentType, Types
  <2>. QED BY <1>2, <1>3, <2>1, <2>2 DEF Busy
<1>4. OneAtATime'
  BY <1>2, <1>3 DEF OneAtATime, Orderly
<1>5. OneDequeues'
  BY <1>1, <1>2 DEF OneDequeues, Orderly
<1>. QED BY <1>1, <1>4, <1>5 DEF UnderStreaming, QueueKept

LEMMA SerialStep ==
    ASSUME AgentType, AgentType', [Next]_vars, Undisturbed, Undisturbed', Orderly
    PROVE  Orderly'
<1>. USE DEF configVars, turnVars, answerVars, handlerVars, inputVars, lifeVars
<1>. DEFINE SameTurns == UNCHANGED <<hasIo, key, turn, current, ends, phase>>
<1>1. ASSUME SameTurns
      PROVE  OneAtATime' /\ (streaming' = streaming => UnderStreaming' /\ OneDequeues')
  <2>1. \A t \in Turn : Busy(t)' <=> Busy(t)
    BY <1>1 DEF Busy
  <2>. QED BY <1>1, <2>1 DEF OneAtATime, UnderStreaming, OneDequeues, Orderly
<1>2. CASE SetOutput \/ UNCHANGED vars
  BY <1>1, <1>2 DEF SetOutput, vars, Orderly, QueueKept, AskedInOrder, Asked, WaitingInOrder
<1>3. CASE OnInput
  <2>1. SameTurns /\ streaming' = streaming /\ UNCHANGED <<history, queue>>
    BY <1>3 DEF OnInput
  <2>2. WaitingInOrder'
    BY <1>3 DEF OnInput, Orderly, WaitingInOrder, AgentType, Types
  <2>. QED BY <1>1, <2>1, <2>2 DEF Orderly, QueueKept, AskedInOrder, Asked
<1>4. CASE Enqueue
  <2>1. SameTurns /\ streaming' = streaming /\ UNCHANGED <<history, sent>>
    BY <1>4 DEF Enqueue
  <2>2. streaming
    BY <1>4 DEF Enqueue, Undisturbed
  <2>3. WaitingInOrder'
    <3>1. /\ queue \in Seq(Nat) /\ Len(queue) \in Nat /\ sent \in Nat /\ turn \in Nat
          /\ queue' = Append(queue, sent) /\ turn' = turn /\ sent' = sent
          /\ input = "queue" /\ input' = "idle"
      BY <1>4, AgentAssumption DEF Enqueue, AgentType, Types
    <3>2. turn + Len(queue) + 1 = sent /\ \A i \in 1 .. Len(queue) : queue[i] = turn + i
      BY <3>1 DEF Orderly, WaitingInOrder
    <3>3. /\ Len(queue') = Len(queue) + 1 /\ queue'[Len(queue) + 1] = sent
          /\ \A i \in 1 .. Len(queue) : queue'[i] = queue[i]
      BY <3>1
    <3>4. ASSUME NEW i \in 1 .. Len(queue') PROVE queue'[i] = turn + i
      <4>1. CASE i = Len(queue) + 1
        BY <3>1, <3>2, <3>3, <4>1
      <4>2. CASE i # Len(queue) + 1
        <5>1. i \in 1 .. Len(queue)
          BY <3>1, <3>3, <4>2
        <5>. QED BY <3>2, <3>3, <5>1
      <4>. QED BY <4>1, <4>2
    <3>. QED BY <3>1, <3>2, <3>3, <3>4 DEF WaitingInOrder
  <2>. QED BY <1>1, <2>1, <2>2, <2>3 DEF Orderly, QueueKept, AskedInOrder, Asked
<1>5. CASE Announce
  <2>1. SameTurns /\ UNCHANGED <<streaming, queue, input, sent>>
        /\ history' = Append(history, State)
    BY <1>5 DEF Announce
  <2>2. State \in Entry /\ State.role # "user"
    BY DEF State, Entry
  <2>3. AskedInOrder'
    BY <2>1, <2>2, AskedSame DEF Orderly
  <2>. QED BY <1>1, <2>1, <2>3 DEF Orderly, QueueKept, WaitingInOrder
<1>6. CASE Begin
  <2>1. ~streaming /\ \A h \in Handler : phase[h] # "dequeue"
    BY <1>6 DEF Begin, Undisturbed
  <2>2. queue = <<>>
    BY <2>1 DEF Orderly, QueueKept
  <2>3. sent = turn + 1
    BY <1>6, <2>2 DEF Begin, Orderly, WaitingInOrder, AgentType, Types
  <2>4. \A t \in Turn : ~Busy(t)
    BY <2>1 DEF Orderly, UnderStreaming
  <2>5. HandleUserMessage(turn + 1) /\ UNCHANGED <<hasIo, key, ends, phase, sent, queue>>
        /\ input' = "idle"
    BY <1>6, <2>3 DEF Begin
  <2>6. /\ OneAtATime' /\ UnderStreaming' /\ QueueKept' /\ AskedInOrder' /\ OneDequeues'
    BY <2>1, <2>4, <2>5, TurnBegins DEF Orderly
  <2>7. WaitingInOrder'
    BY <2>2, <2>3, <2>5 DEF WaitingInOrder, HandleUserMessage, AgentType, Types
  <2>. QED BY <2>6, <2>7 DEF Orderly
<1>7. CASE StopInput \/ Destroy \/ Unsubscribe
  BY <1>7 DEF StopInput, Destroy, Stop, Unsubscribe, AgentType, Undisturbed
<1>8. ASSUME NEW t \in Turn, StreamEnds(t) PROVE Orderly'
  <2>1. ends' = [ends EXCEPT ![t] = @ + 1] /\ ends[t] = 0
    <3>1. ends' = [ends EXCEPT ![t] = @ + 1] /\ ends[t] \in 0 .. 2 /\ ends'[t] < 2
      BY <1>8 DEF StreamEnds, Undisturbed, AgentType, Types
    <3>. QED BY <3>1 DEF AgentType, Types
  <2>2. Busy(t)
    BY <1>8, <2>1 DEF StreamEnds, CanEnd, Busy
  <2>. DEFINE h == <<t, 1>>
  <2>3. h \in Handler /\ h[1] = t /\ h[2] = 1
    BY DEF Handler
  <2>4. PICK n \in calls[t] .. MaxCall :
             /\ history' = Append(history, Assistant(CallIds(t, 1, n)))
             /\ Goto(h, IF n = 0 THEN "release" ELSE "tools")
    BY <1>8, <2>1 DEF StreamEnds, Undisturbed
  <2>5. UNCHANGED <<hasIo, key, turn, current, streaming, queue, input, sent>>
    BY <1>8 DEF StreamEnds
  <2>6. OneAtATime' /\ UnderStreaming' /\ QueueKept' /\ OneDequeues'
    <3>. DEFINE p == IF n = 0 THEN "release" ELSE "tools"
    <3>1. p \notin {"none", "dequeue", "end"} /\ Goto(h, p)
      BY <2>4
    <3>. HIDE DEF p, h
    <3>. QED BY <3>1, <2>1, <2>2, <2>3, <2>5, HandlerGoesOn
  <2>7. AskedInOrder'
    <3>1. CallIds(t, 1, n) \in Seq(Call)
      BY AgentAssumption, CallIdsType DEF AgentType, Types
    <3>2. Assistant(CallIds(t, 1, n)) \in Entry /\ Assistant(CallIds(t, 1, n)).role # "user"
      BY <3>1 DEF Assistant, Entry
    <3>. QED BY <3>2, <2>4, <2>5, AskedSame DEF Orderly
  <2>. QED BY <2>5, <2>6, <2>7 DEF Orderly, WaitingInOrder
<1>9. ASSUME NEW h \in Handler, RunTool(h) \/ FollowUp(h) \/ Answered(h) PROVE Orderly'
  <2>1. phase[h] \in {"tools", "tools2", "spawn", "ask"}
    BY <1>9 DEF RunTool, FollowUp, Answered
  <2>2. h[1] \in Turn /\ h[2] = 1 /\ Busy(h[1])
    BY <2>1, WorkersBusy
  <2>3. UNCHANGED <<hasIo, key, turn, current, queue, input, sent, ends>>
    BY <1>9 DEF RunTool, FollowUp, Answered
  <2>4. streaming' \/ streaming' = streaming
    <3>1. streaming
      BY <2>2 DEF Orderly, UnderStreaming
    <3>2. CASE FollowUp(h)
      BY <3>1, <3>2, Zenon DEF FollowUp
    <3>3. CASE RunTool(h) \/ Answered(h)
      BY <3>3 DEF RunTool, Answered
    <3>. QED BY <1>9, <3>2, <3>3
  <2>5. \E p : p \notin {"none", "dequeue", "end"} /\ Goto(h, p)
    <3>1. CASE RunTool(h)
      <4>1. CASE Len(todo[h]) > 1
        <5>1. Goto(h, phase[h])
          BY <3>1, <4>1 DEF RunTool, Goto, AgentType, Types
        <5>. QED BY <2>1, <5>1
      <4>2. CASE ~(Len(todo[h]) > 1)
        BY <3>1, <4>2 DEF RunTool
      <4>. QED BY <4>1, <4>2
    <3>2. CASE FollowUp(h)
      BY <3>2 DEF FollowUp, Undisturbed
    <3>3. CASE Answered(h)
      BY <3>3 DEF Answered
    <3>. QED BY <1>9, <3>1, <3>2, <3>3
  <2>6. OneAtATime' /\ UnderStreaming' /\ QueueKept' /\ OneDequeues'
    BY <2>2, <2>3, <2>4, <2>5, HandlerGoesOn
  <2>7. AskedInOrder'
    <3>1. CASE UNCHANGED history
      BY <2>3, <3>1 DEF Orderly, AskedInOrder, Asked
    <3>2. CASE RunTool(h)
      <4>1. ToolResult(Head(todo[h])) \in Entry /\ ToolResult(Head(todo[h])).role # "user"
        BY <3>2 DEF RunTool, AgentType, Types, HandlersSound, ToolResult, Entry
      <4>. QED BY <2>3, <3>2, <4>1, AskedSame DEF RunTool, Orderly
    <3>3. ASSUME NEW n \in 0 .. MaxCall,
                 history' = Append(history, Assistant(CallIds(h[1], 2, n)))
          PROVE  AskedInOrder'
      <4>1. CallIds(h[1], 2, n) \in Seq(Call)
        BY <2>2, CallIdsType
      <4>2. /\ Assistant(CallIds(h[1], 2, n)) \in Entry
            /\ Assistant(CallIds(h[1], 2, n)).role # "user"
        BY <4>1 DEF Assistant, Entry
      <4>. QED BY <2>3, <3>3, <4>2, AskedSame DEF Orderly
    <3>. QED BY <1>9, <3>1, <3>2, <3>3 DEF FollowUp, Answered
  <2>. QED BY <2>3, <2>6, <2>7 DEF Orderly, WaitingInOrder
<1>10. ASSUME NEW h \in Handler, Release(h) PROVE Orderly'
  <2>1. /\ h[1] \in Turn /\ h = <<h[1], 1>> /\ Busy(h[1]) /\ ends[h[1]] = 1
    BY <1>10, WorkersBusy DEF Release
  <2>2. streaming /\ ~streaming' /\ \A g \in Handler : phase[g] # "dequeue"
    BY <1>10, <2>1 DEF Release, Orderly, UnderStreaming, OneDequeues
  <2>3. UNCHANGED <<hasIo, key, turn, current, queue, input, sent, ends, history>>
    BY <1>10 DEF Release
  <2>4. phase'[h] = "dequeue" /\ \A g \in Handler \ {h} : phase'[g] = phase[g]
    BY <1>10 DEF Release, Goto, AgentType, Types
  <2>5. ASSUME NEW t \in Turn, Busy(t)' PROVE FALSE
    <3>1. t = h[1]
      <4>1. ASSUME t # h[1] PROVE Busy(t)
        <5>1. \A k \in 1 .. 2 : <<t, k>> \in Handler \ {h}
          BY <2>1, <4>1 DEF Handler
        <5>. QED BY <2>3, <2>4, <2>5, <5>1 DEF Busy
      <4>. QED BY <2>1, <4>1 DEF Orderly, OneAtATime
    <3>2. PICK k \in 1 .. 2 : phase'[<<t, k>>] \notin {"none", "dequeue", "end"}
      BY <2>1, <2>3, <2>5, <3>1 DEF Busy
    <3>3. k = 2 /\ <<t, k>> \in Handler /\ <<t, k>> # h /\ <<t, k>>[2] = 2
      BY <2>1, <2>4, <3>1, <3>2 DEF Handler
    <3>. QED BY <2>4, <3>2, <3>3, WorkersBusy
  <2>6. OneAtATime' /\ UnderStreaming' /\ OneDequeues' /\ QueueKept'
    BY <2>2, <2>4, <2>5 DEF OneAtATime, UnderStreaming, OneDequeues, QueueKept
  <2>. QED BY <2>3, <2>6 DEF Orderly, AskedInOrder, Asked, WaitingInOrder
<1>11. ASSUME NEW h \in Handler, ProcessNextInQueue(h) PROVE Orderly'
  <2>1. ~streaming /\ \A g \in Handler : phase[g] = "dequeue" => g = h
    BY <1>11 DEF ProcessNextInQueue, Orderly, OneDequeues
  <2>2. phase'[h] = "end" /\ \A g \in Handler \ {h} : phase'[g] = phase[g]
    BY <1>11 DEF ProcessNextInQueue, Goto, AgentType, Types
  <2>3. \A t \in Turn : ~Busy(t)
    BY <2>1 DEF Orderly, UnderStreaming
  <2>4. UNCHANGED <<hasIo, key, ends, input, sent>>
    BY <1>11 DEF ProcessNextInQueue
  <2>5. \A g \in Handler : phase'[g] \in {phase[g], "end"} /\ phase'[g] # "dequeue"
    BY <2>1, <2>2
  <2>6. CASE queue = <<>>
    <3>1. UNCHANGED <<history, queue, streaming, turn, current>>
      BY <1>11, <2>6 DEF ProcessNextInQueue
    <3>2. \A t \in Turn : ~Busy(t)'
      <4>. SUFFICES ASSUME NEW t \in Turn, Busy(t)' PROVE FALSE
        OBVIOUS
      <4>1. \A k \in 1 .. 2 : <<t, k>> \in Handler
        BY DEF Handler
      <4>. QED BY <2>3, <2>4, <2>5, <3>1, <4>1 DEF Busy
    <3>. QED
      BY <2>4, <2>5, <2>6, <3>1, <3>2
         DEF Orderly, OneAtATime, UnderStreaming, QueueKept, OneDequeues, AskedInOrder,
             Asked, WaitingInOrder
  <2>7. CASE queue # <<>>
    <3>1. HandleUserMessage(Head(queue)) /\ queue' = Tail(queue)
      BY <1>11, <2>7 DEF ProcessNextInQueue, Undisturbed
    <3>2. Head(queue) = turn + 1
      BY <2>7 DEF Orderly, WaitingInOrder, AgentType, Types
    <3>3. /\ OneAtATime' /\ UnderStreaming' /\ QueueKept' /\ AskedInOrder' /\ OneDequeues'
      BY <2>3, <2>4, <2>5, <3>1, <3>2, TurnBegins DEF Orderly
    <3>4. WaitingInOrder'
      <4>1. /\ queue \in Seq(Nat) /\ Len(queue) \in Nat \ {0} /\ turn \in Nat
            /\ turn' = turn + 1
        BY <2>7, <3>1 DEF HandleUserMessage, AgentType, Types
      <4>2. /\ Len(queue') = Len(queue) - 1
            /\ \A i \in 1 .. Len(queue') : queue'[i] = queue[i + 1]
        BY <2>7, <3>1, <4>1
      <4>3. ASSUME NEW i \in 1 .. Len(queue') PROVE queue'[i] = turn' + i
        <5>1. i + 1 \in 1 .. Len(queue)
          BY <4>1, <4>2
        <5>2. queue[i + 1] = turn + (i + 1)
          BY <5>1 DEF Orderly, WaitingInOrder
        <5>. QED BY <4>1, <4>2, <5>2
      <4>. QED BY <2>4, <4>1, <4>2, <4>3 DEF Orderly, WaitingInOrder
    <3>. QED BY <3>3, <3>4 DEF Orderly
  <2>. QED BY <2>6, <2>7
<1>. QED
  BY <1>2, <1>3, <1>4, <1>5, <1>6, <1>7, <1>8, <1>9, <1>10, <1>11
     DEF Next, Strand, Handle

-----------------------------------------------------------------------------
(* Complete histories.                                                     *)

\* Of an undisturbed conversation at most one handler has calls to run.
LEMMA OneOpen ==
    ASSUME AgentType, Undisturbed, Orderly, NEW h \in Open
    PROVE  Open = {h} /\ Due = todo[h]
<1>1. \A g \in Open : g = h
  <2>. TAKE g \in Open
  <2>1. g \in Handler /\ h \in Handler /\ phase[g] # "none" /\ phase[h] # "none"
        /\ phase[g] \notin {"dequeue", "end"} /\ phase[h] \notin {"dequeue", "end"}
    BY DEF Open
  <2>2. Busy(g[1]) /\ Busy(h[1]) /\ g = <<g[1], 1>> /\ h = <<h[1], 1>>
        /\ g[1] \in Turn /\ h[1] \in Turn
    BY <2>1, WorkersBusy
  <2>. QED BY <2>2 DEF Orderly, OneAtATime
<1>2. Open = {h}
  BY <1>1
<1>. QED BY <1>2 DEF Due

LEMMA DueType == AgentType => Due \in Seq(Call)
BY DEF AgentType, Types, Due, Open

LEMMA CompleteStep ==
    ASSUME AgentType, AgentType', [Next]_vars, Undisturbed, Undisturbed', Orderly,
           Orderly', Complete(history \o Results(Due))
    PROVE  Complete(history \o Results(Due))'
<1>. USE DEF configVars, turnVars, answerVars, handlerVars, inputVars, lifeVars
<1>1. history \in Seq(Entry) /\ Due \in Seq(Call) /\ Results(Due) \in Seq(Entry)
  BY DueType, ResultsType DEF AgentType, Types
<1>2. ASSUME UNCHANGED <<history, phase, todo>>
      PROVE  Complete(history \o Results(Due))'
  BY <1>2 DEF Due, Open
<1>3. ASSUME Open = {} PROVE Complete(history)
  <2>1. Due = <<>> /\ Results(Due) = <<>>
    BY <1>3 DEF Due, Results
  <2>2. history \o <<>> = history
    BY <1>1
  <2>. QED BY <2>1, <2>2
<1>4. ASSUME Open' = {}, Complete(history') PROVE Complete(history \o Results(Due))'
  <2>1. Due' = <<>> /\ Results(Due)' = <<>>
    BY <1>4 DEF Due, Results
  <2>2. history' \in Seq(Entry)
    BY DEF AgentType, Types
  <2>3. history' \o <<>> = history'
    BY <2>2
  <2>. QED BY <1>4, <2>1, <2>3
<1>5. CASE SetOutput \/ OnInput \/ Enqueue \/ UNCHANGED vars
  BY <1>2, <1>5 DEF SetOutput, OnInput, Enqueue, vars
<1>6. CASE StopInput \/ Destroy \/ Unsubscribe
  BY <1>6 DEF StopInput, Destroy, Stop, Unsubscribe, AgentType, Undisturbed
<1>7. CASE Announce
  <2>1. history' = Append(history, State) /\ Due' = Due
    BY <1>7 DEF Announce, Due, Open
  <2>2. State \in Entry /\ State.role = "state"
    BY DEF State, Entry
  <2>3. Complete(Append(history, State) \o Results(Due))
    BY <1>1, <2>2, CompleteInsert
  <2>. QED BY <2>1, <2>3 DEF Results
<1>8. ASSUME NEW n, HandleUserMessage(n), n \in Nat, \A t \in Turn : ~Busy(t),
             \A h \in Handler : phase'[h] \in {phase[h], "end"}
      PROVE  Complete(history \o Results(Due))'
  <2>1. Open = {}
    <3>. SUFFICES ASSUME NEW h \in Open PROVE FALSE
      OBVIOUS
    <3>1. h \in Handler /\ phase[h] # "none" /\ phase[h] \notin {"dequeue", "end"}
      BY DEF Open
    <3>. QED BY <1>8, <3>1, WorkersBusy
  <2>2. Open' = {}
    BY <1>8, <2>1 DEF Open
  <2>3. Complete(history \o <<>>) /\ <<>> \in Seq(Entry)
    BY <1>1, <1>3, <2>1
  <2>4. User(n) \in Entry /\ User(n).role = "user"
    BY <1>8 DEF User, Entry
  <2>5. Complete(Append(history, User(n)) \o <<>>)
    BY <1>1, <2>3, <2>4, CompleteInsert
  <2>6. Append(history, User(n)) \o <<>> = Append(history, User(n))
    BY <1>1, <2>4
  <2>. QED BY <1>4, <1>8, <2>2, <2>5, <2>6 DEF HandleUserMessage
<1>9. CASE Begin
  <2>1. ~streaming /\ HandleUserMessage(sent) /\ UNCHANGED phase
    BY <1>9 DEF Begin, Undisturbed
  <2>2. sent \in Nat
    BY AgentAssumption DEF AgentType, Types
  <2>. QED BY <1>8, <2>1, <2>2 DEF Orderly, UnderStreaming
<1>10. ASSUME NEW t \in Turn, NEW h \in Handler, h = <<t, 1>>, Busy(t), h \notin Open,
              NEW s \in Seq(Call), history' = Append(history, Assistant(s)),
              todo' = [todo EXCEPT ![h] = s],
              \/ s = <<>> /\ Goto(h, "release")
              \/ s # <<>> /\ (Goto(h, "tools") \/ Goto(h, "tools2"))
       PROVE  Complete(history \o Results(Due))'
  <2>1. Open = {}
    <3>. SUFFICES ASSUME NEW g \in Open PROVE FALSE
      OBVIOUS
    <3>1. g \in Handler /\ phase[g] # "none" /\ phase[g] \notin {"dequeue", "end"}
      BY DEF Open
    <3>2. g = <<g[1], 1>> /\ g[1] \in Turn /\ Busy(g[1])
      BY <3>1, WorkersBusy
    <3>. QED BY <1>10, <3>2 DEF Orderly, OneAtATime
  <2>2. Complete(Append(history, Assistant(s)) \o Results(s))
    BY <1>1, <1>3, <2>1, CompleteAnswer
  <2>3. CASE s = <<>>
    <3>1. Open' = {}
      BY <1>10, <2>1, <2>3 DEF Open, Goto, AgentType, Types
    <3>2. Results(s) = <<>> /\ Append(history, Assistant(s)) \in Seq(Entry)
      BY <1>1, <2>3 DEF Results, Assistant, Entry
    <3>. QED BY <1>4, <1>10, <2>2, <3>1, <3>2
  <2>4. CASE s # <<>>
    <3>1. Open' = {h} /\ todo'[h] = s
      BY SMTT(20), ZenonT(40), <1>10, <2>1, <2>4 DEF Open, Goto, AgentType, Types
    <3>2. Due' = s
      BY <3>1 DEF Due
    <3>. QED BY <1>10, <2>2, <3>2 DEF Results
  <2>. QED BY <2>3, <2>4
<1>11. ASSUME NEW t \in Turn, StreamEnds(t) PROVE Complete(history \o Results(Due))'
  <2>1. ends[t] = 0
    <3>1. ends' = [ends EXCEPT ![t] = @ + 1] /\ ends[t] \in 0 .. 2 /\ ends'[t] < 2
      BY <1>11 DEF StreamEnds, Undisturbed, AgentType, Types
    <3>. QED BY <3>1 DEF AgentType, Types
  <2>2. Busy(t)
    BY <1>11, <2>1 DEF StreamEnds, CanEnd, Busy
  <2>. DEFINE h == <<t, 1>>
  <2>3. h \in Handler /\ h[1] = t /\ h[2] = 1
    BY DEF Handler
  <2>4. PICK n \in calls[t] .. MaxCall :
             /\ history' = Append(history, Assistant(CallIds(t, 1, n)))
             /\ todo' = [todo EXCEPT ![h] = CallIds(t, 1, n)]
             /\ Goto(h, IF n = 0 THEN "release" ELSE "tools")
    BY <1>11, <2>1 DEF StreamEnds, Undisturbed
  <2>5. CallIds(t, 1, n) \in Seq(Call) /\ (CallIds(t, 1, n) = <<>> <=> n = 0)
    <3>1. n \in Nat
      BY AgentAssumption DEF AgentType, Types
    <3>. QED BY <3>1, CallIdsType
  <2>6. h \notin Open
    BY <2>1, <2>3 DEF Open, AgentType, HandlersSound
  <2>. HIDE DEF h
  <2>. QED BY <1>10, <2>2, <2>3, <2>4, <2>5, <2>6 DEF h
<1>12. ASSUME NEW h \in Handler, RunTool(h) PROVE Complete(history \o Results(Due))'
  <2>1. h \in Open /\ todo[h] \in Seq(Call) /\ todo[h] # <<>>
    BY <1>12 DEF RunTool, Open, AgentType, Types, HandlersSound
  <2>2. Open = {h} /\ Due = todo[h]
    BY <2>1, OneOpen
  <2>3. /\ history' = Append(history, ToolResult(Head(todo[h])))
        /\ todo'[h] = Tail(todo[h])
        /\ \A g \in Handler \ {h} : phase'[g] = phase[g]
    BY <1>12 DEF RunTool, AgentType, Types, Goto
  <2>4. Due' = Tail(todo[h])
    <3>1. CASE h \in Open'
      <4>1. Open' = {h}
        BY <2>2, <2>3, <3>1 DEF Open
      <4>. QED BY <2>3, <4>1 DEF Due
    <3>2. CASE h \notin Open'
      <4>1. Open' = {} /\ todo'[h] = <<>>
        BY <2>1, <2>2, <2>3, <3>2 DEF Open, AgentType, HandlersSound
      <4>. QED BY <2>3, <4>1 DEF Due
    <3>. QED BY <3>1, <3>2
  <2>5. history' \o Results(Tail(todo[h])) = history \o Results(todo[h])
    BY <1>1, <2>1, <2>3, ResultsMove
  <2>. QED BY <2>2, <2>4, <2>5 DEF Results
<1>13. ASSUME NEW h \in Handler, NEW p, p \notin {"tools", "tools2"},
              h \notin Open,
              Goto(h, p), UNCHANGED <<history, todo>>
       PROVE  Complete(history \o Results(Due))'
  <2>1. Open' = Open
    BY <1>13 DEF Goto, Open, AgentType, Types
  <2>. QED BY <1>13, <2>1 DEF Due, Results
<1>14. ASSUME NEW h \in Handler, FollowUp(h) \/ Release(h)
       PROVE  Complete(history \o Results(Due))'
  <2>1. h \notin Open /\ UNCHANGED <<history, todo>>
    BY <1>14 DEF FollowUp, Release, Open
  <2>2. \E p : p \notin {"tools", "tools2"} /\ Goto(h, p)
    BY <1>14 DEF FollowUp, Release
  <2>. QED BY <1>13, <2>1, <2>2
<1>15. ASSUME NEW h \in Handler, Answered(h) PROVE Complete(history \o Results(Due))'
  <2>1. phase[h] = "ask" /\ h \notin Open
    BY <1>15 DEF Answered, Open
  <2>2. h[1] \in Turn /\ h = <<h[1], 1>> /\ Busy(h[1])
    BY <2>1, WorkersBusy
  <2>3. CASE Goto(h, "release") /\ UNCHANGED <<history, todo>>
    BY <1>13, <2>1, <2>3
  <2>4. ASSUME NEW n \in 0 .. MaxCall,
               history' = Append(history, Assistant(CallIds(h[1], 2, n))),
               todo' = [todo EXCEPT ![h] = CallIds(h[1], 2, n)],
               Goto(h, IF n = 0 THEN "release" ELSE "tools2")
        PROVE  Complete(history \o Results(Due))'
    <3>1. CallIds(h[1], 2, n) \in Seq(Call) /\ (CallIds(h[1], 2, n) = <<>> <=> n = 0)
      BY <2>2, CallIdsType
    <3>. QED BY <1>10, <2>1, <2>2, <2>4, <3>1
  <2>. QED BY <1>15, <2>3, <2>4 DEF Answered
<1>16. ASSUME NEW h \in Handler, ProcessNextInQueue(h)
       PROVE  Complete(history \o Results(Due))'
  <2>1. h \notin Open /\ Goto(h, "end") /\ UNCHANGED todo /\ ~streaming
    BY <1>16 DEF ProcessNextInQueue, Open, Orderly, OneDequeues
  <2>2. CASE queue = <<>>
    <3>1. UNCHANGED history
      BY <1>16, <2>2 DEF ProcessNextInQueue
    <3>. QED BY <1>13, <2>1, <3>1
  <2>3. CASE queue # <<>>
    <3>1. HandleUserMessage(Head(queue)) /\ Head(queue) \in Nat
      BY <1>16, <2>3 DEF ProcessNextInQueue, Undisturbed, AgentType, Types
    <3>2. \A g \in Handler : phase'[g] \in {phase[g], "end"}
      BY <2>1 DEF Goto, AgentType, Types
    <3>. QED BY <1>8, <2>1, <3>1, <3>2 DEF Orderly, UnderStreaming
  <2>. QED BY <2>2, <2>3
<1>. QED
  BY <1>5, <1>6, <1>7, <1>9, <1>11, <1>12, <1>14, <1>15, <1>16 DEF Next, Strand, Handle

-----------------------------------------------------------------------------
LEMMA AgentInit == Init => AgentInv
<1>. SUFFICES ASSUME Init PROVE AgentInv
  OBVIOUS
<1>1. AgentType
  BY InitType
<1>2. \A t \in Turn : ~Busy(t)
  BY DEF Init, Busy, Turn
<1>3. Asked = {} /\ queue = <<>> /\ turn = 0 /\ sent = 0 /\ input = "idle"
      /\ \A h \in Handler : phase[h] = "none"
  BY DEF Init, Asked
<1>4. Orderly
  BY <1>2, <1>3
     DEF Orderly, OneAtATime, UnderStreaming, QueueKept, AskedInOrder, WaitingInOrder,
         OneDequeues
<1>5. history \o Results(Due) = <<>>
  <2>1. Open = {}
    BY <1>3 DEF Open
  <2>. QED BY <2>1 DEF Init, Due, Results
<1>. QED BY <1>1, <1>4, <1>5, CompleteEmpty DEF AgentInv, CallsAnswered

LEMMA AgentStep == AgentInv /\ [Next]_vars => AgentInv'
<1>. SUFFICES ASSUME AgentInv, [Next]_vars PROVE AgentInv'
  OBVIOUS
<1>1. AgentType /\ AgentType'
  BY StepType DEF AgentInv
<1>2. ASSUME Undisturbed' PROVE Orderly' /\ Complete(history \o Results(Due))'
  <2>1. Undisturbed
    BY <1>1, <1>2, UndisturbedBefore
  <2>2. Orderly /\ Complete(history \o Results(Due))
    BY <2>1 DEF AgentInv, CallsAnswered
  <2>3. Orderly'
    BY <1>1, <1>2, <2>1, <2>2, SerialStep
  <2>. QED BY <1>1, <1>2, <2>1, <2>2, <2>3, CompleteStep
<1>. QED BY <1>1, <1>2 DEF AgentInv, CallsAnswered

LEMMA AgentHolds == Spec => []AgentInv
BY AgentInit, AgentStep, PTL DEF Spec

\* In a conversation nobody stopped, whose requests end once and whose strand
\* does not race a handler for streaming_, turns run one at a time, and the
\* user's messages are taken in order and none is forgotten in the queue
\* (onInput, processNextInQueue).
THEOREM SerialisedHolds == Spec => []Serialised
<1>1. AgentInv => Serialised
  BY SerialisedIs DEF AgentInv, Orderly
<1>. QED BY <1>1, AgentHolds, PTL

\* In such a conversation every answer in the history is followed by the results
\* of its calls, whatever app states come between (handleToolCalls).
THEOREM CallsAnsweredHolds == Spec => []CallsAnswered
<1>1. AgentInv => CallsAnswered
  BY DEF AgentInv
<1>. QED BY <1>1, AgentHolds, PTL
=============================================================================
