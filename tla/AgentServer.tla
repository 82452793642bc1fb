---------------------------- MODULE AgentServer -----------------------------
(***************************************************************************)
(* AgentServer (module/agent): the agent app of one session.  The flag     *)
(* streaming_ and a queue are to serialise the turns of a conversation.    *)
(* The session's strand calls onInput and destroy; an io thread or the     *)
(* turn's own thread runs the end of an LLM request, the tool calls and    *)
(* the follow-up request; any other thread announces state changes of      *)
(* apps.                                                                   *)
(*                                                                         *)
(* An LLM request on the server's io_context ends as LlmRequest promises:  *)
(* at most twice, and not after it was cancelled.  A handler is what one   *)
(* end of a turn's request sets off.                                       *)
(***************************************************************************)
EXTENDS Naturals, Sequences, SequencesExt, FiniteSets

CONSTANTS
    MaxInput,   \* bound: messages of the user, and so turns
    MaxCall,    \* bound: tool calls of one answer
    MaxState    \* bound: announcements of app states

ASSUME AgentAssumption == {MaxInput, MaxCall, MaxState} \subseteq Nat

Turn    == 1 .. MaxInput
Handler == Turn \X (1 .. 2)
Phase   == {"none", "tools", "spawn", "ask", "tools2", "release", "dequeue", "end"}

VARIABLES
    hasIo, key, \* whether the session gave an io_context, and a key is configured
    history,    \* history_ without its system prompt
    queue,      \* inputQueue_
    streaming, cancelled,
    turn,       \* round_ of the turns that began with a message of the user
    current,    \* the turn whose request currentStream_ is, 0 for none
    ends,       \* how often the request of a turn has ended
    calls,      \* the tool calls the answer of a turn had at its last end
    phase, todo,\* of each handler: where it is, and the calls it has to run
    sent, input,\* messages sent, and what the strand does with the last one
    app,        \* "alive", "stopped" on its way down, "destroyed"
    subscribed,
    announced,
    raced       \* history variable: the strand and a handler took streaming_ apart

handlerVars == <<phase, todo>>
inputVars   == <<sent, input>>
turnVars    == <<turn, current>>
answerVars  == <<ends, calls>>
lifeVars    == <<app, subscribed, announced>>
configVars  == <<hasIo, key>>
vars == <<configVars, history, queue, streaming, cancelled, turnVars, answerVars,
          handlerVars, inputVars, lifeVars, raced>>

User(n)      == [role |-> "user", n |-> n]
Assistant(s) == [role |-> "assistant", calls |-> s]
ToolResult(c) == [role |-> "tool", call |-> c]
State        == [role |-> "state"]

\* The ids of the first n calls of a turn's first or second answer.
CallIds(t, answer, n) == [i \in 1 .. n |-> <<t, answer, i>>]

Init ==
    /\ hasIo \in BOOLEAN /\ key \in BOOLEAN
    /\ history = <<>> /\ queue = <<>> /\ streaming = FALSE /\ cancelled = FALSE
    /\ turn = 0 /\ current = 0
    /\ ends = [t \in Turn |-> 0] /\ calls = [t \in Turn |-> 0]
    /\ phase = [h \in Handler |-> "none"] /\ todo = [h \in Handler |-> <<>>]
    /\ sent = 0 /\ input = "idle"
    /\ app = "alive" /\ subscribed = FALSE /\ announced = 0
    /\ raced = FALSE

Goto(h, p) == phase' = [phase EXCEPT ![h] = p]

-----------------------------------------------------------------------------
(* The session's strand.                                                   *)

\* setOutput, which subscribes to the state changes of apps the first time.
SetOutput ==
    /\ app = "alive" /\ ~subscribed
    /\ subscribed' = TRUE
    /\ UNCHANGED <<configVars, history, queue, streaming, cancelled, turnVars,
                   answerVars, handlerVars, inputVars, app, announced, raced>>

\* A message reads streaming_, and acts on what it read in a later step.
OnInput ==
    /\ app = "alive" /\ input = "idle" /\ sent < MaxInput
    /\ sent' = sent + 1
    /\ input' = IF streaming THEN "queue" ELSE "begin"
    /\ UNCHANGED <<configVars, history, queue, streaming, cancelled, turnVars,
                   answerVars, handlerVars, lifeVars, raced>>

Enqueue ==
    /\ input = "queue"
    /\ queue' = Append(queue, sent) /\ input' = "idle"
    /\ raced' = (raced \/ ~streaming)
    /\ UNCHANGED <<configVars, history, streaming, cancelled, turnVars, answerVars,
                   handlerVars, sent, lifeVars>>

\* Fault: a turn taken from the queue does not set streaming_ again.
HandleUserMessageQuietly(n) ==
    /\ streaming' = (input = "begin") /\ turn' = turn + 1
    /\ history' = Append(history, User(n))
    /\ current' = IF key /\ hasIo THEN turn' ELSE current

\* handleUserMessage: message n opens a turn.  The client of the turn before,
\* if there was one, is destroyed and cancels its request.  Without a key the
\* turn ends here, and streaming_ stays.
HandleUserMessage(n) ==
    /\ streaming' = TRUE /\ turn' = turn + 1
    /\ history' = Append(history, User(n))
    /\ current' = IF key /\ hasIo THEN turn' ELSE current

Begin ==
    /\ input = "begin"
    /\ HandleUserMessage(sent) /\ input' = "idle"
    /\ raced' = (raced \/ streaming \/ \E h \in Handler : phase[h] = "dequeue")
    /\ UNCHANGED <<configVars, queue, cancelled, answerVars, handlerVars, sent, lifeVars>>

Stop ==
    /\ cancelled' = TRUE /\ streaming' = FALSE /\ queue' = <<>>
    /\ UNCHANGED <<configVars, history, turnVars, answerVars, handlerVars, inputVars,
                   subscribed, announced, raced>>

StopInput == app = "alive" /\ input = "idle" /\ Stop /\ UNCHANGED app

\* destroy: stop, then unsubscribe, which waits for the registry's mutex.
Destroy == app = "alive" /\ input = "idle" /\ Stop /\ app' = "stopped"

\* Fault: the app goes while it is still subscribed.
LeaveSubscribed ==
    /\ app = "stopped"
    /\ app' = "destroyed" /\ current' = 0
    /\ UNCHANGED <<configVars, history, queue, streaming, cancelled, turn, answerVars,
                   handlerVars, inputVars, subscribed, announced, raced>>

Unsubscribe ==
    /\ app = "stopped"
    /\ app' = "destroyed" /\ subscribed' = FALSE /\ current' = 0
    /\ UNCHANGED <<configVars, history, queue, streaming, cancelled, turn, answerVars,
                   handlerVars, inputVars, announced, raced>>

\* onAppStateChange, from any thread, under the registry's and the app's mutex.
Announce ==
    /\ subscribed /\ announced < MaxState
    /\ announced' = announced + 1
    /\ history' = Append(history, State)
    /\ UNCHANGED <<configVars, queue, streaming, cancelled, turnVars, answerVars,
                   handlerVars, inputVars, app, subscribed, raced>>

-----------------------------------------------------------------------------
(* The end of a request, and what it sets off.                             *)

CanEnd(t) ==
    /\ key /\ t \in 1 .. turn
    /\ IF hasIo THEN current = t /\ ends[t] < 2 ELSE ends[t] = 0

\* The answer has at least the calls it had at an earlier end.  A handler of a
\* cancelled agent does nothing.
StreamEnds(t) ==
    LET h == <<t, ends[t] + 1>>
    IN /\ CanEnd(t)
       /\ ends' = [ends EXCEPT ![t] = @ + 1]
       /\ IF cancelled
          THEN Goto(h, "end") /\ UNCHANGED <<history, calls, todo>>
          ELSE \E n \in calls[t] .. MaxCall :
                 /\ calls' = [calls EXCEPT ![t] = n]
                 /\ history' = Append(history, Assistant(CallIds(t, 1, n)))
                 /\ todo' = [todo EXCEPT ![h] = CallIds(t, 1, n)]
                 /\ Goto(h, IF n = 0 THEN "release" ELSE "tools")
       /\ UNCHANGED <<configVars, queue, streaming, cancelled, turnVars, inputVars,
                      lifeVars, raced>>

\* Fault: the result of a tool call that fails is not reported.
RunToolUnreported(h) ==
    /\ phase[h] \in {"tools", "tools2"}
    /\ history' \in {history, Append(history, ToolResult(Head(todo[h])))}
    /\ todo' = [todo EXCEPT ![h] = Tail(@)]
    /\ IF Len(todo[h]) > 1 THEN UNCHANGED phase
       ELSE Goto(h, IF phase[h] = "tools" THEN "spawn" ELSE "release")
    /\ UNCHANGED <<configVars, queue, streaming, cancelled, turnVars, answerVars,
                   inputVars, lifeVars, raced>>

\* handleToolCalls: a call is executed and then its result, or its error, goes
\* to the history.  It does not look at cancelled_.
RunTool(h) ==
    /\ phase[h] \in {"tools", "tools2"}
    /\ history' = Append(history, ToolResult(Head(todo[h])))
    /\ todo' = [todo EXCEPT ![h] = Tail(@)]
    /\ IF Len(todo[h]) > 1 THEN UNCHANGED phase
       ELSE Goto(h, IF phase[h] = "tools" THEN "spawn" ELSE "release")
    /\ UNCHANGED <<configVars, queue, streaming, cancelled, turnVars, answerVars,
                   inputVars, lifeVars, raced>>

\* The follow-up request, sent with the results.  Its thread looks at
\* cancelled_ first when it is one of its own; else streaming_ is set again.
FollowUp(h) ==
    /\ phase[h] = "spawn"
    /\ Goto(h, IF hasIo /\ cancelled THEN "end" ELSE "ask")
    /\ streaming' = (streaming \/ ~hasIo)
    /\ UNCHANGED <<configVars, history, queue, cancelled, turnVars, answerVars, todo,
                   inputVars, lifeVars, raced>>

\* Fault: a cancelled agent waits for its answer.
AnsweredUncancelled(h) ==
    /\ phase[h] = "ask" /\ ~cancelled
    /\ \/ /\ Goto(h, "release") /\ UNCHANGED <<history, todo>>
       \/ \E n \in 0 .. MaxCall :
             /\ history' = Append(history, Assistant(CallIds(h[1], 2, n)))
             /\ todo' = [todo EXCEPT ![h] = CallIds(h[1], 2, n)]
             /\ Goto(h, IF n = 0 THEN "release" ELSE "tools2")
    /\ UNCHANGED <<configVars, queue, streaming, cancelled, turnVars, answerVars,
                   inputVars, lifeVars, raced>>

\* The follow-up's answer: its calls are executed too, but not followed up.  An
\* empty answer is left out.
Answered(h) ==
    /\ phase[h] = "ask"
    /\ \/ /\ Goto(h, "release") /\ UNCHANGED <<history, todo>>
       \/ \E n \in 0 .. MaxCall :
             /\ ~cancelled
             /\ history' = Append(history, Assistant(CallIds(h[1], 2, n)))
             /\ todo' = [todo EXCEPT ![h] = CallIds(h[1], 2, n)]
             /\ Goto(h, IF n = 0 THEN "release" ELSE "tools2")
    /\ UNCHANGED <<configVars, queue, streaming, cancelled, turnVars, answerVars,
                   inputVars, lifeVars, raced>>

\* Fault: the turn ends without giving streaming_ back.
ReleaseNothing(h) ==
    /\ phase[h] = "release"
    /\ Goto(h, "dequeue")
    /\ UNCHANGED <<configVars, history, queue, streaming, cancelled, turnVars, answerVars,
                   todo, inputVars, lifeVars, raced>>

Release(h) ==
    /\ phase[h] = "release"
    /\ streaming' = FALSE /\ Goto(h, "dequeue")
    /\ UNCHANGED <<configVars, history, queue, cancelled, turnVars, answerVars, todo,
                   inputVars, lifeVars, raced>>

ProcessNextInQueue(h) ==
    /\ phase[h] = "dequeue" /\ Goto(h, "end")
    /\ IF cancelled \/ queue = <<>>
       THEN UNCHANGED <<history, queue, streaming, turnVars, raced>>
       ELSE /\ HandleUserMessage(Head(queue)) /\ queue' = Tail(queue)
            /\ raced' = (raced \/ input = "begin")
    /\ UNCHANGED <<configVars, cancelled, answerVars, todo, inputVars, lifeVars>>

Strand == SetOutput \/ OnInput \/ Enqueue \/ Begin \/ StopInput \/ Destroy \/ Unsubscribe

Handle(h) ==
    RunTool(h) \/ FollowUp(h) \/ Answered(h) \/ Release(h) \/ ProcessNextInQueue(h)

Next ==
    \/ Strand \/ Announce
    \/ \E t \in Turn : StreamEnds(t)
    \/ \E h \in Handler : Handle(h)

\* Threads run, a request that is not cancelled ends (RequestEnds of LlmClient),
\* and the strand finishes what it began.
Fairness ==
    /\ \A t \in Turn : WF_vars(StreamEnds(t) /\ ends[t] = 0 /\ (hasIo => ~cancelled))
    /\ \A h \in Handler : WF_vars(Handle(h))
    /\ WF_vars(Enqueue \/ Begin \/ Unsubscribe)

Spec == Init /\ [][Next]_vars /\ Fairness

-----------------------------------------------------------------------------
TypeOK ==
    /\ turn \in 0 .. MaxInput /\ current \in 0 .. turn
    /\ \A t \in Turn : ends[t] \in 0 .. 2 /\ (t > turn => ends[t] = 0)
    /\ \A h \in Handler : phase[h] \in Phase
    /\ \A h \in Handler : (todo[h] # <<>>) <=> (phase[h] \in {"tools", "tools2"})
    /\ app = "destroyed" => ~subscribed

\* A turn at work: its request is out, or a handler has not given it up.
Busy(t) ==
    /\ key /\ t <= turn
    /\ \/ ends[t] = 0 /\ (hasIo => current = t)
       \/ \E k \in 1 .. 2 : phase[<<t, k>>] \notin {"none", "dequeue", "end"}

\* What serialisation rests on: nobody cancelled, no request ended a second
\* time, and the strand did not act on a streaming_ that a handler was just
\* taking back.
Undisturbed == ~cancelled /\ ~raced /\ \A t \in Turn : ends[t] < 2

\* The positions of the user's messages in the history.
Asked == {p \in DOMAIN history : history[p].role = "user"}

\* The messages that wait for a turn: the queue's, and the one with the strand.
Waiting == queue \o (IF input = "idle" THEN <<>> ELSE <<sent>>)

\* The turns took the user's messages in the order they were sent, none lost:
\* the first ones are in the history, the others wait.
TakenInOrder ==
    /\ {history[p].n : p \in Asked} = 1 .. turn
    /\ \A p, q \in Asked : p < q => history[p].n < history[q].n
    /\ Waiting = [i \in 1 .. sent - turn |-> turn + i]

\* While undisturbed, turns run one at a time and under streaming_, the
\* user's messages are taken in order, and one that is queued has a turn or a
\* handler that will take it.
Serialised ==
    Undisturbed =>
        /\ \A t, u \in Turn : Busy(t) /\ Busy(u) => t = u
        /\ (\E t \in Turn : Busy(t)) => streaming
        /\ TakenInOrder
        /\ queue # <<>> => streaming \/ \E h \in Handler : phase[h] = "dequeue"

\* Between the answer at position i of a log and what is at q there are only
\* results of tools and states of apps.
Follows(log, i, q) ==
    /\ i < q /\ log[i].role = "assistant"
    /\ \A r \in i + 1 .. q : log[r].role \in {"tool", "state"}

\* An answer is followed by the results of all its calls, and a result by no
\* answer's but that of the last answer, after those of the calls before its own.
Complete(log) ==
    /\ \A i \in DOMAIN log : log[i].role = "assistant" =>
          \A j \in DOMAIN log[i].calls : \E q \in DOMAIN log :
              Follows(log, i, q) /\ log[q] = ToolResult(log[i].calls[j])
    /\ \A q \in DOMAIN log : log[q].role = "tool" =>
          \E i \in DOMAIN log :
              /\ Follows(log, i, q)
              /\ \E j \in DOMAIN log[i].calls :
                    /\ log[q].call = log[i].calls[j]
                    /\ \A r \in i + 1 .. q - 1 : log[r].role = "tool" =>
                          \E k \in 1 .. j - 1 : log[r].call = log[i].calls[k]

Results(s) == [i \in DOMAIN s |-> ToolResult(s[i])]

\* The calls that a handler at work on an answer still has to run.
Open == {h \in Handler : phase[h] \in {"tools", "tools2"}}
Due  == IF Open = {} THEN <<>> ELSE todo[CHOOSE h \in Open : TRUE]

\* While undisturbed, every request is sent with a complete history: an answer
\* with calls is followed by their results, each once and in order, and only
\* the answer a handler still works on lacks some, which it is about to add.
CallsAnswered == Undisturbed => Complete(history \o Results(Due))

\* A turn gives streaming_ back, unless the agent has no key.
TurnEnds == streaming /\ key ~> ~streaming \/ cancelled

\* A cancelled agent comes to rest, whatever tools it was about to run: in the
\* end no handler is at work.
StopQuiesces ==
    cancelled ~> [](\A h \in Handler : phase[h] \in {"none", "end"})
=============================================================================
