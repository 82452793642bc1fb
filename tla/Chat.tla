-------------------------------- MODULE Chat --------------------------------
(***************************************************************************)
(* The chat app (desktop/app/chat/backend) with the AI participants in its *)
(* room (module/agent, AgentChatParticipant).  A message of the user goes  *)
(* to the history and starts a chain: the participants are asked one after *)
(* the other, each once the reply of the one before arrived.  Each request *)
(* has a thread of its own, which reports stream_end, by that takes the    *)
(* next message from the queue, and only then delivers the reply.          *)
(*                                                                         *)
(* Actor 0 is the session's strand, with the app's inputs; the others are  *)
(* the participants' threads.                                              *)
(***************************************************************************)
EXTENDS Naturals, Sequences, SequencesExt, FiniteSets, Functions

CONSTANTS
    MaxAgent,   \* the participants there are, at most
    MaxInput,   \* bound: messages of the user
    MaxLoop,    \* how often participants are asked in turn again, 10 in the code
    MaxTool,    \* bound: answers with tool calls
    MaxThread,  \* bound: requests at one time
    Targets     \* whom a message may address: a participant, or 0 for all

ASSUME ChatAssumption ==
    {MaxAgent, MaxInput, MaxLoop, MaxTool, MaxThread} \cup Targets \subseteq Nat

Agents  == 1 .. MaxAgent
Message == 1 .. MaxInput
Thread  == 1 .. MaxThread
Actor   == 0 .. MaxThread

VARIABLES
    key,        \* whether an API key is configured
    room,       \* agents: the participants in the room, in order
    removed,    \* participants stopped and taken out of the room
    history, queue, streaming, cancelled,
    sent, target,   \* the user's messages so far, and whom each addresses, 0 for all
    chain,      \* of each message, its processNext: idx, round, oldCallbacks
    reply,      \* whose chain a participant's reply continues, 0 for none
    actor,      \* of each actor, where it is
    tools,      \* answers with tool calls so far
    broken,     \* an index ran past the room
    raced       \* history variable: a message was queued on a streaming no longer set

roomVars == <<key, room, removed>>
inputVars == <<sent, target>>
vars == <<roomVars, history, queue, streaming, cancelled, inputVars, chain, reply,
          actor, tools, broken, raced>>

User(m)  == [role |-> "user", msg |-> m]
Reply(a) == [role |-> "assistant", by |-> a]

\* An actor: its place, the participant it answers for and the kind of its
\* answer, and the chain and the position in the room it works for.
Idle     == [pc |-> "idle", by |-> 0, kind |-> "none", chain |-> 0, pos |-> 0]
Asked(a) == [Idle EXCEPT !.pc = "asked", !.by = a]

Init ==
    /\ key \in BOOLEAN
    /\ room \in {[i \in 1 .. n |-> i] : n \in 0 .. MaxAgent}
    /\ removed = {}
    /\ history = <<>> /\ queue = <<>> /\ streaming = FALSE /\ cancelled = FALSE
    /\ sent = 0 /\ target = [m \in Message |-> 0]
    /\ chain = [m \in Message |-> [idx |-> 0, loop |-> 0, auto |-> FALSE, old |-> {}]]
    /\ reply = [a \in Agents |-> 0]
    /\ actor = [x \in Actor |-> Idle]
    /\ tools = 0 /\ broken = FALSE /\ raced = FALSE

\* Where an actor is once a chain needs it no longer: what is left of its
\* answer, if anything.
Back(x) == IF actor[x].kind \in {"tools", "reply"}
           THEN [actor[x] EXCEPT !.pc = "after", !.chain = 0, !.pos = 0]
           ELSE Idle

At(x, p)   == actor[x].pc = p
Goto(x, p) == actor' = [actor EXCEPT ![x].pc = p]

-----------------------------------------------------------------------------
(* app_on_input.                                                           *)

\* A message reads streaming, and acts on what it read in a later step.
OnInput ==
    /\ At(0, "idle") /\ sent < MaxInput
    /\ sent' = sent + 1
    /\ \E t \in Targets : target' = [target EXCEPT ![sent'] = t]
    /\ Goto(0, IF streaming THEN "queue" ELSE "begin")
    /\ UNCHANGED <<roomVars, history, queue, streaming, cancelled, chain, reply, tools,
                   broken, raced>>

Enqueue ==
    /\ At(0, "queue")
    /\ queue' = Append(queue, sent) /\ Goto(0, "idle")
    /\ raced' = (raced \/ ~streaming)
    /\ UNCHANGED <<roomVars, history, streaming, cancelled, inputVars, chain, reply,
                   tools, broken>>

Begin ==
    /\ At(0, "begin")
    /\ streaming' = TRUE
    /\ actor' = [actor EXCEPT ![0].pc = "handle", ![0].chain = sent]
    /\ UNCHANGED <<roomVars, history, queue, cancelled, inputVars, chain, reply, tools,
                   broken, raced>>

\* stop: cancelled is set and never reset.
Stop ==
    /\ At(0, "idle") /\ ~cancelled
    /\ cancelled' = TRUE /\ streaming' = FALSE /\ queue' = <<>>
    /\ UNCHANGED <<roomVars, history, inputVars, chain, reply, actor, tools, broken, raced>>

\* The command /agent remove: the participant is stopped, which drops its
\* callbacks, and leaves the room.
RemoveAgent(a) ==
    /\ At(0, "idle") /\ a \in ToSet(room)
    /\ room' = SelectSeq(room, LAMBDA b : b # a) /\ removed' = removed \cup {a}
    /\ UNCHANGED <<key, history, queue, streaming, cancelled, inputVars, chain, reply,
                   actor, tools, broken, raced>>

-----------------------------------------------------------------------------
(* A message and its chain: handleUserMessageAsync and processNext.        *)

\* The message goes to the history, and its chain begins when anyone is there.
Handle(x) ==
    LET m == actor[x].chain
    IN /\ At(x, "handle")
       /\ history' = Append(history, User(m))
       /\ chain' = [chain EXCEPT ![m].auto = target[m] = 0 /\ Len(room) > 1]
       /\ actor' = [actor EXCEPT ![x] = IF room = <<>> THEN Back(x)
                                        ELSE [@ EXCEPT !.pc = "advance"]]
       /\ UNCHANGED <<roomVars, queue, streaming, cancelled, inputVars, reply, tools,
                      broken, raced>>

\* Whom chain m asks next, counted from idx on: the position in the room and
\* how often the room was gone through, position 0 when the chain is over.
NextTurn(m) ==
    LET rest == {i \in chain[m].idx + 1 .. Len(room) : target[m] \in {0, room[i]}}
    IN CASE rest # {} ->
              <<CHOOSE i \in rest : \A j \in rest : i <= j, chain[m].loop>>
         [] rest = {} /\ chain[m].auto /\ chain[m].loop < MaxLoop ->
              <<1, chain[m].loop + 1>>
         [] OTHER -> <<0, MaxLoop>>

\* A chain that is over restores the callbacks it kept, which are its own.
Restore(m) ==
    /\ chain' = [chain EXCEPT ![m].idx = MaxAgent, ![m].loop = MaxLoop, ![m].old = {}]
    /\ reply' = [a \in Agents |->
                   IF \E i \in chain[m].old \cap DOMAIN room : room[i] = a
                   THEN m ELSE reply[a]]

\* onUserMessage: the participant's request runs on a thread of its own.
OnUserMessage(actors, a) ==
    LET free == {s \in Thread : actors[s].pc = "idle"}
        s    == CHOOSE t \in free : TRUE
    IN IF key THEN free # {} /\ actor' = [actors EXCEPT ![s] = Asked(a)]
       ELSE actor' = actors

\* processNext.  Two threads in it for one chain may take the same turn: idx
\* is not atomic.
Advance(x) ==
    LET m    == actor[x].chain
        next == NextTurn(m)
        i    == next[1]
        shared == \E y \in Actor \ {x} : At(y, "advance") /\ actor[y].chain = m
    IN /\ At(x, "advance")
       /\ CASE cancelled ->
                 /\ actor' = [actor EXCEPT ![x] = Back(x)]
                 /\ UNCHANGED <<chain, reply, broken>>
            [] ~cancelled /\ i = 0 ->
                 /\ Restore(m) /\ actor' = [actor EXCEPT ![x] = Back(x)]
                 /\ UNCHANGED broken
            [] ~cancelled /\ i > Len(room) ->
                 broken' = TRUE /\ UNCHANGED <<chain, reply, actor>>
            [] OTHER ->
                 /\ \E lost \in {FALSE, shared} :
                      chain' = IF lost THEN chain
                               ELSE [chain EXCEPT ![m].idx = i, ![m].loop = next[2]]
                 /\ OnUserMessage([actor EXCEPT ![x].pc = "subscribe", ![x].pos = i],
                                  room[i])
                 /\ UNCHANGED <<reply, broken>>
       /\ UNCHANGED <<roomVars, history, queue, streaming, cancelled, inputVars, tools,
                      raced>>

\* Only after it was asked is the participant told where to reply to.
Subscribe(x) ==
    LET m == actor[x].chain
        i == actor[x].pos
    IN /\ At(x, "subscribe")
       /\ IF i > Len(room)
          THEN broken' = TRUE /\ UNCHANGED <<chain, reply, actor>>
          ELSE /\ chain' = [chain EXCEPT ![m].old = @ \cup {i}]
               /\ reply' = [reply EXCEPT ![room[i]] = m]
               /\ actor' = [actor EXCEPT ![x] = Back(x)] /\ UNCHANGED broken
       /\ UNCHANGED <<roomVars, history, queue, streaming, cancelled, inputVars, tools,
                      raced>>

-----------------------------------------------------------------------------
(* A participant's thread: doLlmRound.                                     *)

\* Fault: stream_end leaves streaming set.
StreamEndOnly(s) ==
    /\ At(s, "asked") /\ actor[s].by \notin removed
    /\ \E kind \in {"tools", "reply", "empty"} :
         /\ kind = "tools" => tools < MaxTool
         /\ tools' = IF kind = "tools" THEN tools + 1 ELSE tools
         /\ actor' = [actor EXCEPT ![s].pc = "dequeue", ![s].kind = kind]
    /\ UNCHANGED <<roomVars, history, queue, streaming, cancelled, inputVars, chain,
                   reply, broken, raced>>

\* The request ends: its tool calls are run, and stream_end reaches push_output
\* unless the chat was stopped.  A stopped participant does nothing.
StreamEnd(s) ==
    /\ At(s, "asked")
    /\ IF actor[s].by \in removed
       THEN actor' = [actor EXCEPT ![s] = Idle] /\ UNCHANGED <<streaming, tools>>
       ELSE \E kind \in {"tools", "reply", "empty"} :
              /\ kind = "tools" => tools < MaxTool
              /\ tools' = IF kind = "tools" THEN tools + 1 ELSE tools
              /\ streaming' = (streaming /\ cancelled)
              /\ actor' = [actor EXCEPT ![s].kind = kind,
                              ![s].pc = IF cancelled THEN "after" ELSE "dequeue"]
    /\ UNCHANGED <<roomVars, history, queue, cancelled, inputVars, chain, reply, broken,
                   raced>>

\* Fault: the message taken stays in the queue.
TakeAgain(s) ==
    /\ At(s, "dequeue")
    /\ IF cancelled \/ queue = <<>>
       THEN actor' = [actor EXCEPT ![s] = Back(s)] /\ UNCHANGED <<queue, streaming>>
       ELSE /\ streaming' = TRUE
            /\ actor' = [actor EXCEPT ![s].pc = "handle", ![s].chain = Head(queue)]
            /\ UNCHANGED queue
    /\ UNCHANGED <<roomVars, history, cancelled, inputVars, chain, reply, tools, broken,
                   raced>>

ProcessNextInQueue(s) ==
    /\ At(s, "dequeue")
    /\ IF cancelled \/ queue = <<>>
       THEN actor' = [actor EXCEPT ![s] = Back(s)] /\ UNCHANGED <<queue, streaming>>
       ELSE /\ streaming' = TRUE
            /\ actor' = [actor EXCEPT ![s].pc = "handle", ![s].chain = Head(queue)]
            /\ queue' = Tail(queue)
    /\ UNCHANGED <<roomVars, history, cancelled, inputVars, chain, reply, tools, broken,
                   raced>>

\* Fault: a reply is kept whether or not the chat was stopped.
PushAnyway(s) ==
    LET k == reply[actor[s].by]
    IN IF actor[s].by \in removed
       THEN actor' = [actor EXCEPT ![s] = Idle] /\ UNCHANGED history
       ELSE /\ history' = Append(history, Reply(actor[s].by))
            /\ actor' = [actor EXCEPT ![s] = IF k = 0 THEN Idle
                           ELSE [Idle EXCEPT !.pc = "advance", !.chain = k]]

\* The reply goes to the history, and the chain that waits for it goes on.
PushResponse(s) ==
    LET k == reply[actor[s].by]
    IN IF actor[s].by \in removed
       THEN actor' = [actor EXCEPT ![s] = Idle] /\ UNCHANGED history
       ELSE /\ history' = IF cancelled THEN history
                          ELSE Append(history, Reply(actor[s].by))
            /\ actor' = [actor EXCEPT ![s] = IF k = 0 THEN Idle
                           ELSE [Idle EXCEPT !.pc = "advance", !.chain = k]]

\* What is left once stream_end, and all it set off, is done: after tool calls
\* the next request, on a new thread, whether or not the chat was stopped.
After(x) ==
    /\ At(x, "after")
    /\ CASE actor[x].kind = "reply" -> PushResponse(x)
         [] actor[x].kind = "tools" ->
              /\ actor' = [actor EXCEPT ![x] = IF actor[x].by \in removed THEN Idle
                                               ELSE Asked(actor[x].by)]
              /\ UNCHANGED history
         [] OTHER -> actor' = [actor EXCEPT ![x] = Idle] /\ UNCHANGED history
    /\ UNCHANGED <<roomVars, queue, streaming, cancelled, inputVars, chain, reply, tools,
                   broken, raced>>

Work(x)   == Handle(x) \/ Advance(x) \/ Subscribe(x) \/ After(x)
Strand    == OnInput \/ Enqueue \/ Begin \/ Stop \/ Work(0)
Participant(s) == StreamEnd(s) \/ ProcessNextInQueue(s) \/ Work(s)

Next ==
    /\ ~broken
    /\ \/ Strand
       \/ \E a \in Agents : RemoveAgent(a)
       \/ \E s \in Thread : Participant(s)

Spec == Init /\ [][Next]_vars

-----------------------------------------------------------------------------
\* A message is answered by someone: there is a key, it addresses somebody in
\* the room, nobody was removed, and nothing was stopped.
Served ==
    /\ key /\ removed = {} /\ ~cancelled
    /\ \A m \in 1 .. sent : \E i \in DOMAIN room : target[m] \in {0, room[i]}

Held(p) == {actor[x].chain : x \in {y \in Actor : At(y, p)}}
IsMessage(i) == history[i].role = "user"
Said == {history[i].msg : i \in {j \in DOMAIN history : IsMessage(j)}}
Strands == IF actor[0].pc \in {"queue", "begin"} THEN {sent} ELSE {}

\* No message is handled twice, and none is lost unless the chat was stopped:
\* each is in one place, the history, the queue, with the strand, or with a
\* thread that took it.
MessagesKept ==
    LET places == <<Said, ToSet(queue), Held("handle"), Strands>>
    IN /\ \A i, j \in DOMAIN history :
            IsMessage(i) /\ IsMessage(j) /\ history[i].msg = history[j].msg => i = j
       /\ \A i, j \in DOMAIN places : i # j => places[i] \cap places[j] = {}
       /\ ~cancelled => UNION Range(places) = 1 .. sent

\* While messages are served, streaming is set only as long as someone will
\* end the stream, and a queued message has a thread that will take it, unless
\* it was queued on a streaming that had just been given back.
WorkGoesOn ==
    Served =>
        /\ streaming =>
             \E x \in Actor : \/ actor[x].pc \in {"handle", "asked"}
                              \/ At(x, "advance") /\ chain[actor[x].chain].idx = 0
        /\ queue # <<>> => streaming \/ raced \/ \E s \in Thread : At(s, "dequeue")

\* Once stopped, the chat keeps no reply and takes no message from the queue:
\* its history grows by messages it had begun to handle, or that came later.
Silent ==
    cancelled => /\ \A s \in Thread : At(s, "dequeue") => actor'[s].pc # "handle"
                 /\ \/ history' = history
                    \/ \E m \in Held("handle") : history' = Append(history, User(m))

StopSilences == [][Silent]_vars
=============================================================================
