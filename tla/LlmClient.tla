----------------------------- MODULE LlmClient ------------------------------
(***************************************************************************)
(* LlmClient (module/llm): one streaming request.  A chain of asynchronous *)
(* operations (resolve, connect, handshake, write, read) runs next to two  *)
(* timers, the request timeout and the pause before the one retry.  The    *)
(* threads of the io_context run a handler of the chain and one of a timer *)
(* at the same time; cancel is called from any thread, also between a      *)
(* handler's check of cancelled_ and the callbacks it then calls.          *)
(*                                                                         *)
(* The body of an answer is a sequence of pieces: the lines of the stream  *)
(* and the blank lines that end its events.  A read delivers any run of    *)
(* them.                                                                   *)
(***************************************************************************)
EXTENDS Naturals, Sequences, SequencesExt, FiniteSetsExt

CONSTANTS
    Bodies,     \* the answers of the service: sequences of pieces
    Blank       \* the piece that ends an event

\* What a line of an answer says; a tool call has the id of the call it begins,
\* or 0, and a piece of its arguments.
Kinds == {"usage", "finish", "reasoning", "delta", "tool", "done", "comment", "bad"}

ASSUME LlmAssumption ==
    \A b \in Bodies :
        /\ b \in Seq(Range(b))
        /\ \A line \in Range(b) \ {Blank} : line.kind \in Kinds /\ line.id \in Nat

max_retries == 1

Enders == {"chain", "timeout"}
Timers == {"timeout", "retry"}
Stages == {"none", "resolve", "connect", "handshake", "write", "header",
           "error_body", "body"}

VARIABLES
    started,
    stage,      \* the operation of the chain in flight
    armed,      \* the timers in timer_
    active,     \* the timer active_timer_id_ names
    retries,    \* retry_count_
    cancelled,  \* cancelled_
    body, got,  \* the answer, and how many pieces of it were read and parsed
    leftover,   \* leftover_: pieces of an event that is not complete
    response,   \* full_response_, as the lines whose content it joins
    events,     \* what on_event_ reported, in order
    ending,     \* who is past the check of cancelled_ and reports an end
    ends        \* the calls of on_done_

chainVars == <<stage, retries>>
timerVars == <<armed, active>>
parseVars == <<body, got, leftover, response>>
endVars   == <<ending, ends>>
vars == <<started, chainVars, timerVars, cancelled, parseVars, events, endVars>>

Init ==
    /\ started = FALSE /\ stage = "none" /\ armed = {} /\ active = "timeout"
    /\ retries = 0 /\ cancelled = FALSE
    /\ body = <<>> /\ got = 0 /\ leftover = <<>> /\ response = <<>>
    /\ events = <<>> /\ ending = {} /\ ends = <<>>

-----------------------------------------------------------------------------
(* The timers of class Timer: cancelling one that is not there is a no-op. *)

SetTimeout(t) == armed' = armed \cup {t} /\ active' = t

\* Fault: the end of a request leaves its timer armed.
StopNoTimer == UNCHANGED timerVars

\* The end of a request cancels the timer it knows of, not both.
StopTimer == armed' = armed \ {active} /\ UNCHANGED active

\* Fault: a request starts without its timeout.
StartUntimed ==
    /\ ~started
    /\ started' = TRUE /\ stage' = "resolve"
    /\ UNCHANGED <<timerVars, retries, cancelled, parseVars, events, endVars>>

Start ==
    /\ ~started
    /\ started' = TRUE /\ stage' = "resolve"
    /\ SetTimeout("timeout")
    /\ UNCHANGED <<retries, cancelled, parseVars, events, endVars>>

\* cancel, also the destructor's.  The operation in flight completes later,
\* aborted.
Cancel ==
    /\ cancelled' = TRUE
    /\ armed' = armed \ {active}
    /\ UNCHANGED <<started, chainVars, active, parseVars, events, endVars>>

-----------------------------------------------------------------------------
(* finish_success and finish_error.                                        *)

Finish(by) ==
    /\ StopTimer
    /\ ending' = IF cancelled THEN ending ELSE ending \cup {by}
    /\ UNCHANGED <<started, retries, cancelled, parseVars, ends>>

\* full_response_ is moved out: a second end finds what came after the first.
Report(by) ==
    /\ by \in ending
    /\ events' = Append(events, [type |-> "stream_end", line |-> Blank])
    /\ ends' = Append(ends, [by |-> by, text |-> response])
    /\ response' = <<>> /\ ending' = ending \ {by}
    /\ UNCHANGED <<started, chainVars, timerVars, cancelled, body, got, leftover>>

\* Fault: the timeout does not look at cancelled_.
TimeoutAnyway ==
    /\ "timeout" \in armed
    /\ armed' = armed \ {"timeout", active}
    /\ ending' = ending \cup {"timeout"}
    /\ UNCHANGED <<started, chainVars, active, cancelled, parseVars, events, ends>>

Timeout ==
    /\ "timeout" \in armed
    /\ armed' = armed \ {"timeout", active}
    /\ ending' = IF cancelled THEN ending ELSE ending \cup {"timeout"}
    /\ UNCHANGED <<started, chainVars, active, cancelled, parseVars, events, ends>>

-----------------------------------------------------------------------------
(* process_sse.  An event is parsed once its blank line has come; what is  *)
(* behind the last blank line stays in leftover_.                          *)

Pieces == {Blank} \cup UNION {Range(b) : b \in Bodies}
Events == [type : Kinds \cup {"error", "stream_end"}, line : Pieces]

\* What a line of the stream makes the client report.
EventsOf(line) ==
    LET event(t) == [type |-> t, line |-> line]
    IN CASE line.kind = "finish" -> <<event("finish"), event("delta")>>
         [] line.kind \in {"done", "comment"} -> <<>>
         [] line.kind = "bad" -> <<event("error")>>
         [] OTHER -> <<event(line.kind)>>

HasContent(line) == \E e \in Range(EventsOf(line)) : e.type = "delta"

\* What the elements of a sequence yield, one after the other.
Collect(yield, s) ==
    LET upto[n \in 0 .. Len(s)] == IF n = 0 THEN <<>> ELSE upto[n - 1] \o yield[s[n]]
    IN upto[Len(s)]

Reports == [p \in Pieces |-> IF p = Blank THEN <<>> ELSE EventsOf(p)]
Content == [p \in Pieces |-> IF p # Blank /\ HasContent(p) THEN <<p>> ELSE <<>>]

Complete(text) == SelectLastInSeq(text, LAMBDA p : p = Blank)
Whole(text)    == SubSeq(text, 1, Complete(text))
Partial(text)  == SubSeq(text, Complete(text) + 1, Len(text))

\* Fault: an event cut by the end of a chunk is dropped.
ProcessSseNoLeftover(chunk) ==
    /\ leftover' = Partial(chunk)
    /\ response' = response \o Collect(Content, Whole(chunk))
    /\ events' = events \o Collect(Reports, Whole(chunk))

ProcessSse(chunk) ==
    LET text == leftover \o chunk
    IN /\ leftover' = Partial(text)
       /\ response' = response \o Collect(Content, Whole(text))
       /\ events' = events \o Collect(Reports, Whole(text))

\* Fault: prev_body_size_ stays, and what was parsed is parsed again.
DrainAgain(n) ==
    /\ got' = n
    /\ ProcessSse(SubSeq(body, 1, n))
    /\ UNCHANGED body

\* drain_remaining, when the parser holds n pieces of the body.
Drain(n) ==
    /\ got' = n
    /\ ProcessSse(SubSeq(body, got + 1, n))
    /\ UNCHANGED body

-----------------------------------------------------------------------------
(* merge_tool_calls.  A call arrives in chunks: the first names its id, the *)
(* others carry more of its arguments.  std::map keeps the calls by id, and *)
(* a chunk without id goes to the last of them.                            *)

ToolChunks ==
    Collect([e \in Events |-> IF e.type = "tool" THEN <<e.line>> ELSE <<>>], events)

AddTo(calls, id, arg) ==
    [i \in DOMAIN calls \cup {id} |->
        IF i # id THEN calls[i]
        ELSE IF id \in DOMAIN calls THEN Append(calls[id], arg) ELSE <<arg>>]

\* Fault: a chunk without id goes to the first call of the map.
MergeChunkFirst(calls, chunk) ==
    IF chunk.id # 0 THEN AddTo(calls, chunk.id, chunk.arg)
    ELSE IF DOMAIN calls = {} THEN calls
    ELSE AddTo(calls, Min(DOMAIN calls), chunk.arg)

MergeChunk(calls, chunk) ==
    IF chunk.id # 0 THEN AddTo(calls, chunk.id, chunk.arg)
    ELSE IF DOMAIN calls = {} THEN calls
    ELSE AddTo(calls, Max(DOMAIN calls), chunk.arg)

merge_tool_calls(chunks) ==
    LET merged[n \in 0 .. Len(chunks)] ==
            IF n = 0 THEN <<>> ELSE MergeChunk(merged[n - 1], chunks[n])
    IN merged[Len(chunks)]

-----------------------------------------------------------------------------
(* The chain.  Every handler returns first when the request is cancelled.  *)

Aborted ==
    /\ cancelled /\ stage # "none"
    /\ stage' = "none"
    /\ UNCHANGED <<started, retries, timerVars, cancelled, parseVars, events, endVars>>

Fail(s) ==
    /\ stage = s /\ ~cancelled
    /\ stage' = "none" /\ Finish("chain") /\ UNCHANGED events

Advance(s, t) ==
    /\ stage = s /\ ~cancelled
    /\ stage' = t
    /\ UNCHANGED <<started, retries, timerVars, cancelled, parseVars, events, endVars>>

Resolved  == Advance("resolve", "connect")
Connected == Advance("connect", "handshake")
Handshaken == Advance("handshake", "write")
Written   == Advance("write", "header")

\* A status that is not 200: the rest is read for the error's text.
BadStatus == Advance("header", "error_body")

HeaderOk ==
    /\ stage = "header" /\ ~cancelled
    /\ stage' = "body"
    /\ body' \in Bodies /\ got' = 0
    /\ UNCHANGED <<started, retries, timerVars, cancelled, leftover, response,
                   events, endVars>>

\* Fault: every failed attempt is tried again.
RetryAlways ==
    /\ stage = "error_body" /\ ~cancelled
    /\ retries' = retries + 1
    /\ stage' = "none" /\ leftover' = <<>> /\ got' = 0
    /\ SetTimeout("retry")
    /\ UNCHANGED <<started, cancelled, body, response, events, endVars>>

\* 429 and 5xx are tried again after a second, which becomes the timer the
\* client knows of.
Retry ==
    /\ stage = "error_body" /\ ~cancelled /\ retries < max_retries
    /\ retries' = retries + 1
    /\ stage' = "none" /\ leftover' = <<>> /\ got' = 0
    /\ SetTimeout("retry")
    /\ UNCHANGED <<started, cancelled, body, response, events, endVars>>

RetryTimer ==
    /\ "retry" \in armed
    /\ armed' = armed \ {"retry"}
    /\ stage' = IF cancelled THEN "none" ELSE "resolve"
    /\ UNCHANGED <<started, retries, active, cancelled, parseVars, events, endVars>>

\* A read that leaves the message incomplete.
ReadSome ==
    /\ stage = "body" /\ ~cancelled
    /\ \E n \in got .. Len(body) : n # got /\ Drain(n)
    /\ UNCHANGED <<started, chainVars, timerVars, cancelled, endVars>>

\* The read that completes the message: all of the body is there.
ReadLast ==
    /\ stage = "body" /\ ~cancelled
    /\ Drain(Len(body))
    /\ stage' = "none" /\ StopTimer /\ ending' = ending \cup {"chain"}
    /\ UNCHANGED <<started, retries, cancelled, ends>>

Chain ==
    \/ Resolved \/ Connected \/ Handshaken \/ Written \/ BadStatus \/ HeaderOk
    \/ Retry \/ ReadSome \/ ReadLast \/ Aborted
    \/ \E s \in Stages \ {"none"} : Fail(s)

Next ==
    \/ Start \/ Cancel \/ Timeout \/ RetryTimer \/ Chain
    \/ \E by \in Enders : Report(by)

\* The service and the network promise nothing; timers expire, and a handler
\* that is past its check calls its callbacks.
Fairness ==
    /\ WF_vars(Timeout)
    /\ \A by \in Enders : WF_vars(Report(by))

Spec == Init /\ [][Next]_vars /\ Fairness

-----------------------------------------------------------------------------
TypeOK ==
    /\ started \in BOOLEAN /\ cancelled \in BOOLEAN
    /\ stage \in Stages /\ armed \subseteq Timers /\ active \in Timers
    /\ retries \in 0 .. max_retries /\ got \in 0 .. Len(body)
    /\ ending \subseteq Enders
    /\ \A i \in DOMAIN ends : ends[i].by \in Enders

\* The chain and the timeout end a request at most once each, and both only
\* if the timeout fired while the chain ran or the chain had made its retry:
\* a request that ends in time at the first attempt has disarmed its timeout
\* for good, so its caller sees one end.
Ended(by) == by \in ending \/ \E i \in DOMAIN ends : ends[i].by = by

EndsOnce ==
    /\ \A i, j \in DOMAIN ends : ends[i].by = ends[j].by => i = j
    /\ \A i \in DOMAIN ends : ends[i].by \notin ending
    /\ Ended("chain") => stage = "none" /\ "retry" \notin armed
    /\ Ended("chain") /\ retries = 0 => "timeout" \notin armed

\* The events of an answer do not depend on how the network cuts it: what
\* was reported is what the complete events of the pieces read so far say,
\* the end of the request aside, and the lines of the event still incomplete
\* are held back.
EventsInOrder ==
    LET read  == SubSeq(body, 1, got)
        shown == [e \in Events |-> IF e.type = "stream_end" THEN <<>> ELSE <<e>>]
    IN /\ Collect(shown, events) = Collect(Reports, Whole(read))
       /\ leftover = Partial(read)

\* An answer that completes and was never timed out hands its whole content
\* to on_done_, in order, also after a retry.
AnswerWhole ==
    \A i \in DOMAIN ends :
        (i = 1 /\ ends[i].by = "chain" /\ got = Len(body)) =>
            ends[i].text = Collect(Content, Whole(body))

\* The tool calls that the receiver assembles once the answer ends lose no
\* argument after the first id, and give every call exactly the arguments
\* that continue it, provided a chunk without id always continues the call
\* with the greatest id so far.
CallsAssembled ==
    LET chunks == ToolChunks
        calls  == merge_tool_calls(chunks)
        named(i) == {j \in 1 .. i : chunks[j].id # 0}
        owner(i) == chunks[Max(named(i))].id
        due(id) == Collect([i \in DOMAIN chunks |-> IF named(i) # {} /\ owner(i) = id
                                                    THEN <<chunks[i].arg>> ELSE <<>>],
                           [i \in DOMAIN chunks |-> i])
        inOrder == \A i \in DOMAIN chunks : named(i) # {} =>
                      owner(i) = Max({chunks[j].id : j \in named(i)})
    IN /\ \A i \in DOMAIN chunks : named(i) # {} =>
             \E id \in DOMAIN calls : chunks[i].arg \in Range(calls[id])
       /\ inOrder => \A id \in DOMAIN calls : calls[id] = due(id)

\* A request that is not given up ends: the timeout sees to it when neither
\* the service nor the network answers.
RequestEnds == started ~> (cancelled \/ ends # <<>>)

\* The client keeps what LlmRequest promises its caller.
R == INSTANCE LlmRequest WITH reported <- Len(ends),
                              committed <- Cardinality(ending)
RequestSpec == R!Spec
=============================================================================
