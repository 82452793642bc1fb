-------------------------- MODULE LlmClientProofs ---------------------------
(***************************************************************************)
(* Proofs about LlmClient, for any answers of the service:                 *)
(*   - its type, and how often a request reports its end;                  *)
(*   - it implements LlmRequest;                                           *)
(*   - what it reports of an answer does not depend on how the network     *)
(*     cuts it, an answer is handed over whole, and the tool calls that    *)
(*     come in chunks are put together.                                    *)
(***************************************************************************)
EXTENDS LlmClient, NaturalSets, FiniteSetTheorems, SequenceTheorems, TLAPS

EndsType ==
    /\ \E S : ends \in Seq(S)
    /\ \A i \in DOMAIN ends : ends[i].by \in Enders

ControlType ==
    /\ started \in BOOLEAN /\ cancelled \in BOOLEAN
    /\ stage \in Stages /\ armed \subseteq Timers /\ active \in Timers
    /\ retries \in 0 .. max_retries
    /\ Len(body) \in Nat /\ got \in 0 .. Len(body)
    /\ ending \subseteq Enders

\* Before the request starts nothing is armed and nothing has ended.
NothingBefore ==
    ~started => stage = "none" /\ armed = {} /\ ending = {} /\ ends = <<>>

\* At the first attempt the timer the client knows of is the timeout.
FirstAttempt == retries = 0 => active = "timeout" /\ "retry" \notin armed

\* The chain waits while the retry timer runs.
Pauses == "retry" \in armed => stage = "none"

\* The timeout ends a request by firing, after which it is not armed again.
FiresOnce == Ended("timeout") => "timeout" \notin armed

LlmInv ==
    /\ ControlType /\ EndsType
    /\ NothingBefore /\ FirstAttempt /\ Pauses /\ FiresOnce
    /\ EndsOnce

-----------------------------------------------------------------------------
(* What the steps do to the ends.                                          *)

Kept  == ending' = ending /\ ends' = ends
Adds(e) == ending' = ending \cup {e} /\ ends' = ends

LEMMA KeptEnds ==
    ASSUME Kept
    PROVE  \A e : Ended(e)' <=> Ended(e)
BY DEF Kept, Ended

LEMMA AddedEnds ==
    ASSUME NEW e, Adds(e)
    PROVE  \A f : Ended(f)' <=> Ended(f) \/ f = e
BY DEF Adds, Ended

\* A report moves an end from those decided to those made.
LEMMA ReportEnds ==
    ASSUME LlmInv, NEW by \in Enders, Report(by)
    PROVE  /\ EndsType'
           /\ Len(ends) \in Nat /\ Len(ends') = Len(ends) + 1
           /\ \A i \in DOMAIN ends : ends'[i] = ends[i]
           /\ ends'[Len(ends) + 1].by = by
           /\ DOMAIN ends = 1 .. Len(ends) /\ DOMAIN ends' = 1 .. Len(ends) + 1
           /\ \A e : Ended(e)' <=> Ended(e)
<1>. DEFINE new == [by |-> by, text |-> response]
<1>1. PICK S : ends \in Seq(S)
  BY DEF LlmInv, EndsType
<1>. DEFINE T == S \cup {new}
<1>2. ends \in Seq(T)
  BY <1>1, SeqMonotonic
<1>3. ends' = Append(ends, new)
  BY DEF Report
<1>4. /\ ends' \in Seq(T) /\ Len(ends') = Len(ends) + 1
      /\ \A i \in 1 .. Len(ends) : ends'[i] = ends[i]
      /\ ends'[Len(ends) + 1] = new
  BY <1>2, <1>3, AppendProperties
<1>5. /\ Len(ends) \in Nat /\ DOMAIN ends = 1 .. Len(ends)
      /\ DOMAIN ends' = 1 .. Len(ends) + 1
  BY <1>2, <1>4, LenProperties
<1>6. ends'[Len(ends) + 1].by = by
  BY <1>4
<1>. HIDE DEF new, T
<1>7. EndsType'
  BY <1>4, <1>5, <1>6 DEF LlmInv, EndsType
<1>8. \A e : Ended(e)' <=> Ended(e)
  <2>. SUFFICES ASSUME NEW e PROVE Ended(e)' <=> Ended(e)
    OBVIOUS
  <2>1. ending' = ending \ {by} /\ by \in ending
    BY DEF Report
  <2>2. (\E i \in DOMAIN ends' : ends'[i].by = e)
          <=> (\E i \in DOMAIN ends : ends[i].by = e) \/ e = by
    <3>1. ASSUME NEW i \in DOMAIN ends'
          PROVE  (i \in DOMAIN ends /\ ends'[i] = ends[i]) \/ i = Len(ends) + 1
      BY <1>4, <1>5
    <3>2. Len(ends) + 1 \in DOMAIN ends' /\ \A i \in DOMAIN ends : i \in DOMAIN ends'
      BY <1>5
    <3>. QED BY <1>4, <1>5, <1>6, <3>1, <3>2
  <2>. QED BY <2>1, <2>2 DEF Ended
<1>. QED BY <1>4, <1>5, <1>6, <1>7, <1>8

-----------------------------------------------------------------------------
(* The invariant.                                                          *)

LEMMA LlmInit == Init => LlmInv
<1>. SUFFICES ASSUME Init PROVE LlmInv
  OBVIOUS
<1>1. ends = <<>> /\ ends \in Seq({}) /\ Len(body) = 0
  <2>1. ends = <<>> /\ body = <<>>
    BY DEF Init
  <2>. QED BY <2>1
<1>2. DOMAIN ends = {}
  <2>1. Len(ends) = 0 /\ DOMAIN ends = 1 .. Len(ends)
    BY <1>1, LenProperties
  <2>. QED BY <2>1
<1>3. Len(body) \in Nat /\ got \in 0 .. Len(body)
  BY <1>1 DEF Init
<1>4. ControlType
  <2>1. started \in BOOLEAN /\ cancelled \in BOOLEAN
    BY DEF Init
  <2>2. stage = "none" /\ armed = {} /\ active = "timeout" /\ retries = 0 /\ ending = {}
    BY DEF Init
  <2>3. /\ stage \in Stages /\ armed \subseteq Timers /\ active \in Timers
        /\ retries \in 0 .. max_retries /\ ending \subseteq Enders
    BY <2>2 DEF Stages, Timers, Enders, max_retries
  <2>. QED BY <1>3, <2>1, <2>3, Zenon DEF ControlType
<1>5. NothingBefore /\ FirstAttempt /\ Pauses
  BY DEF Init, NothingBefore, FirstAttempt, Pauses
<1>6. EndsType /\ FiresOnce /\ EndsOnce
  BY <1>1, <1>2 DEF Init, EndsType, FiresOnce, EndsOnce, Ended
<1>. QED BY <1>4, <1>5, <1>6 DEF LlmInv

\* A step of the chain or a start: what may change, and what it must keep.
LEMMA KeptStep ==
    ASSUME LlmInv, Kept, ControlType', started', FirstAttempt', Pauses',
           "timeout" \in armed' => "timeout" \in armed \/ ~started,
           Ended("chain") => /\ stage' = "none" /\ armed' \subseteq armed
                             /\ retries' = retries
    PROVE  LlmInv'
<1>1. \A e : Ended(e)' <=> Ended(e)
  BY KeptEnds
<1>2. EndsType'
  BY DEF LlmInv, EndsType, Kept
<1>3. ~started => ~Ended("timeout")
  BY DEF LlmInv, NothingBefore, Ended
<1>4. FiresOnce'
  BY <1>1, <1>3 DEF LlmInv, FiresOnce
<1>5. EndsOnce'
  BY <1>1 DEF LlmInv, EndsOnce, Kept
<1>. QED BY <1>2, <1>4, <1>5 DEF LlmInv, NothingBefore

\* A step that decides an end not yet decided.
LEMMA AddsStep ==
    ASSUME LlmInv, NEW e \in Enders, Adds(e), ~Ended(e), ControlType', started',
           FirstAttempt', Pauses', armed' \subseteq armed,
           retries' = retries, "timeout" \in armed' => e # "timeout",
           e = "chain" => /\ stage' = "none" /\ "retry" \notin armed
                          /\ retries = 0 => "timeout" \notin armed',
           Ended("chain") => stage' = "none"
    PROVE  LlmInv'
<1>1. \A f : Ended(f)' <=> Ended(f) \/ f = e
  BY AddedEnds
<1>2. EndsType'
  BY DEF LlmInv, EndsType, Adds
<1>3. FiresOnce'
  BY <1>1 DEF LlmInv, FiresOnce
<1>4. EndsOnce'
  <2>1. \A i \in DOMAIN ends : ends[i].by # e
    BY DEF Ended
  <2>. QED BY <1>1, <2>1 DEF LlmInv, EndsOnce, Adds
<1>. QED BY <1>2, <1>3, <1>4 DEF LlmInv, NothingBefore

\* The chain at work: the request is started, and the chain has not ended it.
LEMMA ChainRuns ==
    ASSUME LlmInv, stage # "none"
    PROVE  started /\ ~Ended("chain") /\ "retry" \notin armed
BY DEF LlmInv, NothingBefore, EndsOnce, Pauses

LEMMA ChainStep == ASSUME LlmInv, Chain PROVE LlmInv'
<1>. USE DEF Stages, Timers, Enders, max_retries
<1>1. ASSUME NEW s, NEW t \in Stages \ {"none"}, s # "none", Advance(s, t) PROVE LlmInv'
  BY <1>1, ChainRuns, KeptStep
     DEF Advance, Kept, LlmInv, ControlType, FirstAttempt, Pauses, timerVars, parseVars,
         endVars
<1>2. CASE Resolved \/ Connected \/ Handshaken \/ Written \/ BadStatus
  BY <1>1, <1>2 DEF Resolved, Connected, Handshaken, Written, BadStatus
<1>3. CASE HeaderOk
  BY <1>3, ChainRuns, KeptStep, LlmAssumption
     DEF HeaderOk, Kept, LlmInv, ControlType, FirstAttempt, Pauses, timerVars, endVars
<1>4. CASE Retry
  BY <1>4, ChainRuns, KeptStep
     DEF Retry, SetTimeout, Kept, LlmInv, ControlType, FirstAttempt, Pauses, endVars
<1>5. CASE ReadSome
  <2>1. PICK n \in got .. Len(body) : got' = n /\ body' = body
    BY <1>5 DEF ReadSome, Drain
  <2>. QED
    BY <1>5, <2>1, ChainRuns, KeptStep
       DEF ReadSome, Kept, LlmInv, ControlType, FirstAttempt, Pauses, chainVars, timerVars,
           endVars
<1>6. CASE ReadLast
  <2>1. got' = Len(body) /\ body' = body
    BY <1>6 DEF ReadLast, Drain
  <2>2. started /\ ~Ended("chain") /\ "retry" \notin armed
    BY <1>6, ChainRuns DEF ReadLast
  <2>3. ControlType' /\ FirstAttempt' /\ Pauses'
    BY <1>6, <2>1, <2>2
       DEF ReadLast, StopTimer, LlmInv, ControlType, FirstAttempt, Pauses
  <2>. QED
    BY <1>6, <2>2, <2>3, AddsStep DEF ReadLast, StopTimer, Adds, LlmInv, FirstAttempt
<1>7. CASE Aborted
  BY <1>7, ChainRuns, KeptStep
     DEF Aborted, Kept, LlmInv, ControlType, FirstAttempt, Pauses, timerVars, parseVars,
         endVars
<1>8. ASSUME NEW s \in Stages \ {"none"}, Fail(s) PROVE LlmInv'
  BY <1>8, ChainRuns, AddsStep
     DEF Fail, Finish, StopTimer, Adds, LlmInv, ControlType, FirstAttempt, Pauses,
         parseVars
<1>. QED BY <1>2, <1>3, <1>4, <1>5, <1>6, <1>7, <1>8 DEF Chain

LEMMA LlmStep == LlmInv /\ [Next]_vars => LlmInv'
<1>. SUFFICES ASSUME LlmInv, [Next]_vars PROVE LlmInv'
  OBVIOUS
<1>. USE DEF Stages, Timers, Enders, max_retries
<1>1. CASE Start
  <2>1. ~Ended("chain")
    BY <1>1 DEF Start, LlmInv, NothingBefore, Ended
  <2>. QED
    BY <1>1, <2>1, KeptStep
       DEF Start, SetTimeout, Kept, LlmInv, ControlType, NothingBefore, FirstAttempt,
           Pauses, parseVars, endVars
<1>2. CASE Cancel
  <2>1. CASE started
    BY <1>2, <2>1, KeptStep
       DEF Cancel, Kept, LlmInv, ControlType, FirstAttempt, Pauses, chainVars,
           parseVars, endVars, EndsOnce
  <2>2. CASE ~started
    BY <1>2, <2>2
       DEF Cancel, LlmInv, ControlType, EndsType, NothingBefore, FirstAttempt, Pauses,
           FiresOnce, EndsOnce, Ended, chainVars, parseVars, endVars
  <2>. QED BY <2>1, <2>2
<1>3. CASE Timeout
  <2>1. started /\ ~Ended("timeout")
    BY <1>3 DEF Timeout, LlmInv, NothingBefore, FiresOnce
  <2>2. ControlType' /\ FirstAttempt' /\ Pauses' /\ started' /\ armed' \subseteq armed
        /\ retries' = retries /\ stage' = stage /\ "timeout" \notin armed'
    BY <1>3, <2>1 DEF Timeout, LlmInv, ControlType, FirstAttempt, Pauses, chainVars,
                      parseVars
  <2>3. Ended("chain") => stage' = "none"
    BY <2>2 DEF LlmInv, EndsOnce
  <2>4. CASE cancelled
    BY <1>3, <2>2, <2>3, <2>4, KeptStep DEF Timeout, Kept
  <2>5. CASE ~cancelled
    BY <1>3, <2>1, <2>2, <2>3, <2>5, AddsStep DEF Timeout, Adds
  <2>. QED BY <2>4, <2>5
<1>4. CASE RetryTimer
  <2>1. started /\ ~Ended("chain")
    BY <1>4 DEF RetryTimer, LlmInv, NothingBefore, EndsOnce
  <2>. QED
    BY <1>4, <2>1, KeptStep
       DEF RetryTimer, Kept, LlmInv, ControlType, FirstAttempt, Pauses, parseVars, endVars
<1>5. ASSUME NEW by \in Enders, Report(by) PROVE LlmInv'
  <2>1. /\ ending' = ending \ {by} /\ by \in ending
        /\ UNCHANGED <<started, chainVars, timerVars, cancelled, body, got>>
    BY <1>5 DEF Report
  <2>2. ControlType' /\ NothingBefore' /\ FirstAttempt' /\ Pauses'
    BY <2>1 DEF LlmInv, ControlType, NothingBefore, FirstAttempt, Pauses, chainVars,
                timerVars
  <2>3. FiresOnce'
    BY <1>5, <2>1, ReportEnds DEF LlmInv, FiresOnce, timerVars
  <2>4. EndsOnce'
    <3>1. ASSUME NEW i \in DOMAIN ends', NEW j \in DOMAIN ends', ends'[i].by = ends'[j].by
          PROVE  i = j
      <4>1. \A k \in DOMAIN ends : ends'[k].by = ends[k].by /\ ends[k].by # by
        BY <1>5, <2>1, ReportEnds DEF LlmInv, EndsOnce
      <4>2. \A k \in DOMAIN ends' : k \in DOMAIN ends \/ k = Len(ends) + 1
        BY <1>5, ReportEnds
      <4>3. ends'[Len(ends) + 1].by = by
        BY <1>5, ReportEnds
      <4>. QED BY <3>1, <4>1, <4>2, <4>3 DEF LlmInv, EndsOnce
    <3>2. ASSUME NEW i \in DOMAIN ends' PROVE ends'[i].by \notin ending'
      <4>1. CASE i \in DOMAIN ends
        BY <1>5, <2>1, <4>1, ReportEnds DEF LlmInv, EndsOnce
      <4>2. CASE i = Len(ends) + 1
        BY <1>5, <2>1, <4>2, ReportEnds
      <4>. QED BY <1>5, <4>1, <4>2, ReportEnds
    <3>3. \A e : Ended(e)' <=> Ended(e)
      BY <1>5, ReportEnds
    <3>. QED
      BY <2>1, <3>1, <3>2, <3>3 DEF LlmInv, EndsOnce, chainVars, timerVars
  <2>. QED BY <1>5, <2>2, <2>3, <2>4, ReportEnds DEF LlmInv
<1>6. CASE UNCHANGED vars
  BY <1>6
     DEF vars, chainVars, timerVars, parseVars, endVars, LlmInv, ControlType, EndsType,
         NothingBefore, FirstAttempt, Pauses, FiresOnce, EndsOnce, Ended
<1>. QED BY <1>1, <1>2, <1>3, <1>4, <1>5, <1>6, ChainStep DEF Next

LEMMA LlmHolds == Spec => []LlmInv
BY LlmInit, LlmStep, PTL DEF Spec

\* Every variable of the client keeps its type: among others, one retry at the
\* most, and no more of the body parsed than there is (prev_body_size_).
THEOREM LlmTypeCorrect == Spec => []TypeOK
<1>1. LlmInv => TypeOK
  BY DEF LlmInv, ControlType, EndsType, TypeOK
<1>. QED BY <1>1, LlmHolds, PTL

\* Each of the chain and the timeout ends a request at most once, and an end
\* at the first attempt leaves no timer armed (finish_success, finish_error and
\* start's timeout in llm_client.cpp).
THEOREM EndsHold == Spec => []EndsOnce
<1>1. LlmInv => EndsOnce
  BY DEF LlmInv
<1>. QED BY <1>1, LlmHolds, PTL

-----------------------------------------------------------------------------
(* LlmClient implements LlmRequest.                                        *)

LEMMA EndingFinite == ASSUME LlmInv PROVE IsFiniteSet(ending)
<1>1. IsFiniteSet({"chain"} \cup {"timeout"})
  BY FS_Singleton, FS_AddElement
<1>2. ending \in SUBSET ({"chain"} \cup {"timeout"})
  BY DEF LlmInv, ControlType, Enders
<1>. QED BY <1>1, <1>2, FS_Subset

\* An end that is decided was preceded by at most one other, decided or made.
LEMMA OneOther ==
    ASSUME LlmInv, NEW e \in Enders, ~Ended(e)
    PROVE  Len(ends) + Cardinality(ending) < R!MaxEnds
<1>. DEFINE other == IF e = "chain" THEN "timeout" ELSE "chain"
<1>1. PICK S : ends \in Seq(S)
  BY DEF LlmInv, EndsType
<1>2. Len(ends) \in Nat /\ DOMAIN ends = 1 .. Len(ends)
  BY <1>1, LenProperties
<1>3. /\ \A i \in DOMAIN ends : ends[i].by = other
      /\ ending \subseteq {other}
  BY DEF LlmInv, EndsType, ControlType, Enders, Ended
<1>4. Len(ends) <= 1
  <2>. SUFFICES ASSUME Len(ends) > 1 PROVE FALSE
    BY <1>2
  <2>1. 1 \in DOMAIN ends /\ 2 \in DOMAIN ends
    BY <1>2
  <2>. QED BY <1>3, <2>1 DEF LlmInv, EndsOnce
<1>5. CASE Len(ends) = 0
  <2>1. Cardinality(ending) <= 1
    <3>1. ending = {} \/ ending = {other}
      BY <1>3
    <3>2. Cardinality({}) = 0 /\ Cardinality({other}) = 1
      BY FS_EmptySet, FS_Singleton
    <3>3. Cardinality(ending) = 0 \/ Cardinality(ending) = 1
      BY <3>1, <3>2
    <3>. QED BY <3>3
  <2>2. Cardinality(ending) \in Nat
    BY EndingFinite, FS_CardinalityType
  <2>. QED BY <1>5, <2>1, <2>2 DEF R!MaxEnds
<1>6. CASE Len(ends) = 1
  <2>1. 1 \in DOMAIN ends
    BY <1>2, <1>6
  <2>2. ending = {}
    BY <1>3, <2>1 DEF LlmInv, EndsOnce
  <2>. QED BY <1>6, <2>2, FS_EmptySet DEF R!MaxEnds
<1>. QED BY <1>2, <1>4, <1>5, <1>6

LEMMA KeptImplements ==
    ASSUME Kept, cancelled' = cancelled PROVE UNCHANGED R!vars
BY DEF Kept, R!vars

LEMMA AddsImplements ==
    ASSUME LlmInv, NEW e \in Enders, ~Ended(e), Adds(e), ~cancelled, cancelled' = cancelled
    PROVE  R!Commit
<1>1. e \notin ending
  BY DEF Ended
<1>2. Cardinality(ending') = Cardinality(ending) + 1
  BY <1>1, EndingFinite, FS_AddElement DEF Adds
<1>. QED BY <1>2, OneOther DEF R!Commit, Adds

LEMMA StepImplements == ASSUME LlmInv, [Next]_vars PROVE [R!Next]_(R!vars)
<1>1. CASE Start \/ RetryTimer \/ UNCHANGED vars
  BY <1>1, KeptImplements DEF Start, RetryTimer, Kept, vars, endVars
<1>2. CASE Cancel
  BY <1>2 DEF Cancel, R!Next, R!Cancel, endVars
<1>3. CASE Timeout
  <2>1. ~Ended("timeout") /\ cancelled' = cancelled /\ ends' = ends
    BY <1>3 DEF Timeout, LlmInv, FiresOnce
  <2>2. CASE cancelled
    BY <1>3, <2>1, <2>2, KeptImplements DEF Timeout, Kept
  <2>3. CASE ~cancelled
    BY <1>3, <2>1, <2>3, AddsImplements DEF Timeout, Adds, Enders, R!Next
  <2>. QED BY <2>2, <2>3
<1>4. CASE Chain
  <2>1. CASE Aborted \/ Retry \/ ReadSome \/ HeaderOk \/ Resolved \/ Connected
             \/ Handshaken \/ Written \/ BadStatus
    BY <2>1, KeptImplements
       DEF Aborted, Retry, ReadSome, HeaderOk, Resolved, Connected, Handshaken, Written,
           BadStatus, Advance, Kept, endVars
  <2>2. CASE ReadLast
    <3>1. ~Ended("chain") /\ ~cancelled /\ cancelled' = cancelled /\ Adds("chain")
      BY <2>2, ChainRuns DEF ReadLast, Adds
    <3>. QED BY <3>1, AddsImplements DEF Enders, R!Next
  <2>3. ASSUME NEW s \in Stages \ {"none"}, Fail(s) PROVE R!Commit
    <3>1. ~Ended("chain") /\ ~cancelled /\ cancelled' = cancelled /\ Adds("chain")
      BY <2>3, ChainRuns DEF Fail, Finish, Adds
    <3>. QED BY <3>1, AddsImplements DEF Enders
  <2>. QED BY <1>4, <2>1, <2>2, <2>3 DEF Chain, R!Next
<1>5. ASSUME NEW by \in Enders, Report(by) PROVE R!Report
  <2>1. Cardinality(ending) \in Nat /\ Cardinality(ending') = Cardinality(ending) - 1
        /\ Cardinality(ending') \in Nat
    BY <1>5, EndingFinite, FS_RemoveElement, FS_CardinalityType DEF Report
  <2>. QED BY <1>5, <2>1, ReportEnds DEF Report, R!Report
<1>. QED BY <1>1, <1>2, <1>3, <1>4, <1>5 DEF Next, R!Next

\* LlmClient implements LlmRequest: whatever the network, the timers and the
\* retry do, its caller hears of at most two ends, and of none that was not
\* decided before it cancelled.
THEOREM RequestImplements == Spec => RequestSpec
<1>1. Init => R!Init
  <2>. SUFFICES ASSUME Init PROVE R!Init
    OBVIOUS
  <2>1. Len(ends) = 0 /\ Cardinality(ending) = 0
    BY FS_EmptySet DEF Init
  <2>. QED BY <2>1 DEF Init, R!Init
<1>2. LlmInv /\ [Next]_vars => [R!Next]_(R!vars)
  BY StepImplements
<1>. QED BY <1>1, <1>2, LlmHolds, PTL DEF Spec, RequestSpec, R!Spec

-----------------------------------------------------------------------------
(* Collect.                                                                *)

Maps(yield, D, E) == \A d \in D : yield[d] \in Seq(E)

\* The yields of the elements of s, element by element.
Yields(u, yield, s, D, E) ==
    /\ Maps(yield, D, E) /\ s \in Seq(D)
    /\ u \in [0 .. Len(s) -> Seq(E)] /\ u[0] = <<>>
    /\ \A n \in 1 .. Len(s) : u[n] = u[n - 1] \o yield[s[n]]

LEMMA YieldsExist ==
    ASSUME NEW D, NEW E, NEW yield, Maps(yield, D, E), NEW s \in Seq(D)
    PROVE  \E u : Yields(u, yield, s, D, E)
<1>. DEFINE N == Len(s)
            F == [n \in 1 .. N |-> [v \in Seq(E) |-> v \o yield[s[n]]]]
<1>1. N \in Nat /\ \A n \in 1 .. N : yield[s[n]] \in Seq(E)
  BY ElementOfSeq DEF Maps
<1>2. F \in [1 .. N -> [Seq(E) -> Seq(E)]]
  <2>1. ASSUME NEW n \in 1 .. N, NEW v \in Seq(E) PROVE v \o yield[s[n]] \in Seq(E)
    BY <1>1, ConcatProperties
  <2>. QED BY <2>1
<1>3. <<>> \in Seq(E)
  OBVIOUS
<1>4. PICK u : Unfolds(u, Seq(E), F, <<>>, N)
  <2>. HIDE DEF F, N
  <2>. QED BY <1>1, <1>2, <1>3, UnfoldingExists
<1>5. ASSUME NEW n \in 1 .. N PROVE u[n] = u[n - 1] \o yield[s[n]]
  <2>1. n - 1 \in 0 .. N
    BY <1>1
  <2>2. u[n - 1] \in Seq(E)
    <3>. HIDE DEF F, N
    <3>. QED BY <1>4, <2>1 DEF Unfolds
  <2>. QED BY <1>4, <2>2 DEF Unfolds
<1>6. u \in [0 .. Len(s) -> Seq(E)] /\ u[0] = <<>>
  BY <1>4 DEF Unfolds
<1>. QED BY <1>5, <1>6 DEF Yields

LEMMA CollectIs ==
    ASSUME NEW D, NEW E, NEW yield, NEW s, NEW u, Yields(u, yield, s, D, E)
    PROVE  Collect(yield, s) = u[Len(s)]
<1>. DEFINE Step(f) == [n \in 0 .. Len(s) |-> IF n = 0 THEN <<>>
                                              ELSE f[n - 1] \o yield[s[n]]]
            c == CHOOSE f : f = Step(f)
<1>1. Len(s) \in Nat
  BY DEF Yields
<1>2. u = Step(u)
  <2>1. u = [n \in 0 .. Len(s) |-> u[n]]
    BY DEF Yields
  <2>2. ASSUME NEW n \in 0 .. Len(s)
        PROVE  u[n] = IF n = 0 THEN <<>> ELSE u[n - 1] \o yield[s[n]]
    <3>1. CASE n = 0
      BY <3>1 DEF Yields
    <3>2. CASE n # 0
      <4>1. n \in 1 .. Len(s)
        BY <1>1, <3>2
      <4>. QED BY <3>2, <4>1 DEF Yields
    <3>. QED BY <3>1, <3>2
  <2>. QED BY <2>1, <2>2
<1>3. c = Step(c)
  BY <1>2
<1>4. Collect(yield, s) = c[Len(s)]
  BY DEF Collect
<1>. HIDE DEF c
<1>5. c[0] = u[0] /\ \A n \in 1 .. Len(s) : c[n - 1] = u[n - 1] => c[n] = u[n]
  <2>1. \A n \in 0 .. Len(s) : c[n] = IF n = 0 THEN <<>> ELSE c[n - 1] \o yield[s[n]]
    BY <1>3
  <2>2. 0 \in 0 .. Len(s) /\ \A n \in 1 .. Len(s) : n \in 0 .. Len(s) /\ n # 0
    BY <1>1
  <2>. QED BY <2>1, <2>2 DEF Yields
<1>6. c[Len(s)] = u[Len(s)]
  BY <1>1, <1>5, UnfoldingUnique
<1>. QED BY <1>4, <1>6

LEMMA CollectType ==
    ASSUME NEW D, NEW E, NEW yield, Maps(yield, D, E), NEW s \in Seq(D)
    PROVE  Collect(yield, s) \in Seq(E)
<1>1. PICK u : Yields(u, yield, s, D, E)
  BY YieldsExist
<1>2. Len(s) \in 0 .. Len(s)
  OBVIOUS
<1>3. Collect(yield, s) = u[Len(s)]
  BY <1>1, CollectIs
<1>. QED BY <1>1, <1>2, <1>3 DEF Yields

LEMMA CollectEmpty ==
    ASSUME NEW D, NEW E, NEW yield, Maps(yield, D, E)
    PROVE  Collect(yield, <<>>) = <<>>
<1>1. <<>> \in Seq(D) /\ Len(<<>>) = 0
  OBVIOUS
<1>2. PICK u : Yields(u, yield, <<>>, D, E)
  BY <1>1, YieldsExist
<1>3. Collect(yield, <<>>) = u[0]
  BY <1>1, <1>2, CollectIs
<1>. QED BY <1>2, <1>3 DEF Yields

LEMMA CollectOne ==
    ASSUME NEW D, NEW E, NEW yield, Maps(yield, D, E), NEW d \in D
    PROVE  Collect(yield, <<d>>) = yield[d]
<1>1. PICK s : s = <<d>>
  OBVIOUS
<1>2. s \in Seq(D) /\ Len(s) = 1 /\ s[1] = d
  BY <1>1
<1>3. PICK u : Yields(u, yield, s, D, E)
  BY <1>2, YieldsExist
<1>4. 1 \in 1 .. Len(s) /\ 1 - 1 = 0
  BY <1>2
<1>5. u[1] = u[0] \o yield[d] /\ u[0] = <<>>
  BY <1>2, <1>3, <1>4 DEF Yields
<1>6. u[1] = yield[d]
  BY <1>5, ConcatEmptySeq DEF Maps
<1>7. Collect(yield, s) = u[Len(s)]
  BY <1>3, CollectIs
<1>. QED BY <1>1, <1>2, <1>6, <1>7

\* Where the sequence is cut does not matter.
LEMMA CollectConcat ==
    ASSUME NEW D, NEW E, NEW yield, Maps(yield, D, E), NEW s \in Seq(D), NEW t \in Seq(D)
    PROVE  Collect(yield, s \o t) = Collect(yield, s) \o Collect(yield, t)
<1>1. PICK u : Yields(u, yield, s, D, E)
  BY YieldsExist
<1>2. PICK v : Yields(v, yield, t, D, E)
  BY YieldsExist
<1>3. PICK a \in Nat, b \in Nat : a = Len(s) /\ b = Len(t)
  OBVIOUS
<1>4. PICK r : r = s \o t
  OBVIOUS
<1>5. /\ r \in Seq(D) /\ Len(r) = a + b
      /\ \A n \in 1 .. a : r[n] = s[n]
      /\ \A n \in 1 .. b : r[a + n] = t[n]
  <2>1. /\ r \in Seq(D) /\ Len(r) = a + b
        /\ \A i \in 1 .. a + b : r[i] = IF i <= a THEN s[i] ELSE t[i - a]
    BY <1>3, <1>4, ConcatProperties
  <2>2. \A n \in 1 .. a : n \in 1 .. a + b /\ n <= a
    OBVIOUS
  <2>3. \A n \in 1 .. b : a + n \in 1 .. a + b /\ ~(a + n <= a) /\ (a + n) - a = n
    OBVIOUS
  <2>. QED BY <2>1, <2>2, <2>3
<1>6. /\ u \in [0 .. a -> Seq(E)] /\ u[0] = <<>>
      /\ \A n \in 1 .. a : u[n] = u[n - 1] \o yield[s[n]]
  BY <1>1, <1>3 DEF Yields
<1>7. /\ v \in [0 .. b -> Seq(E)] /\ v[0] = <<>>
      /\ \A n \in 1 .. b : v[n] = v[n - 1] \o yield[t[n]]
  BY <1>2, <1>3 DEF Yields
<1>8. \A n \in 1 .. b : yield[t[n]] \in Seq(E)
  BY <1>3, ElementOfSeq DEF Maps
<1>9. PICK first \in Seq(E) : first = u[a]
  BY <1>6
<1>. DEFINE w == [n \in 0 .. a + b |-> IF n <= a THEN u[n] ELSE first \o v[n - a]]
<1>10. w \in [0 .. a + b -> Seq(E)]
  <2>1. ASSUME NEW n \in 0 .. a + b, n <= a PROVE u[n] \in Seq(E)
    <3>1. n \in 0 .. a
      BY <2>1
    <3>. QED BY <1>6, <3>1
  <2>2. ASSUME NEW n \in 0 .. a + b, ~(n <= a) PROVE first \o v[n - a] \in Seq(E)
    <3>1. n - a \in 0 .. b
      BY <2>2
    <3>2. v[n - a] \in Seq(E)
      BY <1>7, <3>1
    <3>. QED BY <1>9, <3>2, ConcatProperties
  <2>. QED BY <2>1, <2>2
<1>11. /\ \A n \in 0 .. a : w[n] = u[n]
       /\ \A n \in 1 .. b : w[a + n] = first \o v[n]
  <2>1. \A n \in 0 .. a : n \in 0 .. a + b /\ n <= a
    OBVIOUS
  <2>2. \A n \in 1 .. b : a + n \in 0 .. a + b /\ ~(a + n <= a) /\ (a + n) - a = n
    OBVIOUS
  <2>. QED BY <2>1, <2>2
<1>. HIDE DEF w
<1>12. \A n \in 0 .. b : w[a + n] = first \o v[n]
  <2>1. ASSUME NEW n \in 0 .. b, n = 0 PROVE w[a + n] = first \o v[n]
    <3>1. w[a + n] = first /\ v[n] = <<>>
      BY <1>7, <1>9, <1>11, <2>1
    <3>. QED BY <3>1, ConcatEmptySeq
  <2>2. \A n \in 0 .. b : n = 0 \/ n \in 1 .. b
    OBVIOUS
  <2>. QED BY <1>11, <2>1, <2>2
<1>13. ASSUME NEW n \in 1 .. a PROVE w[n] = w[n - 1] \o yield[r[n]]
  <2>1. n \in 0 .. a /\ n - 1 \in 0 .. a
    OBVIOUS
  <2>. QED BY <1>5, <1>6, <1>11, <2>1
<1>14. ASSUME NEW n \in 1 .. b PROVE w[a + n] = w[(a + n) - 1] \o yield[r[a + n]]
  <2>1. n \in 0 .. b /\ n - 1 \in 0 .. b /\ (a + n) - 1 = a + (n - 1)
    OBVIOUS
  <2>2. PICK x, y : x = v[n - 1] /\ y = yield[t[n]]
    OBVIOUS
  <2>3. x \in Seq(E) /\ y \in Seq(E) /\ v[n] = x \o y
    BY <1>7, <1>8, <2>1, <2>2
  <2>4. (first \o x) \o y = first \o (x \o y)
    <3>1. first \in Seq(E) /\ x \in Seq(E) /\ y \in Seq(E)
      BY <2>3
    <3>. QED BY ONLY <3>1, ConcatAssociative
  <2>. QED BY <1>5, <1>12, <2>1, <2>2, <2>3, <2>4
<1>15. \A n \in 1 .. Len(r) : w[n] = w[n - 1] \o yield[r[n]]
  <2>1. ASSUME NEW n \in 1 .. a + b, ~(n \in 1 .. a)
        PROVE  w[n] = w[n - 1] \o yield[r[n]]
    <3>1. PICK k \in 1 .. b : n = a + k
      <4>1. n - a \in 1 .. b /\ n = a + (n - a)
        BY <2>1
      <4>. QED BY <4>1
    <3>. QED BY <1>14, <3>1
  <2>. QED BY <1>5, <1>13, <2>1
<1>16. Yields(w, yield, r, D, E)
  <2>1. w[0] = <<>>
    BY <1>6, <1>11
  <2>. QED BY <1>5, <1>10, <1>15, <2>1 DEF Yields
<1>17. Collect(yield, r) = w[a + b] /\ Collect(yield, s) = u[a] /\ Collect(yield, t) = v[b]
  <2>1. Collect(yield, r) = w[Len(r)]
    BY <1>16, CollectIs
  <2>2. Collect(yield, s) = u[Len(s)]
    BY <1>1, CollectIs
  <2>3. Collect(yield, t) = v[Len(t)]
    BY <1>2, CollectIs
  <2>. QED BY <1>3, <1>5, <2>1, <2>2, <2>3
<1>18. w[a + b] = first \o v[b]
  BY <1>12
<1>. QED BY <1>4, <1>9, <1>17, <1>18

\* Elements that yield themselves are collected as they are.
LEMMA CollectSame ==
    ASSUME NEW D, NEW E, NEW yield, Maps(yield, D, E), NEW s \in Seq(D), s \in Seq(E),
           \A i \in 1 .. Len(s) : yield[s[i]] = <<s[i]>>
    PROVE  Collect(yield, s) = s
<1>. DEFINE u == [n \in 0 .. Len(s) |-> SubSeq(s, 1, n)]
<1>1. Len(s) \in Nat
  OBVIOUS
<1>2. u \in [0 .. Len(s) -> Seq(E)]
  <2>1. ASSUME NEW n \in 0 .. Len(s) PROVE SubSeq(s, 1, n) \in Seq(E)
    <3>1. \A i \in 1 .. n : s[i] \in E
      BY <1>1, ElementOfSeq
    <3>2. n \in Int /\ 1 \in Int
      BY <1>1
    <3>. QED BY <3>1, <3>2, SubSeqProperties
  <2>. QED BY <2>1
<1>3. u[0] = <<>>
  <2>1. 0 \in 0 .. Len(s) /\ 0 \in Int /\ 1 \in Int /\ 0 < 1
    BY <1>1
  <2>. QED BY <2>1, SubSeqEmpty
<1>4. ASSUME NEW n \in 1 .. Len(s) PROVE u[n] = u[n - 1] \o yield[s[n]]
  <2>1. 1 \in 1 .. Len(s) /\ n \in 1 .. Len(s) /\ n - 1 \in 0 .. Len(s) /\ n \in 0 .. Len(s)
    BY <1>1
  <2>2. SubSeq(s, 1, n) = SubSeq(s, 1, n - 1) \o <<s[n]>>
    BY <2>1, SubSeqRecursiveSecond
  <2>. QED BY <2>1, <2>2
<1>. HIDE DEF u
<1>5. Yields(u, yield, s, D, E)
  BY <1>2, <1>3, <1>4 DEF Yields
<1>6. Collect(yield, s) = u[Len(s)]
  BY <1>5, CollectIs
<1>7. u[Len(s)] = SubSeq(s, 1, Len(s))
  BY <1>1 DEF u
<1>. QED BY <1>6, <1>7, SubSeqFull

-----------------------------------------------------------------------------
(* Cutting a text behind its last blank line.                              *)

IsLast(s, c) ==
    /\ c \in 0 .. Len(s) /\ (c # 0 => s[c] = Blank)
    /\ \A i \in c + 1 .. Len(s) : s[i] # Blank

LEMMA CompleteIs ==
    ASSUME NEW D, NEW s \in Seq(D)
    PROVE  IsLast(s, Complete(s)) /\ \A c : IsLast(s, c) => c = Complete(s)
<1>. DEFINE I == {i \in 1 .. Len(s) : s[i] = Blank}
            m == CHOOSE x \in I : \A y \in I : x >= y
<1>1. Complete(s) = IF I # {} THEN m ELSE 0
  BY DEF Complete, SelectLastInSeq, Max
<1>2. Len(s) \in Nat /\ I \in SUBSET (0 .. Len(s))
  OBVIOUS
<1>3. ASSUME I # {} PROVE m \in I /\ \A y \in I : m >= y
  <2>1. \E x \in I : \A y \in I : y <= x
    <3>. HIDE DEF I
    <3>. QED BY <1>2, <1>3, GreatestNatural
  <2>2. PICK x \in I : \A y \in I : y <= x
    BY <2>1
  <2>3. \A y \in I : x >= y
    BY <1>2, <2>2
  <2>. HIDE DEF I
  <2>. QED BY <2>3
<1>. HIDE DEF m
<1>4. CASE I = {}
  <2>1. IsLast(s, 0) /\ Complete(s) = 0
    BY <1>1, <1>2, <1>4 DEF IsLast
  <2>2. ASSUME NEW c, IsLast(s, c) PROVE c = 0
    BY <1>4, <2>2 DEF IsLast
  <2>. QED BY <2>1, <2>2
<1>5. CASE I # {}
  <2>1. /\ Complete(s) = m /\ m \in 1 .. Len(s) /\ s[m] = Blank
        /\ \A i \in 1 .. Len(s) : s[i] = Blank => i <= m
    BY <1>1, <1>2, <1>3, <1>5
  <2>. HIDE DEF I
  <2>2. IsLast(s, m)
    BY <2>1 DEF IsLast
  <2>3. ASSUME NEW c, IsLast(s, c) PROVE c = m
    <3>1. c \in 0 .. Len(s) /\ ~(m \in c + 1 .. Len(s)) /\ (c # 0 => c <= m)
      BY <2>1, <2>3 DEF IsLast
    <3>. QED BY <1>2, <2>1, <3>1
  <2>. QED BY <2>1, <2>2, <2>3
<1>. QED BY <1>4, <1>5

LEMMA CutTypes ==
    ASSUME NEW D, NEW s \in Seq(D)
    PROVE  /\ Whole(s) \in Seq(D) /\ Partial(s) \in Seq(D)
           /\ s = Whole(s) \o Partial(s) /\ Len(Whole(s)) = Complete(s)
<1>1. Len(s) \in Nat /\ Complete(s) \in 0 .. Len(s)
  BY CompleteIs DEF IsLast
<1>2. PICK c \in 0 .. Len(s) : c = Complete(s)
  BY <1>1
<1>3. SubSeq(s, 1, c) \in Seq(D) /\ Len(SubSeq(s, 1, c)) = c
  <2>1. \A i \in 1 .. c : s[i] \in D
    BY <1>1, ElementOfSeq
  <2>2. 1 \in Int /\ c \in Int
    BY <1>1
  <2>3. SubSeq(s, 1, c) \in Seq(D) /\ Len(SubSeq(s, 1, c)) = IF 1 <= c THEN c - 1 + 1 ELSE 0
    BY <2>1, <2>2, SubSeqProperties
  <2>. QED BY <1>1, <2>3
<1>4. SubSeq(s, c + 1, Len(s)) \in Seq(D)
  <2>1. \A i \in c + 1 .. Len(s) : s[i] \in D
    BY <1>1, ElementOfSeq
  <2>2. c + 1 \in Int /\ Len(s) \in Int
    BY <1>1
  <2>. QED BY <2>1, <2>2, SubSeqProperties
<1>5. SubSeq(s, 1, c) \o SubSeq(s, c + 1, Len(s)) = SubSeq(s, 1, Len(s))
  <2>1. 1 \in 1 .. Len(s) + 1 /\ c \in 1 - 1 .. Len(s) /\ Len(s) \in c .. Len(s)
    BY <1>1
  <2>. QED BY <2>1, ConcatAdjacentSubSeq
<1>. QED BY <1>2, <1>3, <1>4, <1>5, SubSeqFull DEF Whole, Partial

\* A cut in the second part of a sequence.
LEMMA CutSecond ==
    ASSUME NEW D, NEW a \in Seq(D), NEW x \in Seq(D), NEW d \in 0 .. Len(x)
    PROVE  /\ SubSeq(a \o x, 1, Len(a) + d) = a \o SubSeq(x, 1, d)
           /\ SubSeq(a \o x, Len(a) + d + 1, Len(a) + Len(x)) = SubSeq(x, d + 1, Len(x))
<1>1. PICK r : r = a \o x
  OBVIOUS
<1>2. PICK l \in Nat, m \in Nat : l = Len(a) /\ m = Len(x)
  OBVIOUS
<1>3. /\ r \in Seq(D) /\ Len(r) = l + m
      /\ \A i \in 1 .. l + m : r[i] = IF i <= l THEN a[i] ELSE x[i - l]
  BY <1>1, <1>2, ConcatProperties
<1>4. d \in Int /\ l + d \in Int /\ l + d + 1 \in Int /\ l + m \in Int /\ 1 \in Int
      /\ m \in Int /\ d + 1 \in Int /\ d <= m /\ 0 <= d
  BY <1>2
<1>5. /\ \A i \in 1 .. l + m : r[i] \in D
      /\ \A i \in 1 .. m : x[i] \in D
  BY <1>2, <1>3, ElementOfSeq
<1>6. PICK p : p = SubSeq(x, 1, d)
  OBVIOUS
<1>7. p \in Seq(D) /\ Len(p) = d /\ \A i \in 1 .. d : p[i] = x[i]
  <2>1. \A i \in 1 .. d : x[i] \in D
    BY <1>4, <1>5
  <2>2. /\ p \in Seq(D) /\ Len(p) = IF 1 <= d THEN d - 1 + 1 ELSE 0
        /\ \A i \in 1 .. d - 1 + 1 : p[i] = x[1 + i - 1]
    BY <1>4, <1>6, <2>1, SubSeqProperties
  <2>3. \A i \in 1 .. d : i \in 1 .. d - 1 + 1 /\ 1 + i - 1 = i
    BY <1>4
  <2>. QED BY <1>4, <2>2, <2>3
<1>8. PICK q : q = SubSeq(r, 1, l + d)
  OBVIOUS
<1>9. q \in Seq(D) /\ Len(q) = l + d /\ \A i \in 1 .. l + d : q[i] = r[i]
  <2>1. \A i \in 1 .. l + d : r[i] \in D
    BY <1>4, <1>5
  <2>2. /\ q \in Seq(D) /\ Len(q) = IF 1 <= l + d THEN l + d - 1 + 1 ELSE 0
        /\ \A i \in 1 .. l + d - 1 + 1 : q[i] = r[1 + i - 1]
    BY <1>4, <1>8, <2>1, SubSeqProperties
  <2>3. \A i \in 1 .. l + d : i \in 1 .. l + d - 1 + 1 /\ 1 + i - 1 = i
    BY <1>4
  <2>. QED BY <1>4, <2>2, <2>3
<1>10. q = a \o p
  <2>1. PICK o : o = a \o p
    OBVIOUS
  <2>2. /\ o \in Seq(D) /\ Len(o) = l + d
        /\ \A i \in 1 .. l + d : o[i] = IF i <= l THEN a[i] ELSE p[i - l]
    BY <1>2, <1>7, <2>1, ConcatProperties
  <2>3. ASSUME NEW i \in 1 .. l + d PROVE q[i] = o[i]
    <3>1. i \in 1 .. l + m
      BY <1>4
    <3>2. i > l => i - l \in 1 .. d
      BY <1>4
    <3>. QED BY <1>3, <1>7, <1>9, <2>2, <3>1, <3>2
  <2>. QED BY <1>9, <2>1, <2>2, <2>3, SeqEqual
<1>11. SubSeq(r, l + d + 1, l + m) = SubSeq(x, d + 1, m)
  <2>1. PICK y, z : y = SubSeq(r, l + d + 1, l + m) /\ z = SubSeq(x, d + 1, m)
    OBVIOUS
  <2>2. /\ y \in Seq(D) /\ Len(y) = IF l + d + 1 <= l + m THEN l + m - (l + d + 1) + 1 ELSE 0
        /\ \A i \in 1 .. l + m - (l + d + 1) + 1 : y[i] = r[l + d + 1 + i - 1]
    <3>1. \A i \in l + d + 1 .. l + m : r[i] \in D
      BY <1>4, <1>5
    <3>. QED BY <1>4, <2>1, <3>1, SubSeqProperties
  <2>3. /\ z \in Seq(D) /\ Len(z) = IF d + 1 <= m THEN m - (d + 1) + 1 ELSE 0
        /\ \A i \in 1 .. m - (d + 1) + 1 : z[i] = x[d + 1 + i - 1]
    <3>1. PICK e \in Int : e = d + 1
      BY <1>4
    <3>2. \A i \in e .. m : x[i] \in D
      BY <1>4, <1>5, <3>1
    <3>3. /\ SubSeq(x, e, m) \in Seq(D)
          /\ Len(SubSeq(x, e, m)) = IF e <= m THEN m - e + 1 ELSE 0
          /\ \A i \in 1 .. m - e + 1 : SubSeq(x, e, m)[i] = x[e + i - 1]
      BY <1>4, <3>2, SubSeqProperties
    <3>. QED BY <2>1, <3>1, <3>3
  <2>4. Len(y) = m - d /\ Len(z) = m - d
    BY SMTT(20), <1>4, <2>2, <2>3
  <2>5. ASSUME NEW i \in 1 .. m - d PROVE y[i] = z[i]
    <3>1. /\ i \in 1 .. l + m - (l + d + 1) + 1 /\ i \in 1 .. m - (d + 1) + 1
          /\ l + d + 1 + i - 1 = l + (d + i) /\ d + 1 + i - 1 = d + i
          /\ l + (d + i) \in 1 .. l + m /\ ~(l + (d + i) <= l) /\ l + (d + i) - l = d + i
      BY <1>4
    <3>2. PICK j : j = l + (d + i)
      OBVIOUS
    <3>3. y[i] = r[j] /\ r[j] = x[d + i] /\ z[i] = x[d + i]
      BY SMTT(20), <1>3, <2>2, <2>3, <3>1, <3>2
    <3>. QED BY <3>3
  <2>. QED BY <2>1, <2>2, <2>3, <2>4, <2>5, SeqEqual
<1>. QED BY <1>1, <1>2, <1>6, <1>8, <1>10, <1>11

\* process_sse: parsing what came before and then the rest is parsing it all.
LEMMA ParseConcat ==
    ASSUME NEW D, NEW s \in Seq(D), NEW t \in Seq(D)
    PROVE  /\ Whole(s \o t) = Whole(s) \o Whole(Partial(s) \o t)
           /\ Partial(s \o t) = Partial(Partial(s) \o t)
<1>1. PICK a, p : a = Whole(s) /\ p = Partial(s)
  OBVIOUS
<1>2. a \in Seq(D) /\ p \in Seq(D) /\ s = a \o p /\ Len(a) = Complete(s)
  BY <1>1, CutTypes
<1>3. PICK x : x = p \o t
  OBVIOUS
<1>4. x \in Seq(D)
  BY <1>2, <1>3, ConcatProperties
<1>5. PICK r : r = s \o t
  OBVIOUS
<1>6. r = a \o x
  BY <1>2, <1>3, <1>5, ConcatAssociative
<1>7. PICK l \in Nat, m \in Nat : l = Len(a) /\ m = Len(x)
  BY <1>2, <1>4
<1>d. PICK d : d = Complete(x)
  OBVIOUS
<1>8. /\ r \in Seq(D) /\ Len(r) = l + m
      /\ \A i \in 1 .. l + m : r[i] = IF i <= l THEN a[i] ELSE x[i - l]
  BY <1>2, <1>4, <1>6, <1>7, <1>d, ConcatProperties
<1>9. /\ d \in 0 .. m /\ (d # 0 => x[d] = Blank)
      /\ \A i \in d + 1 .. m : x[i] # Blank
  BY <1>4, <1>7, <1>d, CompleteIs DEF IsLast
<1>10. l # 0 => a[l] = Blank
  <2>1. ASSUME l # 0 PROVE a[l] = s[l]
    <3>1. l \in 1 .. Len(a) + Len(p) /\ l <= Len(a)
      BY <1>2, <1>7, <1>d, <2>1
    <3>. QED BY <1>2, <3>1, ConcatProperties
  <2>2. l # 0 => s[l] = Blank
    BY <1>2, <1>7, <1>d, CompleteIs DEF IsLast
  <2>. QED BY <2>1, <2>2
<1>11. IsLast(r, l + d)
  <2>1. l + d \in 0 .. Len(r)
    BY <1>8, <1>9
  <2>2. ASSUME l + d # 0 PROVE r[l + d] = Blank
    <3>1. CASE d = 0
      <4>1. l + d \in 1 .. l + m /\ l + d <= l /\ l + d = l /\ l # 0
        BY <1>9, <2>2, <3>1
      <4>. QED BY <1>8, <1>10, <4>1
    <3>2. CASE d # 0
      <4>1. l + d \in 1 .. l + m /\ ~(l + d <= l) /\ l + d - l = d
        BY <1>9, <3>2
      <4>. QED BY <1>8, <1>9, <3>2, <4>1
    <3>. QED BY <3>1, <3>2
  <2>3. ASSUME NEW i \in l + d + 1 .. Len(r) PROVE r[i] # Blank
    <3>1. i \in 1 .. l + m /\ ~(i <= l) /\ i - l \in d + 1 .. m
      BY <1>8, <1>9
    <3>. QED BY <1>8, <1>9, <3>1
  <2>. QED BY <2>1, <2>2, <2>3 DEF IsLast
<1>12. Complete(r) = l + d
  BY <1>8, <1>11, CompleteIs
<1>13. /\ SubSeq(r, 1, l + d) = a \o SubSeq(x, 1, d)
       /\ SubSeq(r, l + d + 1, l + m) = SubSeq(x, d + 1, m)
  <2>1. d \in 0 .. Len(x)
    BY <1>7, <1>d, <1>9
  <2>. QED BY <1>2, <1>4, <1>6, <1>7, <1>d, <2>1, CutSecond
<1>. QED BY <1>1, <1>3, <1>5, <1>7, <1>d, <1>8, <1>12, <1>13 DEF Whole, Partial

-----------------------------------------------------------------------------
(* What the client reports of an answer.                                   *)

\* The events a request can report: all but the last tell of a line.
Telling == {e \in Events : e.type = "stream_end" \/ e.line # Blank}
Told    == {e \in Telling : e.type # "stream_end"}
Shown   == [e \in Events |-> IF e.type = "stream_end" THEN <<>> ELSE <<e>>]

LEMMA LinesAre == \A p \in Pieces : p # Blank => p.kind \in Kinds /\ p.id \in Nat
<1>. SUFFICES ASSUME NEW p \in Pieces, p # Blank PROVE p.kind \in Kinds /\ p.id \in Nat
  OBVIOUS
<1>. DEFINE ranges == {Range(b) : b \in Bodies}
<1>1. PICK T \in ranges : p \in T
  <2>1. Pieces = {Blank} \cup UNION ranges
    BY DEF Pieces
  <2>2. p \in Pieces /\ p # Blank
    OBVIOUS
  <2>. HIDE DEF ranges
  <2>3. p \in UNION ranges
    BY <2>1, <2>2
  <2>. QED BY <2>3
<1>2. PICK b \in Bodies : T = Range(b)
  OBVIOUS
<1>. QED BY <1>1, <1>2, LlmAssumption

LEMMA BodiesAre == Bodies \subseteq Seq(Pieces)
<1>1. ASSUME NEW b \in Bodies PROVE b \in Seq(Pieces)
  <2>1. b \in Seq(Range(b)) /\ Range(b) \subseteq Pieces
    BY LlmAssumption DEF Pieces
  <2>. QED BY <2>1, SeqMonotonic
<1>. QED BY <1>1

LEMMA ReportsType == Maps(Reports, Pieces, Told)
<1>1. ASSUME NEW p \in Pieces, p # Blank PROVE EventsOf(p) \in Seq(Told)
  <2>. DEFINE event(t) == [type |-> t, line |-> p]
  <2>1. p.kind \in Kinds
    BY <1>1, LinesAre
  <2>2. \A t \in Kinds \cup {"error"} : event(t) \in Told
    BY <1>1 DEF Told, Telling, Events, Kinds
  <2>. HIDE DEF event
  <2>3. CASE p.kind = "finish"
    <3>1. EventsOf(p) = <<event("finish"), event("delta")>>
      BY <2>3 DEF EventsOf, event
    <3>2. event("finish") \in Told /\ event("delta") \in Told
      BY <2>2 DEF Kinds
    <3>. QED BY <3>1, <3>2
  <2>4. CASE p.kind \in {"done", "comment"}
    <3>1. EventsOf(p) = <<>>
      BY <2>4 DEF EventsOf
    <3>. QED BY <3>1
  <2>5. CASE p.kind = "bad"
    <3>1. EventsOf(p) = <<event("error")>>
      BY <2>5 DEF EventsOf, event
    <3>2. event("error") \in Told
      BY <2>2
    <3>. QED BY <3>1, <3>2
  <2>6. CASE p.kind \notin {"finish", "done", "comment", "bad"}
    <3>1. EventsOf(p) = <<event(p.kind)>>
      BY <2>6 DEF EventsOf, event
    <3>2. event(p.kind) \in Told
      BY <2>1, <2>2
    <3>. QED BY <3>1, <3>2
  <2>. QED BY <2>3, <2>4, <2>5, <2>6
<1>2. <<>> \in Seq(Told)
  OBVIOUS
<1>. QED BY <1>1, <1>2 DEF Reports, Maps

LEMMA ContentType == Maps(Content, Pieces, Pieces)
BY DEF Content, Maps

LEMMA ShownType == Maps(Shown, Events, Events)
BY DEF Shown, Maps

LEMMA ToldShown ==
    ASSUME NEW s \in Seq(Told)
    PROVE  s \in Seq(Events) /\ Collect(Shown, s) = s
<1>1. s \in Seq(Events)
  BY SeqMonotonic DEF Told, Telling
<1>2. \A i \in 1 .. Len(s) : s[i] \in Told
  BY ElementOfSeq
<1>3. \A i \in 1 .. Len(s) : Shown[s[i]] = <<s[i]>>
  BY <1>2 DEF Shown, Told, Telling
<1>. QED BY <1>1, <1>3, ShownType, CollectSame

-----------------------------------------------------------------------------
(* The answer.                                                             *)

Read == SubSeq(body, 1, got)

\* Before the body, and in the pause before a retry, nothing was read.
Fresh ==
    (~started \/ "retry" \in armed
        \/ stage \in {"resolve", "connect", "handshake", "write", "header", "error_body"})
      => body = <<>> /\ got = 0

\* What the client made of what it read.
Parsed ==
    /\ Collect(Shown, events) = Collect(Reports, Whole(Read)) /\ leftover = Partial(Read)
    /\ ends = <<>> => response = Collect(Content, Whole(Read))

AnswerType ==
    /\ body \in Seq(Pieces) /\ events \in Seq(Telling) /\ response \in Seq(Pieces)

AnswerInv == LlmInv /\ AnswerType /\ Fresh /\ Parsed /\ AnswerWhole

LEMMA EventsAre == ASSUME AnswerType PROVE events \in Seq(Events)
BY SeqMonotonic DEF AnswerType, Telling

LEMMA ReadType ==
    ASSUME LlmInv, AnswerType
    PROVE  /\ Read \in Seq(Pieces) /\ got \in Nat /\ Len(body) \in Nat /\ got <= Len(body)
           /\ Whole(Read) \in Seq(Pieces)
<1>1. got \in Nat /\ Len(body) \in Nat /\ got <= Len(body)
  BY DEF LlmInv, ControlType
<1>2. \A i \in 1 .. got : body[i] \in Pieces
  BY <1>1, ElementOfSeq DEF AnswerType
<1>3. Read \in Seq(Pieces)
  <2>1. 1 \in Int /\ got \in Int
    BY <1>1
  <2>. QED BY <1>2, <2>1, SubSeqProperties DEF Read
<1>. QED BY <1>1, <1>3, CutTypes

\* Nothing is made of nothing.
LEMMA NothingRead ==
    ASSUME NEW s
    PROVE  /\ SubSeq(s, 1, 0) = <<>> /\ Whole(<<>>) = <<>> /\ Partial(<<>>) = <<>>
           /\ Collect(Reports, <<>>) = <<>> /\ Collect(Content, <<>>) = <<>>
           /\ Collect(Shown, <<>>) = <<>>
<1>1. \A r : SubSeq(r, 1, 0) = <<>>
  BY SubSeqEmpty
<1>2. <<>> \in Seq(Pieces) /\ Len(<<>>) = 0
  OBVIOUS
<1>3. Complete(<<>>) = 0
  <2>1. PICK e : e = <<>>
    OBVIOUS
  <2>2. IsLast(e, Complete(e)) /\ Len(e) = 0
    BY <1>2, <2>1, CompleteIs
  <2>3. Complete(e) \in 0 .. 0
    BY <2>2 DEF IsLast
  <2>. QED BY <2>1, <2>3
<1>4. Whole(<<>>) = <<>> /\ Partial(<<>>) = <<>>
  BY <1>1, <1>2, <1>3 DEF Whole, Partial
<1>. QED BY <1>1, <1>4, ReportsType, ContentType, ShownType, CollectEmpty

\* drain_remaining: however much of the body a read delivers.
LEMMA DrainParses ==
    ASSUME AnswerInv, NEW n \in got .. Len(body), Drain(n), ends' = ends
    PROVE  /\ Parsed' /\ body' = body /\ AnswerType'
<1>1. got \in Nat /\ Len(body) \in Nat /\ got <= Len(body) /\ Read \in Seq(Pieces)
      /\ Whole(Read) \in Seq(Pieces)
  BY ReadType DEF AnswerInv
<1>2. PICK chunk : chunk = SubSeq(body, got + 1, n)
  OBVIOUS
<1>3. chunk \in Seq(Pieces)
  <2>1. \A i \in got + 1 .. n : body[i] \in Pieces
    BY <1>1, ElementOfSeq DEF AnswerInv, AnswerType
  <2>2. got + 1 \in Int /\ n \in Int
    BY <1>1
  <2>. QED BY <1>2, <2>1, <2>2, SubSeqProperties
<1>4. body' = body /\ Read' = Read \o chunk
  <2>1. body' = body /\ got' = n
    BY DEF Drain
  <2>2. 1 \in 1 .. Len(body) + 1 /\ got \in 1 - 1 .. Len(body) /\ n \in got .. Len(body)
    BY <1>1
  <2>3. SubSeq(body, 1, got) \o SubSeq(body, got + 1, n) = SubSeq(body, 1, n)
    BY <2>2, ConcatAdjacentSubSeq DEF AnswerInv, AnswerType
  <2>. QED BY <1>2, <2>1, <2>3 DEF Read
<1>5. PICK text : text = leftover \o chunk
  OBVIOUS
<1>6. /\ leftover' = Partial(text)
      /\ response' = response \o Collect(Content, Whole(text))
      /\ events' = events \o Collect(Reports, Whole(text))
  BY <1>2, <1>5 DEF Drain, ProcessSse
<1>7. leftover = Partial(Read) /\ leftover \in Seq(Pieces)
  BY <1>1, CutTypes DEF AnswerInv, Parsed
<1>8. Whole(Read') = Whole(Read) \o Whole(text) /\ Partial(Read') = Partial(text)
  BY <1>1, <1>3, <1>4, <1>5, <1>7, ParseConcat
<1>9. text \in Seq(Pieces) /\ Whole(text) \in Seq(Pieces)
  BY <1>3, <1>5, <1>7, ConcatProperties, CutTypes
<1>10. PICK new, old, more : /\ new = Collect(Reports, Whole(text))
                             /\ old = Collect(Reports, Whole(Read))
                             /\ more = Collect(Content, Whole(text))
  OBVIOUS
<1>11. new \in Seq(Told) /\ more \in Seq(Pieces)
  BY <1>9, <1>10, ReportsType, ContentType, CollectType
<1>12. new \in Seq(Events) /\ Collect(Shown, new) = new /\ new \in Seq(Telling)
  BY <1>11, ToldShown, SeqMonotonic DEF Told
<1>13. Collect(Shown, events') = Collect(Shown, events) \o new
  <2>1. Collect(Shown, events \o new) = Collect(Shown, events) \o Collect(Shown, new)
    <3>1. events \in Seq(Events)
      BY EventsAre DEF AnswerInv
    <3>. QED BY SMTT(60), <1>12, <3>1, ShownType, CollectConcat
  <2>. QED BY <1>6, <1>10, <1>12, <2>1
<1>a. PICK w, v : w = Whole(Read) /\ v = Whole(text)
  OBVIOUS
<1>b. w \in Seq(Pieces) /\ v \in Seq(Pieces) /\ Whole(Read') = w \o v
  BY <1>1, <1>8, <1>9, <1>a
<1>14. Collect(Reports, Whole(Read')) = old \o new
  <2>1. Collect(Reports, w \o v) = Collect(Reports, w) \o Collect(Reports, v)
    BY <1>b, ReportsType, CollectConcat
  <2>. QED BY <1>10, <1>a, <1>b, <2>1
<1>15. Collect(Content, Whole(Read')) = Collect(Content, Whole(Read)) \o more
  <2>1. Collect(Content, w \o v) = Collect(Content, w) \o Collect(Content, v)
    BY <1>b, ContentType, CollectConcat
  <2>. QED BY <1>10, <1>a, <1>b, <2>1
<1>16. Collect(Shown, events') = Collect(Reports, Whole(Read'))
  BY <1>10, <1>13, <1>14 DEF AnswerInv, Parsed
<1>17. ends' = <<>> => response' = Collect(Content, Whole(Read'))
  BY <1>6, <1>10, <1>15 DEF AnswerInv, Parsed
<1>18. Parsed'
  BY <1>6, <1>8, <1>16, <1>17 DEF Parsed
<1>19. AnswerType'
  <2>1. events \o new \in Seq(Telling) /\ response \o more \in Seq(Pieces)
    BY <1>11, <1>12, ConcatProperties DEF AnswerInv, AnswerType
  <2>. QED BY <1>4, <1>6, <1>10, <2>1 DEF AnswerInv, AnswerType
<1>. QED BY <1>4, <1>18, <1>19

\* A step that reads nothing and tells nothing.
Untouched == UNCHANGED <<body, got, leftover, response, events, ends>>

LEMMA UntouchedKeeps ==
    ASSUME AnswerInv, Untouched
    PROVE  AnswerType' /\ Parsed' /\ AnswerWhole'
<1>1. AnswerType'
  BY DEF AnswerInv, AnswerType, Untouched
<1>2. Parsed'
  BY DEF AnswerInv, Parsed, Read, Untouched
<1>3. AnswerWhole'
  BY DEF AnswerInv, AnswerWhole, Untouched
<1>. QED BY <1>1, <1>2, <1>3

\* As long as the chain has ended nothing there is no answer to be whole.
LEMMA NotEnded ==
    ASSUME AnswerInv, stage # "none", ends' = ends
    PROVE  AnswerWhole'
<1>1. \A i \in DOMAIN ends : ends[i].by # "chain"
  BY ChainRuns DEF AnswerInv, Ended
<1>. QED BY <1>1 DEF AnswerWhole

\* A report hands over what was made of the pieces read.
LEMMA ReportWhole ==
    ASSUME AnswerInv, NEW by \in Enders, Report(by)
    PROVE  AnswerType' /\ Parsed' /\ AnswerWhole'
<1>. DEFINE e == [type |-> "stream_end", line |-> Blank]
<1>1. /\ UNCHANGED <<body, got, leftover>> /\ response' = <<>>
      /\ events' = Append(events, e)
      /\ ends' = Append(ends, [by |-> by, text |-> response])
  BY DEF Report
<1>2. e \in Telling /\ e \in Events /\ Shown[e] = <<>>
  <2>1. Blank \in Pieces
    BY DEF Pieces
  <2>. QED BY <2>1 DEF Telling, Events, Shown
<1>3. events \in Seq(Telling) /\ events \in Seq(Events) /\ events' = events \o <<e>>
  BY <1>1, <1>2, AppendIsConcat, EventsAre DEF AnswerInv, AnswerType
<1>. HIDE DEF e
<1>4. events' \in Seq(Telling)
  BY <1>1, <1>2, <1>3, AppendProperties
<1>5. AnswerType'
  BY <1>1, <1>4 DEF AnswerInv, AnswerType
<1>6. Collect(Shown, events') = Collect(Shown, events)
  <2>1. PICK s : s = <<e>>
    OBVIOUS
  <2>2. s \in Seq(Events)
    BY <1>2, <2>1
  <2>3. Collect(Shown, s) = <<>>
    BY <1>2, <2>1, ShownType, CollectOne
  <2>4. Collect(Shown, events \o s) = Collect(Shown, events) \o Collect(Shown, s)
    BY <1>3, <2>2, ShownType, CollectConcat
  <2>5. Collect(Shown, events) \in Seq(Events)
    BY <1>3, ShownType, CollectType
  <2>. QED BY <1>3, <2>1, <2>3, <2>4, <2>5, ConcatEmptySeq
<1>7. /\ Len(ends) \in Nat /\ Len(ends') = Len(ends) + 1
      /\ \A i \in DOMAIN ends : ends'[i] = ends[i]
      /\ DOMAIN ends = 1 .. Len(ends) /\ DOMAIN ends' = 1 .. Len(ends) + 1
  BY ReportEnds DEF AnswerInv
<1>8. ends'[Len(ends) + 1].text = response
  <2>1. PICK S : ends \in Seq(S)
    BY DEF AnswerInv, LlmInv, EndsType
  <2>2. PICK new : new = [by |-> by, text |-> response]
    OBVIOUS
  <2>3. PICK T : T = S \cup {new}
    OBVIOUS
  <2>4. ends \in Seq(T) /\ new \in T
    BY <2>1, <2>3, SeqMonotonic
  <2>5. Append(ends, new)[Len(ends) + 1] = new
    BY <2>4, AppendProperties
  <2>. QED BY <1>1, <2>2, <2>5
<1>9. ends' # <<>>
  <2>1. Len(<<>>) = 0
    OBVIOUS
  <2>. QED BY <1>7, <2>1
<1>10. Parsed'
  BY <1>1, <1>6, <1>9 DEF AnswerInv, Parsed, Read
<1>11. AnswerWhole'
  <2>. SUFFICES ASSUME 1 \in DOMAIN ends', ends'[1].by = "chain", got' = Len(body')
                PROVE  ends'[1].text = Collect(Content, Whole(body'))
    BY DEF AnswerWhole
  <2>1. CASE 1 \in DOMAIN ends
    BY <1>1, <1>7, <2>1 DEF AnswerInv, AnswerWhole
  <2>2. CASE 1 \notin DOMAIN ends
    <3>1. Len(ends) = 0
      BY <1>7, <2>2
    <3>2. ends = <<>>
      <4>1. PICK S : ends \in Seq(S)
        BY DEF AnswerInv, LlmInv, EndsType
      <4>. QED BY <3>1, <4>1, EmptySeq
    <3>3. response = Collect(Content, Whole(Read))
      BY <3>2 DEF AnswerInv, Parsed
    <3>4. Read = body
      BY <1>1, SubSeqFull DEF AnswerInv, AnswerType, Read
    <3>. QED BY <1>1, <1>8, <3>1, <3>3, <3>4
  <2>. QED BY <2>1, <2>2
<1>. QED BY <1>5, <1>10, <1>11

LEMMA AnswerInit == Init => AnswerInv
<1>. SUFFICES ASSUME Init PROVE AnswerInv
  OBVIOUS
<1>1. body = <<>> /\ got = 0 /\ leftover = <<>> /\ response = <<>> /\ events = <<>>
      /\ ends = <<>>
  BY DEF Init
<1>2. AnswerType /\ Fresh
  BY <1>1 DEF AnswerType, Fresh
<1>3. Parsed
  BY <1>1, NothingRead DEF Parsed, Read
<1>4. AnswerWhole
  <2>1. DOMAIN ends = {}
    BY <1>1
  <2>. QED BY <2>1 DEF AnswerWhole
<1>. QED BY <1>2, <1>3, <1>4, LlmInit DEF AnswerInv

LEMMA AnswerStep == AnswerInv /\ [Next]_vars => AnswerInv'
<1>. SUFFICES ASSUME AnswerInv, [Next]_vars PROVE AnswerInv'
  OBVIOUS
<1>. DEFINE Keeps == AnswerType' /\ Fresh' /\ Parsed' /\ AnswerWhole'
<1>. SUFFICES Keeps
  BY LlmStep DEF AnswerInv
<1>1. CASE Start
  <2>1. Untouched /\ Fresh'
    BY <1>1 DEF Start, Untouched, Fresh, AnswerInv, parseVars, endVars
  <2>. QED BY <2>1, UntouchedKeeps
<1>2. CASE Cancel
  <2>1. Untouched /\ Fresh'
    BY <1>2 DEF Cancel, Untouched, Fresh, AnswerInv, parseVars, endVars, chainVars
  <2>. QED BY <2>1, UntouchedKeeps
<1>3. CASE Timeout
  <2>1. Untouched /\ Fresh'
    BY <1>3 DEF Timeout, Untouched, Fresh, AnswerInv, parseVars, chainVars
  <2>. QED BY <2>1, UntouchedKeeps
<1>4. CASE RetryTimer
  <2>1. Untouched /\ Fresh'
    BY <1>4 DEF RetryTimer, Untouched, Fresh, AnswerInv, parseVars, endVars
  <2>. QED BY <2>1, UntouchedKeeps
<1>5. CASE Chain
  <2>1. CASE Resolved \/ Connected \/ Handshaken \/ Written \/ BadStatus
    <3>1. Untouched /\ Fresh'
      BY <2>1 DEF Resolved, Connected, Handshaken, Written, BadStatus, Advance, Untouched,
                  Fresh, AnswerInv, parseVars, timerVars, endVars
    <3>. QED BY <3>1, UntouchedKeeps
  <2>2. CASE HeaderOk
    <3>1. body' \in Bodies /\ got' = 0 /\ stage = "header" /\ stage' = "body"
          /\ UNCHANGED <<started, armed, leftover, response, events, ends>>
      BY <2>2 DEF HeaderOk, timerVars, endVars
    <3>2. AnswerType'
      BY <3>1, BodiesAre DEF AnswerInv, AnswerType
    <3>3. body = <<>> /\ got = 0
      BY <3>1 DEF AnswerInv, Fresh
    <3>4. Read' = <<>> /\ Read = <<>>
      BY <3>1, <3>3, NothingRead DEF Read
    <3>5. Parsed'
      BY <3>1, <3>4 DEF AnswerInv, Parsed
    <3>6. Fresh'
      <4>1. started /\ "retry" \notin armed
        BY <3>1, ChainRuns DEF AnswerInv
      <4>. QED BY <3>1, <4>1 DEF Fresh
    <3>7. AnswerWhole'
      BY <3>1, NotEnded
    <3>. QED BY <3>2, <3>5, <3>6, <3>7
  <2>3. CASE Retry
    <3>1. /\ stage = "error_body" /\ leftover' = <<>> /\ got' = 0
          /\ UNCHANGED <<started, body, response, events, ends>>
      BY <2>3 DEF Retry, endVars
    <3>2. body = <<>> /\ got = 0
      BY <3>1 DEF AnswerInv, Fresh
    <3>3. leftover = <<>>
      BY <3>2, NothingRead DEF AnswerInv, Parsed, Read
    <3>4. Untouched /\ Fresh'
      BY <3>1, <3>2, <3>3 DEF Untouched, Fresh
    <3>. QED BY <3>4, UntouchedKeeps
  <2>4. CASE ReadSome \/ ReadLast
    <3>1. got \in Nat /\ Len(body) \in Nat /\ got <= Len(body)
      BY ReadType DEF AnswerInv
    <3>2. /\ stage = "body" /\ stage' \in {"body", "none"} /\ ends' = ends
          /\ started' = started /\ armed' \subseteq armed
          /\ \E n \in got .. Len(body) : Drain(n)
      BY <2>4, <3>1 DEF ReadSome, ReadLast, StopTimer, chainVars, timerVars, endVars
    <3>3. Parsed' /\ AnswerType'
      BY <3>2, DrainParses
    <3>4. Fresh'
      <4>1. started /\ "retry" \notin armed
        BY <3>2, ChainRuns DEF AnswerInv
      <4>. QED BY <3>2, <4>1 DEF Fresh
    <3>5. AnswerWhole'
      BY <3>2, NotEnded
    <3>. QED BY <3>3, <3>4, <3>5
  <2>5. CASE Aborted
    <3>1. Untouched /\ Fresh'
      BY <2>5 DEF Aborted, Untouched, Fresh, AnswerInv, parseVars, timerVars, endVars
    <3>. QED BY <3>1, UntouchedKeeps
  <2>6. ASSUME NEW s \in Stages \ {"none"}, Fail(s) PROVE Keeps
    <3>1. Untouched /\ Fresh'
      BY <2>6 DEF Fail, Finish, StopTimer, Untouched, Fresh, AnswerInv, parseVars
    <3>. QED BY <3>1, UntouchedKeeps
  <2>. HIDE DEF Keeps
  <2>. QED BY <1>5, <2>1, <2>2, <2>3, <2>4, <2>5, <2>6 DEF Chain
<1>6. ASSUME NEW by \in Enders, Report(by) PROVE Keeps
  <2>1. Fresh'
    BY <1>6 DEF Report, Fresh, AnswerInv, chainVars, timerVars
  <2>. QED BY <1>6, <2>1, ReportWhole
<1>7. CASE UNCHANGED vars
  <2>1. Untouched /\ Fresh'
    BY <1>7 DEF vars, Untouched, Fresh, AnswerInv, parseVars, chainVars, timerVars, endVars
  <2>. QED BY <2>1, UntouchedKeeps
<1>. HIDE DEF Keeps
<1>. QED BY <1>1, <1>2, <1>3, <1>4, <1>5, <1>6, <1>7 DEF Next

LEMMA AnswerHolds == Spec => []AnswerInv
BY AnswerInit, AnswerStep, PTL DEF Spec

\* However the network cuts an answer, the client reports of it what its
\* complete events say, in their order and once, and keeps the lines of the
\* event still incomplete (drain_remaining and process_sse).
THEOREM EventsHold == Spec => []EventsInOrder
<1>1. AnswerInv => EventsInOrder
  BY DEF AnswerInv, Parsed, Shown, Read, EventsInOrder
<1>. QED BY <1>1, AnswerHolds, PTL

\* An answer read to its end before anything else ended the request is handed
\* over whole (full_response_ in finish_success).
THEOREM AnswerWholeHolds == Spec => []AnswerWhole
<1>1. AnswerInv => AnswerWhole
  BY DEF AnswerInv
<1>. QED BY <1>1, AnswerHolds, PTL

-----------------------------------------------------------------------------
(* The tool calls.                                                         *)

LEMMA GreatestIs ==
    ASSUME NEW N \in Nat, NEW T \in SUBSET (0 .. N), T # {}
    PROVE  Max(T) \in T /\ \A y \in T : y <= Max(T)
<1>1. PICK x \in T : \A y \in T : y <= x
  BY GreatestNatural
<1>2. \A y \in T : x >= y
  <2>1. \A y \in T : y \in Nat
    OBVIOUS
  <2>. QED BY <1>1, <2>1
<1>3. Max(T) = CHOOSE z \in T : \A y \in T : z >= y
  BY DEF Max
<1>4. Max(T) \in T /\ \A y \in T : Max(T) >= y
  BY <1>2, <1>3
<1>. QED BY <1>4

Calls(calls, D, A) == calls \in [D -> Seq(A)]

\* r is calls with arg added to the call id.
Added(r, calls, D, A, id, arg) ==
    /\ r \in [D \cup {id} -> Seq(A)]
    /\ \A i \in D \ {id} : r[i] = calls[i]
    /\ id \in D => r[id] = calls[id] \o <<arg>>
    /\ id \notin D => r[id] = <<arg>>

LEMMA AddToIs ==
    ASSUME NEW A, NEW D, NEW calls, Calls(calls, D, A), NEW id, NEW arg \in A
    PROVE  Added(AddTo(calls, id, arg), calls, D, A, id, arg)
<1>0. calls \in [D -> Seq(A)]
  BY DEF Calls
<1>1. AddTo(calls, id, arg) = [i \in D \cup {id} |->
                                 IF i # id THEN calls[i]
                                 ELSE IF id \in D THEN Append(calls[id], arg) ELSE <<arg>>]
  BY <1>0 DEF AddTo
<1>2. id \in D => Append(calls[id], arg) = calls[id] \o <<arg>>
                  /\ Append(calls[id], arg) \in Seq(A)
  <2>1. ASSUME id \in D PROVE calls[id] \in Seq(A)
    BY <1>0, <2>1
  <2>. QED BY <2>1, AppendIsConcat, AppendProperties
<1>3. <<arg>> \in Seq(A)
  OBVIOUS
<1>. QED BY <1>0, <1>1, <1>2, <1>3 DEF Added

\* The calls after each chunk.
Merging(m, chunks) ==
    m = [n \in 0 .. Len(chunks) |-> IF n = 0 THEN <<>> ELSE MergeChunk(m[n - 1], chunks[n])]

LEMMA MergingExists ==
    ASSUME NEW chunks, Len(chunks) \in Nat
    PROVE  \E m : Merging(m, chunks)
<1>. DEFINE Upto(m, k) == m = [n \in 0 .. k |-> IF n = 0 THEN <<>>
                                               ELSE MergeChunk(m[n - 1], chunks[n])]
            S == {k \in 0 .. Len(chunks) : \E m : Upto(m, k)}
<1>1. 0 \in S
  <2>1. PICK m : m = [n \in 0 .. 0 |-> <<>>]
    OBVIOUS
  <2>2. \A n \in 0 .. 0 : n = 0
    OBVIOUS
  <2>3. Upto(m, 0)
    BY <2>1, <2>2
  <2>. HIDE DEF Upto
  <2>. QED BY <2>3
<1>2. ASSUME NEW k \in 1 .. Len(chunks), k - 1 \in S PROVE k \in S
  <2>1. PICK m : Upto(m, k - 1)
    BY <1>2
  <2>2. PICK new : new = MergeChunk(m[k - 1], chunks[k])
    OBVIOUS
  <2>3. PICK h : h = [n \in 0 .. k |-> IF n = k THEN new ELSE m[n]]
    OBVIOUS
  <2>4. ASSUME NEW n \in 0 .. k
        PROVE  h[n] = IF n = 0 THEN <<>> ELSE MergeChunk(h[n - 1], chunks[n])
    <3>1. CASE n = k
      <4>1. n # 0 /\ h[n - 1] = m[k - 1] /\ h[n] = new
        BY <2>3, <3>1
      <4>. QED BY <2>2, <3>1, <4>1
    <3>2. CASE n # k
      <4>1. n \in 0 .. k - 1 /\ h[n] = m[n] /\ (n # 0 => h[n - 1] = m[n - 1])
        BY <2>3, <3>2
      <4>2. m[n] = IF n = 0 THEN <<>> ELSE MergeChunk(m[n - 1], chunks[n])
        BY <2>1, <4>1
      <4>. QED BY <4>1, <4>2
    <3>. QED BY <3>1, <3>2
  <2>5. Upto(h, k)
    BY <2>3, <2>4
  <2>. HIDE DEF Upto
  <2>. QED BY <2>5
<1>3. Len(chunks) \in S
  <2>. HIDE DEF S
  <2>1. Len(chunks) \in 0 .. Len(chunks)
    OBVIOUS
  <2>. QED BY <1>1, <1>2, <2>1, IntervalInduction
<1>. QED BY <1>3 DEF Merging

LEMMA MergeIs ==
    ASSUME NEW chunks, Len(chunks) \in Nat, NEW m, Merging(m, chunks)
    PROVE  merge_tool_calls(chunks) = m[Len(chunks)]
<1>. DEFINE Step(f) == [n \in 0 .. Len(chunks) |-> IF n = 0 THEN <<>>
                                                   ELSE MergeChunk(f[n - 1], chunks[n])]
            c == CHOOSE f : f = Step(f)
<1>1. c = Step(c) /\ m = Step(m)
  BY DEF Merging
<1>2. merge_tool_calls(chunks) = c[Len(chunks)]
  BY DEF merge_tool_calls
<1>. HIDE DEF c
<1>3. c[0] = m[0] /\ \A n \in 1 .. Len(chunks) : c[n - 1] = m[n - 1] => c[n] = m[n]
  <2>1. \A n \in 0 .. Len(chunks) :
           /\ c[n] = IF n = 0 THEN <<>> ELSE MergeChunk(c[n - 1], chunks[n])
           /\ m[n] = IF n = 0 THEN <<>> ELSE MergeChunk(m[n - 1], chunks[n])
    BY <1>1
  <2>2. 0 \in 0 .. Len(chunks) /\ \A n \in 1 .. Len(chunks) : n \in 0 .. Len(chunks) /\ n # 0
    OBVIOUS
  <2>. QED BY <2>1, <2>2
<1>4. c[Len(chunks)] = m[Len(chunks)]
  BY <1>3, UnfoldingUnique
<1>. QED BY <1>2, <1>4

Named(chunks, i) == {j \in 1 .. i : chunks[j].id # 0}
Owner(chunks, i) == chunks[Max(Named(chunks, i))].id
Ids(chunks, i)   == {chunks[j].id : j \in Named(chunks, i)}

InOrder(chunks) ==
    \A i \in DOMAIN chunks : Named(chunks, i) # {} => Owner(chunks, i) = Max(Ids(chunks, i))

DueYield(chunks, id) ==
    [i \in DOMAIN chunks |-> IF Named(chunks, i) # {} /\ Owner(chunks, i) = id
                             THEN <<chunks[i].arg>> ELSE <<>>]

\* What a chunk does to the ids named so far.
LEMMA NamedStep ==
    ASSUME NEW chunks, NEW n \in Nat, n # 0
    PROVE  /\ chunks[n].id # 0 => Named(chunks, n) = Named(chunks, n - 1) \cup {n}
           /\ chunks[n].id = 0 => Named(chunks, n) = Named(chunks, n - 1)
           /\ chunks[n].id # 0 => Ids(chunks, n) = Ids(chunks, n - 1) \cup {chunks[n].id}
           /\ chunks[n].id = 0 => Ids(chunks, n) = Ids(chunks, n - 1)
           /\ Named(chunks, n) # {} => Owner(chunks, n) \in Ids(chunks, n)
           /\ chunks[n].id # 0 => Owner(chunks, n) = chunks[n].id
           /\ Named(chunks, n) = {} <=> Ids(chunks, n) = {}
<1>1. \A j \in 1 .. n : j = n \/ j \in 1 .. n - 1
  OBVIOUS
<1>2. \A j \in 1 .. n - 1 : j \in 1 .. n
  OBVIOUS
<1>3. n \in 1 .. n
  OBVIOUS
<1>4. /\ chunks[n].id # 0 => Named(chunks, n) = Named(chunks, n - 1) \cup {n}
      /\ chunks[n].id = 0 => Named(chunks, n) = Named(chunks, n - 1)
  BY <1>1, <1>2, <1>3 DEF Named
<1>5. /\ chunks[n].id # 0 => Ids(chunks, n) = Ids(chunks, n - 1) \cup {chunks[n].id}
      /\ chunks[n].id = 0 => Ids(chunks, n) = Ids(chunks, n - 1)
      /\ Named(chunks, n) = {} <=> Ids(chunks, n) = {}
  BY <1>4 DEF Ids
<1>6. Named(chunks, n) \in SUBSET (0 .. n)
  BY DEF Named
<1>7. Named(chunks, n) # {} => /\ Max(Named(chunks, n)) \in Named(chunks, n)
                               /\ \A y \in Named(chunks, n) : y <= Max(Named(chunks, n))
  BY <1>6, GreatestIs
<1>8. Named(chunks, n) # {} => Owner(chunks, n) \in Ids(chunks, n)
  BY <1>7 DEF Owner, Ids
<1>9. ASSUME chunks[n].id # 0 PROVE Owner(chunks, n) = chunks[n].id
  <2>1. n \in Named(chunks, n)
    BY <1>4, <1>9
  <2>2. PICK x : x = Max(Named(chunks, n))
    OBVIOUS
  <2>3. x \in 0 .. n /\ n <= x
    BY <1>6, <1>7, <2>1, <2>2
  <2>. QED BY <2>2, <2>3 DEF Owner
<1>. QED BY <1>4, <1>5, <1>8, <1>9

Due(u, chunks, A) ==
    \A id \in Nat : Yields(u[id], DueYield(chunks, id), [i \in DOMAIN chunks |-> i],
                           DOMAIN chunks, A)

\* The calls after n chunks.
AssembledUpto(m, u, chunks, A, n) ==
    /\ m[n] \in [Ids(chunks, n) -> Seq(A)]
    /\ \E b \in Nat : Ids(chunks, n) \subseteq 0 .. b
    /\ \A i \in 1 .. n : Named(chunks, i) # {} =>
          \E id \in Ids(chunks, n) : chunks[i].arg \in Range(m[n][id])
    /\ InOrder(chunks) => \A id \in Ids(chunks, n) : m[n][id] = u[id][n]
    /\ \A id \in Nat \ Ids(chunks, n) : u[id][n] = <<>>

LEMMA AppendKeeps ==
    ASSUME NEW A, NEW s \in Seq(A), NEW a \in A
    PROVE  Range(s) \subseteq Range(s \o <<a>>) /\ a \in Range(s \o <<a>>)
<1>1. PICK r : r = Append(s, a)
  OBVIOUS
<1>2. r = s \o <<a>>
  BY <1>1, AppendIsConcat
<1>3. /\ r \in Seq(A) /\ Len(r) = Len(s) + 1 /\ r[Len(s) + 1] = a
      /\ \A i \in 1 .. Len(s) : r[i] = s[i]
  BY <1>1, AppendProperties
<1>4. DOMAIN s = 1 .. Len(s) /\ DOMAIN r = 1 .. Len(s) + 1 /\ Len(s) \in Nat
  BY <1>3, LenProperties
<1>5. Len(s) + 1 \in DOMAIN r /\ \A i \in DOMAIN s : i \in DOMAIN r /\ r[i] = s[i]
  BY <1>3, <1>4
<1>6. a \in Range(r)
  BY <1>3, <1>5 DEF Range
<1>7. ASSUME NEW x \in Range(s) PROVE x \in Range(r)
  BY <1>5 DEF Range
<1>. QED BY <1>2, <1>6, <1>7

\* A chunk that adds its argument to the call k.
LEMMA AddsToCall ==
    ASSUME NEW A, NEW chunks, Len(chunks) \in Nat, DOMAIN chunks = 1 .. Len(chunks),
           NEW m, NEW u, Due(u, chunks, A), NEW n \in 1 .. Len(chunks),
           chunks[n].arg \in A, AssembledUpto(m, u, chunks, A, n - 1), NEW k \in Nat,
           Ids(chunks, n - 1) \subseteq Nat,
           Ids(chunks, n) = Ids(chunks, n - 1) \cup {k},
           m[n] = AddTo(m[n - 1], k, chunks[n].arg),
           Named(chunks, n) # {}, Owner(chunks, n) \in Ids(chunks, n),
           InOrder(chunks) => Owner(chunks, n) = k
    PROVE  AssembledUpto(m, u, chunks, A, n)
<1>1. PICK D, E, old, new, a :
         /\ D = Ids(chunks, n - 1) /\ E = Ids(chunks, n) /\ old = m[n - 1] /\ new = m[n]
         /\ a = chunks[n].arg /\ a \in A
  OBVIOUS
<1>2. E = D \cup {k} /\ old \in [D -> Seq(A)] /\ new = AddTo(old, k, a)
  BY <1>1 DEF AssembledUpto
<1>3. /\ new \in [E -> Seq(A)] /\ \A i \in D \ {k} : new[i] = old[i]
      /\ k \in D => new[k] = old[k] \o <<a>>
      /\ k \notin D => new[k] = <<a>>
  <2>1. a \in A
    BY <1>1
  <2>2. Added(AddTo(old, k, a), old, D, A, k, a)
    <3>1. Calls(old, D, A)
      BY <1>2 DEF Calls
    <3>. QED BY <2>1, <3>1, AddToIs
  <2>. QED BY <1>2, <2>2 DEF Added
<1>4. PICK b \in Nat : D \subseteq 0 .. b
  BY <1>1 DEF AssembledUpto
<1>5. \E c \in Nat : E \subseteq 0 .. c
  <2>1. E \subseteq 0 .. b + k
    BY <1>2, <1>4
  <2>2. PICK c \in Nat : c = b + k
    OBVIOUS
  <2>. QED BY <2>1, <2>2
<1>6. a \in Range(new[k]) /\ \A id \in D : Range(old[id]) \subseteq Range(new[id])
  <2>1. CASE k \in D
    <3>1. old[k] \in Seq(A)
      BY <1>2, <2>1
    <3>2. PICK s \in Seq(A) : s = old[k]
      BY <3>1
    <3>3. Range(s) \subseteq Range(s \o <<a>>) /\ a \in Range(s \o <<a>>)
      BY <1>1, AppendKeeps
    <3>. QED BY <1>3, <2>1, <3>2, <3>3
  <2>2. CASE k \notin D
    <3>1. PICK s : s = <<a>>
      OBVIOUS
    <3>2. 1 \in DOMAIN s /\ s[1] = a
      BY <3>1
    <3>3. a \in Range(s)
      BY <3>2 DEF Range
    <3>. QED BY <1>3, <2>2, <3>1, <3>3
  <2>. QED BY <2>1, <2>2
<1>7. ASSUME NEW i \in 1 .. n, Named(chunks, i) # {}
      PROVE  \E id \in E : chunks[i].arg \in Range(new[id])
  <2>1. CASE i = n
    BY <1>1, <1>2, <1>6, <2>1
  <2>2. CASE i # n
    <3>1. i \in 1 .. n - 1
      BY <2>2
    <3>2. PICK id \in D : chunks[i].arg \in Range(old[id])
      BY <1>1, <1>7, <3>1 DEF AssembledUpto
    <3>. QED BY <1>2, <1>6, <3>2
  <2>. QED BY <2>1, <2>2
<1>8. ASSUME NEW id \in Nat
      PROVE  /\ u[id][n - 1] \in Seq(A)
             /\ u[id][n] = IF Owner(chunks, n) = id THEN u[id][n - 1] \o <<a>>
                           ELSE u[id][n - 1]
  <2>1. PICK s : s = [i \in DOMAIN chunks |-> i]
    OBVIOUS
  <2>2. Yields(u[id], DueYield(chunks, id), s, DOMAIN chunks, A)
    BY <2>1 DEF Due
  <2>3. Len(s) = Len(chunks) /\ s[n] = n
    BY <2>1, <2>2 DEF Yields
  <2>4. /\ u[id][n - 1] \in Seq(A)
        /\ u[id][n] = u[id][n - 1] \o DueYield(chunks, id)[n]
    <3>1. n - 1 \in 0 .. Len(s) /\ n \in 1 .. Len(s)
      BY <2>3
    <3>. QED BY <2>2, <2>3, <3>1 DEF Yields
  <2>5. DueYield(chunks, id)[n] = IF Owner(chunks, n) = id THEN <<a>> ELSE <<>>
    BY <1>1 DEF DueYield
  <2>. QED BY <2>4, <2>5, ConcatEmptySeq
<1>9. ASSUME NEW id \in Nat \ E PROVE u[id][n] = <<>>
  <2>1. u[id][n - 1] = <<>>
    BY <1>1, <1>2, <1>9 DEF AssembledUpto
  <2>. QED BY <1>1, <1>8, <2>1
<1>10. ASSUME InOrder(chunks), NEW id \in E PROVE new[id] = u[id][n]
  <2>1. CASE id # k
    <3>1. id \in D /\ id \in Nat
      BY <1>1, <1>2, <2>1
    <3>2. new[id] = old[id] /\ old[id] = u[id][n - 1]
      BY <1>1, <1>3, <1>10, <2>1, <3>1 DEF AssembledUpto
    <3>. QED BY <1>8, <1>10, <2>1, <3>1, <3>2
  <2>2. CASE id = k /\ k \in D
    <3>1. new[k] = old[k] \o <<a>> /\ old[k] = u[k][n - 1]
      BY <1>1, <1>3, <1>10, <2>2 DEF AssembledUpto
    <3>. QED BY <1>8, <1>10, <2>2, <3>1
  <2>3. CASE id = k /\ k \notin D
    <3>1. new[k] = <<a>> /\ u[k][n - 1] = <<>>
      BY <1>1, <1>3, <2>3 DEF AssembledUpto
    <3>2. u[k][n] = u[k][n - 1] \o <<a>>
      BY <1>8, <1>10
    <3>3. PICK s : s = <<a>>
      OBVIOUS
    <3>4. s \in Seq(A)
      BY <1>1, <3>3
    <3>5. <<>> \o s = s
      BY <3>4, ConcatEmptySeq
    <3>. QED BY <2>3, <3>1, <3>2, <3>3, <3>5
  <2>. QED BY <2>1, <2>2, <2>3
<1>. QED BY <1>1, <1>3, <1>5, <1>7, <1>9, <1>10 DEF AssembledUpto

LEMMA AssembledStep ==
    ASSUME NEW A, NEW chunks, Len(chunks) \in Nat, DOMAIN chunks = 1 .. Len(chunks),
           \A i \in DOMAIN chunks : chunks[i].id \in Nat /\ chunks[i].arg \in A,
           NEW m, Merging(m, chunks), NEW u, Due(u, chunks, A),
           NEW n \in 1 .. Len(chunks), AssembledUpto(m, u, chunks, A, n - 1)
    PROVE  AssembledUpto(m, u, chunks, A, n)
<1>1. n \in Nat /\ n # 0 /\ n \in 0 .. Len(chunks) /\ n \in DOMAIN chunks
  OBVIOUS
<1>2. m[n] = MergeChunk(m[n - 1], chunks[n])
  BY <1>1 DEF Merging
<1>3. PICK D, old : D = Ids(chunks, n - 1) /\ old = m[n - 1]
  OBVIOUS
<1>4. old \in [D -> Seq(A)] /\ DOMAIN old = D
  BY <1>3 DEF AssembledUpto
<1>5. PICK b \in Nat : D \subseteq 0 .. b
  BY <1>3 DEF AssembledUpto
<1>6. D \subseteq Nat
  BY <1>5
<1>7. CASE chunks[n].id # 0
  <2>1. m[n] = AddTo(m[n - 1], chunks[n].id, chunks[n].arg)
    BY <1>2, <1>7 DEF MergeChunk
  <2>2. /\ Ids(chunks, n) = Ids(chunks, n - 1) \cup {chunks[n].id}
        /\ Named(chunks, n) # {} /\ Owner(chunks, n) \in Ids(chunks, n)
        /\ Owner(chunks, n) = chunks[n].id
    BY <1>1, <1>7, NamedStep
  <2>3. PICK k \in Nat : k = chunks[n].id
    BY <1>1
  <2>. QED BY <1>1, <1>3, <1>6, <2>1, <2>2, <2>3, AddsToCall
<1>8. CASE chunks[n].id = 0 /\ D # {}
  <2>1. m[n] = AddTo(m[n - 1], Max(D), chunks[n].arg)
    BY <1>2, <1>3, <1>4, <1>8 DEF MergeChunk
  <2>2. Max(D) \in D
    BY <1>5, <1>8, GreatestIs
  <2>3. PICK k \in Nat : k = Max(D) /\ k \in D
    BY <1>6, <2>2
  <2>4. /\ Ids(chunks, n) = D /\ D = D \cup {k}
        /\ Named(chunks, n) # {} /\ Owner(chunks, n) \in Ids(chunks, n)
    BY <1>1, <1>3, <1>8, <2>3, NamedStep
  <2>5. InOrder(chunks) => Owner(chunks, n) = k
    BY <1>1, <2>3, <2>4 DEF InOrder
  <2>. QED BY <1>1, <1>3, <1>6, <2>1, <2>3, <2>4, <2>5, AddsToCall
<1>9. CASE chunks[n].id = 0 /\ D = {}
  <2>1. m[n] = m[n - 1]
    BY <1>2, <1>3, <1>4, <1>9 DEF MergeChunk
  <2>2. Named(chunks, n) = {} /\ Ids(chunks, n) = D
    BY <1>1, <1>3, <1>9, NamedStep
  <2>3. ASSUME NEW i \in 1 .. n, Named(chunks, i) # {} PROVE FALSE
    <3>1. Named(chunks, i) \subseteq Named(chunks, n)
      BY DEF Named
    <3>. QED BY <2>2, <2>3, <3>1
  <2>4. ASSUME NEW id \in Nat PROVE u[id][n] = <<>>
    <3>1. PICK s : s = [i \in DOMAIN chunks |-> i]
      OBVIOUS
    <3>2. Yields(u[id], DueYield(chunks, id), s, DOMAIN chunks, A)
      BY <3>1 DEF Due
    <3>3. Len(s) = Len(chunks) /\ s[n] = n
      BY <3>1, <3>2 DEF Yields
    <3>4. u[id][n] = u[id][n - 1] \o DueYield(chunks, id)[n]
      BY <3>2, <3>3 DEF Yields
    <3>5. DueYield(chunks, id)[n] = <<>>
      BY <1>1, <2>2 DEF DueYield
    <3>6. u[id][n - 1] = <<>>
      BY <1>3, <1>9 DEF AssembledUpto
    <3>. QED BY <3>4, <3>5, <3>6
  <2>. QED BY <1>3, <1>4, <1>5, <1>9, <2>1, <2>2, <2>3, <2>4 DEF AssembledUpto
<1>. QED BY <1>7, <1>8, <1>9

Assembled(chunks) ==
    LET calls == merge_tool_calls(chunks)
    IN /\ \A i \in DOMAIN chunks : Named(chunks, i) # {} =>
             \E id \in DOMAIN calls : chunks[i].arg \in Range(calls[id])
       /\ InOrder(chunks) => \A id \in DOMAIN calls :
             calls[id] = Collect(DueYield(chunks, id), [i \in DOMAIN chunks |-> i])

\* merge_tool_calls, for any chunks.
LEMMA AllAssembled ==
    ASSUME NEW L, \A c \in L : c.id \in Nat, NEW chunks \in Seq(L)
    PROVE  Assembled(chunks)
<1>. DEFINE A == {c.arg : c \in L}
            N == Len(chunks)
            s == [i \in DOMAIN chunks |-> i]
            u == [id \in Nat |-> CHOOSE v : Yields(v, DueYield(chunks, id), s,
                                                   DOMAIN chunks, A)]
<1>1. N \in Nat /\ DOMAIN chunks = 1 .. N
  BY LenProperties
<1>2. \A i \in DOMAIN chunks : chunks[i].id \in Nat /\ chunks[i].arg \in A
  BY <1>1, ElementOfSeq
<1>3. s \in Seq(DOMAIN chunks) /\ Len(s) = N
  BY <1>1
<1>4. ASSUME NEW id \in Nat PROVE Maps(DueYield(chunks, id), DOMAIN chunks, A)
  <2>1. \A i \in DOMAIN chunks : <<chunks[i].arg>> \in Seq(A) /\ <<>> \in Seq(A)
    BY <1>2
  <2>. QED BY <2>1 DEF Maps, DueYield
<1>5. Due(u, chunks, A)
  <2>1. ASSUME NEW id \in Nat
        PROVE  Yields(u[id], DueYield(chunks, id), s, DOMAIN chunks, A)
    <3>1. \E v : Yields(v, DueYield(chunks, id), s, DOMAIN chunks, A)
      <4>. HIDE DEF A, s
      <4>. QED BY <1>3, <1>4, YieldsExist
    <3>. HIDE DEF A, s
    <3>. QED BY <3>1
  <2>. QED BY <2>1 DEF Due
<1>6. PICK m : Merging(m, chunks)
  BY <1>1, MergingExists
<1>. DEFINE S == {n \in 0 .. N : AssembledUpto(m, u, chunks, A, n)}
<1>. HIDE DEF u, A
<1>7. 0 \in S
  <2>1. Ids(chunks, 0) = {}
    BY DEF Ids, Named
  <2>2. m[0] = <<>>
    <3>1. 0 \in 0 .. Len(chunks)
      BY <1>1
    <3>. QED BY <1>6, <3>1 DEF Merging
  <2>3. m[0] \in [{} -> Seq(A)]
    <3>1. DOMAIN <<>> = {}
      OBVIOUS
    <3>2. <<>> = [i \in {} |-> <<>>]
      OBVIOUS
    <3>. QED BY <2>2, <3>2
  <2>4. \A id \in Nat : u[id][0] = <<>>
    BY <1>5 DEF Due, Yields
  <2>5. Ids(chunks, 0) \subseteq 0 .. 0 /\ 0 \in Nat
    BY <2>1
  <2>6. AssembledUpto(m, u, chunks, A, 0)
    <3>1. 1 .. 0 = {}
      OBVIOUS
    <3>. QED BY <2>1, <2>3, <2>4, <2>5, <3>1 DEF AssembledUpto
  <2>. QED BY <1>1, <2>6
<1>8. ASSUME NEW n \in 1 .. N, n - 1 \in S PROVE n \in S
  BY <1>1, <1>2, <1>5, <1>6, <1>8, AssembledStep
<1>9. N \in S
  <2>. HIDE DEF S
  <2>1. N \in 0 .. N
    BY <1>1
  <2>. QED BY <1>1, <1>7, <1>8, <2>1, IntervalInduction
<1>10. PICK calls : calls = merge_tool_calls(chunks)
  OBVIOUS
<1>11. calls = m[N]
  BY <1>1, <1>6, <1>10, MergeIs
<1>12. /\ DOMAIN calls = Ids(chunks, N)
       /\ \A i \in DOMAIN chunks : Named(chunks, i) # {} =>
             \E id \in DOMAIN calls : chunks[i].arg \in Range(calls[id])
       /\ InOrder(chunks) => \A id \in DOMAIN calls : calls[id] = u[id][N]
  BY <1>1, <1>9, <1>11 DEF AssembledUpto
<1>13. ASSUME NEW id \in DOMAIN calls PROVE u[id][N] = Collect(DueYield(chunks, id), s)
  <2>1. id \in Nat
    BY <1>2, <1>1, <1>12 DEF Ids, Named
  <2>2. Yields(u[id], DueYield(chunks, id), s, DOMAIN chunks, A)
    BY <1>5, <2>1 DEF Due
  <2>3. Collect(DueYield(chunks, id), s) = u[id][Len(s)]
    <3>. HIDE DEF s
    <3>. QED BY <2>2, CollectIs
  <2>. QED BY <1>3, <2>3
<1>. QED BY <1>10, <1>12, <1>13 DEF Assembled

Tools == [e \in Events |-> IF e.type = "tool" THEN <<e.line>> ELSE <<>>]

LEMMA ChunksAre == ASSUME AnswerType PROVE ToolChunks \in Seq(Pieces \ {Blank})
<1>1. Maps(Tools, Telling, Pieces \ {Blank})
  <2>1. ASSUME NEW e \in Telling PROVE Tools[e] \in Seq(Pieces \ {Blank})
    <3>1. CASE e.type = "tool"
      <4>1. e \in Events /\ e.line \in Pieces \ {Blank}
        BY <3>1 DEF Telling, Events
      <4>2. Tools[e] = <<e.line>>
        BY <3>1, <4>1 DEF Tools
      <4>. QED BY <4>1, <4>2
    <3>2. CASE e.type # "tool"
      <4>1. e \in Events
        BY DEF Telling
      <4>2. Tools[e] = <<>>
        BY <3>2, <4>1 DEF Tools
      <4>. QED BY <4>2
    <3>. QED BY <3>1, <3>2
  <2>. QED BY <2>1 DEF Maps
<1>2. Collect(Tools, events) \in Seq(Pieces \ {Blank})
  BY <1>1, CollectType DEF AnswerType
<1>. QED BY <1>2 DEF ToolChunks, Tools

\* Whatever was reported, the tool calls put together from it have lost no
\* argument after the first id, and each has its own when a chunk without id
\* continues the call with the greatest (merge_tool_calls in llm_client.cpp).
THEOREM CallsHold == Spec => []CallsAssembled
<1>1. ASSUME AnswerType PROVE CallsAssembled
  <2>1. PICK chunks : chunks = ToolChunks
    OBVIOUS
  <2>2. chunks \in Seq(Pieces \ {Blank}) /\ \A p \in Pieces \ {Blank} : p.id \in Nat
    BY <1>1, <2>1, ChunksAre, LinesAre
  <2>3. Assembled(chunks)
    BY <2>2, AllAssembled
  <2>. QED
    BY <2>1, <2>3
       DEF Assembled, InOrder, DueYield, Owner, Named, Ids, CallsAssembled
<1>2. AnswerInv => CallsAssembled
  BY <1>1 DEF AnswerInv
<1>. QED BY <1>2, AnswerHolds, PTL
=============================================================================
