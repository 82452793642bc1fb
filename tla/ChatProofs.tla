----------------------------- MODULE ChatProofs -----------------------------
(***************************************************************************)
(* Proofs about the chat app: what becomes of the user's messages, what a  *)
(* stop silences, and who keeps the work going, for any number of          *)
(* participants, messages and threads.                                     *)
(***************************************************************************)
EXTENDS Chat, NaturalSets, FiniteSetTheorems, SequenceTheorems, TLAPS

-----------------------------------------------------------------------------
(* The shape of the state.                                                 *)

IsActor(r) ==
    DOMAIN r = {"pc", "by", "kind", "chain", "pos"} /\ r = [f \in DOMAIN r |-> r[f]]

IsSequence(s) == \E S : s \in Seq(S)

ChatType ==
    /\ actor = [x \in Actor |-> actor[x]] /\ \A x \in Actor : IsActor(actor[x])
    /\ IsSequence(history) /\ queue \in Seq(Nat)
    /\ sent \in Nat

LEMMA AppendSequence ==
    ASSUME NEW s, IsSequence(s), NEW e
    PROVE  /\ IsSequence(Append(s, e))
           /\ Len(s) \in Nat /\ DOMAIN s = 1 .. Len(s)
           /\ DOMAIN Append(s, e) = 1 .. Len(s) + 1
           /\ \A i \in 1 .. Len(s) : Append(s, e)[i] = s[i]
           /\ Append(s, e)[Len(s) + 1] = e
<1>1. PICK S : s \in Seq(S)
  BY DEF IsSequence
<1>2. s \in Seq(S \cup {e}) /\ e \in S \cup {e}
  BY <1>1
<1>3. Append(s, e) \in Seq(S \cup {e}) /\ Len(Append(s, e)) = Len(s) + 1
  BY <1>2, AppendProperties
<1>4. Len(s) \in Nat /\ DOMAIN s = 1 .. Len(s) /\ Len(Append(s, e)) = Len(s) + 1
  BY <1>2, AppendProperties
<1>5. DOMAIN Append(s, e) = 1 .. Len(s) + 1
  BY <1>3
<1>6. /\ \A i \in 1 .. Len(s) : Append(s, e)[i] = s[i]
      /\ Append(s, e)[Len(s) + 1] = e
  BY <1>2, AppendProperties
<1>. QED BY <1>3, <1>4, <1>5, <1>6 DEF IsSequence

LEMMA StrandIsActor == 0 \in Actor /\ Thread \subseteq Actor /\ 0 \notin Thread
BY ChatAssumption DEF Actor, Thread

\* An actor changed in one step is one of these.
ActorStep(x) ==
    \A y \in Actor \ {x} : actor'[y] = actor[y] \/ (At(y, "idle") /\ actor'[y].pc = "asked")

-----------------------------------------------------------------------------
(* Where messages are.                                                     *)

\* No message is queued or held twice.
Distinct ==
    /\ \A i, j \in DOMAIN queue : queue[i] = queue[j] => i = j
    /\ \A x, y \in Actor :
         At(x, "handle") /\ At(y, "handle") /\ actor[x].chain = actor[y].chain => x = y

SaidOnce ==
    \A i, j \in DOMAIN history :
        IsMessage(i) /\ IsMessage(j) /\ history[i].msg = history[j].msg => i = j

\* One place each.
Apart(said, queued, held, strand) ==
    /\ said \cap queued = {} /\ said \cap held = {} /\ said \cap strand = {}
    /\ queued \cap held = {} /\ queued \cap strand = {} /\ held \cap strand = {}

Complete(said, queued, held, strand) ==
    /\ said \cup queued \cup held \cup strand \subseteq 1 .. sent
    /\ ~cancelled => 1 .. sent \subseteq said \cup queued \cup held \cup strand

Kept ==
    /\ SaidOnce /\ Distinct
    /\ Apart(Said, ToSet(queue), Held("handle"), Strands)
    /\ Complete(Said, ToSet(queue), Held("handle"), Strands)

ChatInv == ChatType /\ Kept

LEMMA KeptSuffices == Kept => MessagesKept
<1>. SUFFICES ASSUME Kept PROVE MessagesKept
  OBVIOUS
<1>. DEFINE places == <<Said, ToSet(queue), Held("handle"), Strands>>
<1>1. DOMAIN places = 1 .. 4 /\ places[1] = Said /\ places[2] = ToSet(queue)
      /\ places[3] = Held("handle") /\ places[4] = Strands
  OBVIOUS
<1>2. \A i \in 1 .. 4 : i \in {1, 2, 3, 4}
  OBVIOUS
<1>3. \A i, j \in DOMAIN places : i # j => places[i] \cap places[j] = {}
  BY <1>1, <1>2 DEF Kept, Apart
<1>4. UNION Range(places) = Said \cup ToSet(queue) \cup Held("handle") \cup Strands
  BY <1>1, <1>2 DEF Range
<1>5. ~cancelled => UNION Range(places) = 1 .. sent
  BY <1>4 DEF Kept, Complete
<1>. QED BY <1>3, <1>5 DEF MessagesKept, Kept, SaidOnce

-----------------------------------------------------------------------------
(* What one actor's step changes.                                          *)

HeldBut(x) == {actor[y].chain : y \in {z \in Actor \ {x} : At(z, "handle")}}

LEMMA HeldSplit ==
    ASSUME NEW x \in Actor
    PROVE  Held("handle") = HeldBut(x) \cup (IF At(x, "handle") THEN {actor[x].chain} ELSE {})
BY DEF Held, HeldBut

LEMMA HeldAfter ==
    ASSUME NEW x \in Actor, ActorStep(x)
    PROVE  Held("handle")' =
             HeldBut(x) \cup (IF actor'[x].pc = "handle" THEN {actor'[x].chain} ELSE {})
<1>1. \A y \in Actor \ {x} : (actor'[y].pc = "handle") <=> At(y, "handle")
  BY DEF ActorStep, At
<1>2. \A y \in Actor \ {x} : At(y, "handle") => actor'[y] = actor[y]
  BY DEF ActorStep, At
<1>3. Held("handle")' = {actor'[y].chain : y \in {z \in Actor : actor'[z].pc = "handle"}}
  BY DEF Held, At
<1>. QED BY <1>1, <1>2, <1>3 DEF HeldBut

LEMMA DistinctAfter ==
    ASSUME ChatInv, NEW x \in Actor, ActorStep(x),
           actor'[x].pc = "handle" => actor'[x].chain \notin HeldBut(x),
           \A i, j \in DOMAIN queue' : queue'[i] = queue'[j] => i = j
    PROVE  Distinct'
<1>1. \A y \in Actor \ {x} : actor'[y].pc = "handle" => At(y, "handle") /\ actor'[y] = actor[y]
  BY DEF ActorStep, At
<1>2. ASSUME NEW y \in Actor, NEW z \in Actor, actor'[y].pc = "handle",
             actor'[z].pc = "handle", actor'[y].chain = actor'[z].chain
      PROVE  y = z
  <2>1. CASE y # x /\ z # x
    BY <1>1, <1>2, <2>1 DEF ChatInv, Kept, Distinct
  <2>2. CASE y = x /\ z # x
    <3>1. actor'[z].chain \in HeldBut(x)
      BY <1>1, <1>2, <2>2 DEF HeldBut
    <3>. QED BY <3>1, <1>2, <2>2
  <2>3. CASE y # x /\ z = x
    <3>1. actor'[y].chain \in HeldBut(x)
      BY <1>1, <1>2, <2>3 DEF HeldBut
    <3>. QED BY <3>1, <1>2, <2>3
  <2>. QED BY <2>1, <2>2, <2>3
<1>. QED BY <1>2 DEF Distinct, At

LEMMA StrandsAfter ==
    ASSUME NEW x \in Actor, x # 0, ActorStep(x), sent' = sent
    PROVE  Strands' = Strands
<1>1. actor'[0] = actor[0] \/ (actor[0].pc = "idle" /\ actor'[0].pc = "asked")
  BY StrandIsActor DEF ActorStep, At
<1>. QED BY <1>1 DEF Strands

\* A step that leaves the messages where they are.
LEMMA MessagesStay ==
    ASSUME ChatInv, NEW x \in Actor, ActorStep(x), UNCHANGED <<queue, sent, cancelled>>,
           SaidOnce', Said' = Said,
           (actor'[x].pc = "handle") <=> At(x, "handle"),
           At(x, "handle") => actor'[x].chain = actor[x].chain,
           ~(At(x, "queue") \/ At(x, "begin")), actor'[x].pc \notin {"queue", "begin"}
    PROVE  Kept'
<1>1. Held("handle")' = Held("handle")
  BY HeldSplit, HeldAfter
<1>2. Strands' = Strands
  BY StrandsAfter DEF Strands, At
<1>3. Distinct'
  <2>1. At(x, "handle") => actor[x].chain \notin HeldBut(x)
    BY DEF HeldBut, ChatInv, Kept, Distinct
  <2>. QED BY <2>1, DistinctAfter DEF ChatInv, Kept, Distinct
<1>. QED BY <1>1, <1>2, <1>3 DEF ChatInv, Kept, Apart, Complete

\* A reply, or nothing, is added to the history.
LEMMA SaidStays ==
    ASSUME ChatInv, history' = history \/ \E a : history' = Append(history, Reply(a))
    PROVE  SaidOnce' /\ Said' = Said /\ IsSequence(history')
<1>1. CASE history' = history
  BY <1>1 DEF ChatInv, ChatType, Kept, SaidOnce, Said, IsMessage
<1>2. ASSUME NEW a, history' = Append(history, Reply(a))
      PROVE  SaidOnce' /\ Said' = Said /\ IsSequence(history')
  <2>1. /\ IsSequence(history')
        /\ Len(history) \in Nat /\ DOMAIN history = 1 .. Len(history)
        /\ DOMAIN history' = 1 .. Len(history) + 1
        /\ \A i \in 1 .. Len(history) : history'[i] = history[i]
        /\ history'[Len(history) + 1] = Reply(a)
    BY <1>2, AppendSequence DEF ChatInv, ChatType
  <2>2. Reply(a).role # "user"
    BY DEF Reply
  <2>3. \A i : i \in DOMAIN history' /\ IsMessage(i)' <=> i \in DOMAIN history /\ IsMessage(i)
    BY <2>1, <2>2 DEF IsMessage
  <2>4. \A i \in DOMAIN history : history'[i] = history[i]
    BY <2>1
  <2>5. SaidOnce'
    BY <2>3, <2>4 DEF ChatInv, Kept, SaidOnce
  <2>6. Said' = Said
    BY <2>3, <2>4 DEF Said
  <2>. QED BY <2>1, <2>5, <2>6
<1>. QED BY <1>1, <1>2

\* A message that nobody said yet is said.
LEMMA SaidGrows ==
    ASSUME ChatInv, NEW m, m \notin Said, history' = Append(history, User(m))
    PROVE  SaidOnce' /\ Said' = Said \cup {m} /\ IsSequence(history')
<1>1. /\ IsSequence(history')
      /\ Len(history) \in Nat /\ DOMAIN history = 1 .. Len(history)
      /\ DOMAIN history' = 1 .. Len(history) + 1
      /\ \A i \in 1 .. Len(history) : history'[i] = history[i]
      /\ history'[Len(history) + 1] = User(m)
  BY AppendSequence DEF ChatInv, ChatType
<1>2. User(m).role = "user" /\ User(m).msg = m
  BY DEF User
<1>a. PICK new : new = Len(history) + 1
  OBVIOUS
<1>3. new \in DOMAIN history' /\ new \notin DOMAIN history
      /\ DOMAIN history' = DOMAIN history \cup {new}
  BY <1>1, <1>a
<1>4. \A i \in DOMAIN history : history'[i] = history[i] /\ (IsMessage(i)' <=> IsMessage(i))
  BY <1>1 DEF IsMessage
<1>5. IsMessage(new)' /\ history'[new].msg = m
  BY <1>1, <1>2, <1>a DEF IsMessage
<1>6. \A i \in DOMAIN history : IsMessage(i) => history[i].msg # m
  BY DEF Said
<1>7. SaidOnce'
  BY <1>3, <1>4, <1>5, <1>6 DEF ChatInv, Kept, SaidOnce
<1>8. Said' = Said \cup {m}
  <2>1. \A i : i \in DOMAIN history' /\ IsMessage(i)'
                 <=> i = new \/ (i \in DOMAIN history /\ IsMessage(i))
    BY <1>3, <1>4, <1>5
  <2>2. \A i \in DOMAIN history : history'[i].msg = history[i].msg
    BY <1>4
  <2>. QED BY <2>1, <2>2, <1>3, <1>5 DEF Said
<1>. QED BY <1>1, <1>7, <1>8

-----------------------------------------------------------------------------
(* Records of actors.                                                      *)

LEMMA Records ==
    /\ IsActor(Idle) /\ Idle.pc = "idle"
    /\ \A a : IsActor(Asked(a)) /\ Asked(a).pc = "asked"
    /\ \A k : LET r == [Idle EXCEPT !.pc = "advance", !.chain = k]
              IN IsActor(r) /\ r.pc = "advance"
<1>1. IsActor(Idle) /\ Idle.pc = "idle"
  BY DEF IsActor, Idle
<1>2. ASSUME NEW a PROVE IsActor(Asked(a)) /\ Asked(a).pc = "asked"
  BY DEF IsActor, Idle, Asked
<1>3. ASSUME NEW k
      PROVE  LET r == [Idle EXCEPT !.pc = "advance", !.chain = k]
             IN IsActor(r) /\ r.pc = "advance"
  BY DEF IsActor, Idle
<1>. QED BY <1>1, <1>2, <1>3

LEMMA BackRecord ==
    ASSUME ChatType, NEW x \in Actor
    PROVE  IsActor(Back(x)) /\ Back(x).pc \in {"idle", "after"}
BY SMTT(20), ZenonT(40), Records DEF ChatType, Back, IsActor

LEMMA ActorSet ==
    ASSUME ChatType, NEW x \in Actor, NEW r, IsActor(r), actor' = [actor EXCEPT ![x] = r]
    PROVE  /\ actor' = [y \in Actor |-> actor'[y]] /\ \A y \in Actor : IsActor(actor'[y])
           /\ actor'[x] = r /\ ActorStep(x)
BY DEF ChatType, ActorStep

LEMMA GotoSet ==
    ASSUME ChatType, NEW x \in Actor, NEW p, Goto(x, p)
    PROVE  /\ actor' = [y \in Actor |-> actor'[y]] /\ \A y \in Actor : IsActor(actor'[y])
           /\ actor'[x].pc = p /\ actor'[x].chain = actor[x].chain /\ ActorStep(x)
<1>. DEFINE r == [actor[x] EXCEPT !.pc = p]
<1>1. IsActor(r) /\ r.pc = p /\ r.chain = actor[x].chain
  BY DEF ChatType, IsActor
<1>2. actor' = [actor EXCEPT ![x] = r]
  BY DEF Goto
<1>. QED BY <1>1, <1>2, ActorSet

-----------------------------------------------------------------------------
(* The strand's inputs.                                                    *)

LEMMA InputStep == ChatInv /\ (OnInput \/ Stop) => ChatInv'
<1>. SUFFICES ASSUME ChatInv, OnInput \/ Stop PROVE ChatInv'
  OBVIOUS
<1>. USE StrandIsActor
<1>1. CASE OnInput
  <2>1. /\ actor' = [y \in Actor |-> actor'[y]] /\ \A y \in Actor : IsActor(actor'[y])
        /\ actor'[0].pc \in {"queue", "begin"} /\ ActorStep(0) /\ sent' = sent + 1
        /\ UNCHANGED <<history, queue, cancelled>>
    BY <1>1, GotoSet DEF OnInput, ChatInv
  <2>2. ChatType'
    BY <2>1 DEF ChatInv, ChatType, IsSequence
  <2>3. Held("handle")' = Held("handle")
    BY <1>1, <2>1, HeldAfter, HeldSplit DEF OnInput, At
  <2>4. Strands = {} /\ Strands' = {sent + 1} /\ Said' = Said /\ ToSet(queue)' = ToSet(queue)
    BY <1>1, <2>1 DEF OnInput, At, Strands, Said, IsMessage
  <2>5. Distinct' /\ SaidOnce'
    <3>1. Distinct'
      BY <1>1, <2>1, DistinctAfter DEF ChatInv, Kept, Distinct, OnInput, At
    <3>. QED BY <2>1, <3>1 DEF ChatInv, Kept, SaidOnce, IsMessage
  <2>6. sent \in Nat
    BY DEF ChatInv, ChatType
  <2>7. sent + 1 \notin 1 .. sent /\ 1 .. sent + 1 = (1 .. sent) \cup {sent + 1}
    BY <2>6
  <2>8. Apart(Said, ToSet(queue), Held("handle"), Strands)'
    BY <2>3, <2>4, <2>7 DEF ChatInv, Kept, Complete, Apart
  <2>9. Complete(Said, ToSet(queue), Held("handle"), Strands)'
    BY <2>1, <2>3, <2>4, <2>7 DEF ChatInv, Kept, Complete
  <2>. QED BY <2>1, <2>2, <2>3, <2>4, <2>5, <2>8, <2>9 DEF ChatInv, Kept
<1>2. CASE Stop
  <2>1. UNCHANGED <<actor, history, sent>> /\ queue' = << >> /\ cancelled'
    BY <1>2 DEF Stop, inputVars
  <2>2. ChatType'
    BY <2>1 DEF ChatInv, ChatType, IsSequence
  <2>3. UNCHANGED <<Held("handle"), Strands, Said>> /\ ToSet(queue)' = {}
    BY <2>1 DEF Held, At, Strands, Said, IsMessage, ToSet
  <2>4. Distinct' /\ SaidOnce'
    BY <2>1 DEF ChatInv, Kept, Distinct, SaidOnce, IsMessage, At
  <2>. QED BY <2>1, <2>2, <2>3, <2>4 DEF ChatInv, Kept, Apart, Complete
<1>. QED BY <1>1, <1>2

\* A message that was sent is put in the queue, or begins.
LEMMA EnqueueStep == ChatInv /\ Enqueue => ChatInv'
<1>. SUFFICES ASSUME ChatInv, Enqueue PROVE ChatInv'
  OBVIOUS
<1>. USE StrandIsActor
<1>1. /\ actor' = [y \in Actor |-> actor'[y]] /\ \A y \in Actor : IsActor(actor'[y])
      /\ actor'[0].pc = "idle" /\ ActorStep(0) /\ queue' = Append(queue, sent)
      /\ UNCHANGED <<history, sent, cancelled>>
  BY GotoSet DEF Enqueue, ChatInv, inputVars
<1>2. queue \in Seq(Nat) /\ sent \in Nat
  BY DEF ChatInv, ChatType
<1>3. /\ queue' \in Seq(Nat) /\ DOMAIN queue = 1 .. Len(queue) /\ Len(queue) \in Nat
      /\ DOMAIN queue' = 1 .. Len(queue) + 1
      /\ \A i \in 1 .. Len(queue) : queue'[i] = queue[i]
      /\ queue'[Len(queue) + 1] = sent
  <2>1. IsSequence(queue)
    BY <1>2 DEF IsSequence
  <2>. QED BY <1>1, <1>2, <2>1, AppendSequence, AppendProperties
<1>4. ChatType'
  BY <1>1, <1>3 DEF ChatInv, ChatType, IsSequence
<1>5. Held("handle")' = Held("handle") /\ HeldBut(0) = Held("handle")
  BY <1>1, HeldAfter, HeldSplit DEF Enqueue, At
<1>6. Strands = {sent} /\ Strands' = {} /\ Said' = Said
  BY <1>1 DEF Enqueue, At, Strands, Said, IsMessage
<1>7. ToSet(queue)' = ToSet(queue) \cup {sent}
  <2>1. DOMAIN queue' = DOMAIN queue \cup {Len(queue) + 1}
    BY <1>3
  <2>. QED BY <1>3, <2>1 DEF ToSet
<1>8. sent \notin ToSet(queue)
  BY <1>6 DEF ChatInv, Kept, Apart
<1>9. \A i, j \in DOMAIN queue' : queue'[i] = queue'[j] => i = j
  <2>1. \A i \in DOMAIN queue : queue[i] # sent
    BY <1>8 DEF ToSet
  <2>2. \A i \in DOMAIN queue' : i \in DOMAIN queue \/ i = Len(queue) + 1
    BY <1>3
  <2>. QED BY <1>3, <2>1, <2>2 DEF ChatInv, Kept, Distinct
<1>10. Distinct'
  BY <1>1, <1>9, DistinctAfter
<1>11. SaidOnce'
  BY <1>1 DEF ChatInv, Kept, SaidOnce, IsMessage
<1>12. Apart(Said, ToSet(queue), Held("handle"), Strands)'
  BY <1>5, <1>6, <1>7 DEF ChatInv, Kept, Apart
<1>13. Complete(Said, ToSet(queue), Held("handle"), Strands)'
  BY <1>1, <1>5, <1>6, <1>7 DEF ChatInv, Kept, Complete
<1>. QED BY <1>4, <1>10, <1>11, <1>12, <1>13 DEF ChatInv, Kept

LEMMA BeginStep == ChatInv /\ Begin => ChatInv'
<1>. SUFFICES ASSUME ChatInv, Begin PROVE ChatInv'
  OBVIOUS
<1>. USE StrandIsActor
<1>. DEFINE r == [actor[0] EXCEPT !.pc = "handle", !.chain = sent]
<1>1. actor' = [actor EXCEPT ![0] = r] /\ UNCHANGED <<history, queue, sent, cancelled>>
  BY DEF Begin, inputVars, ChatInv, ChatType
<1>2. IsActor(r) /\ r.pc = "handle" /\ r.chain = sent
  BY DEF ChatInv, ChatType, IsActor
<1>. HIDE DEF r
<1>3. /\ actor' = [y \in Actor |-> actor'[y]] /\ \A y \in Actor : IsActor(actor'[y])
      /\ actor'[0] = r /\ ActorStep(0)
  BY <1>1, <1>2, ActorSet DEF ChatInv
<1>4. ChatType'
  BY <1>1, <1>3 DEF ChatInv, ChatType, IsSequence
<1>5. /\ Strands = {sent} /\ Strands' = {} /\ Said' = Said /\ ToSet(queue)' = ToSet(queue)
      /\ Held("handle") = HeldBut(0)
  <2>1. actor[0].pc = "begin" /\ actor'[0].pc = "handle"
    BY <1>2, <1>3 DEF Begin, At
  <2>2. Strands = {sent} /\ Strands' = {}
    BY <2>1 DEF Strands
  <2>3. Held("handle") = HeldBut(0)
    BY <2>1, HeldSplit DEF At
  <2>. QED BY <1>1, <2>2, <2>3 DEF Said, IsMessage, ToSet
<1>6. Held("handle")' = Held("handle") \cup {sent}
  BY <1>2, <1>3, <1>5, HeldAfter
<1>7. sent \notin HeldBut(0)
  BY <1>5 DEF ChatInv, Kept, Apart
<1>8. Distinct'
  BY <1>1, <1>2, <1>3, <1>7, DistinctAfter DEF ChatInv, Kept, Distinct
<1>9. SaidOnce'
  BY <1>1 DEF ChatInv, Kept, SaidOnce, IsMessage
<1>10. Apart(Said, ToSet(queue), Held("handle"), Strands)'
  BY <1>5, <1>6 DEF ChatInv, Kept, Apart
<1>11. Complete(Said, ToSet(queue), Held("handle"), Strands)'
  BY <1>1, <1>5, <1>6 DEF ChatInv, Kept, Complete
<1>. QED BY <1>4, <1>8, <1>9, <1>10, <1>11 DEF ChatInv, Kept

-----------------------------------------------------------------------------
(* Messages are handled.                                                   *)

\* A message that an actor holds is said.
LEMMA HandleStep ==
    ASSUME ChatInv, NEW x \in Actor, Handle(x)
    PROVE  ChatInv'
<1>. DEFINE m == actor[x].chain
            r == IF room = <<>> THEN Back(x) ELSE [actor[x] EXCEPT !.pc = "advance"]
<1>1. /\ actor' = [actor EXCEPT ![x] = r] /\ UNCHANGED <<queue, sent, cancelled>>
      /\ history' = Append(history, User(m)) /\ At(x, "handle")
  BY DEF Handle, inputVars, ChatInv, ChatType
<1>2. IsActor(r) /\ r.pc \in {"idle", "after", "advance"}
  BY BackRecord DEF ChatInv, ChatType, IsActor
<1>3. /\ actor' = [y \in Actor |-> actor'[y]] /\ \A y \in Actor : IsActor(actor'[y])
      /\ actor'[x].pc \in {"idle", "after", "advance"} /\ ActorStep(x)
  <2>. HIDE DEF r
  <2>. QED BY <1>1, <1>2, ActorSet DEF ChatInv
<1>4. Held("handle") = HeldBut(x) \cup {m} /\ Held("handle")' = HeldBut(x)
  BY SMTT(20), ZenonT(40), <1>1, <1>3, HeldSplit, HeldAfter
<1>5. m \notin HeldBut(x)
  BY <1>1 DEF HeldBut, ChatInv, Kept, Distinct
<1>6. m \notin Said
  BY <1>4 DEF ChatInv, Kept, Apart
<1>7. SaidOnce' /\ Said' = Said \cup {m} /\ IsSequence(history')
  BY <1>1, <1>6, SaidGrows
<1>8. Strands' = Strands /\ ToSet(queue)' = ToSet(queue)
  BY <1>1, <1>3, StrandsAfter DEF Strands, At, ToSet
<1>9. ChatType'
  BY <1>1, <1>3, <1>7 DEF ChatInv, ChatType
<1>10. Distinct'
  BY <1>1, <1>3, DistinctAfter DEF ChatInv, Kept, Distinct
<1>11. Apart(Said, ToSet(queue), Held("handle"), Strands)'
  BY <1>4, <1>5, <1>7, <1>8 DEF ChatInv, Kept, Apart
<1>12. Complete(Said, ToSet(queue), Held("handle"), Strands)'
  BY <1>1, <1>4, <1>7, <1>8 DEF ChatInv, Kept, Complete
<1>. QED BY <1>7, <1>9, <1>10, <1>11, <1>12 DEF ChatInv, Kept

\* A thread takes the first message of the queue, or none.
LEMMA DequeueStep ==
    ASSUME ChatInv, NEW x \in Thread, ProcessNextInQueue(x)
    PROVE  ChatInv'
<1>. USE StrandIsActor
<1>0. x \in Actor /\ At(x, "dequeue") /\ UNCHANGED <<history, sent, cancelled>>
  BY DEF ProcessNextInQueue, inputVars
<1>1. CASE cancelled \/ queue = <<>>
  <2>1. actor' = [actor EXCEPT ![x] = Back(x)] /\ UNCHANGED queue
    BY <1>1 DEF ProcessNextInQueue
  <2>2. /\ actor' = [y \in Actor |-> actor'[y]] /\ \A y \in Actor : IsActor(actor'[y])
        /\ actor'[x].pc \in {"idle", "after"} /\ ActorStep(x)
    BY <1>0, <2>1, BackRecord, ActorSet DEF ChatInv
  <2>3. ChatType'
    BY <1>0, <2>1, <2>2 DEF ChatInv, ChatType, IsSequence
  <2>4. Kept'
    BY <1>0, <2>1, <2>2, SaidStays, MessagesStay DEF At
  <2>. QED BY <2>3, <2>4 DEF ChatInv
<1>2. CASE ~(cancelled \/ queue = <<>>)
  <2>. DEFINE m == Head(queue)
              r == [actor[x] EXCEPT !.pc = "handle", !.chain = m]
  <2>1. actor' = [actor EXCEPT ![x] = r] /\ queue' = Tail(queue)
    BY <1>0, <1>2 DEF ProcessNextInQueue, ChatInv, ChatType
  <2>2. IsActor(r) /\ r.pc = "handle" /\ r.chain = m
    BY <1>0 DEF ChatInv, ChatType, IsActor
  <2>3. /\ actor' = [y \in Actor |-> actor'[y]] /\ \A y \in Actor : IsActor(actor'[y])
        /\ actor'[x] = r /\ ActorStep(x)
    <3>. HIDE DEF r
    <3>. QED BY <1>0, <2>1, <2>2, ActorSet DEF ChatInv
  <2>. HIDE DEF r
  <2>4. queue \in Seq(Nat) /\ queue # <<>>
    BY <1>2 DEF ChatInv, ChatType
  <2>5. /\ queue' \in Seq(Nat) /\ Len(queue) \in Nat \ {0} /\ m = queue[1]
        /\ DOMAIN queue = 1 .. Len(queue) /\ DOMAIN queue' = 1 .. Len(queue) - 1
        /\ \A i \in 1 .. Len(queue) - 1 : queue'[i] = queue[i + 1]
    <3>1. Len(queue) \in Nat \ {0}
      BY <2>4, EmptySeq
    <3>2. queue' \in Seq(Nat) /\ Len(queue') = Len(queue) - 1 /\ m = queue[1]
          /\ \A i \in 1 .. Len(queue') : queue'[i] = queue[i + 1]
      BY <2>1, <2>4, HeadTailProperties
    <3>. QED BY <2>4, <3>1, <3>2
  <2>. HIDE DEF m
  <2>6. \A i \in DOMAIN queue' : /\ i + 1 \in DOMAIN queue /\ i + 1 # 1 /\ i \in Nat
                                 /\ queue'[i] = queue[i + 1]
    BY <2>5
  <2>7. 1 \in DOMAIN queue
    BY <2>5
  <2>8. \A i, j \in DOMAIN queue : queue[i] = queue[j] => i = j
    BY DEF ChatInv, Kept, Distinct
  <2>9. m \notin ToSet(queue)'
    BY <2>5, <2>6, <2>7, <2>8 DEF ToSet
  <2>10. ToSet(queue) = ToSet(queue)' \cup {m}
    <3>1. \A i \in DOMAIN queue : i = 1 \/ (i - 1 \in DOMAIN queue' /\ queue'[i - 1] = queue[i])
      BY <2>5
    <3>2. ASSUME NEW i \in DOMAIN queue PROVE queue[i] \in ToSet(queue') \cup {m}
      BY <2>5, <3>1 DEF ToSet
    <3>3. ASSUME NEW i \in DOMAIN queue' PROVE queue'[i] \in ToSet(queue)
      BY <2>6 DEF ToSet
    <3>4. m \in ToSet(queue)
      BY <2>5, <2>7 DEF ToSet
    <3>. QED BY <3>2, <3>3, <3>4 DEF ToSet
  <2>11. \A i, j \in DOMAIN queue' : queue'[i] = queue'[j] => i = j
    BY <2>6, <2>8
  <2>12. Held("handle") = HeldBut(x) /\ Held("handle")' = HeldBut(x) \cup {m}
    BY <1>0, <2>2, <2>3, HeldSplit, HeldAfter DEF At
  <2>13. m \notin HeldBut(x)
    BY <2>10, <2>12 DEF ChatInv, Kept, Apart
  <2>14. Distinct'
    BY <1>0, <2>2, <2>3, <2>11, <2>13, DistinctAfter
  <2>15. SaidOnce' /\ Said' = Said
    BY <1>0, SaidStays
  <2>16. Strands' = Strands
    BY <1>0, <2>3, StrandsAfter
  <2>17. ChatType'
    BY <1>0, <2>3, <2>5 DEF ChatInv, ChatType, IsSequence
  <2>18. Apart(Said, ToSet(queue), Held("handle"), Strands)'
    BY <2>9, <2>10, <2>12, <2>15, <2>16 DEF ChatInv, Kept, Apart
  <2>19. Complete(Said, ToSet(queue), Held("handle"), Strands)'
    BY <1>0, <2>10, <2>12, <2>15, <2>16 DEF ChatInv, Kept, Complete
  <2>. QED BY <2>14, <2>15, <2>17, <2>18, <2>19 DEF ChatInv, Kept
<1>. QED BY <1>1, <1>2

-----------------------------------------------------------------------------
(* Steps that move no message.                                             *)

\* onUserMessage starts a thread that was idle.
LEMMA AskedSet ==
    ASSUME ChatType, NEW x \in Actor, NEW i, NEW a, NEW s \in Thread,
           NEW actors, actors = [actor EXCEPT ![x].pc = "subscribe", ![x].pos = i],
           actors[s].pc = "idle", actor' = [actors EXCEPT ![s] = Asked(a)]
    PROVE  /\ actor' = [y \in Actor |-> actor'[y]] /\ \A y \in Actor : IsActor(actor'[y])
           /\ actor'[x].pc = "subscribe" /\ ActorStep(x)
<1>. DEFINE r == [actor[x] EXCEPT !.pc = "subscribe", !.pos = i]
<1>1. s \in Actor /\ IsActor(r) /\ r.pc = "subscribe" /\ IsActor(Asked(a))
      /\ Asked(a).pc = "asked"
  <2>1. s \in Actor /\ IsActor(Asked(a)) /\ Asked(a).pc = "asked"
    BY Records, StrandIsActor
  <2>2. IsActor(r) /\ r.pc = "subscribe"
    BY DEF ChatType, IsActor
  <2>. QED BY <2>1, <2>2
<1>2. actors = [actor EXCEPT ![x] = r] /\ actors = [y \in Actor |-> actors[y]]
  BY DEF ChatType
<1>. HIDE DEF r
<1>3. \A y \in Actor : actors[y] = IF y = x THEN r ELSE actor[y]
  BY <1>2 DEF ChatType
<1>4. s # x
  BY <1>1, <1>3
<1>5. \A y \in Actor : actor'[y] = IF y = s THEN Asked(a) ELSE actors[y]
  BY <1>2
<1>6. actor' = [y \in Actor |-> actor'[y]]
  BY <1>2
<1>. QED BY <1>1, <1>3, <1>4, <1>5, <1>6 DEF ActorStep, At, ChatType

LEMMA AdvanceSet ==
    ASSUME ChatType, NEW x \in Actor, Advance(x)
    PROVE  /\ actor' = [y \in Actor |-> actor'[y]] /\ \A y \in Actor : IsActor(actor'[y])
           /\ actor'[x].pc \in {"idle", "after", "advance", "subscribe"} /\ ActorStep(x)
<1>1. CASE actor' = actor
  BY <1>1 DEF Advance, At, ChatType, ActorStep
<1>2. CASE actor' = [actor EXCEPT ![x] = Back(x)]
  BY <1>2, BackRecord, ActorSet
<1>3. ASSUME NEW i, NEW a,
             OnUserMessage([actor EXCEPT ![x].pc = "subscribe", ![x].pos = i], a)
      PROVE  /\ actor' = [y \in Actor |-> actor'[y]] /\ \A y \in Actor : IsActor(actor'[y])
             /\ actor'[x].pc = "subscribe" /\ ActorStep(x)
  <2>. DEFINE actors == [actor EXCEPT ![x].pc = "subscribe", ![x].pos = i]
              r      == [actor[x] EXCEPT !.pc = "subscribe", !.pos = i]
  <2>1. CASE key
    <3>1. \E s \in Thread : actors[s].pc = "idle" /\ actor' = [actors EXCEPT ![s] = Asked(a)]
      BY <1>3, <2>1 DEF OnUserMessage
    <3>2. PICK s \in Thread : actors[s].pc = "idle" /\ actor' = [actors EXCEPT ![s] = Asked(a)]
      BY <3>1
    <3>. QED BY <3>2, AskedSet
  <2>2. CASE ~key
    <3>1. actor' = [actor EXCEPT ![x] = r]
      BY <1>3, <2>2 DEF OnUserMessage, ChatType
    <3>2. IsActor(r) /\ r.pc = "subscribe"
      BY DEF ChatType, IsActor
    <3>. HIDE DEF r
    <3>. QED BY <3>1, <3>2, ActorSet
  <2>. QED BY <2>1, <2>2
<1>. QED
  <2>. DEFINE i == NextTurn(actor[x].chain)[1]
  <2>1. \/ actor' = actor \/ actor' = [actor EXCEPT ![x] = Back(x)]
        \/ OnUserMessage([actor EXCEPT ![x].pc = "subscribe", ![x].pos = i], room[i])
    <3>1. CASE cancelled
      BY <3>1 DEF Advance
    <3>2. CASE ~cancelled /\ i = 0
      BY <3>2 DEF Advance
    <3>3. CASE ~cancelled /\ i # 0 /\ i > Len(room)
      BY <3>3 DEF Advance
    <3>4. CASE ~cancelled /\ i # 0 /\ ~(i > Len(room))
      BY <3>4 DEF Advance
    <3>. QED BY <3>1, <3>2, <3>3, <3>4
  <2>. HIDE DEF i
  <2>. QED BY <1>1, <1>2, <1>3, <2>1

LEMMA SubscribeSet ==
    ASSUME ChatType, NEW x \in Actor, Subscribe(x)
    PROVE  /\ actor' = [y \in Actor |-> actor'[y]] /\ \A y \in Actor : IsActor(actor'[y])
           /\ actor'[x].pc \in {"idle", "after", "subscribe"} /\ ActorStep(x)
<1>1. CASE actor' = actor
  BY <1>1 DEF Subscribe, At, ChatType, ActorStep
<1>2. CASE actor' = [actor EXCEPT ![x] = Back(x)]
  BY <1>2, BackRecord, ActorSet
<1>. QED BY <1>1, <1>2 DEF Subscribe

\* Once its answer is dealt with, a thread is idle, goes on with a chain, or
\* asks again; only a reply that is not silenced is said.
LEMMA AfterSet ==
    ASSUME ChatType, NEW x \in Actor, After(x)
    PROVE  /\ actor' = [y \in Actor |-> actor'[y]] /\ \A y \in Actor : IsActor(actor'[y])
           /\ actor'[x].pc \in {"idle", "asked", "advance"} /\ ActorStep(x)
           /\ \/ history' = history
              \/ ~cancelled /\ \E a : history' = Append(history, Reply(a))
<1>1. ASSUME NEW r, IsActor(r), r.pc \in {"idle", "asked", "advance"},
             actor' = [actor EXCEPT ![x] = r]
      PROVE  /\ actor' = [y \in Actor |-> actor'[y]] /\ \A y \in Actor : IsActor(actor'[y])
             /\ actor'[x].pc \in {"idle", "asked", "advance"} /\ ActorStep(x)
  BY <1>1, ActorSet
<1>2. CASE actor[x].kind = "reply"
  <2>. DEFINE k == reply[actor[x].by]
              r == IF actor[x].by \in removed THEN Idle
                   ELSE IF k = 0 THEN Idle
                   ELSE [Idle EXCEPT !.pc = "advance", !.chain = k]
  <2>1. actor' = [actor EXCEPT ![x] = r]
    BY <1>2 DEF After, PushResponse
  <2>2. IsActor(r) /\ r.pc \in {"idle", "asked", "advance"}
    <3>1. LET q == [Idle EXCEPT !.pc = "advance", !.chain = k]
          IN IsActor(q) /\ q.pc = "advance"
      BY Records
    <3>. QED BY <3>1, Records
  <2>3. history' = history \/ (~cancelled /\ history' = Append(history, Reply(actor[x].by)))
    BY <1>2 DEF After, PushResponse
  <2>. HIDE DEF r
  <2>. QED BY <1>1, <2>1, <2>2, <2>3
<1>3. CASE actor[x].kind = "tools"
  <2>. DEFINE r == IF actor[x].by \in removed THEN Idle ELSE Asked(actor[x].by)
  <2>1. actor' = [actor EXCEPT ![x] = r] /\ history' = history
    BY <1>3 DEF After
  <2>2. IsActor(r) /\ r.pc \in {"idle", "asked", "advance"}
    BY Records
  <2>. HIDE DEF r
  <2>. QED BY <1>1, <2>1, <2>2
<1>4. CASE actor[x].kind \notin {"reply", "tools"}
  <2>1. actor' = [actor EXCEPT ![x] = Idle] /\ history' = history
    BY <1>4 DEF After
  <2>. QED BY <1>1, <2>1, Records
<1>. QED BY <1>2, <1>3, <1>4

LEMMA StreamEndSet ==
    ASSUME ChatType, NEW x \in Actor, StreamEnd(x)
    PROVE  /\ actor' = [y \in Actor |-> actor'[y]] /\ \A y \in Actor : IsActor(actor'[y])
           /\ actor'[x].pc \in {"idle", "after", "dequeue"} /\ ActorStep(x)
<1>1. CASE actor' = [actor EXCEPT ![x] = Idle]
  BY <1>1, Records, ActorSet
<1>2. ASSUME NEW kind, NEW p \in {"after", "dequeue"},
             actor' = [actor EXCEPT ![x].kind = kind, ![x].pc = p]
      PROVE  /\ actor' = [y \in Actor |-> actor'[y]] /\ \A y \in Actor : IsActor(actor'[y])
             /\ actor'[x].pc \in {"idle", "after", "dequeue"} /\ ActorStep(x)
  <2>. DEFINE r == [actor[x] EXCEPT !.kind = kind, !.pc = p]
  <2>1. IsActor(r) /\ r.pc = p
    BY DEF ChatType, IsActor
  <2>2. actor' = [actor EXCEPT ![x] = r]
    BY <1>2 DEF ChatType
  <2>. HIDE DEF r
  <2>. QED BY <2>1, <2>2, ActorSet
<1>. QED
  <2>1. CASE actor[x].by \in removed
    BY <1>1, <2>1 DEF StreamEnd
  <2>2. CASE actor[x].by \notin removed
    <3>1. PICK kind : actor' = [actor EXCEPT ![x].kind = kind,
                                  ![x].pc = IF cancelled THEN "after" ELSE "dequeue"]
      BY <2>2 DEF StreamEnd
    <3>. QED BY <1>2, <3>1
  <2>. QED BY <2>1, <2>2

LEMMA SilentStep ==
    ASSUME ChatInv, NEW x \in Actor, Advance(x) \/ Subscribe(x) \/ After(x) \/ StreamEnd(x)
    PROVE  ChatInv'
<1>1. /\ actor' = [y \in Actor |-> actor'[y]] /\ \A y \in Actor : IsActor(actor'[y])
      /\ actor'[x].pc \notin {"queue", "begin", "handle"} /\ ActorStep(x)
  <2>1. ChatType
    BY DEF ChatInv
  <2>2. CASE Advance(x)
    BY <2>1, <2>2, AdvanceSet
  <2>3. CASE Subscribe(x)
    BY <2>1, <2>3, SubscribeSet
  <2>4. CASE After(x)
    BY <2>1, <2>4, AfterSet
  <2>5. CASE StreamEnd(x)
    BY <2>1, <2>5, StreamEndSet
  <2>. QED BY <2>2, <2>3, <2>4, <2>5
<1>2. UNCHANGED <<queue, sent, cancelled>> /\ ~At(x, "queue") /\ ~At(x, "begin")
      /\ ~At(x, "handle")
  BY DEF Advance, Subscribe, After, StreamEnd, inputVars, At
<1>3. history' = history \/ \E a : history' = Append(history, Reply(a))
  <2>1. CASE After(x)
    BY <2>1, AfterSet DEF ChatInv
  <2>2. CASE Advance(x) \/ Subscribe(x) \/ StreamEnd(x)
    BY <2>2 DEF Advance, Subscribe, StreamEnd
  <2>. QED BY <2>1, <2>2
<1>4. SaidOnce' /\ Said' = Said /\ IsSequence(history')
  BY <1>3, SaidStays
<1>5. Kept'
  BY <1>1, <1>2, <1>4, MessagesStay
<1>6. ChatType'
  BY <1>1, <1>2, <1>4 DEF ChatInv, ChatType
<1>. QED BY <1>5, <1>6 DEF ChatInv

-----------------------------------------------------------------------------
(* Every step.                                                             *)

LEMMA ChatInitInv == Init => ChatInv
<1>. SUFFICES ASSUME Init PROVE ChatInv
  OBVIOUS
<1>1. history = <<>> /\ queue = <<>> /\ sent = 0 /\ actor = [x \in Actor |-> Idle]
  BY DEF Init
<1>2. queue \in Seq(Nat) /\ history \in Seq(Nat) /\ DOMAIN queue = {} /\ DOMAIN history = {}
  BY <1>1
<1>3. \A x \in Actor : actor[x] = Idle /\ actor[x].pc = "idle"
  BY <1>1, Records
<1>4. ChatType
  BY <1>1, <1>2, <1>3, Records DEF ChatType, IsSequence
<1>5. Said = {} /\ ToSet(queue) = {} /\ Held("handle") = {} /\ Strands = {}
  BY <1>2, <1>3, StrandIsActor DEF Said, ToSet, Held, At, Strands
<1>6. SaidOnce /\ Distinct
  BY <1>2, <1>3 DEF SaidOnce, Distinct, At
<1>. QED BY <1>1, <1>4, <1>5, <1>6 DEF ChatInv, Kept, Apart, Complete

LEMMA RestStep == ChatInv /\ ((\E a \in Agents : RemoveAgent(a)) \/ UNCHANGED vars) => ChatInv'
<1>. SUFFICES ASSUME ChatInv, UNCHANGED <<actor, history, queue, sent, cancelled>>
              PROVE  ChatInv'
  BY DEF RemoveAgent, vars, inputVars
<1>1. ChatType'
  BY DEF ChatInv, ChatType, IsSequence
<1>2. UNCHANGED <<Held("handle"), Strands, Said, ToSet(queue)>>
  BY DEF Held, At, Strands, Said, IsMessage, ToSet
<1>3. Distinct' /\ SaidOnce'
  BY DEF ChatInv, Kept, Distinct, SaidOnce, IsMessage, At
<1>. QED BY <1>1, <1>2, <1>3 DEF ChatInv, Kept, Apart, Complete

LEMMA ChatStep == ChatInv /\ [Next]_vars => ChatInv'
<1>. SUFFICES ASSUME ChatInv, [Next]_vars PROVE ChatInv'
  OBVIOUS
<1>1. ASSUME NEW x \in Actor, Work(x) PROVE ChatInv'
  BY <1>1, HandleStep, SilentStep DEF Work
<1>2. CASE Strand
  BY <1>1, <1>2, InputStep, EnqueueStep, BeginStep, StrandIsActor DEF Strand
<1>3. ASSUME NEW s \in Thread, Participant(s) PROVE ChatInv'
  <2>1. s \in Actor
    BY StrandIsActor
  <2>. QED BY <1>1, <1>3, <2>1, SilentStep, DequeueStep DEF Participant
<1>. QED BY <1>2, <1>3, RestStep DEF Next

\* OnInput, processNextInQueue, handleUserMessageAsync: in every order of the strand's
\* and the participants' steps, no message is handled twice, and none is lost
\* unless the chat was stopped.
THEOREM KeepsHold == Spec => []MessagesKept
<1>1. ChatInv => MessagesKept
  BY KeptSuffices DEF ChatInv
<1>. QED BY <1>1, ChatInitInv, ChatStep, PTL DEF Spec

-----------------------------------------------------------------------------
(* What a stop silences.                                                   *)

\* A step of an actor that says and takes nothing is silent.
LEMMA SilentIf ==
    ASSUME ChatType, NEW x \in Actor, ActorStep(x),
           cancelled /\ At(x, "dequeue") => actor'[x].pc # "handle",
           cancelled => \/ history' = history
                        \/ At(x, "handle") /\ history' = Append(history, User(actor[x].chain))
    PROVE  Silent
<1>. SUFFICES ASSUME cancelled PROVE Silent
  BY DEF Silent
<1>1. ASSUME NEW s \in Thread, At(s, "dequeue") PROVE actor'[s].pc # "handle"
  <2>1. s \in Actor
    BY StrandIsActor
  <2>2. CASE s = x
    BY <1>1, <2>2
  <2>3. CASE s # x
    BY <1>1, <2>1, <2>3 DEF ActorStep, At
  <2>. QED BY <2>2, <2>3
<1>2. At(x, "handle") => actor[x].chain \in Held("handle")
  BY DEF Held
<1>. QED BY <1>1, <1>2 DEF Silent

LEMMA InputSilent == ChatType /\ (OnInput \/ Enqueue \/ Begin \/ Stop) => Silent
<1>. SUFFICES ASSUME ChatType, OnInput \/ Enqueue \/ Begin \/ Stop PROVE Silent
  OBVIOUS
<1>1. history' = history
  BY DEF OnInput, Enqueue, Begin, Stop
<1>2. \A s \in Thread : actor'[s] = actor[s]
  BY StrandIsActor DEF OnInput, Enqueue, Begin, Stop, Goto, ChatType
<1>. QED BY <1>1, <1>2 DEF Silent, At

LEMMA ActorSilent ==
    ASSUME ChatType, NEW x \in Actor,
           Handle(x) \/ Advance(x) \/ Subscribe(x) \/ After(x) \/ StreamEnd(x)
    PROVE  Silent
<1>1. CASE Handle(x)
  <2>. DEFINE r == IF room = <<>> THEN Back(x) ELSE [actor[x] EXCEPT !.pc = "advance"]
  <2>1. /\ actor' = [actor EXCEPT ![x] = r] /\ At(x, "handle")
        /\ history' = Append(history, User(actor[x].chain))
    BY <1>1 DEF Handle, ChatType
  <2>2. IsActor(r)
    BY BackRecord DEF ChatType, IsActor
  <2>. HIDE DEF r
  <2>3. ActorStep(x)
    BY <2>1, <2>2, ActorSet
  <2>. QED BY <2>1, <2>3, SilentIf DEF At
<1>2. CASE Advance(x)
  BY <1>2, AdvanceSet, SilentIf DEF Advance, At
<1>3. CASE Subscribe(x)
  BY <1>3, SubscribeSet, SilentIf DEF Subscribe, At
<1>4. CASE After(x)
  <2>1. cancelled => history' = history
    BY <1>4, AfterSet
  <2>. QED BY <1>4, <2>1, AfterSet, SilentIf DEF After, At
<1>5. CASE StreamEnd(x)
  BY <1>5, StreamEndSet, SilentIf DEF StreamEnd, At
<1>. QED BY <1>1, <1>2, <1>3, <1>4, <1>5

LEMMA DequeueSilent ==
    ASSUME ChatType, NEW x \in Thread, ProcessNextInQueue(x)
    PROVE  Silent
<1>. SUFFICES ASSUME cancelled PROVE Silent
  BY DEF Silent
<1>1. x \in Actor /\ history' = history /\ actor' = [actor EXCEPT ![x] = Back(x)]
  BY StrandIsActor DEF ProcessNextInQueue
<1>2. actor'[x].pc \in {"idle", "after"} /\ ActorStep(x)
  BY <1>1, BackRecord, ActorSet
<1>. QED BY <1>1, <1>2, SilentIf

\* stop and every test of cancelled: for any number of participants and threads, a
\* stopped chat keeps no reply and takes nothing from its queue.
THEOREM StopHolds == Spec => StopSilences
<1>1. ChatInv /\ [Next]_vars => [Silent]_vars
  <2>. SUFFICES ASSUME ChatType, Next PROVE Silent \/ UNCHANGED vars
    BY DEF ChatInv
  <2>1. ASSUME NEW x \in Actor, Work(x) PROVE Silent
    BY <2>1, ActorSilent DEF Work
  <2>2. CASE Strand
    BY <2>1, <2>2, InputSilent, StrandIsActor DEF Strand
  <2>3. ASSUME NEW s \in Thread, Participant(s) PROVE Silent
    <3>1. s \in Actor
      BY StrandIsActor
    <3>. QED BY <2>1, <2>3, <3>1, ActorSilent, DequeueSilent DEF Participant
  <2>4. ASSUME NEW a \in Agents, RemoveAgent(a) PROVE Silent
    BY <2>4 DEF RemoveAgent, Silent, At
  <2>. QED BY <2>2, <2>3, <2>4 DEF Next
<1>. QED BY <1>1, ChatInitInv, ChatStep, PTL DEF Spec, StopSilences

-----------------------------------------------------------------------------
(* Who keeps the work going.                                               *)

\* What an actor that asks, answers or goes on with a chain refers to.
Going(r, said) ==
    /\ r.pc = "asked" \/ r.kind \in {"tools", "reply"} => r.by \in Agents
    /\ r.pc \in {"advance", "subscribe"} => r.chain \in said

\* A chain has gone on only if its message is said.
IsChain(c) == DOMAIN c = {"idx", "loop", "auto", "old"} /\ c.idx \in Nat

Begun ==
    /\ room \in Seq(Agents)
    /\ \A x \in Actor : Going(actor[x], Said)
    /\ reply = [a \in Agents |-> reply[a]] /\ \A a \in Agents : reply[a] \in Said \cup {0}
    /\ target = [m \in Message |-> target[m]] /\ chain = [m \in Message |-> chain[m]]
    /\ \A m \in Message : IsChain(chain[m]) /\ (chain[m].idx # 0 => m \in Said)

\* An actor that will end the stream, or set off one that does.
Witness(x) == \/ actor[x].pc \in {"handle", "asked"}
              \/ At(x, "advance") /\ chain[actor[x].chain].idx = 0

Streamed == streaming => \E x \in Actor : Witness(x)
Taken    == queue # <<>> => streaming \/ raced \/ \E s \in Thread : At(s, "dequeue")

WorkInv ==
    /\ ChatInv /\ sent <= MaxInput
    /\ removed = {} => Begun
    /\ Served => Streamed /\ Taken

LEMMA WorkInvSuffices == WorkInv => WorkGoesOn
BY DEF WorkInv, WorkGoesOn, Streamed, Taken, Witness

LEMMA GoingMore ==
    ASSUME NEW r, NEW S, NEW T, S \subseteq T, Going(r, S)
    PROVE  Going(r, T)
BY DEF Going

\* An actor that goes nowhere new is going still.
LEMMA BackGoing ==
    ASSUME NEW x \in Actor, NEW S, Going(actor[x], S), ChatType
    PROVE  Going(Back(x), S) /\ Going(Idle, S) /\ ~(Back(x).pc \in {"handle", "asked", "advance"})
<1>1. Going(Idle, S) /\ Idle.pc = "idle"
  BY DEF Idle, Going
<1>2. CASE actor[x].kind \in {"tools", "reply"}
  <2>. DEFINE r == [actor[x] EXCEPT !.pc = "after", !.chain = 0, !.pos = 0]
  <2>1. Back(x) = r /\ r.pc = "after" /\ r.kind = actor[x].kind /\ r.by = actor[x].by
    BY <1>2 DEF Back, ChatType, IsActor
  <2>. QED BY <1>1, <2>1 DEF Going
<1>. QED BY <1>1, <1>2 DEF Back

LEMMA AskedGoing == \A S : \A a \in Agents : Going(Asked(a), S) /\ Asked(a).pc = "asked"
BY DEF Asked, Idle, Going

LEMMA SaidInRange ==
    ASSUME ChatInv, sent <= MaxInput, NEW m \in Said
    PROVE  m \in Message /\ m \in 1 .. sent /\ m # 0
<1>1. m \in 1 .. sent /\ sent \in Nat /\ MaxInput \in Nat
  BY ChatAssumption DEF ChatInv, ChatType, Kept, Complete
<1>. QED BY <1>1 DEF Message

-----------------------------------------------------------------------------
(* The next turn of a chain.                                               *)

LEMMA NextTurnIs ==
    ASSUME room \in Seq(Agents), NEW m, IsChain(chain[m])
    PROVE  /\ NextTurn(m)[1] \in Nat
           /\ (chain[m].idx = 0 /\ \E i \in DOMAIN room : target[m] \in {0, room[i]})
                => NextTurn(m)[1] \in DOMAIN room
<1>. DEFINE rest == {i \in chain[m].idx + 1 .. Len(room) : target[m] \in {0, room[i]}}
<1>1. chain[m].idx \in Nat /\ Len(room) \in Nat /\ DOMAIN room = 1 .. Len(room)
  BY DEF IsChain
<1>2. rest \in SUBSET Nat /\ rest \subseteq DOMAIN room
  BY <1>1
<1>3. CASE rest # {}
  <2>. DEFINE c == CHOOSE i \in rest : \A j \in rest : i <= j
  <2>1. c \in rest
    <3>. HIDE DEF rest
    <3>. QED BY <1>2, <1>3, LeastNatural
  <2>2. NextTurn(m)[1] = c
    BY <1>3 DEF NextTurn
  <2>. HIDE DEF c, rest
  <2>. QED BY <1>2, <2>1, <2>2
<1>4. CASE rest = {}
  <2>1. NextTurn(m)[1] \in {0, 1}
    <3>1. CASE chain[m].auto /\ chain[m].loop < MaxLoop
      BY <1>4, <3>1 DEF NextTurn
    <3>2. CASE ~(chain[m].auto /\ chain[m].loop < MaxLoop)
      BY <1>4, <3>2 DEF NextTurn
    <3>. QED BY <3>1, <3>2
  <2>2. ASSUME chain[m].idx = 0, NEW i \in DOMAIN room, target[m] \in {0, room[i]}
        PROVE  FALSE
    <3>1. i \in rest
      BY <1>1, <2>2
    <3>. QED BY <1>4, <3>1
  <2>. QED BY <2>1, <2>2
<1>. QED BY <1>3, <1>4

-----------------------------------------------------------------------------
(* What a step leaves.                                                     *)

LEMMA StreamedOn ==
    ASSUME WorkInv, Served, NEW x \in Actor, ActorStep(x),
           \A m \in Message : chain[m].idx = 0 => chain'[m].idx = 0,
           Witness(x) => Witness(x)', streaming' => streaming \/ Witness(x)'
    PROVE  Streamed'
<1>. SUFFICES ASSUME streaming', ~Witness(x)' PROVE \E y \in Actor : Witness(y)'
  BY DEF Streamed
<1>1. PICK y \in Actor : Witness(y)
  BY DEF WorkInv, Streamed
<1>2. y # x /\ actor'[y] = actor[y]
  BY <1>1 DEF ActorStep, At, Witness
<1>3. At(y, "advance") => actor[y].chain \in Message
  BY SaidInRange DEF WorkInv, Served, Begun, Going, At
<1>. QED BY <1>1, <1>2, <1>3 DEF Witness, At

LEMMA TakenOn ==
    ASSUME WorkInv, Served, NEW x \in Actor, ActorStep(x), queue' = queue, raced' = raced,
           ~At(x, "dequeue"), streaming => streaming'
    PROVE  Taken'
<1>1. \A s \in Thread : At(s, "dequeue") => At(s, "dequeue")'
  BY StrandIsActor DEF ActorStep, At
<1>. QED BY <1>1 DEF WorkInv, Taken

LEMMA GoingOn ==
    ASSUME WorkInv, removed = {}, Said \subseteq Said', NEW x \in Actor, NEW r,
           actor' = [actor EXCEPT ![x] = r], Going(r, Said')
    PROVE  \A y \in Actor : Going(actor'[y], Said')
<1>1. \A y \in Actor : Going(actor[y], Said')
  BY GoingMore DEF WorkInv, Begun
<1>2. \A y \in Actor : actor'[y] = actor[y] \/ actor'[y] = r
  BY DEF WorkInv, ChatInv, ChatType
<1>. QED BY <1>1, <1>2

\* The chains and where replies go, as they were.
LEMMA BooksOn ==
    ASSUME WorkInv, removed = {}, Said \subseteq Said',
           UNCHANGED <<room, reply, target, chain>>,
           \A y \in Actor : Going(actor'[y], Said')
    PROVE  Begun'
BY DEF WorkInv, Begun

LEMMA ServedBefore ==
    ASSUME WorkInv, [Next]_vars, removed' = {}
    PROVE  removed = {} /\ room' = room /\ (Served' => Served)
<1>1. removed = {} /\ UNCHANGED <<key, room>>
  <2>1. \A a \in Agents : RemoveAgent(a) => removed' # {}
    BY DEF RemoveAgent
  <2>2. UNCHANGED <<key, room, removed>>
    BY <2>1 DEF Next, Strand, Participant, Work, OnInput, Enqueue, Begin, Stop, Handle,
               Advance, Subscribe, After, StreamEnd, ProcessNextInQueue, roomVars, vars
  <2>. QED BY <2>2
<1>2. cancelled => cancelled'
  BY DEF Next, Strand, Participant, Work, OnInput, Enqueue, Begin, Stop, Handle,
         Advance, Subscribe, After, StreamEnd, ProcessNextInQueue, RemoveAgent, vars
<1>3. \/ UNCHANGED <<sent, target>>
      \/ sent' = sent + 1 /\ \E t : target' = [target EXCEPT ![sent'] = t]
  BY DEF Next, Strand, Participant, Work, OnInput, Enqueue, Begin, Stop, Handle, Advance,
         Subscribe, After, StreamEnd, ProcessNextInQueue, RemoveAgent, inputVars, vars
<1>4. \A m \in 1 .. sent : m \in 1 .. sent' /\ target'[m] = target[m]
  <2>1. sent \in Nat /\ MaxInput \in Nat /\ sent <= MaxInput
    BY ChatAssumption DEF WorkInv, ChatInv, ChatType
  <2>2. target = [m \in Message |-> target[m]]
    BY <1>1 DEF WorkInv, Begun
  <2>3. \A m \in 1 .. sent : m \in Message /\ m # sent + 1 /\ m \in 1 .. sent + 1
    BY <2>1 DEF Message
  <2>. QED BY <1>3, <2>2, <2>3
<1>. QED BY <1>1, <1>2, <1>4 DEF Served

-----------------------------------------------------------------------------
(* The steps.                                                              *)

\* What each step of a room nobody left must show.
Goes == Begun' /\ (Served /\ Served' => Streamed' /\ Taken')

LEMMA OnInputGoes ==
    ASSUME WorkInv, removed = {}, OnInput
    PROVE  Goes /\ sent' <= MaxInput
<1>. USE StrandIsActor
<1>1. sent \in Nat /\ MaxInput \in Nat /\ sent < MaxInput /\ sent' = sent + 1
  BY ChatAssumption DEF WorkInv, ChatInv, ChatType, OnInput
<1>2. /\ actor'[0].pc \in {"queue", "begin"} /\ ActorStep(0)
      /\ UNCHANGED <<history, queue, streaming, raced, room, reply, chain>>
  BY GotoSet DEF OnInput, WorkInv, ChatInv, roomVars
<1>3. Said' = Said
  BY <1>2 DEF Said, IsMessage
<1>4. PICK p \in {"queue", "begin"} : actor' = [actor EXCEPT ![0].pc = p]
  BY DEF OnInput, Goto
<1>. DEFINE r == [actor[0] EXCEPT !.pc = p]
<1>5. r.pc = p /\ r.kind = actor[0].kind /\ r.by = actor[0].by
  BY DEF WorkInv, ChatInv, ChatType, IsActor
<1>6. Going(r, Said)
  BY <1>5 DEF WorkInv, Begun, Going
<1>7. \A y \in Actor : Going(actor'[y], Said')
  <2>. HIDE DEF r
  <2>1. actor' = [actor EXCEPT ![0] = r]
    BY <1>4 DEF r
  <2>. QED BY <1>3, <1>6, <2>1, GoingOn
<1>8. target' = [m \in Message |-> target'[m]]
  BY DEF OnInput, WorkInv, Begun
<1>9. Begun'
  BY <1>2, <1>3, <1>7, <1>8 DEF WorkInv, Begun
<1>10. ~At(0, "dequeue") /\ ~Witness(0)
  BY DEF OnInput, At, Witness
<1>11. Served => Streamed' /\ Taken'
  BY <1>2, <1>10, StreamedOn, TakenOn
<1>. QED BY <1>1, <1>9, <1>11 DEF Goes

LEMMA StrandGoes ==
    ASSUME WorkInv, removed = {}, Enqueue \/ Begin \/ Stop
    PROVE  Goes
<1>. USE StrandIsActor
<1>0. UNCHANGED <<history, room, reply, target, chain>> /\ Said' = Said
  <2>1. UNCHANGED <<history, room, reply, target, chain>>
    BY DEF Enqueue, Begin, Stop, roomVars, inputVars
  <2>. QED BY <2>1 DEF Said, IsMessage
<1>1. CASE Enqueue
  <2>. DEFINE r == [actor[0] EXCEPT !.pc = "idle"]
  <2>1. r.pc = "idle" /\ r.kind = actor[0].kind /\ r.by = actor[0].by
        /\ actor' = [actor EXCEPT ![0] = r]
    BY <1>1 DEF WorkInv, ChatInv, ChatType, IsActor, Enqueue, Goto
  <2>2. Going(r, Said)
    BY <2>1 DEF WorkInv, Begun, Going
  <2>. HIDE DEF r
  <2>3. Begun'
    BY <1>0, <2>1, <2>2, GoingOn, BooksOn
  <2>4. ActorStep(0) /\ ~Witness(0) /\ streaming' = streaming /\ (streaming' \/ raced')
    BY <1>1, GotoSet DEF Enqueue, WorkInv, ChatInv, At, Witness
  <2>5. Served => Streamed' /\ Taken'
    BY <1>0, <2>4, StreamedOn DEF Taken
  <2>. QED BY <2>3, <2>5 DEF Goes
<1>2. CASE Begin
  <2>. DEFINE r == [actor[0] EXCEPT !.pc = "handle", !.chain = sent]
  <2>1. r.pc = "handle" /\ r.kind = actor[0].kind /\ r.by = actor[0].by
        /\ actor' = [actor EXCEPT ![0] = r] /\ streaming'
    BY <1>2 DEF WorkInv, ChatInv, ChatType, IsActor, Begin
  <2>2. Going(r, Said)
    BY <2>1 DEF WorkInv, Begun, Going
  <2>. HIDE DEF r
  <2>3. Begun'
    BY <1>0, <2>1, <2>2, GoingOn, BooksOn
  <2>4. actor'[0].pc = "handle"
    BY <2>1 DEF WorkInv, ChatInv, ChatType
  <2>5. Streamed' /\ Taken'
    BY <2>1, <2>4 DEF Streamed, Taken, Witness
  <2>. QED BY <2>3, <2>5 DEF Goes
<1>3. CASE Stop
  <2>1. actor' = actor /\ cancelled'
    BY <1>3 DEF Stop
  <2>2. Begun'
    BY <1>0, <2>1, BooksOn DEF WorkInv, Begun
  <2>. QED BY <2>1, <2>2 DEF Goes, Served
<1>. QED BY <1>1, <1>2, <1>3

\* The first participant of a served chain is there.
LEMMA ServedRoom ==
    ASSUME WorkInv, Served, NEW m \in 1 .. sent
    PROVE  \E i \in DOMAIN room : target[m] \in {0, room[i]}
BY DEF Served

LEMMA HandleGoes ==
    ASSUME WorkInv, removed = {}, NEW x \in Actor, Handle(x)
    PROVE  Goes
<1>. DEFINE m == actor[x].chain
            r == IF room = <<>> THEN Back(x) ELSE [actor[x] EXCEPT !.pc = "advance"]
<1>1. /\ actor' = [actor EXCEPT ![x] = r] /\ history' = Append(history, User(m))
      /\ At(x, "handle") /\ chain' = [chain EXCEPT ![m].auto = target[m] = 0 /\ Len(room) > 1]
      /\ UNCHANGED <<queue, sent, target, reply, room, removed, streaming, raced>>
  BY DEF Handle, inputVars, roomVars, WorkInv, ChatInv, ChatType
<1>2. m \in Held("handle") /\ m \notin Said
  BY <1>1 DEF Held, WorkInv, ChatInv, Kept, Apart
<1>3. Said' = Said \cup {m}
  BY <1>1, <1>2, SaidGrows DEF WorkInv
<1>4. m \in 1 .. sent /\ m \in Message
  <2>1. m \in 1 .. sent
    BY <1>2 DEF WorkInv, ChatInv, Kept, Complete
  <2>. QED BY <2>1, ChatAssumption DEF WorkInv, ChatInv, ChatType, Message
<1>5. Going(actor[x], Said) /\ Going(actor[x], Said')
  BY <1>3, GoingMore DEF WorkInv, Begun
<1>6. Going(r, Said') /\ (room # <<>> => r.pc = "advance" /\ r.chain = m)
  <2>1. CASE room = <<>>
    BY <1>5, <2>1, BackGoing DEF WorkInv, ChatInv
  <2>2. CASE room # <<>>
    <3>. DEFINE q == [actor[x] EXCEPT !.pc = "advance"]
    <3>1. r = q /\ q.pc = "advance" /\ q.kind = actor[x].kind /\ q.by = actor[x].by
          /\ q.chain = m
      BY <2>2 DEF WorkInv, ChatInv, ChatType, IsActor
    <3>. HIDE DEF q, r
    <3>. QED BY <1>3, <1>5, <3>1 DEF Going
  <2>. QED BY <2>1, <2>2
<1>. HIDE DEF r
<1>7. \A y \in Actor : Going(actor'[y], Said')
  BY <1>1, <1>3, <1>6, GoingOn
<1>8. /\ chain' = [k \in Message |-> chain'[k]]
      /\ \A k \in Message : IsChain(chain'[k]) /\ chain'[k].idx = chain[k].idx
  BY <1>1, <1>4 DEF WorkInv, Begun, IsChain
<1>9. Begun'
  <2>1. \A k \in Message : chain[k].idx # 0 => k \in Said
    BY DEF WorkInv, Begun
  <2>. QED BY <1>1, <1>3, <1>7, <1>8, <2>1 DEF WorkInv, Begun
<1>10. ASSUME Served PROVE Streamed' /\ Taken'
  <2>1. room # <<>>
    BY <1>4, <1>10, ServedRoom
  <2>2. chain[m].idx = 0
    BY <1>2, <1>4 DEF WorkInv, Begun
  <2>3. actor'[x] = r /\ ActorStep(x)
    BY <1>1 DEF WorkInv, ChatInv, ChatType, ActorStep
  <2>4. Witness(x)'
    BY <1>4, <1>6, <1>8, <2>1, <2>2, <2>3 DEF Witness, At
  <2>5. ~At(x, "dequeue")
    BY <1>1 DEF At
  <2>. HIDE DEF m
  <2>. QED BY <1>1, <1>8, <1>10, <2>3, <2>4, <2>5, StreamedOn, TakenOn
<1>. QED BY <1>9, <1>10 DEF Goes

LEMMA SubscribeGoes ==
    ASSUME WorkInv, removed = {}, NEW x \in Actor, Subscribe(x)
    PROVE  Goes
<1>. DEFINE m == actor[x].chain
            i == actor[x].pos
<1>1. UNCHANGED <<history, queue, sent, target, room, streaming, raced>> /\ Said' = Said
      /\ At(x, "subscribe")
  <2>1. UNCHANGED <<history, queue, sent, target, room, streaming, raced>>
    BY DEF Subscribe, inputVars, roomVars
  <2>. QED BY <2>1 DEF Said, IsMessage, Subscribe
<1>2. CASE i > Len(room)
  <2>1. UNCHANGED <<actor, chain, reply>>
    BY <1>2 DEF Subscribe
  <2>2. Begun'
    BY <1>1, <2>1, BooksOn DEF WorkInv, Begun
  <2>3. Streamed <=> Streamed'
    BY <1>1, <2>1 DEF Streamed, Witness, At
  <2>4. Taken <=> Taken'
    BY <1>1, <2>1 DEF Taken, At
  <2>. QED BY <2>2, <2>3, <2>4 DEF Goes, WorkInv
<1>3. CASE ~(i > Len(room))
  <2>1. /\ chain' = [chain EXCEPT ![m].old = @ \cup {i}]
        /\ reply' = [reply EXCEPT ![room[i]] = m] /\ actor' = [actor EXCEPT ![x] = Back(x)]
    BY <1>3 DEF Subscribe
  <2>2. Going(actor[x], Said) /\ m \in Said
    BY <1>1 DEF WorkInv, Begun, Going, At
  <2>3. m \in Message
    BY <2>2, SaidInRange DEF WorkInv
  <2>4. /\ Going(Back(x), Said) /\ IsActor(Back(x))
        /\ Back(x).pc \in {"idle", "after"}
    BY <2>2, BackGoing, BackRecord DEF WorkInv, ChatInv
  <2>5. \A y \in Actor : Going(actor'[y], Said')
    BY <1>1, <2>1, <2>4, GoingOn
  <2>6. reply' = [a \in Agents |-> reply'[a]] /\ \A a \in Agents : reply'[a] \in Said \cup {0}
    BY <2>1, <2>2 DEF WorkInv, Begun
  <2>7. /\ chain' = [k \in Message |-> chain'[k]]
        /\ \A k \in Message : IsChain(chain'[k]) /\ chain'[k].idx = chain[k].idx
    BY <2>1, <2>3 DEF WorkInv, Begun, IsChain
  <2>8. Begun'
    <3>1. \A k \in Message : chain[k].idx # 0 => k \in Said
      BY DEF WorkInv, Begun
    <3>. QED BY <1>1, <2>5, <2>6, <2>7, <3>1 DEF WorkInv, Begun
  <2>9. ActorStep(x) /\ ~Witness(x) /\ ~At(x, "dequeue")
    BY <1>1, <2>1, <2>4, ActorSet DEF At, Witness, WorkInv, ChatInv
  <2>10. Served => Streamed' /\ Taken'
    BY <1>1, <2>7, <2>9, StreamedOn, TakenOn
  <2>. QED BY <2>8, <2>10 DEF Goes
<1>. QED BY <1>2, <1>3

LEMMA AfterGoes ==
    ASSUME WorkInv, removed = {}, NEW x \in Actor, After(x)
    PROVE  Goes
<1>1. /\ UNCHANGED <<queue, sent, target, room, chain, reply, streaming, raced>>
      /\ At(x, "after")
  BY DEF After, inputVars, roomVars
<1>2. ActorStep(x) /\ Said' = Said
  BY AfterSet, SaidStays DEF WorkInv, ChatInv
<1>3. Going(actor[x], Said)
  BY DEF WorkInv, Begun
<1>4. \E r : actor' = [actor EXCEPT ![x] = r] /\ Going(r, Said)
  <2>1. Going(Idle, Said)
    BY <1>3, BackGoing DEF WorkInv, ChatInv
  <2>2. CASE actor[x].kind = "reply"
    <3>. DEFINE k == reply[actor[x].by]
                q == [Idle EXCEPT !.pc = "advance", !.chain = k]
    <3>1. actor[x].by \in Agents
      BY <1>3, <2>2 DEF Going
    <3>2. k \in Said \cup {0}
      BY <3>1 DEF WorkInv, Begun
    <3>3. k # 0 => Going(q, Said)
      BY <3>2 DEF Going, Idle
    <3>4. actor' = [actor EXCEPT ![x] = IF k = 0 THEN Idle ELSE q]
      BY <2>2 DEF After, PushResponse
    <3>. HIDE DEF k, q
    <3>. QED BY <2>1, <3>3, <3>4
  <2>3. CASE actor[x].kind = "tools"
    <3>1. Going(Asked(actor[x].by), Said)
      BY <1>3, <2>3, AskedGoing DEF Going
    <3>2. actor' = [actor EXCEPT ![x] = Asked(actor[x].by)]
      BY <2>3 DEF After
    <3>. QED BY <3>1, <3>2
  <2>4. CASE actor[x].kind \notin {"reply", "tools"}
    BY <2>1, <2>4 DEF After
  <2>. QED BY <2>2, <2>3, <2>4
<1>5. \A y \in Actor : Going(actor'[y], Said')
  BY <1>2, <1>4, GoingOn
<1>6. Begun'
  BY <1>1, <1>2, <1>5, BooksOn
<1>7. ~At(x, "dequeue") /\ ~Witness(x)
  BY <1>1 DEF At, Witness
<1>8. Served => Streamed' /\ Taken'
  BY <1>1, <1>2, <1>7, StreamedOn, TakenOn
<1>. QED BY <1>6, <1>8 DEF Goes

LEMMA StreamEndGoes ==
    ASSUME WorkInv, removed = {}, NEW x \in Thread, StreamEnd(x)
    PROVE  Goes
<1>1. /\ UNCHANGED <<history, queue, sent, target, room, chain, reply, raced, cancelled>>
      /\ At(x, "asked") /\ x \in Actor /\ Said' = Said
  <2>1. UNCHANGED <<history, queue, sent, target, room, chain, reply, raced, cancelled>>
    BY DEF StreamEnd, inputVars, roomVars
  <2>. QED BY <2>1, StrandIsActor DEF Said, IsMessage, StreamEnd
<1>2. PICK kind : /\ actor' = [actor EXCEPT ![x].kind = kind,
                                 ![x].pc = IF cancelled THEN "after" ELSE "dequeue"]
                  /\ streaming' = (streaming /\ cancelled)
  BY DEF StreamEnd
<1>. DEFINE p == IF cancelled THEN "after" ELSE "dequeue"
            r == [actor[x] EXCEPT !.kind = kind, !.pc = p]
<1>3. r.pc = p /\ r.by = actor[x].by /\ actor' = [actor EXCEPT ![x] = r] /\ actor'[x] = r
  BY <1>1, <1>2 DEF WorkInv, ChatInv, ChatType, IsActor
<1>4. actor[x].by \in Agents
  BY <1>1 DEF WorkInv, Begun, Going, At
<1>5. Going(r, Said')
  BY <1>3, <1>4 DEF Going
<1>. HIDE DEF r
<1>6. \A y \in Actor : Going(actor'[y], Said')
  BY <1>1, <1>3, <1>5, GoingOn
<1>7. Begun'
  BY <1>1, <1>6, BooksOn
<1>8. Served => ~streaming' /\ At(x, "dequeue")'
  BY <1>2, <1>3 DEF Served, At
<1>9. Served => Streamed' /\ Taken'
  BY <1>8 DEF Streamed, Taken
<1>. QED BY <1>7, <1>9 DEF Goes

LEMMA DequeueGoes ==
    ASSUME WorkInv, removed = {}, NEW x \in Thread, ProcessNextInQueue(x)
    PROVE  Goes
<1>1. /\ UNCHANGED <<history, sent, target, room, chain, reply, raced, cancelled>>
      /\ At(x, "dequeue") /\ x \in Actor /\ Said' = Said
  <2>1. UNCHANGED <<history, sent, target, room, chain, reply, raced, cancelled>>
    BY DEF ProcessNextInQueue, inputVars, roomVars
  <2>. QED BY <2>1, StrandIsActor DEF Said, IsMessage, ProcessNextInQueue
<1>2. Going(actor[x], Said)
  BY <1>1 DEF WorkInv, Begun
<1>3. CASE cancelled \/ queue = <<>>
  <2>1. actor' = [actor EXCEPT ![x] = Back(x)] /\ UNCHANGED <<queue, streaming>>
    BY <1>3 DEF ProcessNextInQueue
  <2>2. Going(Back(x), Said)
    BY <1>1, <1>2, BackGoing DEF WorkInv, ChatInv
  <2>3. Begun'
    BY <1>1, <2>1, <2>2, GoingOn, BooksOn
  <2>4. ActorStep(x) /\ ~Witness(x)
    BY <1>1, <2>1, BackRecord, ActorSet DEF WorkInv, ChatInv, At, Witness
  <2>5. Served => Streamed'
    BY <1>1, <2>1, <2>4, StreamedOn
  <2>6. Served => Taken'
    BY <1>3, <2>1 DEF Served, Taken
  <2>. QED BY <2>3, <2>5, <2>6 DEF Goes
<1>4. CASE ~(cancelled \/ queue = <<>>)
  <2>. DEFINE r == [actor[x] EXCEPT !.pc = "handle", !.chain = Head(queue)]
  <2>1. /\ actor' = [actor EXCEPT ![x] = r] /\ streaming' /\ actor'[x] = r
        /\ r.pc = "handle" /\ r.kind = actor[x].kind /\ r.by = actor[x].by
    BY <1>1, <1>4 DEF ProcessNextInQueue, WorkInv, ChatInv, ChatType, IsActor
  <2>2. Going(r, Said)
    BY <1>2, <2>1 DEF Going
  <2>. HIDE DEF r
  <2>3. Begun'
    BY <1>1, <2>1, <2>2, GoingOn, BooksOn
  <2>4. Streamed' /\ Taken'
    BY <1>1, <2>1 DEF Streamed, Taken, Witness
  <2>. QED BY <2>3, <2>4 DEF Goes
<1>. QED BY <1>3, <1>4

\* Who is asked is going, and the thread that asks is the stream's.
LEMMA AskingGoes ==
    ASSUME WorkInv, removed = {}, NEW x \in Actor, At(x, "advance"), Said' = Said,
           NEW i \in DOMAIN room,
           OnUserMessage([actor EXCEPT ![x].pc = "subscribe", ![x].pos = i], room[i])
    PROVE  /\ \A y \in Actor : Going(actor'[y], Said')
           /\ key => \E s \in Thread : actor'[s].pc = "asked"
<1>. DEFINE actors == [actor EXCEPT ![x].pc = "subscribe", ![x].pos = i]
            r == [actor[x] EXCEPT !.pc = "subscribe", !.pos = i]
<1>1. r.pc = "subscribe" /\ r.kind = actor[x].kind /\ r.by = actor[x].by
      /\ r.chain = actor[x].chain /\ actors = [actor EXCEPT ![x] = r]
  BY DEF WorkInv, ChatInv, ChatType, IsActor
<1>2. Going(actor[x], Said) /\ actor[x].chain \in Said
  BY DEF WorkInv, Begun, Going, At
<1>3. Going(r, Said)
  BY <1>1, <1>2 DEF Going
<1>. HIDE DEF r
<1>4. actors = [y \in Actor |-> actors[y]] /\ \A y \in Actor : Going(actors[y], Said)
  BY <1>1, <1>3 DEF WorkInv, ChatInv, ChatType, Begun
<1>5. room[i] \in Agents
  BY DEF WorkInv, Begun
<1>6. Going(Asked(room[i]), Said) /\ Asked(room[i]).pc = "asked"
  BY <1>5, AskedGoing
<1>. HIDE DEF actors
<1>7. CASE key
  <2>1. \E s \in Thread : actor' = [actors EXCEPT ![s] = Asked(room[i])]
    BY <1>7 DEF OnUserMessage, actors
  <2>2. PICK s \in Thread : actor' = [actors EXCEPT ![s] = Asked(room[i])]
    BY <2>1
  <2>3. s \in Actor
    BY StrandIsActor
  <2>. QED BY <1>4, <1>6, <2>2, <2>3
<1>8. CASE ~key
  <2>1. actor' = actors
    BY <1>8 DEF OnUserMessage, actors
  <2>. QED BY <1>4, <1>8, <2>1
<1>. QED BY <1>7, <1>8

\* A chain that is over stays one of a message that is said.
LEMMA RestoreBegun ==
    ASSUME WorkInv, removed = {}, NEW m \in Said, Restore(m), Said' = Said,
           UNCHANGED <<room, target>>, \A y \in Actor : Going(actor'[y], Said')
    PROVE  /\ Begun' /\ \A k \in Message : k # m => chain'[k] = chain[k]
<1>1. m \in Message
  BY SaidInRange DEF WorkInv
<1>2. MaxAgent \in Nat
  BY ChatAssumption
<1>3. /\ chain' = [k \in Message |-> chain'[k]]
      /\ \A k \in Message : IsChain(chain'[k])
      /\ \A k \in Message : k # m => chain'[k] = chain[k]
  BY <1>1, <1>2 DEF WorkInv, Begun, IsChain, Restore
<1>4. \A k \in Message : chain'[k].idx # 0 => k \in Said
  BY <1>3 DEF WorkInv, Begun
<1>5. reply' = [a \in Agents |-> reply'[a]] /\ \A a \in Agents : reply'[a] \in Said \cup {0}
  BY DEF WorkInv, Begun, Restore
<1>. QED BY <1>3, <1>4, <1>5 DEF WorkInv, Begun

LEMMA AdvanceGoes ==
    ASSUME WorkInv, removed = {}, NEW x \in Actor, Advance(x)
    PROVE  Goes
<1>. DEFINE m == actor[x].chain
            i == NextTurn(m)[1]
<1>1. /\ UNCHANGED <<history, queue, sent, target, room, streaming, raced, cancelled>>
      /\ At(x, "advance") /\ Said' = Said
  <2>1. UNCHANGED <<history, queue, sent, target, room, streaming, raced, cancelled>>
    BY DEF Advance, inputVars, roomVars
  <2>. QED BY <2>1 DEF Said, IsMessage, Advance
<1>2. ActorStep(x) /\ ~At(x, "dequeue")
  BY <1>1, AdvanceSet DEF WorkInv, ChatInv, At
<1>3. Served => Taken'
  BY <1>1, <1>2, TakenOn
<1>4. m \in Said /\ Going(actor[x], Said)
  BY <1>1 DEF WorkInv, Begun, Going, At
<1>5. m \in Message /\ m \in 1 .. sent
  BY <1>4, SaidInRange DEF WorkInv
<1>6. i \in Nat /\ (Served /\ chain[m].idx = 0 => i \in DOMAIN room)
  <2>1. room \in Seq(Agents) /\ IsChain(chain[m])
    BY <1>5 DEF WorkInv, Begun
  <2>2. Served => \E j \in DOMAIN room : target[m] \in {0, room[j]}
    BY <1>5, ServedRoom
  <2>. HIDE DEF m
  <2>. QED BY <2>1, <2>2, NextTurnIs
<1>7. DOMAIN room = 1 .. Len(room) /\ Len(room) \in Nat
  BY DEF WorkInv, Begun
<1>8. Going(Back(x), Said) /\ Back(x).pc \notin {"handle", "asked", "advance"}
  BY <1>4, BackGoing DEF WorkInv, ChatInv
<1>9. CASE cancelled
  <2>1. actor' = [actor EXCEPT ![x] = Back(x)] /\ UNCHANGED <<chain, reply>>
    BY <1>9 DEF Advance
  <2>2. Begun'
    BY <1>1, <1>8, <2>1, GoingOn, BooksOn
  <2>. QED BY <1>9, <2>2 DEF Goes, Served
<1>10. CASE ~cancelled /\ i = 0
  <2>1. Restore(m) /\ actor' = [actor EXCEPT ![x] = Back(x)]
    BY <1>10 DEF Advance
  <2>2. \A y \in Actor : Going(actor'[y], Said')
    BY <1>1, <1>8, <2>1, GoingOn
  <2>3. Begun' /\ \A k \in Message : k # m => chain'[k] = chain[k]
    BY <1>1, <1>4, <2>1, <2>2, RestoreBegun
  <2>4. ASSUME Served PROVE Streamed'
    <3>1. chain[m].idx # 0
      BY <1>6, <1>7, <1>10, <2>4
    <3>2. ~Witness(x) /\ \A k \in Message : chain[k].idx = 0 => chain'[k].idx = 0
      BY <1>1, <2>3, <3>1 DEF Witness, At
    <3>. QED BY <1>1, <1>2, <2>4, <3>2, StreamedOn
  <2>. QED BY <1>3, <2>3, <2>4 DEF Goes
<1>11. CASE ~cancelled /\ i # 0 /\ i > Len(room)
  <2>1. UNCHANGED <<actor, chain, reply>>
    BY <1>11 DEF Advance
  <2>2. Begun'
    BY <1>1, <2>1, BooksOn DEF WorkInv, Begun
  <2>3. Streamed <=> Streamed'
    BY <1>1, <2>1 DEF Streamed, Witness, At
  <2>. QED BY <1>3, <2>2, <2>3 DEF Goes, WorkInv
<1>12. CASE ~cancelled /\ i # 0 /\ ~(i > Len(room))
  <2>1. /\ OnUserMessage([actor EXCEPT ![x].pc = "subscribe", ![x].pos = i], room[i])
        /\ reply' = reply
        /\ \/ chain' = chain
           \/ \E n : chain' = [chain EXCEPT ![m].idx = i, ![m].loop = n]
    BY <1>12 DEF Advance
  <2>. HIDE DEF i, m
  <2>2. i \in DOMAIN room
    BY <1>6, <1>7, <1>12
  <2>3. /\ \A y \in Actor : Going(actor'[y], Said')
        /\ key => \E s \in Thread : actor'[s].pc = "asked"
    BY <1>1, <2>1, <2>2, AskingGoes
  <2>4. /\ chain' = [k \in Message |-> chain'[k]]
        /\ \A k \in Message : IsChain(chain'[k]) /\ (k # m => chain'[k] = chain[k])
    BY <1>5, <1>6, <2>1 DEF WorkInv, Begun, IsChain
  <2>5. Begun'
    <3>1. \A k \in Message : chain'[k].idx # 0 => k \in Said
      BY <1>4, <2>4 DEF WorkInv, Begun
    <3>. QED BY <1>1, <2>1, <2>3, <2>4, <3>1 DEF WorkInv, Begun
  <2>6. Served => Streamed'
    BY <2>3, StrandIsActor DEF Served, Streamed, Witness
  <2>. QED BY <1>3, <2>5, <2>6 DEF Goes
<1>. QED BY <1>9, <1>10, <1>11, <1>12

-----------------------------------------------------------------------------
(* Every step keeps the work going.                                        *)

LEMMA WorkInit == Init => WorkInv
<1>. SUFFICES ASSUME Init PROVE WorkInv
  OBVIOUS
<1>1. ChatInv /\ sent <= MaxInput
  BY ChatInitInv, ChatAssumption DEF Init
<1>2. Begun
  <2>1. room \in Seq(Agents)
    <3>1. PICK n \in 0 .. MaxAgent : room = [j \in 1 .. n |-> j]
      BY DEF Init
    <3>2. n \in Nat /\ MaxAgent \in Nat
      BY ChatAssumption
    <3>3. \A j \in 1 .. n : j \in Agents
      BY <3>2 DEF Agents
    <3>4. room \in [1 .. n -> Agents]
      BY <3>1, <3>3
    <3>. QED BY <3>2, <3>4
  <2>2. \A x \in Actor : Going(actor[x], Said)
    BY DEF Init, Going, Idle
  <2>3. \A m \in Message : IsChain(chain[m]) /\ chain[m].idx = 0
    BY DEF Init, IsChain
  <2>. QED BY <2>1, <2>2, <2>3 DEF Begun, Init
<1>3. Streamed /\ Taken
  BY DEF Init, Streamed, Taken
<1>. QED BY <1>1, <1>2, <1>3 DEF WorkInv

LEMMA WorkStep == WorkInv /\ [Next]_vars => WorkInv'
<1>. SUFFICES ASSUME WorkInv, [Next]_vars PROVE WorkInv'
  OBVIOUS
<1>1. ChatInv'
  BY ChatStep DEF WorkInv
<1>2. sent' <= MaxInput
  <2>1. CASE OnInput
    <3>1. sent \in Nat /\ MaxInput \in Nat
      BY ChatAssumption DEF WorkInv, ChatInv, ChatType
    <3>. QED BY <2>1, <3>1 DEF OnInput
  <2>2. CASE ~OnInput
    <3>1. sent' = sent
      BY <2>2 DEF Next, Strand, Participant, Work, Enqueue, Begin, Stop, Handle, Advance,
             Subscribe, After, StreamEnd, ProcessNextInQueue, RemoveAgent, inputVars, vars
    <3>. QED BY <3>1 DEF WorkInv
  <2>. QED BY <2>1, <2>2
<1>3. ASSUME removed' = {} PROVE Begun' /\ (Served' => Streamed' /\ Taken')
  <2>1. removed = {} /\ (Served' => Served)
    BY <1>3, ServedBefore
  <2>2. CASE UNCHANGED vars
    <3>1. Said' = Said
      BY <2>2 DEF vars, Said, IsMessage
    <3>2. Begun'
      BY <2>1, <2>2, <3>1 DEF vars, roomVars, inputVars, WorkInv, Begun
    <3>3. (Streamed <=> Streamed') /\ (Taken <=> Taken')
      BY <2>2 DEF vars, Streamed, Taken, Witness, At
    <3>. QED BY <2>1, <3>2, <3>3 DEF WorkInv
  <2>3. ASSUME NEW x \in Actor, Work(x) PROVE Goes
    BY <2>1, <2>3, HandleGoes, AdvanceGoes, SubscribeGoes, AfterGoes DEF Work
  <2>4. CASE Strand
    <3>1. Goes
      BY <2>1, <2>3, <2>4, OnInputGoes, StrandGoes, StrandIsActor DEF Strand
    <3>. QED BY <2>1, <3>1 DEF Goes
  <2>5. ASSUME NEW s \in Thread, Participant(s) PROVE Goes
    <3>1. s \in Actor
      BY StrandIsActor
    <3>. QED BY <2>1, <2>3, <2>5, <3>1, StreamEndGoes, DequeueGoes DEF Participant
  <2>6. ASSUME NEW a \in Agents, RemoveAgent(a) PROVE FALSE
    BY <1>3, <2>6 DEF RemoveAgent
  <2>. QED BY <2>1, <2>2, <2>4, <2>5, <2>6 DEF Next, Goes
<1>4. Served' => removed' = {}
  BY DEF Served
<1>. QED BY <1>1, <1>2, <1>3, <1>4 DEF WorkInv

\* streaming and the queue, over handleUserMessageAsync, processNext, stream_end and
\* processNextInQueue: while messages are served, streaming is set only as long as
\* someone will end the stream, and a queued message has a thread that will take it,
\* unless it was queued on a streaming that had just been given back.
THEOREM WorkHolds == Spec => []WorkGoesOn
BY WorkInit, WorkStep, WorkInvSuffices, PTL DEF Spec
=============================================================================
