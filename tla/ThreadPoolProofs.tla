-------------------------- MODULE ThreadPoolProofs --------------------------
(***************************************************************************)
(* Proofs of ThreadPool's safety: the counters count what they stand for,  *)
(* wait_all leaves no queue, and the bound is overshot by no more than the *)
(* threads that passed its check together.                                 *)
(***************************************************************************)
EXTENDS ThreadPool, FiniteSetTheorems, TLAPS

\* A client that submits has a task, and so has a worker that took one.
Holding ==
    /\ \A c \in Client : pc[c] \in {"checked", "accepted", "counted"} => arg[c] \in Task
    /\ \A w \in Worker : wpc[w] \in {"taken", "running"} => wtask[w] \in Task

PoolInv == TypeOK /\ Holding /\ CountersExact

LEMMA CountedType ==
    /\ IsFiniteSet(Counted) /\ Cardinality(Counted) \in Nat
    /\ IsFiniteSet(Running) /\ Cardinality(Running) \in Nat
<1>1. IsFiniteSet(Client) /\ IsFiniteSet(Worker)
  BY ThreadPoolAssumption
<1>2. Counted \in SUBSET Client /\ Running \in SUBSET Worker
  BY DEF Counted, Running
<1>3. IsFiniteSet(Counted) /\ IsFiniteSet(Running)
  BY <1>1, <1>2, FS_Subset
<1>. QED BY <1>3, FS_CardinalityType

-----------------------------------------------------------------------------
(* The counters.  What a step does to the queue and to the two sets of     *)
(* threads is what it does to the counters.                                *)

LEMMA CountersSame ==
    ASSUME CountersExact, UNCHANGED <<queue, counters>>, Counted' = Counted,
           Running' = Running
    PROVE  CountersExact'
  BY DEF CountersExact, counters

\* Clients outside submit are never counted, before the step or after it.
LEMMA CountersElsewhere ==
    ASSUME PoolInv, NEW c \in Client, UNCHANGED <<queue, counters>>,
           Running' = Running, pc[c] # "counted",
           \/ pc' = pc
           \/ \E l : Goto(c, l) /\ l # "counted"
    PROVE  CountersExact'
<1>1. Counted' = Counted
  BY DEF PoolInv, TypeOK, Counted, Goto
<1>. QED BY <1>1, CountersSame DEF PoolInv

\* The sum that CountersExact is, for leaves that need arithmetic only.
LEMMA CountersParts ==
    ASSUME PoolInv
    PROVE  /\ pending \in Nat /\ active \in Nat /\ Len(queue) \in Nat
           /\ pending = Len(queue) + Cardinality(Counted)
           /\ active = Cardinality(Running)
<1>1. queue \in Seq(Task)
  BY DEF PoolInv, TypeOK
<1>2. Len(queue) \in Nat
  BY <1>1
<1>. QED BY <1>2 DEF PoolInv, TypeOK, CountersExact

LEMMA CountersCount ==
    ASSUME PoolInv, NEW c \in Client, Count(c)
    PROVE  CountersExact'
<1>1. c \notin Counted /\ Counted' = Counted \cup {c} /\ Running' = Running
  BY DEF PoolInv, TypeOK, Count, Goto, Counted, Running, workerVars
<1>2. Cardinality(Counted') = Cardinality(Counted) + 1
  BY <1>1, CountedType, FS_AddElement
<1>3. pending' = pending + 1 /\ queue' = queue /\ active' = active
  BY DEF Count
<1>. QED BY <1>1, <1>2, <1>3, CountedType, CountersParts DEF CountersExact

LEMMA CountersPost ==
    ASSUME PoolInv, NEW c \in Client, Post(c)
    PROVE  CountersExact'
<1>1. c \in Counted /\ Counted' = Counted \ {c} /\ Running' = Running
  BY DEF PoolInv, TypeOK, Post, Goto, Counted, Running, workerVars
<1>2. Cardinality(Counted') = Cardinality(Counted) - 1
  BY <1>1, CountedType, FS_RemoveElement
<1>3. arg[c] \in Task /\ queue \in Seq(Task)
  BY DEF PoolInv, TypeOK, Holding, Post
<1>4. queue' = Append(queue, arg[c]) /\ pending' = pending /\ active' = active
  BY DEF Post, counters
<1>5. Len(queue') = Len(queue) + 1
  BY <1>3, <1>4
<1>. QED BY <1>1, <1>2, <1>4, <1>5, CountedType, CountersParts DEF CountersExact

LEMMA CountersTake ==
    ASSUME PoolInv, NEW w \in Worker, Take(w)
    PROVE  CountersExact'
<1>1. Counted' = Counted /\ Running' = Running
  BY DEF PoolInv, TypeOK, Take, Counted, Running, clientVars
<1>2. queue \in Seq(Task) /\ queue # <<>> /\ queue' = Tail(queue)
  BY DEF PoolInv, TypeOK, Take
<1>3. Len(queue') = Len(queue) - 1
  BY <1>2
<1>4. pending' = pending - 1 /\ active' = active
  BY DEF Take
<1>. QED BY <1>1, <1>3, <1>4, CountedType, CountersParts DEF CountersExact

LEMMA CountersActivate ==
    ASSUME PoolInv, NEW w \in Worker, Activate(w)
    PROVE  CountersExact'
<1>1. w \notin Running /\ Running' = Running \cup {w} /\ Counted' = Counted
  BY DEF PoolInv, TypeOK, Activate, Counted, Running, clientVars
<1>2. Cardinality(Running') = Cardinality(Running) + 1
  BY <1>1, CountedType, FS_AddElement
<1>3. pending' = pending /\ queue' = queue /\ active' = active + 1
  BY DEF Activate
<1>. QED BY <1>1, <1>2, <1>3, CountedType, CountersParts DEF CountersExact

LEMMA CountersComplete ==
    ASSUME PoolInv, NEW w \in Worker, Complete(w)
    PROVE  CountersExact'
<1>1. w \in Running /\ Running' = Running \ {w} /\ Counted' = Counted
  BY DEF PoolInv, TypeOK, Complete, Counted, Running, clientVars
<1>2. Cardinality(Running') = Cardinality(Running) - 1
  BY <1>1, CountedType, FS_RemoveElement
<1>3. pending' = pending /\ queue' = queue /\ active' = active - 1
  BY DEF Complete
<1>. QED BY <1>1, <1>2, <1>3, CountedType, CountersParts DEF CountersExact

LEMMA CountersKept ==
    ASSUME PoolInv, [Next]_vars
    PROVE  CountersExact'
<1>. USE DEF workerVars, clientVars
<1>1. ASSUME NEW c \in Submitter, NEW t \in Task, TrySubmit(c, t) \/ Submit(c, t)
      PROVE  CountersExact'
  BY <1>1, CountersElsewhere DEF TrySubmit, Submit, Running, Client
<1>2. ASSUME NEW c \in Submitter, SubmitStep(c)
      PROVE  CountersExact'
  <2>1. CASE SubmitChecked(c)
    BY <2>1, CountersElsewhere DEF SubmitChecked, Running, Client
  <2>. QED BY <1>2, <2>1, CountersCount, CountersPost DEF SubmitStep, Client
<1>3. ASSUME NEW c \in Waiter,
             WaitAll(c) \/ WaitStep(c) \/ SpuriousWakeup(c)
      PROVE  CountersExact'
  <2>1. UNCHANGED <<queue, counters>> /\ Running' = Running /\ pc[c] # "counted"
    BY <1>3 DEF WaitAll, WaitStep, LoadActive, LoadPending, Relock, SpuriousWakeup,
                Running
  <2>2. \/ Goto(c, "idle") \/ Goto(c, "blocked") \/ Goto(c, "woken")
        \/ Goto(c, "loading active") \/ Goto(c, "loading pending")
    BY <1>3 DEF WaitAll, WaitStep, LoadActive, LoadPending, Relock, Block, SpuriousWakeup
  <2>3. \A l \in {"idle", "blocked", "woken", "loading active", "loading pending"} :
           l # "counted"
    OBVIOUS
  <2>4. \E l : Goto(c, l) /\ l # "counted"
    BY <2>2, <2>3, Zenon
  <2>. QED BY <2>1, <2>4, CountersElsewhere DEF Client
<1>4. ASSUME NEW c \in Stopper, Stop(c) \/ StopStep(c)
      PROVE  CountersExact'
  BY <1>4, CountersElsewhere DEF Stop, StopStep, ResetWork, Joined, Running, Client
<1>5. ASSUME NEW w \in Worker, Notify(w)
      PROVE  CountersExact'
  <2>1. Counted' = Counted /\ Running' = Running
    BY <1>5 DEF PoolInv, TypeOK, Notify, Goto, Counted, Running
  <2>. QED BY <1>5, <2>1, CountersSame DEF Notify, PoolInv
<1>6. ASSUME NEW w \in Worker, Exit(w)
      PROVE  CountersExact'
  <2>1. Counted' = Counted /\ Running' = Running
    BY <1>6 DEF PoolInv, TypeOK, Exit, Counted, Running
  <2>. QED BY <1>6, <2>1, CountersSame DEF Exit, PoolInv
<1>7. CASE UNCHANGED vars
  BY <1>7, CountersSame DEF vars, Counted, Running, PoolInv
<1>. QED BY <1>1, <1>2, <1>3, <1>4, <1>5, <1>6, <1>7,
            CountersTake, CountersActivate, CountersComplete DEF Next, WorkerNext

-----------------------------------------------------------------------------
(* Typing, and the tasks that threads hold.                                *)

\* A sequence that is not empty.
LEMMA TakeFirst ==
    ASSUME NEW S, NEW s \in Seq(S), s # <<>>
    PROVE  /\ Len(s) \in Nat /\ Len(s) > 0
           /\ Head(s) \in S /\ Tail(s) \in Seq(S)
  OBVIOUS

\* What a step makes of the counters and the queue is still typed.
LEMMA CountType ==
    ASSUME PoolInv, NEW c \in Client, Count(c)
    PROVE  pending' \in Nat
  BY CountersParts DEF Count

LEMMA PostType ==
    ASSUME PoolInv, NEW c \in Client, Post(c)
    PROVE  queue' \in Seq(Task)
<1>1. arg[c] \in Task /\ queue \in Seq(Task) /\ queue' = Append(queue, arg[c])
  BY DEF Post, PoolInv, TypeOK, Holding
<1>. QED BY <1>1

LEMMA TakeType ==
    ASSUME PoolInv, NEW w \in Worker, Take(w)
    PROVE  pending' \in Nat /\ Head(queue) \in Task /\ Tail(queue) \in Seq(Task)
<1>1. queue \in Seq(Task) /\ queue # <<>> /\ pending' = pending - 1
  BY DEF Take, PoolInv, TypeOK
<1>2. Len(queue) > 0 /\ Head(queue) \in Task /\ Tail(queue) \in Seq(Task)
  BY <1>1, TakeFirst
<1>. QED BY <1>1, <1>2, CountersParts, CountedType

LEMMA ActivateType ==
    ASSUME PoolInv, NEW w \in Worker, Activate(w)
    PROVE  active' \in Nat
  BY CountersParts DEF Activate

LEMMA CompleteType ==
    ASSUME PoolInv, NEW w \in Worker, Complete(w)
    PROVE  active' \in Nat
<1>1. Running # {} /\ active' = active - 1
  BY DEF Complete, Running
<1>2. Cardinality(Running) # 0
  BY <1>1, CountedType, FS_EmptySet
<1>. QED BY <1>1, <1>2, CountersParts, CountedType

LEMMA TypeKept ==
    ASSUME PoolInv, [Next]_vars
    PROVE  TypeOK' /\ Holding'
<1>a. TypeOK /\ Holding
  BY DEF PoolInv
<1>. USE DEF TypeOK, Holding, Goto, counters, ioVars, waitVars, clientVars, workerVars
<1>0. Submitter \subseteq Client /\ Waiter \subseteq Client /\ Stopper \subseteq Client
  BY DEF Client
<1>1. ASSUME NEW c \in Submitter, NEW t \in Task, TrySubmit(c, t)
      PROVE  TypeOK' /\ Holding'
  BY <1>a, <1>0, <1>1 DEF TrySubmit
<1>2. ASSUME NEW c \in Submitter, NEW t \in Task, Submit(c, t)
      PROVE  TypeOK' /\ Holding'
  BY <1>a, <1>0, <1>2 DEF Submit
<1>3. ASSUME NEW c \in Submitter, SubmitChecked(c)
      PROVE  TypeOK' /\ Holding'
  BY <1>a, <1>0, <1>3 DEF SubmitChecked
<1>4. ASSUME NEW c \in Submitter, Count(c)
      PROVE  TypeOK' /\ Holding'
  BY <1>a, <1>0, <1>4, CountType DEF Count
<1>5. ASSUME NEW c \in Submitter, Post(c)
      PROVE  TypeOK' /\ Holding'
  BY <1>a, <1>0, <1>5, PostType DEF Post
<1>6. ASSUME NEW c \in Waiter, WaitAll(c) \/ WaitStep(c) \/ SpuriousWakeup(c)
      PROVE  TypeOK' /\ Holding'
  <2>1. CASE WaitAll(c)
    BY <1>a, <1>0, <2>1 DEF WaitAll
  <2>2. CASE LoadActive(c)
    BY <1>a, <1>0, <2>2 DEF LoadActive, Block
  <2>3. CASE LoadPending(c)
    BY <1>a, <1>0, <2>3 DEF LoadPending, Block
  <2>4. CASE Relock(c)
    BY <1>a, <1>0, <2>4 DEF Relock
  <2>5. CASE SpuriousWakeup(c)
    BY <1>a, <1>0, <2>5 DEF SpuriousWakeup
  <2>. QED BY <1>6, <2>1, <2>2, <2>3, <2>4, <2>5 DEF WaitStep
<1>7. ASSUME NEW c \in Stopper, Stop(c) \/ StopStep(c)
      PROVE  TypeOK' /\ Holding'
  <2>1. CASE Stop(c)
    BY <1>a, <1>0, <2>1 DEF Stop
  <2>2. CASE ResetWork(c)
    BY <1>a, <1>0, <2>2 DEF ResetWork, StopIfIdle
  <2>3. CASE Joined(c)
    BY <1>a, <1>0, <2>3 DEF Joined
  <2>. QED BY <1>7, <2>1, <2>2, <2>3 DEF StopStep
<1>8. ASSUME NEW w \in Worker, WorkerNext(w)
      PROVE  TypeOK' /\ Holding'
  <2>1. CASE Take(w)
    BY <1>a, <2>1, TakeType DEF Take
  <2>2. CASE Activate(w)
    BY <1>a, <2>2, ActivateType DEF Activate
  <2>3. CASE Complete(w)
    BY <1>a, <2>3, CompleteType DEF Complete, StopIfIdle
  <2>4. CASE Notify(w)
    BY <1>a, <2>4 DEF Notify, StopIfIdle
  <2>5. CASE Exit(w)
    BY <1>a, <2>5 DEF Exit
  <2>. QED BY <1>8, <2>1, <2>2, <2>3, <2>4, <2>5 DEF WorkerNext
<1>9. CASE UNCHANGED vars
  BY <1>a, <1>9 DEF vars
<1>. QED BY <1>1, <1>2, <1>3, <1>4, <1>5, <1>6, <1>7, <1>8, <1>9 DEF Next, SubmitStep

LEMMA PoolInit == Init => PoolInv
<1>1. ASSUME Init PROVE TypeOK /\ Holding
  <2>1. queue \in Seq(Task) /\ pending \in Nat /\ active \in Nat
    BY <1>1 DEF Init
  <2>. QED BY <1>1, <2>1 DEF Init, TypeOK, Holding
<1>2. ASSUME Init PROVE CountersExact
  <2>1. Counted = {} /\ Running = {}
    BY <1>2 DEF Init, Counted, Running
  <2>2. Cardinality(Counted) = 0 /\ Cardinality(Running) = 0
    BY <2>1, FS_EmptySet
  <2>. QED BY <1>2, <2>2 DEF Init, CountersExact
<1>. QED BY <1>1, <1>2 DEF PoolInv

LEMMA PoolKept == PoolInv /\ [Next]_vars => PoolInv'
  BY TypeKept, CountersKept DEF PoolInv

LEMMA PoolAlways == Spec => []PoolInv
  BY PoolInit, PoolKept, PTL DEF Spec

\* The counters never leave the naturals, and every variable keeps its type.
THEOREM PoolTypeCorrect == Spec => []TypeOK
<1>1. PoolInv => TypeOK
  BY DEF PoolInv
<1>. QED BY <1>1, PoolAlways, PTL

\* At every state the two counters count exactly the posted tasks and the
\* running ones: the unsigned fetch_sub of a worker never wraps.
THEOREM CountersHold == Spec => []CountersExact
<1>1. PoolInv => CountersExact
  BY DEF PoolInv
<1>. QED BY <1>1, PoolAlways, PTL

\* The only step out of wait_all is the second load of its predicate.
LEMMA ReturnsFromWait ==
    ASSUME PoolInv, Next, NEW c \in Waiter, pc[c] = "loading pending", pc'[c] = "idle"
    PROVE  pending = 0
<1>. USE DEF Goto
<1>0. c \in Client /\ pc \in [Client -> {pc[d] : d \in Client}]
  BY DEF PoolInv, TypeOK, Client
<1>1. ASSUME NEW d \in Submitter, NEW t \in Task, TrySubmit(d, t) \/ Submit(d, t)
      PROVE  FALSE
  BY <1>0, <1>1 DEF TrySubmit, Submit, clientVars
<1>2. ASSUME NEW d \in Submitter, SubmitStep(d)
      PROVE  FALSE
  BY <1>0, <1>2 DEF SubmitStep, SubmitChecked, Count, Post
<1>3. ASSUME NEW d \in Waiter, WaitAll(d) \/ SpuriousWakeup(d) \/ LoadActive(d)
                               \/ Relock(d)
      PROVE  FALSE
  BY <1>0, <1>3 DEF WaitAll, SpuriousWakeup, LoadActive, Block, Relock
<1>4. ASSUME NEW d \in Waiter, LoadPending(d)
      PROVE  pending = 0
  BY <1>0, <1>4 DEF LoadPending, Block
<1>5. ASSUME NEW d \in Stopper, Stop(d) \/ StopStep(d)
      PROVE  FALSE
  BY <1>0, <1>5 DEF Stop, StopStep, ResetWork, Joined
<1>6. ASSUME NEW w \in Worker, WorkerNext(w)
      PROVE  FALSE
  BY <1>0, <1>6 DEF WorkerNext, Take, Activate, Complete, Notify, Exit, clientVars
<1>. QED BY <1>1, <1>2, <1>3, <1>4, <1>5, <1>6 DEF Next, WaitStep

\* wait_all returns only when the queue is empty.
THEOREM WaitHolds == Spec => WaitLeavesNoQueue
<1>1. ASSUME PoolInv, [Next]_vars
      PROVE  [\A c \in Waiter : pc[c] = "loading pending" /\ pc'[c] = "idle"
                                  => queue = <<>>]_vars
  <2>1. SUFFICES ASSUME Next, NEW c \in Waiter, pc[c] = "loading pending",
                        pc'[c] = "idle"
                 PROVE  queue = <<>>
    BY <1>1
  <2>2. pending = 0
    BY <1>1, <2>1, ReturnsFromWait
  <2>3. Len(queue) = 0 /\ queue \in Seq(Task)
    <3>1. queue \in Seq(Task)
      BY <1>1 DEF PoolInv, TypeOK
    <3>. QED BY <1>1, <2>2, <3>1, CountersParts, CountedType
  <2>. QED BY <2>3
<1>. QED BY <1>1, PoolAlways, PTL DEF Spec, WaitLeavesNoQueue

-----------------------------------------------------------------------------
(* The bound of try_submit.  QueueBound alone is not inductive: a thread   *)
(* that passed the check still holds a place that the next one cannot see. *)

\* The submitters between try_submit's check and the counter.
Trying == {c \in Submitter : pc[c] \in {"checked", "accepted"} /\ arg[c] \in TryTask}

Overshoot ==
    MaxQueue > 0 => Cardinality(Backlog) + Cardinality(Trying)
                      <= MaxQueue - 1 + Cardinality(Submitter)

BoundInv == PoolInv /\ Overshoot

LEMMA TryingType ==
    /\ IsFiniteSet(Submitter) /\ Cardinality(Submitter) \in Nat
    /\ IsFiniteSet(Trying) /\ Cardinality(Trying) \in Nat
    /\ Cardinality(Trying) <= Cardinality(Submitter)
<1>1. IsFiniteSet(Submitter)
  <2>1. IsFiniteSet(Client) /\ Submitter \in SUBSET Client
    BY ThreadPoolAssumption DEF Client
  <2>. QED BY <2>1, FS_Subset
<1>2. Trying \in SUBSET Submitter
  BY DEF Trying
<1>3. IsFiniteSet(Trying) /\ Cardinality(Trying) <= Cardinality(Submitter)
  BY <1>1, <1>2, FS_Subset
<1>. QED BY <1>1, <1>3, FS_CardinalityType

\* A function has at most as many values as arguments.
LEMMA FewValues ==
    ASSUME NEW S, IsFiniteSet(S), NEW f, S = DOMAIN f, f = [x \in S |-> f[x]]
    PROVE  IsFiniteSet(Range(f)) /\ Cardinality(Range(f)) <= Cardinality(S)
<1>1. f \in [S -> Range(f)] /\ \A t \in Range(f) : \E s \in S : f[s] = t
  BY DEF Range
<1>2. f \in Surjection(S, Range(f))
  BY <1>1 DEF Surjection
<1>. QED BY <1>2, FS_Surjection

\* What waits in the queue is no more than what pending counts.
LEMMA BacklogType ==
    ASSUME PoolInv
    PROVE  /\ IsFiniteSet(Backlog) /\ Cardinality(Backlog) \in Nat
           /\ Cardinality(Backlog) <= pending
<1>. DEFINE f == [c \in Counted |-> arg[c]]
            n == Len(queue)
<1>1. n \in Nat /\ n = Len(queue) /\ queue \in Seq(Task)
  BY CountersParts DEF PoolInv, TypeOK
<1>2. DOMAIN queue = 1..n /\ queue = [i \in 1..n |-> queue[i]]
  BY <1>1
<1>3. IsFiniteSet(1..n) /\ Cardinality(1..n) = n
  <2>. HIDE DEF n
  <2>1. IsFiniteSet(1..n) /\ Cardinality(1..n) = IF 1 > n THEN 0 ELSE n - 1 + 1
    <3>1. 1 \in Int /\ n \in Int
      BY <1>1
    <3>. QED BY <3>1, FS_Interval, Zenon
  <2>. QED BY <1>1, <2>1
<1>4. IsFiniteSet(Range(queue)) /\ Cardinality(Range(queue)) <= n
  BY <1>2, <1>3, FewValues
<1>5. IsFiniteSet(Range(f)) /\ Cardinality(Range(f)) <= Cardinality(Counted)
  <2>1. Counted = DOMAIN f /\ f = [c \in Counted |-> f[c]]
    OBVIOUS
  <2>. QED BY <2>1, CountedType, FewValues
<1>6. Backlog \in SUBSET (Range(queue) \cup Range(f))
  BY DEF Backlog, Range
<1>. HIDE DEF f, n
<1>. DEFINE U == Range(queue) \cup Range(f)
<1>7. /\ IsFiniteSet(U)
      /\ Cardinality(U) = Cardinality(Range(queue)) + Cardinality(Range(f))
                            - Cardinality(Range(queue) \cap Range(f))
  BY <1>4, <1>5, FS_Union
<1>8. IsFiniteSet(Range(queue) \cap Range(f))
  <2>1. Range(queue) \cap Range(f) \in SUBSET Range(queue)
    OBVIOUS
  <2>. QED BY <1>4, <2>1, FS_Subset
<1>9. IsFiniteSet(Backlog) /\ Cardinality(Backlog) <= Cardinality(U)
  BY <1>6, <1>7, FS_Subset
<1>10. /\ Cardinality(Range(queue)) \in Nat /\ Cardinality(Range(f)) \in Nat
       /\ Cardinality(Range(queue) \cap Range(f)) \in Nat
       /\ Cardinality(U) \in Nat /\ Cardinality(Backlog) \in Nat
  BY <1>4, <1>5, <1>7, <1>8, <1>9, FS_CardinalityType
<1>. HIDE DEF U
<1>. QED BY <1>1, <1>4, <1>5, <1>7, <1>9, <1>10, CountersParts, CountedType

\* A step that adds to neither set keeps the bound.
LEMMA BoundShrinks ==
    ASSUME BoundInv, Backlog' \subseteq Backlog, Trying' \subseteq Trying
    PROVE  Overshoot'
<1>1. IsFiniteSet(Backlog) /\ IsFiniteSet(Trying)
  BY BacklogType, TryingType DEF BoundInv
<1>2. /\ IsFiniteSet(Backlog') /\ Cardinality(Backlog') <= Cardinality(Backlog)
      /\ IsFiniteSet(Trying') /\ Cardinality(Trying') <= Cardinality(Trying)
  BY <1>1, FS_Subset
<1>3. /\ Cardinality(Backlog) \in Nat /\ Cardinality(Backlog') \in Nat
      /\ Cardinality(Trying) \in Nat /\ Cardinality(Trying') \in Nat
  BY <1>1, <1>2, FS_CardinalityType
<1>. QED BY <1>2, <1>3, TryingType, ThreadPoolAssumption DEF BoundInv, Overshoot

\* So does a step that leaves submit and the queue alone.
LEMMA BoundElsewhere ==
    ASSUME BoundInv, queue' = queue, arg' = arg,
           \A c \in Client : /\ pc'[c] = "counted" => pc[c] = "counted"
                             /\ pc'[c] \in {"checked", "accepted"}
                                  => pc[c] \in {"checked", "accepted"}
    PROVE  Overshoot'
<1>1. Counted' \subseteq Counted /\ Trying' \subseteq Trying
  BY DEF Counted, Trying, Client
<1>2. Backlog' \subseteq Backlog
  BY <1>1 DEF Backlog
<1>. QED BY <1>1, <1>2, BoundShrinks

\* try_submit's check: whatever the others hold, pending was below the bound.
LEMMA BoundTrySubmit ==
    ASSUME BoundInv, NEW c \in Submitter, NEW t \in Task, TrySubmit(c, t)
    PROVE  Overshoot'
<1>0. c \in Client /\ PoolInv /\ pc \in [Client -> {pc[d] : d \in Client}]
  BY DEF BoundInv, PoolInv, TypeOK, Client
<1>1. CASE Full
  BY <1>1, BoundElsewhere DEF TrySubmit, clientVars
<1>2. CASE ~Full
  <2>1. Counted' = Counted /\ queue' = queue /\ \A d \in Counted : arg'[d] = arg[d]
    BY <1>0, <1>2 DEF TrySubmit, Goto, Counted, PoolInv, TypeOK
  <2>2. Backlog' = Backlog
    BY <2>1 DEF Backlog
  <2>3. MaxQueue > 0 => Cardinality(Backlog) <= MaxQueue - 1
    BY <1>0, <1>2, BacklogType, CountersParts, ThreadPoolAssumption DEF Full
  <2>4. Trying' \in SUBSET Submitter
    BY DEF Trying
  <2>5. /\ Cardinality(Trying') <= Cardinality(Submitter)
        /\ Cardinality(Trying') \in Nat
    BY <2>4, TryingType, FS_Subset, FS_CardinalityType
  <2>. QED BY <1>0, <2>2, <2>3, <2>5, TryingType, BacklogType, ThreadPoolAssumption
           DEF Overshoot
<1>. QED BY <1>1, <1>2

\* The increment moves a task from one set to the other.
LEMMA BoundCount ==
    ASSUME BoundInv, NEW c \in Submitter, Count(c)
    PROVE  Overshoot'
<1>0. c \in Client /\ PoolInv /\ pc \in [Client -> {pc[d] : d \in Client}]
  BY DEF BoundInv, PoolInv, TypeOK, Client
<1>1. Counted' = Counted \cup {c} /\ queue' = queue /\ arg' = arg
  BY <1>0 DEF Count, Goto, Counted
<1>2. Trying' \subseteq Trying
  BY <1>0 DEF Count, Goto, Trying
<1>3. CASE arg[c] \notin TryTask
  <2>1. Backlog' \subseteq Backlog
    BY <1>1, <1>3 DEF Backlog
  <2>. QED BY <1>2, <2>1, BoundShrinks
<1>4. CASE arg[c] \in TryTask
  <2>1. c \in Trying /\ Trying' = Trying \ {c}
    BY <1>0, <1>4 DEF Count, Goto, Trying
  <2>2. Cardinality(Trying') = Cardinality(Trying) - 1
    BY <2>1, TryingType, FS_RemoveElement
  <2>3. Backlog' = Backlog \cup {arg[c]}
    BY <1>1, <1>4 DEF Backlog
  <2>4. Cardinality(Backlog') <= Cardinality(Backlog) + 1 /\ Cardinality(Backlog') \in Nat
    <3>1. IsFiniteSet(Backlog) /\ Cardinality(Backlog) \in Nat
      BY <1>0, BacklogType
    <3>2. Cardinality(Backlog') = IF arg[c] \in Backlog THEN Cardinality(Backlog)
                                  ELSE Cardinality(Backlog) + 1
      BY <2>3, <3>1, FS_AddElement, Zenon
    <3>. QED BY <3>1, <3>2
  <2>. QED BY <1>0, <2>2, <2>4, TryingType, BacklogType, ThreadPoolAssumption
           DEF BoundInv, Overshoot
<1>. QED BY <1>3, <1>4

LEMMA BoundPost ==
    ASSUME BoundInv, NEW c \in Submitter, Post(c)
    PROVE  Overshoot'
<1>0. c \in Client /\ PoolInv /\ pc \in [Client -> {pc[d] : d \in Client}]
  BY DEF BoundInv, PoolInv, TypeOK, Client
<1>1. /\ c \in Counted /\ Counted' = Counted \ {c}
      /\ \A d \in Counted' : arg'[d] = arg[d]
  BY <1>0 DEF Post, Goto, Counted, PoolInv, TypeOK
<1>2. Range(queue') = Range(queue) \cup {arg[c]}
  <2>1. queue \in Seq(Task) /\ arg[c] \in Task /\ queue' = Append(queue, arg[c])
    BY <1>0 DEF Post, PoolInv, TypeOK, Holding
  <2>2. /\ DOMAIN queue' = 1..(Len(queue) + 1) /\ Len(queue) \in Nat
        /\ DOMAIN queue = 1..Len(queue)
        /\ \A i \in 1..Len(queue) : queue'[i] = queue[i]
        /\ queue'[Len(queue) + 1] = arg[c]
    BY <2>1
  <2>. QED BY <2>2 DEF Range
<1>3. Backlog' \subseteq Backlog
  BY <1>1, <1>2 DEF Backlog
<1>4. Trying' \subseteq Trying
  <2>1. pc'[c] = "idle" /\ \A d \in Client : d # c => pc'[d] = pc[d] /\ arg'[d] = arg[d]
    BY <1>0 DEF Post, Goto, PoolInv, TypeOK
  <2>. QED BY <2>1 DEF Trying, Client
<1>. QED BY <1>3, <1>4, BoundShrinks

LEMMA BoundTake ==
    ASSUME BoundInv, NEW w \in Worker, Take(w)
    PROVE  Overshoot'
<1>1. queue \in Seq(Task) /\ queue # <<>> /\ queue' = Tail(queue)
  BY DEF Take, BoundInv, PoolInv, TypeOK
<1>2. Range(queue') \subseteq Range(queue)
  <2>1. /\ Len(queue) \in Nat /\ DOMAIN queue = 1..Len(queue)
        /\ DOMAIN queue' = 1..(Len(queue) - 1)
        /\ \A i \in 1..(Len(queue) - 1) : queue'[i] = queue[i + 1]
    BY <1>1
  <2>. QED BY <2>1 DEF Range
<1>3. Counted' = Counted /\ arg' = arg /\ Trying' = Trying
  BY DEF Take, clientVars, Counted, Trying
<1>. QED BY <1>2, <1>3, BoundShrinks DEF Backlog

LEMMA BoundKept ==
    ASSUME BoundInv, [Next]_vars
    PROVE  Overshoot'
<1>. USE DEF Goto, clientVars
<1>0. pc \in [Client -> {pc[d] : d \in Client}] /\ PoolInv
  BY DEF BoundInv, PoolInv, TypeOK
<1>1. ASSUME NEW c \in Submitter, NEW t \in Task, Submit(c, t)
      PROVE  Overshoot'
  <2>1. /\ Counted' = Counted /\ queue' = queue /\ \A d \in Counted : arg'[d] = arg[d]
        /\ Trying' \subseteq Trying
    BY <1>0, <1>1 DEF Submit, Counted, Trying, Client, PoolInv, TypeOK
  <2>. QED BY <2>1, BoundShrinks DEF Backlog
<1>2. ASSUME NEW c \in Submitter, SubmitChecked(c)
      PROVE  Overshoot'
  <2>1. /\ Counted' = Counted /\ queue' = queue /\ \A d \in Counted : arg'[d] = arg[d]
        /\ Trying' \subseteq Trying
    BY <1>0, <1>2 DEF SubmitChecked, Counted, Trying, Client, PoolInv, TypeOK
  <2>. QED BY <2>1, BoundShrinks DEF Backlog
<1>3. ASSUME NEW c \in Waiter, WaitAll(c) \/ WaitStep(c) \/ SpuriousWakeup(c)
      PROVE  Overshoot'
  <2>1. queue' = queue /\ arg' = arg
    BY <1>3 DEF WaitAll, WaitStep, LoadActive, LoadPending, Relock, SpuriousWakeup
  <2>2. \A d \in Client : d # c => pc'[d] = pc[d]
    BY <1>0, <1>3
       DEF WaitAll, WaitStep, LoadActive, LoadPending, Relock, SpuriousWakeup, Block
  <2>3. pc'[c] \notin {"checked", "accepted", "counted"}
    BY <1>0, <1>3
       DEF WaitAll, WaitStep, LoadActive, LoadPending, Relock, SpuriousWakeup, Block,
           Client
  <2>. QED BY <2>1, <2>2, <2>3, BoundElsewhere
<1>4. ASSUME NEW c \in Stopper, Stop(c) \/ StopStep(c)
      PROVE  Overshoot'
  <2>1. queue' = queue /\ arg' = arg
    BY <1>4 DEF Stop, StopStep, ResetWork, Joined
  <2>2. \A d \in Client : d # c => pc'[d] = pc[d]
    BY <1>0, <1>4 DEF Stop, StopStep, ResetWork, Joined
  <2>3. pc'[c] \notin {"checked", "accepted", "counted"}
    BY <1>0, <1>4 DEF Stop, StopStep, ResetWork, Joined, Client
  <2>. QED BY <2>1, <2>2, <2>3, BoundElsewhere
<1>5. ASSUME NEW w \in Worker, Activate(w) \/ Complete(w) \/ Exit(w)
      PROVE  Overshoot'
  BY <1>5, BoundElsewhere DEF Activate, Complete, Exit
<1>6. ASSUME NEW w \in Worker, Notify(w)
      PROVE  Overshoot'
  <2>1. queue' = queue /\ arg' = arg
    BY <1>6 DEF Notify
  <2>2. \A d \in Client : pc'[d] = pc[d] \/ pc'[d] = "woken"
    BY <1>0, <1>6 DEF Notify
  <2>. QED BY <2>1, <2>2, BoundElsewhere
<1>7. CASE UNCHANGED vars
  BY <1>7, BoundElsewhere DEF vars
<1>. QED BY <1>1, <1>2, <1>3, <1>4, <1>5, <1>6, <1>7,
            BoundTrySubmit, BoundCount, BoundPost, BoundTake
         DEF Next, SubmitStep, WorkerNext

LEMMA BoundInit == Init => Overshoot
<1>1. ASSUME Init PROVE Overshoot
  <2>1. Counted = {} /\ Trying = {} /\ Range(queue) = {}
    BY <1>1 DEF Init, Counted, Trying, Client, Range
  <2>2. Backlog = {}
    BY <2>1 DEF Backlog
  <2>3. Cardinality(Backlog) = 0 /\ Cardinality(Trying) = 0
    BY <2>1, <2>2, FS_EmptySet
  <2>. QED BY <2>3, TryingType, ThreadPoolAssumption DEF Overshoot
<1>. QED BY <1>1

\* However many threads call try_submit at once, the tasks it let in overshoot
\* the bound by at most one less than there are such threads.
THEOREM BoundHolds == Spec => []QueueBound
<1>1. Init => BoundInv
  BY PoolInit, BoundInit DEF BoundInv
<1>2. BoundInv /\ [Next]_vars => BoundInv'
  BY PoolKept, BoundKept DEF BoundInv
<1>3. BoundInv => QueueBound
  <2>1. ASSUME BoundInv PROVE QueueBound
    BY <2>1, BacklogType, TryingType, ThreadPoolAssumption
       DEF BoundInv, Overshoot, QueueBound
  <2>. QED BY <2>1
<1>. QED BY <1>1, <1>2, <1>3, PTL DEF Spec
=============================================================================
