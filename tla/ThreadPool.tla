----------------------------- MODULE ThreadPool -----------------------------
(***************************************************************************)
(* ThreadPool (module/core): worker threads that run an io_context, two    *)
(* atomic counters, and wait_all's mutex, flag and condition variable.     *)
(*                                                                         *)
(* A step is one atomic access of the code, or one critical section.  The  *)
(* io_context is modelled as asio documents it: handlers run in the order  *)
(* they were posted, and the context stops for good when its work guard is *)
(* gone and it has neither a queued nor a running handler.                 *)
(***************************************************************************)
EXTENDS Integers, Sequences, FiniteSets, Functions

CONSTANTS
    Task,                       \* the functions submitted, once each
    TryTask,                    \* those that go through try_submit
    Worker,                     \* the pool's threads
    Submitter, Waiter, Stopper, \* threads that submit, wait_all and shut down
    NoTask, NoThread,
    MaxQueue                    \* m_max_queue, 0 for unlimited

Client == Submitter \cup Waiter \cup Stopper

ASSUME ThreadPoolAssumption ==
    /\ IsFiniteSet(Client) /\ IsFiniteSet(Worker)
    /\ IsFiniteSet(Task) /\ TryTask \subseteq Task
    /\ NoTask \notin Task /\ NoThread \notin Client
    /\ MaxQueue \in Nat

VARIABLES
    fresh,      \* tasks nobody submitted yet
    queue,      \* handlers posted to m_io and not taken
    done,       \* tasks whose function has returned or thrown
    pending,    \* m_pending
    active,     \* m_active
    stopped,    \* m_stopped
    guard,      \* m_work holds m_io
    ioStopped,  \* m_io has run out of work
    mtx,        \* who holds m_mtx
    waiting,    \* m_waiting
    pc, arg,    \* of each client: where it is, and the task it submits
    wpc, wtask  \* of each worker: where it is, and the task it runs

counters  == <<pending, active>>
ioVars    == <<guard, ioStopped>>
waitVars  == <<mtx, waiting>>
clientVars == <<pc, arg>>
workerVars == <<wpc, wtask>>
vars == <<fresh, queue, done, counters, stopped, ioVars, waitVars, clientVars,
          workerVars>>

Init ==
    /\ fresh = Task /\ queue = <<>> /\ done = {}
    /\ pending = 0 /\ active = 0
    /\ stopped = FALSE /\ guard = TRUE /\ ioStopped = FALSE
    /\ mtx = NoThread /\ waiting = FALSE
    /\ pc = [c \in Client |-> "idle"] /\ arg = [c \in Client |-> NoTask]
    /\ wpc = [w \in Worker |-> "idle"] /\ wtask = [w \in Worker |-> NoTask]

Goto(c, l) == pc' = [pc EXCEPT ![c] = l]

\* m_io stops with its last outstanding work.
StopIfIdle ==
    ioStopped' = (ioStopped \/ ( /\ ~guard' /\ queue' = <<>>
                                 /\ \A w \in Worker : wpc'[w] \in {"idle", "exited"}))

-----------------------------------------------------------------------------
(* submit and try_submit.  The bound on the queue is checked before, and   *)
(* apart from, the increment it guards.                                    *)

\* Fault: the bound is off by one.
FullLate == MaxQueue > 0 /\ pending > MaxQueue

Full == MaxQueue > 0 /\ pending >= MaxQueue

TrySubmit(c, t) ==
    /\ pc[c] = "idle" /\ t \in fresh \cap TryTask
    /\ fresh' = fresh \ {t}
    /\ IF Full
       THEN UNCHANGED clientVars
       ELSE Goto(c, "checked") /\ arg' = [arg EXCEPT ![c] = t]
    /\ UNCHANGED <<queue, done, counters, stopped, ioVars, waitVars, workerVars>>

\* submit returns without a word when the pool is stopped; try_submit then
\* reports success all the same.
SubmitChecked(c) ==
    /\ pc[c] = "checked"
    /\ IF stopped
       THEN Goto(c, "idle") /\ arg' = [arg EXCEPT ![c] = NoTask]
       ELSE Goto(c, "accepted") /\ UNCHANGED arg
    /\ UNCHANGED <<fresh, queue, done, counters, stopped, ioVars, waitVars, workerVars>>

Submit(c, t) ==
    /\ pc[c] = "idle" /\ t \in fresh \ TryTask
    /\ fresh' = fresh \ {t}
    /\ IF stopped
       THEN UNCHANGED clientVars
       ELSE Goto(c, "accepted") /\ arg' = [arg EXCEPT ![c] = t]
    /\ UNCHANGED <<queue, done, counters, stopped, ioVars, waitVars, workerVars>>

\* Fault: the task is not counted before it is posted.
CountNothing(c) ==
    /\ pc[c] = "accepted"
    /\ Goto(c, "counted")
    /\ UNCHANGED <<fresh, queue, done, counters, stopped, arg, ioVars, waitVars,
                   workerVars>>

Count(c) ==
    /\ pc[c] = "accepted"
    /\ pending' = pending + 1
    /\ Goto(c, "counted")
    /\ UNCHANGED <<fresh, queue, done, active, stopped, arg, ioVars, waitVars,
                   workerVars>>

\* On a context that has stopped the handler stays in the queue for good.
Post(c) ==
    /\ pc[c] = "counted"
    /\ queue' = Append(queue, arg[c])
    /\ Goto(c, "idle") /\ arg' = [arg EXCEPT ![c] = NoTask]
    /\ UNCHANGED <<fresh, done, counters, stopped, ioVars, waitVars, workerVars>>

-----------------------------------------------------------------------------
(* A worker in m_io.run(), and the handler submit posted: between the two  *)
(* counters its task is in neither.                                        *)

Take(w) ==
    /\ wpc[w] = "idle" /\ queue # <<>> /\ ~ioStopped
    /\ queue' = Tail(queue)
    /\ wtask' = [wtask EXCEPT ![w] = Head(queue)]
    /\ wpc' = [wpc EXCEPT ![w] = "taken"]
    /\ pending' = pending - 1
    /\ UNCHANGED <<fresh, done, active, stopped, ioVars, waitVars, clientVars>>

Activate(w) ==
    /\ wpc[w] = "taken"
    /\ active' = active + 1
    /\ wpc' = [wpc EXCEPT ![w] = "running"]
    /\ UNCHANGED <<fresh, queue, done, pending, stopped, ioVars, waitVars, clientVars,
                   wtask>>

\* Fault: only a worker that leaves another one running notifies.
LastActiveNot == active # 1

LastActive == active = 1

\* The function returns (or throws, which the handler catches) and the worker
\* stops counting as active; the last one goes on to notify.
Complete(w) ==
    /\ wpc[w] = "running"
    /\ done' = done \cup {wtask[w]}
    /\ active' = active - 1
    /\ wpc' = [wpc EXCEPT ![w] = IF LastActive THEN "notifying" ELSE "idle"]
    /\ wtask' = [wtask EXCEPT ![w] = NoTask]
    /\ UNCHANGED <<fresh, queue, pending, stopped, guard, waitVars, clientVars>>
    /\ StopIfIdle

\* notify_one under m_mtx: one of the threads blocked in wait_all, if any.
Notify(w) ==
    /\ wpc[w] = "notifying" /\ mtx = NoThread
    /\ LET blocked == {c \in Client : pc[c] = "blocked"} IN
       IF waiting /\ blocked # {}
       THEN \E c \in blocked : Goto(c, "woken")
       ELSE UNCHANGED pc
    /\ wpc' = [wpc EXCEPT ![w] = "idle"]
    /\ UNCHANGED <<fresh, queue, done, counters, stopped, guard, waitVars, arg, wtask>>
    /\ StopIfIdle

\* run() returns once the context has stopped.
Exit(w) ==
    /\ wpc[w] = "idle" /\ ioStopped
    /\ wpc' = [wpc EXCEPT ![w] = "exited"]
    /\ UNCHANGED <<fresh, queue, done, counters, stopped, ioVars, waitVars, clientVars,
                   wtask>>

-----------------------------------------------------------------------------
(* wait_all: its predicate loads the two counters one after the other.     *)

WaitAll(c) ==
    /\ pc[c] = "idle" /\ mtx = NoThread
    /\ mtx' = c /\ waiting' = TRUE
    /\ Goto(c, "loading active")
    /\ UNCHANGED <<fresh, queue, done, counters, stopped, ioVars, arg, workerVars>>

Block(c) == Goto(c, "blocked") /\ mtx' = NoThread /\ UNCHANGED waiting

LoadActive(c) ==
    /\ pc[c] = "loading active"
    /\ IF active = 0
       THEN Goto(c, "loading pending") /\ UNCHANGED waitVars
       ELSE Block(c)
    /\ UNCHANGED <<fresh, queue, done, counters, stopped, ioVars, arg, workerVars>>

\* Fault: the predicate ends with the active tasks.
LoadPendingNot(c) ==
    /\ pc[c] = "loading pending"
    /\ Goto(c, "idle") /\ mtx' = NoThread /\ waiting' = FALSE
    /\ UNCHANGED <<fresh, queue, done, counters, stopped, ioVars, arg, workerVars>>

LoadPending(c) ==
    /\ pc[c] = "loading pending"
    /\ IF pending = 0
       THEN Goto(c, "idle") /\ mtx' = NoThread /\ waiting' = FALSE
       ELSE Block(c)
    /\ UNCHANGED <<fresh, queue, done, counters, stopped, ioVars, arg, workerVars>>

\* A condition variable may also wake its waiter for no reason.
SpuriousWakeup(c) ==
    /\ pc[c] = "blocked"
    /\ Goto(c, "woken")
    /\ UNCHANGED <<fresh, queue, done, counters, stopped, ioVars, waitVars, arg,
                   workerVars>>

Relock(c) ==
    /\ pc[c] = "woken" /\ mtx = NoThread
    /\ mtx' = c
    /\ Goto(c, "loading active")
    /\ UNCHANGED <<fresh, queue, done, counters, stopped, ioVars, waiting, arg,
                   workerVars>>

-----------------------------------------------------------------------------
(* shutdown: no new tasks, no work guard, then join the workers.           *)

Stop(c) ==
    /\ pc[c] = "idle" /\ ~stopped
    /\ stopped' = TRUE
    /\ Goto(c, "stopping")
    /\ UNCHANGED <<fresh, queue, done, counters, ioVars, waitVars, arg, workerVars>>

\* Fault: the work guard keeps the context running.
ResetNothing(c) ==
    /\ pc[c] = "stopping"
    /\ Goto(c, "joining")
    /\ UNCHANGED <<fresh, queue, done, counters, stopped, ioVars, waitVars, arg,
                   workerVars>>

\* Fault: the context is stopped with what is still queued.
ResetAndDiscard(c) ==
    /\ pc[c] = "stopping"
    /\ guard' = FALSE /\ ioStopped' = TRUE
    /\ Goto(c, "joining")
    /\ UNCHANGED <<fresh, queue, done, counters, stopped, waitVars, arg, workerVars>>

ResetWork(c) ==
    /\ pc[c] = "stopping"
    /\ guard' = FALSE
    /\ Goto(c, "joining")
    /\ UNCHANGED <<fresh, queue, done, counters, stopped, waitVars, arg, workerVars>>
    /\ StopIfIdle

Joined(c) ==
    /\ pc[c] = "joining" /\ \A w \in Worker : wpc[w] = "exited"
    /\ Goto(c, "idle")
    /\ UNCHANGED <<fresh, queue, done, counters, stopped, ioVars, waitVars, arg,
                   workerVars>>

-----------------------------------------------------------------------------
SubmitStep(c) == SubmitChecked(c) \/ Count(c) \/ Post(c)
WaitStep(c)   == LoadActive(c) \/ LoadPending(c) \/ Relock(c)
StopStep(c)   == ResetWork(c) \/ Joined(c)
WorkerNext(w) == Take(w) \/ Activate(w) \/ Complete(w) \/ Notify(w) \/ Exit(w)

Next ==
    \/ \E c \in Submitter :
          (\E t \in Task : TrySubmit(c, t) \/ Submit(c, t)) \/ SubmitStep(c)
    \/ \E c \in Waiter : WaitAll(c) \/ WaitStep(c) \/ SpuriousWakeup(c)
    \/ \E c \in Stopper : Stop(c) \/ StopStep(c)
    \/ \E w \in Worker : WorkerNext(w)

Spec == Init /\ [][Next]_vars

\* Threads run, tasks end, and nobody is kept out of a mutex that others
\* keep releasing.  A thread need not make another call.
Fairness ==
    /\ \A c \in Submitter : WF_vars(SubmitStep(c))
    /\ \A c \in Waiter : SF_vars(WaitStep(c))
    /\ \A c \in Stopper : WF_vars(StopStep(c))
    /\ \A w \in Worker : WF_vars(Take(w) \/ Activate(w) \/ Complete(w) \/ Exit(w))
                         /\ SF_vars(Notify(w))

FairSpec == Spec /\ Fairness

-----------------------------------------------------------------------------
TypeOK ==
    /\ fresh \in SUBSET Task /\ done \in SUBSET Task
    /\ queue \in Seq(Task)
    /\ pending \in Nat /\ active \in Nat
    /\ stopped \in BOOLEAN /\ guard \in BOOLEAN /\ ioStopped \in BOOLEAN
    /\ mtx \in Client \cup {NoThread} /\ waiting \in BOOLEAN
    /\ pc \in [Client -> {"idle", "checked", "accepted", "counted", "loading active",
                          "loading pending", "blocked", "woken", "stopping", "joining"}]
    /\ arg \in [Client -> Task \cup {NoTask}]
    /\ wpc \in [Worker -> {"idle", "taken", "running", "notifying", "exited"}]
    /\ wtask \in [Worker -> Task \cup {NoTask}]

\* The clients between the counter and the queue, and the workers that run a
\* task.
Counted == {c \in Client : pc[c] = "counted"}
Running == {w \in Worker : wpc[w] = "running"}

\* What the two counters, which are unsigned, count: at no interleaving does
\* either wrap below zero or drift from the tasks it stands for.
CountersExact ==
    /\ pending = Len(queue) + Cardinality(Counted)
    /\ active = Cardinality(Running)

\* Threads that passed the bound's check at the same time overshoot it, by one
\* less than there are such threads and never by more.
Backlog == TryTask \cap (Range(queue) \cup {arg[c] : c \in Counted})
QueueBound ==
    MaxQueue > 0 => Cardinality(Backlog) <= MaxQueue - 1 + Cardinality(Submitter)

\* When wait_all returns nothing is left in the queue: every task posted
\* before is done, or in the hands of a worker.
WaitLeavesNoQueue ==
    [][\A c \in Waiter : pc[c] = "loading pending" /\ pc'[c] = "idle" => queue = <<>>]_vars

\* A posted task is run, even when shutdown is called before its turn comes,
\* unless it was posted to a context that had stopped.
PostedRuns == \A t \in Task : t \in Range(queue) /\ ~ioStopped ~> t \in done

\* wait_all returns: its wakeup is not lost between the predicate and the
\* wait, nor between the last decrement and the notification.
WaitReturns ==
    \A c \in Waiter : pc[c] = "loading active" ~> pc[c] = "idle" \/ ioStopped

\* shutdown returns: the workers drain the queue and leave.
ShutdownReturns == \A c \in Stopper : pc[c] = "stopping" ~> pc[c] = "idle"

-----------------------------------------------------------------------------
\* What module/core/include/README.md says of wait_all: it waits for the
\* submitted tasks to complete.  With one client every task in the pool was
\* submitted before the call.
WaitAllWaits ==
    [][\A c \in Waiter : pc[c] = "loading pending" /\ pc'[c] = "idle" =>
         \A w \in Worker : wtask[w] = NoTask]_vars
=============================================================================
