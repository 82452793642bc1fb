SPECIFICATION FairSpec
CONSTANTS
    Task = {t1, t2, t3, p}
    TryTask = {t1, t2, t3}
    Worker = {w1, w2}
    Submitter = {main, s}
    Waiter = {main}
    Stopper = {main}
    NoTask = NoTask
    NoThread = NoThread
    MaxQueue = 1
INVARIANTS TypeOK CountersExact QueueBound
PROPERTIES WaitLeavesNoQueue PostedRuns WaitReturns ShutdownReturns
CHECK_DEADLOCK FALSE
