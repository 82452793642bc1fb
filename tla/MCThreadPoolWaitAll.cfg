SPECIFICATION Spec
CONSTANTS
    Task = {t1, t2}
    TryTask = {}
    Worker = {w1, w2}
    Submitter = {main}
    Waiter = {main}
    Stopper = {}
    NoTask = NoTask
    NoThread = NoThread
    MaxQueue = 0
PROPERTY WaitAllWaits
CHECK_DEADLOCK FALSE
