SPECIFICATION Spec
CONSTANTS
    SignBit = 16
    NTasks = 2
    WorkTask = 2
    Delays = {1, 3}
    Wakes <- FirstYields
    SIZE = 1
    NTimers = 1
    Periods = {2}
    CbStarts <- NoStarts
    Nest = FALSE
    TaskDeadlines = {31}
    Horizon = 2
    Settle = 5
CHECK_DEADLOCK FALSE
INVARIANT NoSleepOnWork
