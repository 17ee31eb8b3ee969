SPECIFICATION FairSpec
CONSTANTS
    SignBit = 16
    NTasks = 2
    WorkTask = 2
    Delays = {1, 3}
    Wakes <- FirstYields
    SIZE = 1
    NTimers = 1
    Periods = {1}
    CbStarts <- SelfStart
    Nest = TRUE
    TaskDeadlines = {31}
    Horizon = 2
    Settle = 5
 
PROPERTIES DueTasksCalled
CHECK_DEADLOCK FALSE
