SPECIFICATION Spec
CONSTANTS
    SignBit = 16
    NTimers = 1
    Periods = {1, 3}
    CbStarts <- FirstRestartsItself
    Nest = TRUE
    TaskDeadlines = {2, 31}
    Horizon = 3
    Settle = 5
INVARIANT StartHonoured
CHECK_DEADLOCK FALSE
