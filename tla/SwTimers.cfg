SPECIFICATION FairSpec
CONSTANTS
    SignBit = 16
    NTimers = 2
    Periods = {1, 3}
    CbStarts <- FirstStartsSecond
    Nest = TRUE
    TaskDeadlines = {2, 31}
    Horizon = 3
    Settle = 5
INVARIANTS  StartHonoured
PROPERTIES OverdueServed
CHECK_DEADLOCK FALSE
