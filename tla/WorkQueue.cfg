SPECIFICATION FairSpec
CONSTANTS
    SignBit = 4
    SIZE = 2
    Jobs = {a, b}
    NoJob = NoJob
    Horizon = 2
    MaxSubmits = 4
INVARIANTS RingAgrees NothingLost
PROPERTIES FifoSpec AcceptedJobsRun
