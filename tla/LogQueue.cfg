SPECIFICATION FairSpec
CONSTANTS
    SIZE = 3
    Prios = {"low", "high"}
    Literals = {TRUE, FALSE}
    MaxPush = 4
INVARIANTS RecordsKept LockHasOwner
PROPERTIES Drained
CHECK_DEADLOCK FALSE
