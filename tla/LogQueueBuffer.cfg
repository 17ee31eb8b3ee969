SPECIFICATION Spec
CONSTANTS
    SIZE = 3
    Prios = {"low"}
    Literals = {FALSE}
    MaxPush = 4
PROPERTY BufferStable
CHECK_DEADLOCK FALSE
