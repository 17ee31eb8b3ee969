SPECIFICATION Spec
CONSTANTS
    LOW = low
    HIGH = high
    Ext = {low, high}
    Prio <- MCPrio
    Builds <- MCLostMode
    Apps = {"umode"}
    MaxRequests = 1
    MaxClaims = 4
INVARIANT
    ModeHonoured
