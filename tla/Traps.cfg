SPECIFICATION Spec
CONSTANTS
    LOW = low
    HIGH = high
    Ext = {low, high}
    Prio <- MCPrio
    Builds <- MCBuilds
    Apps = {"sw", "mtimer", "plic", "umode", "wfi"}
    MaxRequests = 2
    MaxClaims = 4
INVARIANTS
    ContextRestored
    CounterExact
    WfiRestored

    
