SPECIFICATION FairSpec
CONSTANTS
    Bits = {0}
    STALE = STALE
    Devices = {"flash", "ram", "rom"}
    Base <- FlashBase
    Size <- FlashSize
    Page <- FlashPage
    Ops <- FlashOps
    DefaultBuffer = 1
    Registered <- AllRegistered
    Lens = {0, 1, 2}
INVARIANTS Completed Confined
PROPERTIES CallsReturn
