SPECIFICATION Spec
CONSTANTS
    UINT8 = 4
    MaxPings = 3
    BUFFER_COUNT = 3
    COUNTER = 4
    MaxOver = 1
    MaxPresses = 5
    MaxBlocks = 6
    DESC_LEN = 3
    MAX_SPINS = 2
    FIFO = 2
    MaxBytes = 3
    MaxPrints = 2
    RX_SIZE = 3
    MaxReceptions = 3
    CHN_COUNT = 3
    TRANSFER_SIZE = 3
    BUFFER_SIZE = 4
    Times <- ClockTimes
    MAX_COUNT = 2
    Handles = {h1, h2, h3}
    MaxDue = 3
    CELLS = 3
    WINDOW = 5
    PAUSE = 2
    MaxBoots = 6
    LOG_LEVEL = 3
    Levels = {1, 4}
    ROW = 2
    LOG_SIZE = 5
    MaxLines = 4
    SAMPLE_RATE = 48000
    N_CHANNELS = 1
    HostData <- ControlData
INVARIANTS
    
    
    
    
    DumpsComplete
    
    TableExact
PROPERTIES
    TransmitterGoesOn
    EndsByItself
    
