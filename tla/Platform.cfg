SPECIFICATION Spec
CONSTANTS
    FLASH_SIZE = 8
    PAGE_SIZE = 4
    MAX_WRITE_BLOCK = 2
    BUSY_CNT_MAX = 3
    MaxLen = 5
    MaxCalls = 2
    Half = 2
    MaxTime = 6
    MaxTicks = 3
    Nests = {TRUE}
    MaxSleeps = 1
    UART_FLOW = TRUE
    I2C_MODE = "master"
    SPI_ROLE = "slave"
    Devices = {d1, d2, d3}
    UINTPTR = 16
    HEAP_START = 3
    HEAP_END = 7
    MaxSrc = 2
    MaxDst = 6
    Bytes = {0, 159, 250}
    WIDTH = 4
    BOOTLOADER_SIZE = 2
    SLOT_SIZE = 3
    SCRATCH_SIZE = 1
    UINT32 = 16
    MaxRequests = 2
    MaxUploads = 1
    BUF_SIZE = 2
    STR_SIZE = 2
    MaxRx = 3
    MaxTx = 3
    ByteSet = {0, 1, 128, 255}
    CharSet = {65, 47, 61, 33}
    MaxData = 3
    MaxQuads = 2
INVARIANTS
    
    DeviceContract
    
    Protected
    Restored
    HelpersHold
    OneShot
    BootloaderIntact
    SerialWhole
    

    
