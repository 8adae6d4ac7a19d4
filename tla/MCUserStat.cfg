SPECIFICATION Spec
CONSTANTS
    PAGE_SIZE = 3
    Pages = 2
    Frames = 3
    Byte <- MCByte
    ReadData <- MCReadData
    WriteLens <- MCWriteLens
    TimeVal <- MCTimeVal
    Stat <- MCStat
    TimeAddrs <- TimeInPage
    StatAddrs <- Addr
INVARIANTS StatDelivered
