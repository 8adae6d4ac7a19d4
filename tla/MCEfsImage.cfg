SPECIFICATION Spec
CONSTANTS
    GroupBits = 2
    Groups = 2
    InodesPerBlock = 2
    DeviceBlocks = 12
    Totals <- OneTotal
    BitmapBlocks <- MCBitmapBlocks
INVARIANTS DataWithinImage
