SPECIFICATION Spec
CONSTANTS
    GroupBits = 2
    Groups = 2
    InodesPerBlock = 2
    DeviceBlocks = 24
    Totals <- MCTotals
    BitmapBlocks <- MCBitmapBlocks
INVARIANTS BitmapsExact AreasApart StopsOnlyWhenFull
