SPECIFICATION Spec
CONSTANTS
    BLOCK_SZ = 2
    INODE_DIRECT_COUNT = 1
    i1 = i1
    i2 = i2
    Inode <- MCInode
    Dirs = {i1}
    Block <- MCBlock
    Offset <- MCOffset
    Buf <- MCBuf
    Dirent <- MCDirent
    MaxDirents = 3
    MaxLost = 1
INVARIANTS
    NoBlockShared
    FreeBlocksZero
    AssertionsHold
PROPERTIES
    OnlyUnlinkLosesBlocks
    ImplementsFlatFiles
