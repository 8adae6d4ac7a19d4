---------------------------- MODULE EasyFileSystem ----------------------------
(***************************************************************************)
(* The layout of an easy-fs image and its two bitmaps (easy-fs/src/efs.rs, *)
(* bitmap.rs and SuperBlock of layout.rs).  A block is what a bitmap sees  *)
(* of it: groups of bits.  What else blocks hold is in InodeBlocks.        *)
(***************************************************************************)
EXTENDS Integers, FiniteSets, FiniteSetsExt

CONSTANTS
    GroupBits,           \* 64: bits of a group
    Groups,              \* 64: groups of a block
    InodesPerBlock,      \* 4: BLOCK_SZ / size_of::<DiskInode>()
    DeviceBlocks,        \* blocks of the device, at least those of an image
    Totals, BitmapBlocks \* arguments of create

BLOCK_BITS == Groups * GroupBits

ASSUME EfsAssumption ==
    /\ GroupBits \in Nat \ {0} /\ Groups \in Nat \ {0} /\ InodesPerBlock \in Nat \ {0}
    /\ DeviceBlocks \in Nat
    /\ Totals \subseteq 1..DeviceBlocks
    /\ BitmapBlocks \subseteq Nat \ {0}

VARIABLES
    device,              \* the bits set in every group of every block
    super,               \* the SuperBlock on block 0
    efs,                 \* the EasyFileSystem
    mounted,             \* whether there is one
    inodes, blocks,      \* inodes and data blocks that were handed out and not given back
    panicked

vars == <<device, super, efs, mounted, inodes, blocks, panicked>>

ZeroBlock == [g \in 0..Groups - 1 |-> {}]
NoSuper == [total_blocks |-> 0, inode_bitmap_blocks |-> 0, inode_area_blocks |-> 0,
            data_bitmap_blocks |-> 0, data_area_blocks |-> 0]

\* Rounded down, without the 4096 of create.
DataBitmapRoundedDown(data_total) == data_total \div (BLOCK_BITS + 1)

\* A bitmap block for itself and 4096 data blocks.
DataBitmapBlocks(data_total) == (data_total + BLOCK_BITS) \div (BLOCK_BITS + 1)

\* The sizes that create computes and SuperBlock::initialize stores.
Sizes(total, ibb) ==
    LET inode_area == (ibb * BLOCK_BITS + InodesPerBlock - 1) \div InodesPerBlock
        data_total == total - 1 - (ibb + inode_area)
        dbb == DataBitmapBlocks(data_total)
    IN  [total_blocks |-> total, inode_bitmap_blocks |-> ibb, inode_area_blocks |-> inode_area,
         data_bitmap_blocks |-> dbb, data_area_blocks |-> data_total - dbb]

\* The data area right behind the inodes, over its own bitmap.
LayoutWithoutDataBitmap(s) ==
    [inode_bitmap |-> [start_block_id |-> 1, blocks |-> s.inode_bitmap_blocks],
     data_bitmap |-> [start_block_id |-> 1 + s.inode_bitmap_blocks + s.inode_area_blocks,
                      blocks |-> s.data_bitmap_blocks],
     inode_area_start_block |-> 1 + s.inode_bitmap_blocks,
     data_area_start_block |-> 1 + s.inode_bitmap_blocks + s.inode_area_blocks]

\* The EasyFileSystem that create and open build.
Layout(s) ==
    LET inode_total == s.inode_bitmap_blocks + s.inode_area_blocks
    IN  [inode_bitmap |-> [start_block_id |-> 1, blocks |-> s.inode_bitmap_blocks],
         data_bitmap |-> [start_block_id |-> 1 + inode_total, blocks |-> s.data_bitmap_blocks],
         inode_area_start_block |-> 1 + s.inode_bitmap_blocks,
         data_area_start_block |-> 1 + inode_total + s.data_bitmap_blocks]

Init ==
    /\ device = [b \in 0..DeviceBlocks - 1 |-> ZeroBlock]
    /\ super = NoSuper
    /\ efs = Layout(NoSuper)
    /\ mounted = FALSE
    /\ inodes = {} /\ blocks = {}
    /\ panicked = FALSE
-----------------------------------------------------------------------------
Full == 0..GroupBits - 1

\* Bitmap::alloc: the first block and group with a clear bit, its lowest one.
HasFree(d, bitmap) ==
    \E k \in 0..bitmap.blocks - 1 : \E g \in 0..Groups - 1 :
        d[bitmap.start_block_id + k][g] # Full

FreeAt(d, bitmap) ==
    LET At(k) == d[bitmap.start_block_id + k]
        block == Min({k \in 0..bitmap.blocks - 1 : \E g \in 0..Groups - 1 : At(k)[g] # Full})
        group == Min({g \in 0..Groups - 1 : At(block)[g] # Full})
    IN  <<block, group, Min(Full \ At(block)[group])>>

SetBit(d, bitmap, at) ==
    [d EXCEPT ![bitmap.start_block_id + at[1]][at[2]] = @ \cup {at[3]}]

BitOf(at) == at[1] * BLOCK_BITS + at[2] * GroupBits + at[3]

\* A decomposition that leaves the whole bit number in the group.
DecompositionNoRemainder(bit) ==
    <<bit \div BLOCK_BITS, (bit \div GroupBits) % Groups, (bit \div BLOCK_BITS) % GroupBits>>

\* decomposition.
Decomposition(bit) ==
    <<bit \div BLOCK_BITS, (bit % BLOCK_BITS) \div GroupBits, (bit % BLOCK_BITS) % GroupBits>>

IsSet(d, bitmap, at) == at[3] \in d[bitmap.start_block_id + at[1]][at[2]]

ClearBit(d, bitmap, at) ==
    [d EXCEPT ![bitmap.start_block_id + at[1]][at[2]] = @ \ {at[3]}]

\* create: all blocks cleared, the super block written and inode 0 taken for the
\* root.  An image that leaves no room for data is not asked for: the sizes
\* would wrap around.
Create(total, ibb) ==
    /\ ~mounted /\ super = NoSuper
    /\ total > 1 + ibb + Sizes(total, ibb).inode_area_blocks
    /\ super' = Sizes(total, ibb)
    /\ efs' = Layout(super')
    /\ LET d == [b \in DOMAIN device |-> IF b < total THEN ZeroBlock ELSE device[b]]
           at == FreeAt(d, efs'.inode_bitmap)
       IN  /\ device' = SetBit(d, efs'.inode_bitmap, at)
           /\ inodes' = {BitOf(at)}
           /\ panicked' = (BitOf(at) # 0)
    /\ mounted' = TRUE
    /\ UNCHANGED blocks

\* The machine stops with everything written back, as BlockCache has it.
Shutdown ==
    /\ mounted /\ ~panicked
    /\ mounted' = FALSE
    /\ UNCHANGED <<device, super, efs, inodes, blocks, panicked>>

\* open: the layout is computed from the super block.
Open ==
    /\ ~mounted /\ super # NoSuper
    /\ efs' = Layout(super)
    /\ mounted' = TRUE
    /\ UNCHANGED <<device, super, inodes, blocks, panicked>>

Up == mounted /\ ~panicked

\* alloc_inode; unwrap of None stops the kernel.
AllocInode ==
    /\ Up
    /\ \/ /\ HasFree(device, efs.inode_bitmap)
          /\ LET at == FreeAt(device, efs.inode_bitmap)
             IN  /\ device' = SetBit(device, efs.inode_bitmap, at)
                 /\ inodes' = inodes \cup {BitOf(at)}
          /\ UNCHANGED panicked
       \/ /\ ~HasFree(device, efs.inode_bitmap)
          /\ panicked' = TRUE
          /\ UNCHANGED <<device, inodes>>
    /\ UNCHANGED <<super, efs, mounted, blocks>>

\* get_disk_inode_pos, with the offset in inodes.
GetDiskInodePos(id) ==
    <<efs.inode_area_start_block + (id \div InodesPerBlock), id % InodesPerBlock>>

\* alloc_data.
AllocData ==
    /\ Up
    /\ \/ /\ HasFree(device, efs.data_bitmap)
          /\ LET at == FreeAt(device, efs.data_bitmap)
             IN  /\ device' = SetBit(device, efs.data_bitmap, at)
                 /\ blocks' = blocks \cup {BitOf(at) + efs.data_area_start_block}
          /\ UNCHANGED panicked
       \/ /\ ~HasFree(device, efs.data_bitmap)
          /\ panicked' = TRUE
          /\ UNCHANGED <<device, blocks>>
    /\ UNCHANGED <<super, efs, mounted, inodes>>

\* dealloc_data: the block is zeroed and its bit, which is asserted to be set,
\* cleared.
DeallocData(b) ==
    /\ Up
    /\ b \in blocks
    /\ LET d == [device EXCEPT ![b] = ZeroBlock]
           at == Decomposition(b - efs.data_area_start_block)
       IN  /\ device' = IF IsSet(d, efs.data_bitmap, at)
                        THEN ClearBit(d, efs.data_bitmap, at) ELSE d
           /\ panicked' = ~IsSet(d, efs.data_bitmap, at)
    /\ blocks' = blocks \ {b}
    /\ UNCHANGED <<super, efs, mounted, inodes>>

Halted == panicked /\ UNCHANGED vars

Next ==
    \/ \E total \in Totals, ibb \in BitmapBlocks : Create(total, ibb)
    \/ Shutdown
    \/ Open
    \/ AllocInode
    \/ AllocData
    \/ \E b \in 0..DeviceBlocks - 1 : DeallocData(b)
    \/ Halted

Spec == Init /\ [][Next]_vars
-----------------------------------------------------------------------------
SetBits(bitmap) ==
    {bit \in 0..bitmap.blocks * BLOCK_BITS - 1 : IsSet(device, bitmap, Decomposition(bit))}

\* The bits on the device, also after the image was opened again, are exactly
\* what was handed out: alloc never gives an inode or a block twice and dealloc
\* gives back the one it is asked to, not another one and not a bit of the other
\* bitmap.
BitmapsExact ==
    super # NoSuper /\ ~panicked =>
        /\ SetBits(efs.inode_bitmap) = inodes
        /\ SetBits(efs.data_bitmap) = {b - efs.data_area_start_block : b \in blocks}

\* The super block, the bitmaps, the blocks that hold inodes and the data blocks
\* handed out are pairwise apart, and two inodes never have the same place.
AreasApart ==
    LET Of(bitmap) == {bitmap.start_block_id + k : k \in 0..bitmap.blocks - 1}
        bitmaps == {0} \cup Of(efs.inode_bitmap) \cup Of(efs.data_bitmap)
        places == {GetDiskInodePos(i) : i \in inodes}
        tables == {p[1] : p \in places}
    IN  mounted =>
        /\ Cardinality(bitmaps) = 1 + efs.inode_bitmap.blocks + efs.data_bitmap.blocks
        /\ Cardinality(places) = Cardinality(inodes)
        /\ bitmaps \cap tables = {} /\ bitmaps \cap blocks = {} /\ tables \cap blocks = {}

\* Only a full bitmap stops the file system, and then every block of the data
\* area or every inode of the inode area was handed out: dealloc's assertion
\* holds and no block is out of the bitmaps' reach.
StopsOnlyWhenFull ==
    panicked =>
        \/ efs.data_area_start_block .. super.total_blocks - 1 \subseteq blocks
        \/ 0 .. super.inode_area_blocks * InodesPerBlock - 1 \subseteq inodes

\* "the total number of blocks of the file system" (easy-fs/src/layout.rs): what
\* alloc_data hands out is a block of the image.
DataWithinImage == \A b \in blocks : b < super.total_blocks
=============================================================================
