----------------------------- MODULE InodeBlocks -----------------------------
(***************************************************************************)
(* The inodes of an easy-fs and the data blocks they share: write_at,      *)
(* clear and increase_size of easy-fs/src/vfs.rs with the data bitmap      *)
(* (bitmap.rs) and alloc_data and dealloc_data (efs.rs).  For a directory  *)
(* there are the two changes of vfs.rs instead: an entry (one cell) is     *)
(* appended, by create and link, or removed, by unlink.                    *)
(*                                                                         *)
(* Each operation holds the lock of the file system from start to end.     *)
(***************************************************************************)
EXTENDS DiskInode, FiniteSets, Functions

CONSTANTS Inode, Dirs,     \* the inodes, and which of them are directories
          Block,           \* the data area; its bit in the bitmap is its place
          Offset, Buf,     \* arguments of write_at
          Dirent,          \* entries that are appended
          MaxDirents,      \* bounds on the entries of a directory, and
          MaxLost          \* on the blocks that unlink may lose

ASSUME InodeBlocksAssumption ==
    /\ Dirs \subseteq Inode
    /\ Block \subseteq Nat \ {0} /\ IsFiniteSet(Block)
    /\ Offset \subseteq Nat
    /\ \A buf \in Buf : buf \in Seq(Nat) /\ buf # <<>>
    /\ Dirent \subseteq Nat /\ MaxDirents \in Nat /\ MaxLost \in Nat

VARIABLES disk_inode, blk, data_bitmap, panicked

vars == <<disk_inode, blk, data_bitmap, panicked>>

ZeroBlock == [c \in 0..(BLOCK_SZ - 1) |-> 0]

Running == panicked = "no"
Panic(why) == panicked' = why /\ UNCHANGED <<disk_inode, blk, data_bitmap>>

Init ==
    /\ disk_inode = [i \in Inode |-> EmptyInode]
    /\ blk = [b \in Block |-> ZeroBlock]
    /\ data_bitmap = {}
    /\ panicked = "no"
-----------------------------------------------------------------------------
\* Bitmap::alloc returns the lowest clear bit; these are the blocks that cnt
\* calls of alloc_data return.
Free == Block \ data_bitmap
AllocData(cnt) ==
    [j \in 1..cnt |-> CHOOSE b \in Free : Cardinality({x \in Free : x < b}) = j - 1]

\* A count that takes the data blocks of the old size without its index blocks.
NeededTooMany(n, new_size) == TotalBlocks(new_size) - DataBlocks(n.size)

\* blocks_num_needed.
Needed(n, new_size) == TotalBlocks(new_size) - TotalBlocks(n.size)

\* Inode::increase_size does nothing when the file is larger already.
Grown(i, new_size) ==
    LET n == disk_inode[i] IN
    IF new_size < n.size THEN [n |-> n, m |-> blk, left |-> <<>>, short |-> FALSE]
    ELSE IncreaseSize(n, blk, new_size, AllocData(Needed(n, new_size)))

\* An alloc_data that marks the data blocks and forgets the index blocks.
TakenDataOnly(i, new_size) ==
    LET more == DataBlocks(new_size) - DataBlocks(disk_inode[i].size)
    IN  IF more <= 0 THEN {} ELSE ToSet(AllocData(more))

\* The blocks that it takes from the bitmap.
Taken(i, new_size) ==
    IF new_size < disk_inode[i].size THEN {}
    ELSE ToSet(AllocData(Needed(disk_inode[i], new_size)))

\* increase_size and write_at of i: alloc_data().unwrap() fails when the blocks
\* run out, the index into indirect2 when the file is too large, and
\* new_blocks.next().unwrap() when too few blocks were asked for.
GrowAndWrite(i, offset, buf) ==
    LET n == disk_inode[i]
        new_size == offset + Len(buf)
        grows == new_size >= n.size
        g == Grown(i, new_size)
    IN
    \/ grows /\ Needed(n, new_size) > Cardinality(Free) /\ Panic("full")
    \/ /\ grows /\ Needed(n, new_size) <= Cardinality(Free)
       /\ DataBlocks(new_size) > INDIRECT2_BOUND /\ Panic("large")
    \/ /\ grows => /\ Needed(n, new_size) <= Cardinality(Free)
                   /\ DataBlocks(new_size) <= INDIRECT2_BOUND
       /\ IF g.short THEN Panic("unwrap")
          ELSE /\ disk_inode' = [disk_inode EXCEPT ![i] = g.n]
               /\ blk' = WriteAt(g.n, g.m, offset, buf)
               /\ data_bitmap' = data_bitmap \cup Taken(i, new_size)
               /\ UNCHANGED panicked

\* Inode::write_at of a file.
FileWrite(i, offset, buf) ==
    /\ Running
    /\ i \notin Dirs
    /\ GrowAndWrite(i, offset, buf)

\* create and link append an entry to the directory.
AppendDirent(i, d) ==
    /\ Running
    /\ i \in Dirs
    /\ disk_inode[i].size < MaxDirents
    /\ GrowAndWrite(i, disk_inode[i].size, <<d>>)

\* The blocks an inode leads to, and those marked that none leads to.
Reachable(i) == ToSet(BlocksOf(disk_inode[i], blk))
Lost == data_bitmap \ UNION {Reachable(i) : i \in Inode}

\* unlink overwrites entry j (from 0) with the last one and cuts the size.
RemoveDirent(i, j) ==
    LET n == disk_inode[i]
        last == ReadAll(n, blk)[n.size]
    IN
    /\ Running
    /\ i \in Dirs
    /\ j < n.size
    /\ Cardinality(Lost) < MaxLost
    /\ blk' = WriteAt(n, blk, j, <<last>>)
    /\ disk_inode' = [disk_inode EXCEPT ![i].size = @ - 1]
    /\ UNCHANGED <<data_bitmap, panicked>>

\* dealloc_data of the blocks B, without the loop that clears them.
DeallocKeepsData(B) == blk

\* The contents after dealloc_data of the blocks B.
DeallocData(B) == [b \in Block |-> IF b \in B THEN ZeroBlock ELSE blk[b]]

\* Inode::clear, with its assertion and the one of Bitmap::dealloc.
Clear(i) ==
    LET n == disk_inode[i]
        v == BlocksOf(n, blk)
    IN
    /\ Running
    /\ i \notin Dirs
    /\ IF Len(v) # TotalBlocks(n.size) THEN Panic("clear")
       ELSE IF ~(ToSet(v) \subseteq data_bitmap /\ IsInjective(v)) THEN Panic("dealloc")
       ELSE /\ disk_inode' = [disk_inode EXCEPT ![i] = ClearSize(n)]
            /\ blk' = DeallocData(ToSet(v))
            /\ data_bitmap' = data_bitmap \ ToSet(v)
            /\ UNCHANGED panicked

\* After a panic nothing happens any more.
Halted == ~Running /\ UNCHANGED vars

Next ==
    \/ \E i \in Inode :
          \/ \E offset \in Offset, buf \in Buf : FileWrite(i, offset, buf)
          \/ \E d \in Dirent : AppendDirent(i, d)
          \/ \E j \in 0..(disk_inode[i].size - 1) : RemoveDirent(i, j)
          \/ Clear(i)
    \/ Halted

Spec == Init /\ [][Next]_vars
-----------------------------------------------------------------------------
(***************************************************************************)
(* No block serves two purposes: the index and data blocks of all inodes   *)
(* are different, and all marked in the bitmap, so that alloc_data cannot  *)
(* give one out again.                                                     *)
(***************************************************************************)
NoBlockShared ==
    /\ \A i \in Inode : /\ IsInjective(BlocksOf(disk_inode[i], blk))
                        /\ Reachable(i) \subseteq data_bitmap
    /\ \A i, j \in Inode : i # j => Reachable(i) \cap Reachable(j) = {}

\* A block that alloc_data may return is zero: dealloc_data has cleared it.
FreeBlocksZero == \A b \in Free : blk[b] = ZeroBlock

\* write_at and clear of files ask for as many blocks as they use and give all
\* of them back: only unlink, which cuts the size of the directory and frees
\* nothing, leaves a block marked that no inode leads to.
OnlyUnlinkLosesBlocks ==
    [][ \/ Lost' \subseteq Lost
        \/ \E d \in Dirs : disk_inode'[d].size < disk_inode[d].size ]_vars

\* The only ways to stop are a full disk and a file that is too large: the
\* assertions of clear and of Bitmap::dealloc, and the unwrap in increase_size,
\* do not fail.
AssertionsHold == panicked \in {"no", "full", "large"}
-----------------------------------------------------------------------------
contentBar == [i \in Inode |-> ReadAll(disk_inode[i], blk)]

MaxSize == INDIRECT2_BOUND * BLOCK_SZ
Files == INSTANCE FlatFiles WITH content <- contentBar,
                                 Offset <- Offset \cup 0..MaxSize,
                                 Buf <- Buf \cup {<<d>> : d \in Dirent}

(***************************************************************************)
(* Through all levels of index blocks, write_at, clear, the growth of a    *)
(* directory and unlink have the effect that they have on a plain sequence *)
(* of bytes, on the one file only.                                         *)
(***************************************************************************)
ImplementsFlatFiles == Files!FilesSpec
=============================================================================
