------------------------------ MODULE DiskInode ------------------------------
(***************************************************************************)
(* DiskInode of easy-fs/src/layout.rs: how the blocks of a file are found  *)
(* from its inode.  A block is BLOCK_SZ cells; a cell holds a byte of a    *)
(* data block or an entry of an index block, so that an index block has    *)
(* BLOCK_SZ entries (INODE_INDIRECT1_COUNT).  m gives the contents of the  *)
(* blocks and n is a DiskInode without its type.                           *)
(***************************************************************************)
EXTENDS Integers, Sequences, FiniteSetsExt, SequencesExt

CONSTANTS BLOCK_SZ, INODE_DIRECT_COUNT

ASSUME DiskInodeAssumption == BLOCK_SZ \in Nat \ {0} /\ INODE_DIRECT_COUNT \in Nat \ {0}

INODE_INDIRECT1_COUNT == BLOCK_SZ
INDIRECT1_BOUND == INODE_DIRECT_COUNT + INODE_INDIRECT1_COUNT
INDIRECT2_BOUND == INDIRECT1_BOUND + INODE_INDIRECT1_COUNT * INODE_INDIRECT1_COUNT

\* DiskInode::initialize.
EmptyInode ==
    [size |-> 0, direct |-> [k \in 0..(INODE_DIRECT_COUNT - 1) |-> 0],
     indirect1 |-> 0, indirect2 |-> 0]

CeilDiv(a, b) == (a + b - 1) \div b

\* _data_blocks.
DataBlocks(size) == CeilDiv(size, BLOCK_SZ)

\* A count that forgets the second-level index blocks.
TotalBlocksShort(size) ==
    LET data == DataBlocks(size)
    IN  data + (IF data > INODE_DIRECT_COUNT THEN 1 ELSE 0)
             + (IF data > INDIRECT1_BOUND THEN 1 ELSE 0)

\* total_blocks: with the index blocks.
TotalBlocks(size) ==
    LET data == DataBlocks(size)
    IN  data
        + (IF data > INODE_DIRECT_COUNT THEN 1 ELSE 0)
        + (IF data > INDIRECT1_BOUND
           THEN 1 + CeilDiv(data - INDIRECT1_BOUND, INODE_INDIRECT1_COUNT) ELSE 0)

\* get_block_id of data block k.
GetBlockId(n, m, k) ==
    LET last == k - INDIRECT1_BOUND IN
    CASE k < INODE_DIRECT_COUNT -> n.direct[k]
      [] k \in INODE_DIRECT_COUNT..(INDIRECT1_BOUND - 1) ->
            m[n.indirect1][k - INODE_DIRECT_COUNT]
      [] OTHER -> m[m[n.indirect2][last \div INODE_INDIRECT1_COUNT]][last % INODE_INDIRECT1_COUNT]

(***************************************************************************)
(* increase_size takes the new blocks one after the other: for data block  *)
(* k, first the index blocks that k is the first to need, then k itself.   *)
(* s is [n, m, left, short], the inode, the blocks, the new blocks left,   *)
(* and whether new_blocks.next().unwrap() has failed.                      *)
(***************************************************************************)
Use(s, t) ==
    IF s.left = <<>> THEN [s EXCEPT !.short = TRUE] ELSE [t EXCEPT !.left = Tail(@)]

AddIndirect1(s, k) ==
    IF k = INODE_DIRECT_COUNT THEN Use(s, [s EXCEPT !.n.indirect1 = Head(s.left)]) ELSE s

AddIndirect2(s, k) ==
    IF k = INDIRECT1_BOUND THEN Use(s, [s EXCEPT !.n.indirect2 = Head(s.left)]) ELSE s

AddSubIndirect(s, k) ==
    LET last == k - INDIRECT1_BOUND IN
    IF k >= INDIRECT1_BOUND /\ last % INODE_INDIRECT1_COUNT = 0
    THEN Use(s, [s EXCEPT !.m[s.n.indirect2][last \div INODE_INDIRECT1_COUNT] = Head(s.left)])
    ELSE s

AddData(s, k) ==
    LET last == k - INDIRECT1_BOUND
        b == Head(s.left)
        sub == s.m[s.n.indirect2][last \div INODE_INDIRECT1_COUNT]
    IN
    Use(s, CASE k < INODE_DIRECT_COUNT -> [s EXCEPT !.n.direct[k] = b]
             [] k \in INODE_DIRECT_COUNT..(INDIRECT1_BOUND - 1) ->
                   [s EXCEPT !.m[s.n.indirect1][k - INODE_DIRECT_COUNT] = b]
             [] OTHER -> [s EXCEPT !.m[sub][last % INODE_INDIRECT1_COUNT] = b])

AddBlock(s, k) == AddData(AddSubIndirect(AddIndirect2(AddIndirect1(s, k), k), k), k)

IncreaseSize(n, m, new_size, new_blocks) ==
    LET current == DataBlocks(n.size)
        ks == [j \in 1..(DataBlocks(new_size) - current) |-> current + j - 1]
        start == [n |-> [n EXCEPT !.size = new_size], m |-> m, left |-> new_blocks, short |-> FALSE]
    IN  FoldLeft(AddBlock, start, ks)

\* The first cnt entries of index block b.
Entries(m, b, cnt) == [j \in 1..cnt |-> m[b][j - 1]]

\* The blocks that clear_size returns, in its order.
BlocksOf(n, m) ==
    LET data == DataBlocks(n.size)
        rest == data - INDIRECT1_BOUND
        full == rest \div INODE_INDIRECT1_COUNT
        sub(a, cnt) == LET b == m[n.indirect2][a] IN <<b>> \o Entries(m, b, cnt)
        direct == [j \in 1..Min({data, INODE_DIRECT_COUNT}) |-> n.direct[j - 1]]
        level1 == <<n.indirect1>>
                  \o Entries(m, n.indirect1,
                             Min({data - INODE_DIRECT_COUNT, INODE_INDIRECT1_COUNT}))
        level2 == <<n.indirect2>>
                  \o FlattenSeq([a \in 1..full |-> sub(a - 1, INODE_INDIRECT1_COUNT)])
                  \o (IF rest % INODE_INDIRECT1_COUNT > 0
                      THEN sub(full, rest % INODE_INDIRECT1_COUNT) ELSE <<>>)
    IN  direct \o (IF data > INODE_DIRECT_COUNT THEN level1 ELSE <<>>)
               \o (IF data > INDIRECT1_BOUND THEN level2 ELSE <<>>)

\* The inode after clear_size: what was not in use keeps its old value.
ClearSize(n) ==
    LET data == DataBlocks(n.size) IN
    [size |-> 0,
     direct |-> [k \in DOMAIN n.direct |-> IF k < data THEN 0 ELSE n.direct[k]],
     indirect1 |-> IF data > INODE_DIRECT_COUNT THEN 0 ELSE n.indirect1,
     indirect2 |-> IF data > INDIRECT1_BOUND THEN 0 ELSE n.indirect2]

\* The cell that holds byte o, for read_at and write_at.
CellOf(n, m, o) == <<GetBlockId(n, m, o \div BLOCK_SZ), o % BLOCK_SZ>>

\* write_at of buf, a sequence, at offset.
WriteAt(n, m, offset, buf) ==
    LET cells == [j \in 1..Len(buf) |-> CellOf(n, m, offset + j - 1)]
        put(mm, j) == [mm EXCEPT ![cells[j][1]][cells[j][2]] = buf[j]]
    IN  FoldLeftDomain(put, m, buf)

\* What read_at of the whole file returns.
ReadAll(n, m) ==
    [j \in 1..n.size |-> LET cell == CellOf(n, m, j - 1) IN m[cell[1]][cell[2]]]
=============================================================================
