---------------------------- MODULE MCInodeBlocks ----------------------------
(***************************************************************************)
(* Blocks of two cells and one direct block: a file has up to 7 data and 4 *)
(* index blocks, and all levels are used by files of a few cells.          *)
(***************************************************************************)
EXTENDS InodeBlocks, TLC

CONSTANTS i1, i2
MCInode == {i1, i2}

\* A directory and a file, with writes that start in one level and end in
\* another, that leave gaps, and that do not fit.
MCBlock == 1..13
MCOffset == {0, 5, 11, 12}
MCBuf == {<<1, 2, 1>>}
MCDirent == {4, 5}
=============================================================================
