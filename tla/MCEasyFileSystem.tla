--------------------------- MODULE MCEasyFileSystem ---------------------------
(* Images with bitmap blocks of two groups of two bits.                      *)
EXTENDS EasyFileSystem

MCTotals == 6..14
OneTotal == {8}
MCBitmapBlocks == {1, 2}
=============================================================================
