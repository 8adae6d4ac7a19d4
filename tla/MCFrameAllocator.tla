--------------------------- MODULE MCFrameAllocator ---------------------------
(***************************************************************************)
(* One more tracker than frames, so that the allocator runs dry.           *)
(***************************************************************************)
EXTENDS FrameAllocator, TLC

CONSTANTS t1, t2, t3, t4, t5, t6
MCTracker == {t1, t2, t3, t4, t5, t6}
MCSymmetry == Permutations(MCTracker)
=============================================================================
