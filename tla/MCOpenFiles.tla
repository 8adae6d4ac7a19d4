----------------------------- MODULE MCOpenFiles -----------------------------
(***************************************************************************)
(* Two processes, two names and two inodes in one block: enough for a file *)
(* that is linked twice, unlinked while it is open, and shared by fork.    *)
(***************************************************************************)
EXTENDS OpenFiles

CONSTANTS p1, p2, a, b

MCOpenFile == 1..2
MCInitFds == <<Std>>
MCFlags == {{"CREATE"}, {"WRONLY"}}
MCBufs == {<<1>>}
MCReadLens == {1}
MCSymmetry == Permutations({a, b})
=============================================================================
