----------------------------- MODULE MCBlockCache -----------------------------
(***************************************************************************)
(* Four blocks for a queue of three, the smallest capacity that the        *)
(* nesting of the callers allows: replacement happens with two of the      *)
(* three entries held.                                                     *)
(***************************************************************************)
EXTENDS BlockCacheRefinement

CONSTANTS i1, d1, d2, d3, e1, e2, e3, e4

MCBlock == {i1, d1, d2, d3}
MCEntry == {e1, e2, e3, e4}
MCArea == [b \in MCBlock |-> IF b = i1 THEN "inode" ELSE "data"]
MCValue == {0, 1}
MCSymmetry == Permutations({d1, d2, d3}) \cup Permutations(MCEntry)
=============================================================================
