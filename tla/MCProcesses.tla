----------------------------- MODULE MCProcesses -----------------------------
(***************************************************************************)
(* INITPROC and up to two more processes: enough for a grandchild that     *)
(* outlives its parent, as a zombie or running, and for a pid that is      *)
(* reused while another process is still there.                            *)
(***************************************************************************)
EXTENDS ProcessRefinement

CONSTANTS p1, p2

MCTcb == {INITPROC, p1, p2}
MCPids == 0..2
MCExitCodes == {7}
MCWaitPids == {-1, 1, 2}
=============================================================================
