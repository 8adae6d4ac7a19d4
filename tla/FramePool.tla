------------------------------ MODULE FramePool ------------------------------
(***************************************************************************)
(* What the rest of the kernel relies on: frames that are free are given   *)
(* out one at a time, in no particular order, and come back when their     *)
(* tracker is dropped.  MemorySets uses the frames at this level.          *)
(***************************************************************************)
CONSTANTS Tracker, Frame, None

VARIABLES free, ppn, answer

PoolInit == free = Frame /\ ppn = [t \in Tracker |-> None] /\ answer = "none"

Take(t) ==
    /\ ppn[t] = None
    /\ \E f \in free :
          /\ free' = free \ {f}
          /\ ppn' = [ppn EXCEPT ![t] = f]
    /\ answer' = "some"

Refuse == free = {} /\ answer' = "refused" /\ UNCHANGED <<free, ppn>>

Give(t) ==
    /\ ppn[t] # None
    /\ free' = free \cup {ppn[t]}
    /\ ppn' = [ppn EXCEPT ![t] = None]
    /\ answer' = "none"

PoolNext == Refuse \/ \E t \in Tracker : Take(t) \/ Give(t)

PoolSpec == PoolInit /\ [][PoolNext]_<<free, ppn, answer>>
=============================================================================
