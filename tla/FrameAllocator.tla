---------------------------- MODULE FrameAllocator ----------------------------
(***************************************************************************)
(* os/src/mm/frame_allocator.rs: StackFrameAllocator and the FrameTrackers *)
(* that own its frames.  A frame comes from the stack of recycled ones, or *)
(* else from the range current..R-1 that was never handed out; dropping a  *)
(* tracker gives its frame back.                                           *)
(***************************************************************************)
EXTENDS Naturals, Sequences, SequencesExt

CONSTANTS Tracker, None,
          L, R             \* what init is called with: first frame, and the end

ASSUME FrameAssumption == L \in Nat /\ R \in Nat /\ L <= R /\ None \notin Nat

VARIABLES current, recycled,
          ppn,             \* the frame each tracker owns, None while it does not exist
          answer,          \* what the last call of frame_alloc returned
          panicked

vars == <<current, recycled, ppn, answer, panicked>>

Frame == L..(R - 1)
Held == {ppn[t] : t \in Tracker} \ {None}
Free == ToSet(recycled) \cup current..(R - 1)

Init ==
    /\ current = L /\ recycled = <<>>
    /\ ppn = [t \in Tracker |-> None]
    /\ answer = "none" /\ panicked = FALSE

\* An alloc that leaves the frame it returns on the stack.
TopStays == recycled

\* What pop leaves on the stack.
TopPopped == Front(recycled)

\* frame_alloc, with the result in the tracker t.
FrameAlloc(t) ==
    /\ ~panicked
    /\ ppn[t] = None
    /\ \/ /\ recycled # <<>>
          /\ ppn' = [ppn EXCEPT ![t] = Last(recycled)]
          /\ recycled' = TopPopped
          /\ answer' = "some"
          /\ UNCHANGED current
       \/ /\ recycled = <<>> /\ current = R
          /\ answer' = "refused"
          /\ UNCHANGED <<current, recycled, ppn>>
       \/ /\ recycled = <<>> /\ current # R
          /\ ppn' = [ppn EXCEPT ![t] = current]
          /\ current' = current + 1
          /\ answer' = "some"
          /\ UNCHANGED recycled
    /\ UNCHANGED panicked

\* The check of dealloc, off by one; and as it is.
NotAllocatedStrict(f) == f >= current - 1 \/ f \in ToSet(recycled)
NotAllocated(f) == f >= current \/ f \in ToSet(recycled)

\* A dealloc that pushes only while the stack is empty.
PushedIfEmpty(f) == IF recycled = <<>> THEN <<f>> ELSE recycled
Pushed(f) == Append(recycled, f)

\* The drop of the tracker t: dealloc, which panics if its check fails.
Drop(t) ==
    /\ ~panicked
    /\ ppn[t] # None
    /\ panicked' = NotAllocated(ppn[t])
    /\ IF NotAllocated(ppn[t]) THEN UNCHANGED <<recycled, ppn, answer>>
       ELSE /\ recycled' = Pushed(ppn[t])
            /\ ppn' = [ppn EXCEPT ![t] = None]
            /\ answer' = "none"
    /\ UNCHANGED current

Next == \E t \in Tracker : FrameAlloc(t) \/ Drop(t)

Spec == Init /\ [][Next]_vars
-----------------------------------------------------------------------------
\* The fields of the allocator and the frames of the trackers.
TypeOK ==
    /\ current \in L..R /\ recycled \in Seq(Frame)
    /\ ppn \in [Tracker -> Frame \cup {None}]
    /\ answer \in {"none", "some", "refused"}
    /\ panicked \in BOOLEAN

(***************************************************************************)
(* alloc and dealloc keep every frame accounted for: each frame is owned by*)
(* one tracker, waits on the stack once, or was never handed out.          *)
(***************************************************************************)
FramesAccounted ==
    /\ \A t, u \in Tracker : ppn[t] = ppn[u] /\ ppn[t] # None => t = u
    /\ IsInjective(recycled)
    /\ Held \cap Free = {}
    /\ Held \cup Free = Frame
    /\ \A i \in 1..Len(recycled) : recycled[i] < current

\* The validity check of dealloc never fails for the frame of a tracker.
NeverPanics == ~panicked

FrameInv == TypeOK /\ FramesAccounted /\ NeverPanics
-----------------------------------------------------------------------------
Pool == INSTANCE FramePool WITH free <- Free

(***************************************************************************)
(* The stack and the counter together are a set of free frames: frame_alloc*)
(* gives out some free frame, refuses only when there is none, and a drop  *)
(* makes the frame free again.                                             *)
(***************************************************************************)
ImplementsPool == Pool!PoolSpec
=============================================================================
