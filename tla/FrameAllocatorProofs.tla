------------------------- MODULE FrameAllocatorProofs -------------------------
(***************************************************************************)
(* For any range of frames and any number of trackers, FrameInv is an      *)
(* invariant of the allocator, and the allocator implements FramePool.     *)
(***************************************************************************)
EXTENDS FrameAllocator, SequenceFacts

\* The allocator after init.
LEMMA InitFrames == Init => FrameInv
<1> SUFFICES ASSUME Init PROVE FrameInv
  OBVIOUS
<1>1. TypeOK
  <2>1. current \in L..R /\ recycled \in Seq(Frame)
    BY FrameAssumption, EmptyElements DEF Init
  <2>2. ppn \in [Tracker -> Frame \cup {None}] /\ panicked \in BOOLEAN
    BY Zenon DEF Init
  <2> QED BY <2>1, <2>2 DEF Init, TypeOK
<1>2. Held = {} /\ Free = Frame
  BY EmptyElements DEF Init, Held, Free, Frame
<1>3. FramesAccounted
  <2>1. \A t \in Tracker : ppn[t] = None
    BY DEF Init
  <2>2. Len(recycled) = 0
    BY DEF Init
  <2> QED BY <1>2, <2>1, <2>2, EmptyElements DEF Init, FramesAccounted
<1> QED BY <1>1, <1>3 DEF Init, FrameInv, NeverPanics

\* What a step does to the frames that are owned and free: frame_alloc of f to
\* the tracker t, and drop of t.
Gives(t, f) ==
    /\ f \in Frame /\ ppn[t] = None
    /\ ppn' = [ppn EXCEPT ![t] = f]
    /\ Free' = Free \ {f} /\ f \in Free

\* A tracker that gets a free frame is the only owner of it.
LEMMA GiveOwned ==
    ASSUME TypeOK, FramesAccounted, NEW t \in Tracker, NEW f, Gives(t, f)
    PROVE  /\ ppn' \in [Tracker -> Frame \cup {None}]
           /\ Held' = Held \cup {f}
           /\ \A u, v \in Tracker : ppn'[u] = ppn'[v] /\ ppn'[u] # None => u = v
<1>1. f # None /\ f \notin Held
  BY FrameAssumption DEF Gives, FramesAccounted, Frame
<1>2. ppn \in [Tracker -> Frame \cup {None}]
  BY DEF TypeOK
<1>3. /\ ppn' \in [Tracker -> Frame \cup {None}] /\ ppn'[t] = f
      /\ \A u \in Tracker : u # t => ppn'[u] = ppn[u]
  BY <1>2 DEF Gives
<1>4. ppn[t] = None
  BY DEF Gives
<1>5. Held' = Held \cup {f}
  BY <1>1, <1>3, <1>4 DEF Held
<1>6. \A u \in Tracker : u # t => ppn[u] # f
  BY <1>1 DEF Held
<1> QED BY <1>1, <1>3, <1>5, <1>6 DEF FramesAccounted

\* frame_alloc keeps the frames accounted for, and is a step of the pool.
LEMMA AllocStep ==
    ASSUME FrameInv, NEW t \in Tracker, FrameAlloc(t)
    PROVE  FrameInv' /\ (Pool!Refuse \/ Pool!Take(t))
<1> USE DEF FrameInv
<1>1. /\ current \in Nat /\ L <= current /\ current <= R /\ L \in Nat /\ R \in Nat
      /\ recycled \in Seq(Frame) /\ IsInjective(recycled)
  BY FrameAssumption DEF TypeOK, FramesAccounted
<1>2. NeverPanics' /\ answer' \in {"none", "some", "refused"} /\ panicked' \in BOOLEAN
  <2>1. panicked' = panicked /\ panicked \in BOOLEAN
    BY DEF FrameAlloc, TypeOK
  <2>2. NeverPanics' /\ panicked' \in BOOLEAN
    BY <2>1, Zenon DEF NeverPanics
  <2>3. answer' \in {"none", "some", "refused"}
    BY DEF FrameAlloc
  <2> QED BY <2>2, <2>3
<1>3. CASE recycled # <<>> /\ ppn' = [ppn EXCEPT ![t] = Last(recycled)]
           /\ recycled' = TopPopped /\ answer' = "some" /\ UNCHANGED current
  <2> DEFINE f == Last(recycled)
  <2>1. /\ recycled' \in Seq(Frame) /\ IsInjective(recycled') /\ f \in ToSet(recycled)
        /\ ToSet(recycled') = ToSet(recycled) \ {f} /\ f \in Frame
    BY <1>1, <1>3, FrontElements DEF TopPopped
  <2>2. \A x \in ToSet(recycled) : x < current
    <3>1. \A i \in 1..Len(recycled) : recycled[i] < current
      BY DEF FramesAccounted
    <3> QED BY <1>1, <3>1, SeqElements
  <2>3. \A i \in 1..Len(recycled') : recycled'[i] < current'
    <3>1. \A i \in 1..Len(recycled') : recycled'[i] \in ToSet(recycled')
      BY <2>1, SeqElements
    <3> QED BY <1>3, <2>1, <2>2, <3>1
  <2>4. f \notin current..(R - 1)
    BY <1>1, <2>1, <2>2
  <2>5. Free' = Free \ {f} /\ f \in Free
    BY <1>3, <2>1, <2>4 DEF Free
  <2> HIDE DEF f
  <2>6. Gives(t, f)
    BY <1>3, <2>1, <2>5 DEF Gives, FrameAlloc, f
  <2>7. /\ ppn' \in [Tracker -> Frame \cup {None}] /\ Held' = Held \cup {f}
        /\ \A u, v \in Tracker : ppn'[u] = ppn'[v] /\ ppn'[u] # None => u = v
    BY <2>6, GiveOwned
  <2>8. FramesAccounted'
    BY <2>1, <2>3, <2>5, <2>7 DEF FramesAccounted, Frame
  <2>9. TypeOK'
    BY <1>1, <1>2, <1>3, <2>1, <2>7 DEF TypeOK, Frame
  <2>10. Pool!Take(t)
    BY <1>3, <2>5, <2>6, ZenonT(40) DEF Pool!Take, Gives
  <2> QED BY <1>2, <2>8, <2>9, <2>10
<1>4. CASE recycled = <<>> /\ current = R /\ answer' = "refused"
           /\ UNCHANGED <<current, recycled, ppn>>
  <2>1. Free = {}
    BY <1>1, <1>4, EmptyElements DEF Free
  <2>2. Free' = Free /\ Held' = Held
    BY <1>4 DEF Free, Held
  <2>3. Pool!Refuse
    BY <1>4, <2>1, <2>2 DEF Pool!Refuse
  <2>4. FramesAccounted'
    BY <1>4, <2>2 DEF FramesAccounted, Frame
  <2>5. TypeOK'
    BY <1>2, <1>4, SMTT(30) DEF TypeOK, Frame
  <2> QED BY <1>2, <2>3, <2>4, <2>5
<1>5. CASE recycled = <<>> /\ current # R /\ ppn' = [ppn EXCEPT ![t] = current]
           /\ current' = current + 1 /\ answer' = "some" /\ UNCHANGED recycled
  <2>1. current \in Frame /\ current' \in L..R
    BY <1>1, <1>5 DEF Frame
  <2>2. Free' = Free \ {current} /\ current \in Free
    <3>1. Free = current..(R - 1) /\ Free' = (current + 1)..(R - 1)
      BY <1>5, EmptyElements DEF Free
    <3> QED BY <1>1, <1>5, <3>1
  <2>3. Gives(t, current)
    BY <1>5, <2>1, <2>2 DEF Gives, FrameAlloc
  <2>4. /\ ppn' \in [Tracker -> Frame \cup {None}] /\ Held' = Held \cup {current}
        /\ \A u, v \in Tracker : ppn'[u] = ppn'[v] /\ ppn'[u] # None => u = v
    BY <2>3, GiveOwned
  <2>5. \A i \in 1..Len(recycled') : recycled'[i] < current'
    BY <1>1, <1>5
  <2>6. FramesAccounted'
    BY <1>5, <2>1, <2>2, <2>4, <2>5 DEF FramesAccounted, Frame
  <2>7. TypeOK'
    BY <1>1, <1>2, <1>5, <2>1, <2>4 DEF TypeOK, Frame
  <2>8. Pool!Take(t)
    BY <1>5, <2>2, <2>3, ZenonT(40) DEF Pool!Take, Gives
  <2> QED BY <1>2, <2>6, <2>7, <2>8
<1> QED BY <1>3, <1>4, <1>5 DEF FrameAlloc

\* The drop of a tracker passes dealloc's check, keeps the frames accounted
\* for, and gives the frame back to the pool.
LEMMA DropStep ==
    ASSUME FrameInv, NEW t \in Tracker, Drop(t)
    PROVE  FrameInv' /\ Pool!Give(t)
<1> USE DEF FrameInv
<1> DEFINE f == ppn[t]
<1>1. /\ current \in Nat /\ L <= current /\ current <= R /\ L \in Nat /\ R \in Nat
      /\ recycled \in Seq(Frame) /\ IsInjective(recycled)
      /\ ppn \in [Tracker -> Frame \cup {None}]
  BY FrameAssumption DEF TypeOK, FramesAccounted
<1>2. f # None /\ f \in Frame /\ f \in Held /\ f \notin Free
  BY <1>1 DEF Drop, Held, FramesAccounted
<1>3. f < current /\ f \notin ToSet(recycled)
  BY <1>1, <1>2 DEF Free, Frame
<1>4. ~NotAllocated(f)
  BY <1>1, <1>2, <1>3 DEF NotAllocated, Frame
<1>5. /\ panicked' = FALSE /\ recycled' = Append(recycled, f)
      /\ ppn' = [ppn EXCEPT ![t] = None] /\ answer' = "none" /\ current' = current
  <2>1. panicked' = NotAllocated(f) /\ current' = current
    BY DEF Drop
  <2>2. recycled' = Pushed(f) /\ ppn' = [ppn EXCEPT ![t] = None] /\ answer' = "none"
    BY <1>4 DEF Drop
  <2>3. panicked' = FALSE
    BY <1>4, <2>1, Zenon DEF NotAllocated
  <2> QED BY <2>1, <2>2, <2>3 DEF Pushed
<1> HIDE DEF f
<1>6. /\ recycled' \in Seq(Frame) /\ IsInjective(recycled')
      /\ ToSet(recycled') = ToSet(recycled) \cup {f}
  BY <1>1, <1>2, <1>3, <1>5, AppendElements
<1>7. Free' = Free \cup {f}
  BY <1>5, <1>6 DEF Free
<1>8. /\ ppn' \in [Tracker -> Frame \cup {None}] /\ ppn'[t] = None
      /\ \A u \in Tracker : u # t => ppn'[u] = ppn[u] /\ ppn[u] # f
  BY <1>1, <1>2, <1>5 DEF FramesAccounted, f
<1>9. Held' = Held \ {f}
  BY <1>8 DEF Held, f
<1>10. \A i \in 1..Len(recycled') : recycled'[i] < current'
  <2>1. \A i \in 1..Len(recycled) : recycled[i] < current
    BY DEF FramesAccounted
  <2>2. /\ Len(recycled') = Len(recycled) + 1 /\ Len(recycled) \in Nat
        /\ \A i \in 1..Len(recycled) : recycled'[i] = recycled[i]
        /\ recycled'[Len(recycled) + 1] = f
    BY <1>1, <1>2, <1>5, AppendIndex
  <2> QED BY <1>3, <1>5, <2>1, <2>2
<1>11. FramesAccounted'
  <2>1. \A u, v \in Tracker : ppn'[u] = ppn'[v] /\ ppn'[u] # None => u = v
    BY <1>8 DEF FramesAccounted
  <2>2. Held' \cap Free' = {} /\ Held' \cup Free' = Frame
    BY <1>2, <1>7, <1>9 DEF FramesAccounted
  <2> QED BY <1>6, <1>10, <2>1, <2>2 DEF FramesAccounted, Frame
<1>12. TypeOK'
  BY <1>1, <1>5, <1>6, <1>8, ZenonT(40) DEF TypeOK, Frame
<1>13. Pool!Give(t)
  BY <1>2, <1>5, <1>7 DEF Pool!Give, f
<1> QED BY <1>5, <1>11, <1>12, <1>13 DEF NeverPanics

\* Every step keeps the invariant and is a step of the pool or none.
LEMMA FrameStep ==
    FrameInv /\ [Next]_vars
        => FrameInv' /\ [Pool!PoolNext]_<<Free, ppn, answer>>
<1> SUFFICES ASSUME FrameInv, [Next]_vars
             PROVE  FrameInv' /\ [Pool!PoolNext]_<<Free, ppn, answer>>
  OBVIOUS
<1>1. CASE Next
  <2>1. PICK t \in Tracker : FrameAlloc(t) \/ Drop(t)
    BY <1>1 DEF Next
  <2>2. CASE FrameAlloc(t)
    BY <2>2, AllocStep DEF Pool!PoolNext
  <2>3. CASE Drop(t)
    BY <2>3, DropStep DEF Pool!PoolNext
  <2> QED BY <2>1, <2>2, <2>3
<1>2. CASE UNCHANGED vars
  <2>1. UNCHANGED <<Free, ppn, answer, Held>>
    BY <1>2 DEF vars, Free, Held
  <2>2. FrameInv'
    BY <1>2, <2>1 DEF vars, FrameInv, TypeOK, FramesAccounted, NeverPanics, Frame
  <2> QED BY <2>1, <2>2
<1> QED BY <1>1, <1>2

\* alloc and dealloc of StackFrameAllocator never hand a frame to two trackers
\* and never lose one, whatever the memory size and the order of the calls.
THEOREM FramesCorrect == Spec => []FramesAccounted
<1>1. FrameInv => FramesAccounted
  BY SMTT(30) DEF FrameInv
<1> QED BY InitFrames, FrameStep, <1>1, PTL DEF Spec

\* The panic in dealloc is never reached by dropping a FrameTracker.
THEOREM DropsAreValid == Spec => []NeverPanics
<1>1. FrameInv => NeverPanics
  BY DEF FrameInv
<1> QED BY InitFrames, FrameStep, <1>1, PTL DEF Spec

\* The stack and the counter implement a plain set of free frames; in
\* particular frame_alloc returns None only when every frame is owned.
THEOREM FramesImplementPool == Spec => ImplementsPool
<1>1. Init => Pool!PoolInit
  <2>1. Init => Free = Frame
    BY EmptyElements DEF Init, Free, Frame
  <2> QED BY <2>1 DEF Init, Pool!PoolInit
<1> QED BY <1>1, InitFrames, FrameStep, PTL DEF Spec, ImplementsPool, Pool!PoolSpec
=============================================================================
