----------------------- MODULE RecycleAllocatorProofs -----------------------
(***************************************************************************)
(* The methods of RecycleAllocator keep its promise: identifiers in use    *)
(* and identifiers on the stack partition the numbers below `current`.     *)
(***************************************************************************)
EXTENDS RecycleAllocator, SequenceFacts

\* A fresh allocator from RecycleAllocator::new, after its first alloc, has
\* given out exactly the identifier 0.
LEMMA FirstAlloc ==
    /\ NextId(NewAllocator) = 0
    /\ Alloc(NewAllocator) \in RecycleAllocators
    /\ Partitions(Alloc(NewAllocator), {0})
<1>1. /\ NextId(NewAllocator) = 0
      /\ Alloc(NewAllocator) = [current |-> 1, recycled |-> <<>>]
  BY DEF NextId, NewAllocator, Alloc
<1>2. Alloc(NewAllocator) \in RecycleAllocators
  BY <1>1, EmptyElements DEF RecycleAllocators
<1>3. {0} = 0..1-1
  OBVIOUS
<1> QED BY <1>1, <1>2, <1>3, EmptyElements DEF Partitions

\* RecycleAllocator::alloc returns an identifier that nobody holds and keeps
\* the partition with that identifier added to the held ones.
LEMMA AllocKeepsPartition ==
    ASSUME NEW a \in RecycleAllocators, NEW held, Partitions(a, held)
    PROVE  /\ NextId(a) \in Nat
           /\ NextId(a) \notin held
           /\ Alloc(a) \in RecycleAllocators
           /\ Partitions(Alloc(a), held \cup {NextId(a)})
<1>1. a.current \in Nat /\ a.recycled \in Seq(Nat)
  BY DEF RecycleAllocators
<1>2. CASE a.recycled # <<>>
  <2>1. /\ Front(a.recycled) \in Seq(Nat) /\ IsInjective(Front(a.recycled))
        /\ ToSet(Front(a.recycled)) = ToSet(a.recycled) \ {Last(a.recycled)}
        /\ Last(a.recycled) \in ToSet(a.recycled) /\ Last(a.recycled) \in Nat
    BY <1>1, <1>2, FrontElements, SMTT(30) DEF Partitions
  <2>2. NextId(a) = Last(a.recycled)
    BY <1>2 DEF NextId
  <2>3. /\ Alloc(a) \in RecycleAllocators
        /\ Alloc(a).current = a.current
        /\ Alloc(a).recycled = Front(a.recycled)
    BY <1>1, <1>2, <2>1 DEF Alloc, RecycleAllocators
  <2> QED BY <2>1, <2>2, <2>3 DEF Partitions
<1>3. CASE a.recycled = <<>>
  <2>1. NextId(a) = a.current
    BY <1>3 DEF NextId
  <2>2. /\ Alloc(a) \in RecycleAllocators
        /\ Alloc(a).current = a.current + 1 /\ Alloc(a).recycled = <<>>
    BY <1>1, <1>3 DEF Alloc, RecycleAllocators
  <2>3. held = 0 .. a.current - 1
    BY <1>3, EmptyElements, ZenonT(40) DEF Partitions
  <2>4. /\ a.current \notin held
        /\ held \cup {a.current} = 0 .. (a.current + 1) - 1
    BY <1>1, <2>3
  <2> QED BY <1>1, <2>1, <2>2, <2>4, EmptyElements DEF Partitions
<1> QED BY <1>2, <1>3

\* RecycleAllocator::dealloc of a held identifier passes both assertions and
\* keeps the partition with that identifier removed from the held ones.
LEMMA DeallocKeepsPartition ==
    ASSUME NEW a \in RecycleAllocators, NEW held, Partitions(a, held),
           NEW id \in held
    PROVE  /\ DeallocAsserts(a, id)
           /\ Dealloc(a, id) \in RecycleAllocators
           /\ Partitions(Dealloc(a, id), held \ {id})
<1>1. a.current \in Nat /\ a.recycled \in Seq(Nat)
  BY DEF RecycleAllocators
<1>2. id \in 0 .. a.current - 1 /\ id \notin ToSet(a.recycled)
  BY DEF Partitions
<1>3. DeallocAsserts(a, id)
  BY <1>1, <1>2 DEF DeallocAsserts
<1>4. /\ Append(a.recycled, id) \in Seq(Nat)
      /\ ToSet(Append(a.recycled, id)) = ToSet(a.recycled) \cup {id}
      /\ IsInjective(Append(a.recycled, id))
  BY <1>1, <1>2, AppendElements DEF Partitions
<1>5. /\ Dealloc(a, id) \in RecycleAllocators
      /\ Dealloc(a, id).current = a.current
      /\ Dealloc(a, id).recycled = Append(a.recycled, id)
  BY <1>1, <1>4, ZenonT(40) DEF Dealloc, RecycleAllocators
<1> QED BY <1>2, <1>3, <1>4, <1>5 DEF Partitions
=============================================================================
