-------------------------- MODULE RecycleAllocator --------------------------
(***************************************************************************)
(* RecycleAllocator of os/src/task/id.rs: the allocator of process         *)
(* identifiers and of kernel-stack slots.  An allocator is a record of the *)
(* two fields of the Rust struct; the operators below are its methods.     *)
(* `recycled` is a stack: alloc pops the identifier freed last.            *)
(***************************************************************************)
EXTENDS Integers, Sequences, SequencesExt

RecycleAllocators == [current : Nat, recycled : Seq(Nat)]

\* RecycleAllocator::new
NewAllocator == [current |-> 0, recycled |-> <<>>]

\* An alloc that takes `current - 1` before it has counted up.
NextIdTooLow(a) == IF a.recycled # <<>> THEN Last(a.recycled) ELSE a.current - 1

\* The identifier that the next call of alloc returns.
NextId(a) == IF a.recycled # <<>> THEN Last(a.recycled) ELSE a.current

\* The allocator after alloc.
Alloc(a) ==
    IF a.recycled # <<>>
    THEN [a EXCEPT !.recycled = Front(@)]
    ELSE [a EXCEPT !.current = @ + 1]

\* The two assertions of dealloc.
DeallocAsserts(a, id) == id < a.current /\ id \notin ToSet(a.recycled)

\* A dealloc that pushes only while the stack is empty: identifiers leak.
DeallocLosesId(a, id) ==
    [a EXCEPT !.recycled = IF @ = <<>> THEN <<id>> ELSE @]

\* The allocator after dealloc.
Dealloc(a, id) == [a EXCEPT !.recycled = Append(@, id)]

(***************************************************************************)
(* What an allocator promises to the holders of its identifiers: every     *)
(* identifier below `current` is either held or waiting on the stack once, *)
(* never both, and none is lost.                                           *)
(***************************************************************************)
Partitions(a, held) ==
    /\ IsInjective(a.recycled)
    /\ held \cap ToSet(a.recycled) = {}
    /\ held \cup ToSet(a.recycled) = 0 .. a.current - 1
=============================================================================
