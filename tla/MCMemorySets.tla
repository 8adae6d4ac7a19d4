----------------------------- MODULE MCMemorySets -----------------------------
(***************************************************************************)
(* Pages of two bytes and two programs, one a page larger than the other,  *)
(* so that the heap of one starts where the other has its stack.           *)
(***************************************************************************)
EXTENDS MemoryRefinement

CONSTANTS p1, p2

Rank(S, x) == Cardinality({y \in S : y < x}) + 1

\* The lowest free frames, in the order of the pages.  Nothing in the model
\* compares frames, so that any other choice only renames them.
MCGrant(S, V) == [v \in V |-> CHOOSE f \in S : Rank(S, f) = Rank(V, v)]

Text(s, e, d) == [start |-> s, end |-> e, perm |-> {"R", "U"}, data |-> <<d>>]
Bss(s, e) == [start |-> s, end |-> e, perm |-> {"R", "W", "U"}, data |-> <<>>]

\* One process, with many arguments and no contents: alignment, partial pages,
\* ranges that touch or enclose the others, and permissions.
OneProc == {p1}
OneFrame == 0..11
OneSmall == <<Text(0, 1, 0)>>
OneBig == <<Text(0, 1, 0), Bss(1, 2)>>
OnePrograms == {OneSmall, OneBig}
OneAddrs == {2, 6, 7, 8}
OneLens == {0, 2, 3, 6}
OnePorts == {0, 1, 3, 8}
OneSizes == {-2, 1, 2}
NoAddrs == {}

\* Two processes, with contents and few arguments.
TwoProc == {p1, p2}
TwoFrame == 0..9
TwoSmall == <<Text(0, 1, 1)>>
TwoBig == <<Text(0, 1, 1), Bss(1, 2)>>
TwoPrograms == {TwoSmall, TwoBig}
TwoAddrs == {4, 7}
TwoLens == {0, 1, 6}
TwoPorts == {0, 3, 8}
TwoSizes == {-3, 1, 3}

(***************************************************************************)
(* Two states that differ only in the names of the frames have the same    *)
(* view: a frame is named by the first of the references to it.  The page  *)
(* table of a zombie is left out, as no action reads it, and so is where   *)
(* free frames hold old data, which every allocation clears.               *)
(***************************************************************************)
AreaRefs(a) == [k \in 1..(a.end - a.start) |-> a.data_frames[a.start + k - 1]]
Refs(p) ==
    <<root_ppn[p], trap_cx_ppn[p]>>
    \o FlattenSeq([i \in 1..Len(areas[p]) |-> AreaRefs(areas[p][i])])
    \o (IF status[p] = "live" THEN [v \in 1..TRAP_CONTEXT + 1 |-> page_table[p][v - 1]]
        ELSE <<>>)
AllRefs == FlattenSeq([i \in 1..Cardinality(Proc) |-> Refs(<<p1, p2>>[i])])
Named(refs) ==
    [i \in 1..Len(refs) |->
        IF refs[i] = None THEN <<>>
        ELSE <<CHOOSE j \in 1..i : refs[j] = refs[i] /\ \A k \in 1..(j - 1) : refs[k] # refs[i],
               mem[refs[i]], refs[i] \in free>>]
MCView ==
    <<status, heap_bottom, program_brk, panicked, Named(AllRefs),
      [p \in Proc |-> [i \in 1..Len(areas[p]) |->
          <<areas[p][i].start, areas[p][i].end, areas[p][i].perm>>]],
      Cardinality(free), \E f \in free : mem[f] # Zero>>
=============================================================================
