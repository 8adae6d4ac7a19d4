------------------------------ MODULE MemorySets ------------------------------
(***************************************************************************)
(* The address spaces of the processes: os/src/mm/memory_set.rs with       *)
(* page_table.rs, driven by mmap, munmap, sbrk, fork, exec, spawn, exit,   *)
(* the final drop of a TCB and the stores of the user.                     *)
(*                                                                         *)
(* Pages are numbered from 0; the user's are those below TRAP_CONTEXT.  A  *)
(* page table is the function from page to frame that its entries form; of *)
(* the frames of its nodes only the root is kept.  Which free frame a page *)
(* gets is up to Grant (the allocator is FrameAllocator).  The contents of *)
(* the trap context are left out.  A panic stops the kernel; panicked says *)
(* which operation it was in.  Calls that only return -1 or 0, and requests*)
(* for pages from TRAP_CONTEXT on, are no actions.                         *)
(***************************************************************************)
EXTENDS Integers, Sequences, FiniteSets, SequencesExt, Functions

CONSTANTS
    Proc, First,         \* TCBs, and the one of the first process
    None,
    Frame, Grant(_, _),  \* frames, and how free ones are given to pages
    PAGE_SIZE, StackPages,
    TRAP_CONTEXT,        \* page of the trap context, after the user's pages
    Zero, Data,          \* contents of a page
    Programs, InitProgram,
    Addrs, Lens, Ports,  \* arguments of mmap and munmap
    Sizes                \* arguments of sbrk

Page == 0..TRAP_CONTEXT
Root == -1               \* stands for the page table among what needs a frame
UserPerm == {"R", "W", "U"}
Perm == UserPerm \cup {"X"}
Pages(a) == a.start..(a.end - 1)

\* A program is its loadable segments, in the order of their addresses; data
\* is the contents of the pages that the file holds of a segment.
LastEnd(prog) == prog[Len(prog)].end

ASSUME MemoryAssumption ==
    /\ First \in Proc /\ None \notin Frame
    /\ PAGE_SIZE \in Nat \ {0} /\ StackPages \in Nat \ {0} /\ TRAP_CONTEXT \in Nat
    /\ Zero \in Data
    /\ InitProgram \in Programs
    /\ \A prog \in Programs :
          /\ prog \in Seq([start : Nat, end : Nat, perm : SUBSET Perm, data : Seq(Data)])
          /\ Len(prog) > 0
          /\ \A i \in 1..Len(prog) :
                /\ Len(prog[i].data) <= Cardinality(Pages(prog[i]))
                /\ prog[i].start < prog[i].end
                /\ i > 1 => prog[i - 1].end <= prog[i].start
          /\ LastEnd(prog) + 1 + StackPages < TRAP_CONTEXT

ASSUME GrantAssumption ==
    \A free \in SUBSET Frame, V \in SUBSET (Page \cup {Root}) :
        Cardinality(V) <= Cardinality(free) => Grant(free, V) \in Injection(V, free)

VARIABLES
    status,              \* "unused", "live" or "zombie"
    areas,               \* MemorySet.areas
    page_table,          \* the frame MemorySet.page_table maps each page to
    root_ppn,            \* and its root
    trap_cx_ppn,         \* the frame the kernel takes the trap context from
    heap_bottom, program_brk,
    mem,                 \* contents of the frames
    free,                \* frames the allocator can give
    panicked

spaceVars == <<areas, page_table, root_ppn, trap_cx_ppn>>
brkVars == <<heap_bottom, program_brk>>
vars == <<status, spaceVars, brkVars, mem, free, panicked>>

Running(p) == panicked = "no" /\ status[p] = "live"

Panic(where) ==
    panicked' = where /\ UNCHANGED <<status, spaceVars, brkVars, mem, free>>

\* VirtAddr::floor, ceil and aligned.
Floor(va) == va \div PAGE_SIZE
Ceil(va) == (va + PAGE_SIZE - 1) \div PAGE_SIZE
Aligned(va) == va % PAGE_SIZE = 0
-----------------------------------------------------------------------------
\* All pages of a vector of areas.
Covered(as) == UNION {Pages(as[i]) : i \in 1..Len(as)}

AreaOf(as, v) == CHOOSE i \in 1..Len(as) : v \in Pages(as[i])

\* MapArea::new or from_another, then map: the pages get the frames of g.
WithFrames(a, g) ==
    [start |-> a.start, end |-> a.end, perm |-> a.perm,
     data_frames |-> [v \in Pages(a) |-> g[v]]]

\* A tracker that leaves the frame as it was.
NotCleared(m, g) == m

\* FrameTracker::new clears what the frame was used for before.
Cleared(m, g) == [f \in Frame |-> IF f \in Range(g) THEN Zero ELSE m[f]]

\* All the frames that p holds: those of its areas, and the page table's.
AreaFrames(a) == Range(a.data_frames)
DataFrames(p) == UNION {AreaFrames(areas[p][i]) : i \in 1..Len(areas[p])}
HeldFrames(p) == IF status[p] = "unused" THEN {} ELSE DataFrames(p) \cup {root_ppn[p]}

\* The trap context is looked up in the new page table; not: in the old one.
OldTrapContext(p, g) == trap_cx_ppn[p]
NewTrapContext(p, g) == g[TRAP_CONTEXT]

\* A new MemorySet for p with the areas as, in the frames g, filled with c.
SetSpace(p, as, g, c) ==
    /\ areas' = [areas EXCEPT ![p] = [i \in 1..Len(as) |-> WithFrames(as[i], g)]]
    /\ page_table' = [page_table EXCEPT ![p] =
                        [v \in Page |-> IF v \in Covered(as) THEN g[v] ELSE None]]
    /\ root_ppn' = [root_ppn EXCEPT ![p] = g[Root]]
    /\ trap_cx_ppn' = [trap_cx_ppn EXCEPT ![p] = NewTrapContext(p, g)]
    /\ mem' = [f \in Frame |->
                 IF \E v \in Covered(as) : g[v] = f
                 THEN c[CHOOSE v \in Covered(as) : g[v] = f] ELSE Cleared(mem, g)[f]]

\* MemorySet::from_elf: segments, guard page, stack, empty heap, trap context.
UserSp(prog) == (LastEnd(prog) + 1 + StackPages) * PAGE_SIZE

\* With the area of the trap context a page too long.
ElfAreasTooLong(prog) ==
    << [start |-> prog[1].start, end |-> prog[1].end, perm |-> prog[1].perm],
       [start |-> LastEnd(prog) + 1, end |-> LastEnd(prog) + 1 + StackPages, perm |-> UserPerm],
       [start |-> TRAP_CONTEXT, end |-> TRAP_CONTEXT + 2, perm |-> {"R", "W"}] >>

ElfAreas(prog) ==
    LET bottom == LastEnd(prog) + 1
        top == bottom + StackPages
    IN  [i \in 1..Len(prog) |->
            [start |-> prog[i].start, end |-> prog[i].end, perm |-> prog[i].perm]]
        \o << [start |-> bottom, end |-> top, perm |-> UserPerm],
              [start |-> top, end |-> top, perm |-> UserPerm],
              [start |-> TRAP_CONTEXT, end |-> TRAP_CONTEXT + 1, perm |-> {"R", "W"}] >>

\* MapArea::copy_data of every segment, over the zeros of the new frames.
ElfContents(prog) ==
    [v \in Covered(ElfAreas(prog)) |->
        LET i == AreaOf(ElfAreas(prog), v)
            k == v - ElfAreas(prog)[i].start + 1
        IN  IF i <= Len(prog) /\ k <= Len(prog[i].data) THEN prog[i].data[k] ELSE Zero]

\* What a MemorySet with the areas as needs a frame for.
Needs(as) == Covered(as) \cup {Root}

Init ==
    LET as == ElfAreas(InitProgram)
        g == Grant(Frame, Needs(as))
        c == ElfContents(InitProgram)
    IN
    /\ status = [p \in Proc |-> IF p = First THEN "live" ELSE "unused"]
    /\ areas = [p \in Proc |->
                  IF p = First THEN [i \in 1..Len(as) |-> WithFrames(as[i], g)] ELSE <<>>]
    /\ page_table = [p \in Proc |->
                       [v \in Page |-> IF p = First /\ v \in Covered(as) THEN g[v] ELSE None]]
    /\ root_ppn = [p \in Proc |-> IF p = First THEN g[Root] ELSE None]
    /\ trap_cx_ppn = [p \in Proc |-> IF p = First THEN g[TRAP_CONTEXT] ELSE None]
    /\ heap_bottom = [p \in Proc |-> IF p = First THEN UserSp(InitProgram) ELSE 0]
    /\ program_brk = heap_bottom
    /\ mem = [f \in Frame |-> IF \E v \in Covered(as) : g[v] = f
                              THEN c[CHOOSE v \in Covered(as) : g[v] = f] ELSE Zero]
    /\ free = Frame \ Range(g)
    /\ panicked = "no"
-----------------------------------------------------------------------------
\* MemorySet::check_conflict.
CheckConflict(as, s, e) ==
    \E i \in 1..Len(as) :
        \/ as[i].start <= s /\ s < as[i].end
        \/ as[i].start < e /\ e <= as[i].end

\* Requests stay in the user's part of the address space.
InUserSpace(va) == va <= TRAP_CONTEXT * PAGE_SIZE

\* PTEFlags from the port argument; 0 and bits beyond the third are refused.
PortValid(port) == port \in 1..7
PortPerm(port) ==
    {"U"} \cup (IF port % 2 = 1 THEN {"R"} ELSE {})
          \cup (IF (port \div 2) % 2 = 1 THEN {"W"} ELSE {})
          \cup (IF (port \div 4) % 2 = 1 THEN {"X"} ELSE {})

\* MapArea::map for the pages V of p, once the frames have been found.
MapPages(p, V, g) ==
    /\ page_table' = [page_table EXCEPT ![p] =
                        [v \in Page |-> IF v \in V THEN g[v] ELSE @[v]]]
    /\ mem' = Cleared(mem, g)
    /\ free' = free \ Range(g)

\* map asserts that a page is not mapped, frame_alloc().unwrap() that there
\* are frames left.  (Which of the two a call that fails both meets first
\* depends on the order of the pages and is left out.)
IsMapped(p, V) == \E v \in V : page_table[p][v] # None
OutOfFrames(V) == Cardinality(V) > Cardinality(free)

\* A dealloc that forgets to record the frames as recycled.
FrameDeallocForgets(F) == UNCHANGED <<free, panicked>>

\* frame_dealloc of the frames F: it panics if one of them is free already.
FrameDealloc(F) ==
    /\ free' = free \cup F
    /\ panicked' = IF F \cap free = {} THEN panicked ELSE "dealloc"

\* An unmap that leaves the entries of the page table valid.
UnmapKeepsEntries(p, V, a) ==
    /\ UNCHANGED page_table
    /\ FrameDealloc({a.data_frames[v] : v \in V})

\* MapArea::unmap for the pages V of the area a of p, which asserts that they
\* are mapped.
UnmapPages(p, V, a) ==
    /\ page_table' = [page_table EXCEPT ![p] = [v \in Page |-> IF v \in V THEN None ELSE @[v]]]
    /\ IF \E v \in V : page_table[p][v] = None
       THEN free' = free /\ panicked' = "unmap"
       ELSE FrameDealloc({a.data_frames[v] : v \in V})

SysMmap(p, start, len, port) ==
    LET a == [start |-> Floor(start), end |-> Ceil(start + len), perm |-> PortPerm(port)]
        g == Grant(free, Pages(a))
    IN
    /\ Running(p)
    /\ InUserSpace(start + len)
    /\ len # 0 /\ PortValid(port) /\ Aligned(start)
    /\ ~CheckConflict(areas[p], a.start, a.end)
    /\ \/ IsMapped(p, Pages(a)) /\ Panic("mmap")
       \/ ~IsMapped(p, Pages(a)) /\ OutOfFrames(Pages(a)) /\ Panic("oom")
       \/ /\ ~IsMapped(p, Pages(a)) /\ ~OutOfFrames(Pages(a))
          /\ MapPages(p, Pages(a), g)
          /\ areas' = [areas EXCEPT ![p] = Append(@, WithFrames(a, g))]
          /\ UNCHANGED <<status, root_ppn, trap_cx_ppn, brkVars, panicked>>

IsFirst(i, S) == i \in S /\ \A j \in S : i <= j

\* The vector of areas after munmap; not: with the area still in it.
AreaKept(p, i) == areas[p]
AreaRemoved(p, i) == RemoveAt(areas[p], i)

\* remove_framed_area: the first area with exactly this range.
SysMunmap(p, start, len) ==
    LET exact == {i \in 1..Len(areas[p]) : /\ areas[p][i].start = Floor(start)
                                           /\ areas[p][i].end = Ceil(start + len)}
    IN
    /\ Running(p)
    /\ InUserSpace(start + len)
    /\ Aligned(start)
    /\ \E i \in exact :
          /\ IsFirst(i, exact)
          /\ UnmapPages(p, Pages(areas[p][i]), areas[p][i])
          /\ areas' = [areas EXCEPT ![p] = AreaRemoved(p, i)]
    /\ UNCHANGED <<status, root_ppn, trap_cx_ppn, brkVars, mem>>

\* MapArea::shrink_to and append_to for area i of p.
ShrinkTo(p, i, new_end) ==
    LET a == areas[p][i]
        V == new_end..(a.end - 1)
    IN
    /\ UnmapPages(p, V, a)
    /\ areas' = [areas EXCEPT ![p][i] =
                   [a EXCEPT !.end = new_end,
                             !.data_frames = [v \in a.start..(new_end - 1) |-> @[v]]]]
    /\ UNCHANGED mem

AppendTo(p, i, new_end) ==
    LET a == areas[p][i]
        V == a.end..(new_end - 1)
        g == Grant(free, V)
    IN
    /\ MapPages(p, V, g)
    /\ areas' = [areas EXCEPT ![p][i] =
                   [a EXCEPT !.end = new_end,
                             !.data_frames = [v \in a.start..(new_end - 1) |->
                                                IF v \in V THEN g[v] ELSE @[v]]]]
    /\ UNCHANGED panicked

\* change_program_brk: the heap is the first area that starts at heap_bottom.
SysSbrk(p, size) ==
    LET new_brk == program_brk[p] + size
        heap == {i \in 1..Len(areas[p]) : areas[p][i].start = Floor(heap_bottom[p])}
        new_end == Ceil(new_brk)
    IN
    /\ Running(p)
    /\ new_brk >= heap_bottom[p] /\ InUserSpace(new_brk)
    /\ \E i \in heap :
          /\ IsFirst(i, heap)
          /\ LET end == areas[p][i].end
                 V == end..(new_end - 1)
             IN
             \/ (IF size < 0 THEN new_end > end ELSE end > new_end) /\ Panic("sbrk")
             \/ size >= 0 /\ IsMapped(p, V) /\ Panic("sbrk")
             \/ size >= 0 /\ ~IsMapped(p, V) /\ OutOfFrames(V) /\ Panic("oom")
             \/ /\ \/ size < 0 /\ new_end <= end /\ ShrinkTo(p, i, new_end)
                   \/ /\ size >= 0 /\ end <= new_end /\ ~IsMapped(p, V) /\ ~OutOfFrames(V)
                      /\ AppendTo(p, i, new_end)
                /\ program_brk' = [program_brk EXCEPT ![p] = new_brk]
                /\ UNCHANGED <<status, root_ppn, trap_cx_ppn, heap_bottom>>
-----------------------------------------------------------------------------
\* MemorySet::from_existed_user: the areas of p, and what its pages hold.
Contents(p) == [v \in Covered(areas[p]) |-> mem[page_table[p][v]]]

\* TaskControlBlock::fork.
SysFork(p, q) ==
    LET g == Grant(free, Needs(areas[p])) IN
    /\ Running(p)
    /\ status[q] = "unused"
    /\ \/ OutOfFrames(Needs(areas[p])) /\ Panic("oom")
       \/ /\ ~OutOfFrames(Needs(areas[p]))
          /\ SetSpace(q, areas[p], g, Contents(p))
          /\ free' = free \ Range(g)
          /\ status' = [status EXCEPT ![q] = "live"]
          /\ heap_bottom' = [heap_bottom EXCEPT ![q] = heap_bottom[p]]
          /\ program_brk' = [program_brk EXCEPT ![q] = program_brk[p]]
          /\ UNCHANGED panicked

\* TaskControlBlock::spawn: a new program, with the break of the parent.
SysSpawn(p, q, prog) ==
    LET as == ElfAreas(prog)
        g == Grant(free, Needs(as))
    IN
    /\ Running(p)
    /\ status[q] = "unused"
    /\ \/ OutOfFrames(Needs(as)) /\ Panic("oom")
       \/ /\ ~OutOfFrames(Needs(as))
          /\ SetSpace(q, as, g, ElfContents(prog))
          /\ free' = free \ Range(g)
          /\ status' = [status EXCEPT ![q] = "live"]
          /\ heap_bottom' = [heap_bottom EXCEPT ![q] = heap_bottom[p]]
          /\ program_brk' = [program_brk EXCEPT ![q] = program_brk[p]]
          /\ UNCHANGED panicked

\* TaskControlBlock::exec: the new address space is built before the old one
\* is dropped; the break is left as it was.
SysExec(p, prog) ==
    LET as == ElfAreas(prog)
        g == Grant(free, Needs(as))
    IN
    /\ Running(p)
    /\ \/ OutOfFrames(Needs(as)) /\ Panic("oom")
       \/ /\ ~OutOfFrames(Needs(as))
          /\ SetSpace(p, as, g, ElfContents(prog))
          /\ free' = (free \ Range(g)) \cup HeldFrames(p)
          /\ panicked' = IF HeldFrames(p) \cap free = {} THEN panicked ELSE "dealloc"
          /\ UNCHANGED <<status, brkVars>>

\* exit_current_and_run_next: recycle_data_pages drops the areas; the page
\* table stays as it is until the parent has waited.
Exit(p) ==
    /\ Running(p)
    /\ p # First
    /\ status' = [status EXCEPT ![p] = "zombie"]
    /\ areas' = [areas EXCEPT ![p] = <<>>]
    /\ FrameDealloc(DataFrames(p))
    /\ UNCHANGED <<page_table, root_ppn, trap_cx_ppn, brkVars, mem>>

\* sys_waitpid drops the TCB, and with it the MemorySet.
Reap(p) ==
    /\ panicked = "no"
    /\ status[p] = "zombie"
    /\ FrameDealloc(HeldFrames(p))
    /\ status' = [status EXCEPT ![p] = "unused"]
    /\ page_table' = [page_table EXCEPT ![p] = [v \in Page |-> None]]
    /\ root_ppn' = [root_ppn EXCEPT ![p] = None]
    /\ trap_cx_ppn' = [trap_cx_ppn EXCEPT ![p] = None]
    /\ heap_bottom' = [heap_bottom EXCEPT ![p] = 0]
    /\ program_brk' = [program_brk EXCEPT ![p] = 0]
    /\ UNCHANGED <<areas, mem>>

\* The user writes to one of its pages, through the page table.
Store(p, v, d) ==
    /\ Running(p)
    /\ page_table[p][v] # None
    /\ {"W", "U"} \subseteq areas[p][AreaOf(areas[p], v)].perm
    /\ mem' = [mem EXCEPT ![page_table[p][v]] = d]
    /\ UNCHANGED <<status, spaceVars, brkVars, free, panicked>>

\* After a panic nothing happens any more.
Halted == panicked # "no" /\ UNCHANGED vars

Step(p) ==
    \/ \E start \in Addrs, len \in Lens :
          \/ \E port \in Ports : SysMmap(p, start, len, port)
          \/ SysMunmap(p, start, len)
    \/ \E size \in Sizes : SysSbrk(p, size)
    \/ \E q \in Proc : SysFork(p, q)
    \/ \E prog \in Programs : SysExec(p, prog) \/ \E q \in Proc : SysSpawn(p, q, prog)
    \/ Exit(p)
    \/ Reap(p)
    \/ \E v \in Page, d \in Data : Store(p, v, d)

Next == (\E p \in Proc : Step(p)) \/ Halted

Spec == Init /\ [][Next]_vars
-----------------------------------------------------------------------------
\* The types of the fields of the TCBs and of the frames.
TypeOK ==
    /\ status \in [Proc -> {"unused", "live", "zombie"}]
    /\ DOMAIN areas = Proc
    /\ \A p \in Proc : \A i \in 1..Len(areas[p]) :
          LET a == areas[p][i] IN
          /\ a.start \in Nat /\ a.end \in Nat /\ a.start <= a.end /\ a.end <= TRAP_CONTEXT + 1
          /\ a.perm \subseteq Perm
          /\ a.data_frames \in [Pages(a) -> Frame]
    /\ page_table \in [Proc -> [Page -> Frame \cup {None}]]
    /\ root_ppn \in [Proc -> Frame \cup {None}]
    /\ trap_cx_ppn \in [Proc -> Frame \cup {None}]
    /\ heap_bottom \in [Proc -> Nat] /\ program_brk \in [Proc -> Nat]
    /\ mem \in [Frame -> Data]
    /\ free \in SUBSET Frame
    /\ panicked \in {"no", "oom", "mmap", "sbrk", "unmap", "dealloc"}

(***************************************************************************)
(* In a process that can run, the areas are disjoint, each page of an area *)
(* is mapped to the frame that the area owns, and nothing else is mapped,  *)
(* so that no page is reachable after its frame went back to the allocator.*)
(***************************************************************************)
MapsMatch ==
    \A p \in Proc : status[p] = "live" =>
        /\ \A i, j \in 1..Len(areas[p]) :
              i # j => Pages(areas[p][i]) \cap Pages(areas[p][j]) = {}
        /\ \A i \in 1..Len(areas[p]) :
              \A v \in Pages(areas[p][i]) : page_table[p][v] = areas[p][i].data_frames[v]
        /\ \A v \in Page : page_table[p][v] # None => v \in Covered(areas[p])

(***************************************************************************)
(* A frame is free or held exactly once, by one area of one process or as  *)
(* one page table: none is shared, handed out twice or lost.               *)
(***************************************************************************)
FramesPartitioned ==
    /\ \A p, q \in Proc : p # q => HeldFrames(p) \cap HeldFrames(q) = {}
    /\ \A p \in Proc :
          /\ HeldFrames(p) \cap free = {}
          /\ status[p] # "unused" =>
                /\ root_ppn[p] \notin DataFrames(p)
                /\ \A v, w \in Covered(areas[p]) :
                      v # w => areas[p][AreaOf(areas[p], v)].data_frames[v]
                                 # areas[p][AreaOf(areas[p], w)].data_frames[w]
    /\ Frame = free \cup UNION {HeldFrames(p) : p \in Proc}

\* The frame the kernel reads and writes registers in is the one that the page
\* table of the process maps for it, after fork, exec and spawn too.
TrapContextMapped ==
    \A p \in Proc : status[p] = "live" =>
        /\ trap_cx_ppn[p] # None
        /\ trap_cx_ppn[p] = page_table[p][TRAP_CONTEXT]

\* The checks of PageTable::unmap and of the allocator's dealloc never fail.
ReleasesAreValid == panicked \notin {"unmap", "dealloc"}

\* check_conflict detects whether the new region conflicts with the existing
\* ones: no mmap gets as far as mapping a page that is mapped.
ConflictsDetected == panicked # "mmap"

\* heap_bottom is the start of the area that from_elf made for sbrk, the last
\* but one, as long as mmap and munmap leave the areas alone.
HeapBottomIsHeap ==
    \A p \in Proc : status[p] = "live" =>
        areas[p][Len(areas[p]) - 1].start = Floor(heap_bottom[p])
=============================================================================
