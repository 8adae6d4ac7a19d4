------------------------------- MODULE UserCopy -------------------------------
(***************************************************************************)
(* Copies between the kernel and a process: translated_byte_buffer,        *)
(* translated_str, translated_refmut and UserBuffer of                     *)
(* os/src/mm/page_table.rs, and the system calls that use them.  The       *)
(* buffers that calls are given lie in pages that are mapped.              *)
(***************************************************************************)
EXTENDS Naturals, Sequences, FiniteSets, FiniteSetsExt, SequencesExt, Functions

CONSTANTS
    PAGE_SIZE,
    Pages, Frames,        \* pages 0..Pages-1 of the process, physical pages 0..Frames-1
    Byte,
    ReadData,             \* what a file can hold for read
    WriteLens,            \* lengths of the buffers of write
    TimeVal, Stat,        \* the bytes of the two structures
    TimeAddrs, StatAddrs  \* where a process has them

ASSUME UserCopyAssumption ==
    /\ PAGE_SIZE \in Nat \ {0} /\ Pages \in Nat /\ Frames \in Nat /\ Pages <= Frames
    /\ ReadData \subseteq Seq(Byte) /\ {TimeVal, Stat} \subseteq Seq(Byte) /\ 0 \in Byte
    /\ WriteLens \subseteq Nat

Addr == 0..Pages * PAGE_SIZE - 1
PhysAddr == 0..Frames * PAGE_SIZE - 1

VARIABLES
    page_table,           \* the frame of each page
    mem,                  \* physical memory
    taken,                \* bytes that the call just made took from the process
    stat_at               \* the address the call just made wrote a Stat to, or NoAddr

vars == <<page_table, mem, taken, stat_at>>

NoAddr == Pages * PAGE_SIZE

Init ==
    /\ page_table \in Injection(0..Pages - 1, 0..Frames - 1)
    /\ mem = [pa \in PhysAddr |-> 0]
    /\ taken = <<>>
    /\ stat_at = NoAddr

\* VirtAddr: floor and page_offset.
Floor(va) == va \div PAGE_SIZE
PageOffset(va) == va % PAGE_SIZE

\* translate_va.
TranslateVa(va) == page_table[Floor(va)] * PAGE_SIZE + PageOffset(va)

\* The end of a slice; not: the offset of its end, which is 0 at the end of a page.
SliceEndOffset(end_va) == PageOffset(end_va)
SliceEnd(end_va) == IF PageOffset(end_va) = 0 THEN PAGE_SIZE ELSE PageOffset(end_va)

\* translated_byte_buffer: the slices, each as the physical addresses it has.
TranslatedByteBuffer(ptr, len) ==
    LET end == ptr + len
        Slices[start \in 0..end] ==
            IF start >= end THEN <<>>
            ELSE LET vpn == Floor(start)
                     end_va == Min({(vpn + 1) * PAGE_SIZE, end})
                     from == PageOffset(start)
                 IN  <<[k \in 1..SliceEnd(end_va) - from |->
                           page_table[vpn] * PAGE_SIZE + from + k - 1]>>
                     \o Slices[end_va]
    IN  Slices[ptr]

Fits(va, len) == va + len <= Pages * PAGE_SIZE

\* Physical memory with bytes at the addresses of a slice.
Put(m, slice, bytes) ==
    [pa \in PhysAddr |->
        IF \E k \in 1..Len(slice) : slice[k] = pa
        THEN bytes[CHOOSE k \in 1..Len(slice) : slice[k] = pa]
        ELSE m[pa]]

\* OSInode::read gives each slice the bytes that follow those of the slices before.
SysRead(va, data) ==
    /\ Fits(va, Len(data))
    /\ mem' = Put(mem, FlattenSeq(TranslatedByteBuffer(va, Len(data))), data)
    /\ stat_at' = NoAddr
    /\ taken' = <<>>
    /\ UNCHANGED page_table

\* OSInode::write and Stdout take the slices one after the other.
SysWrite(va, len) ==
    /\ Fits(va, len)
    /\ LET at == FlattenSeq(TranslatedByteBuffer(va, len))
       IN  taken' = [k \in 1..Len(at) |-> mem[at[k]]]
    /\ stat_at' = NoAddr
    /\ UNCHANGED <<page_table, mem>>

\* translated_str: every byte is translated; only strings that end are passed.
TranslatedStr(va) ==
    LET Ends == {n \in 0..Pages * PAGE_SIZE - 1 - va : mem[TranslateVa(va + n)] = 0}
    IN  /\ Ends # {}
        /\ taken' = [k \in 1..Min(Ends) |-> mem[TranslateVa(va + k - 1)]]
        /\ stat_at' = NoAddr
        /\ UNCHANGED <<page_table, mem>>

\* sys_get_time, and sys_task_info in the same way: translated_refmut is the
\* physical address of the first byte, and the structure is stored from there.
SysGetTime(va) ==
    /\ Fits(va, Len(TimeVal))
    /\ TranslateVa(va) + Len(TimeVal) - 1 \in PhysAddr
    /\ mem' = Put(mem, [k \in 1..Len(TimeVal) |-> TranslateVa(va) + k - 1], TimeVal)
    /\ stat_at' = NoAddr
    /\ taken' = <<>>
    /\ UNCHANGED page_table

\* sys_fstat: slice idx gets the bytes of Stat from byte idx on.
SysFstat(va) ==
    LET slices == TranslatedByteBuffer(va, Len(Stat)) IN
    /\ Fits(va, Len(Stat))
    /\ mem' = FoldLeftDomain(
                 LAMBDA m, i : Put(m, slices[i], [k \in 1..Len(slices[i]) |-> Stat[i - 1 + k]]),
                 mem, slices)
    /\ stat_at' = va
    /\ taken' = <<>>
    /\ UNCHANGED page_table

Next ==
    \/ \E va \in Addr :
          \/ \E data \in ReadData : SysRead(va, data)
          \/ \E len \in WriteLens : SysWrite(va, len)
          \/ TranslatedStr(va)
    \/ \E va \in TimeAddrs : SysGetTime(va)
    \/ \E va \in StatAddrs : SysFstat(va)

Spec == Init /\ [][Next]_vars
-----------------------------------------------------------------------------
\* What the process sees, and the memory of others.
View == [va \in Addr |-> mem[TranslateVa(va)]]
Rest == [pa \in {pa \in PhysAddr : Floor(pa) \notin Range(page_table)} |-> mem[pa]]

User == INSTANCE UserMemory WITH view <- View, rest <- Rest

\* read, write, the paths of calls and structures within a page go to and come
\* from consecutive addresses of the process, over all page boundaries and
\* whatever frames its pages have, and no other memory changes.
ImplementsUserMemory ==
    [][ \E va \in Addr :
          \/ \E data \in ReadData \cup {TimeVal, Stat} : User!CopyOut(va, data)
          \/ \E len \in WriteLens : User!CopyIn(va, len)
          \/ \E n \in 0..Pages * PAGE_SIZE : User!CopyInString(va, n)
      ]_<<View, Rest, taken>>

\* "copy data from kernel space to user space" (os/src/syscall/fs.rs): the
\* process finds the Stat of fstat where it asked for it.
StatDelivered ==
    stat_at # NoAddr => \A k \in 1..Len(Stat) : View[stat_at + k - 1] = Stat[k]
=============================================================================
