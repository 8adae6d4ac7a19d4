--------------------------- MODULE MemoryRefinement ---------------------------
(***************************************************************************)
(* The areas, page tables and frames of MemorySets implement PrivateMemory:*)
(* what a process sees in a page is what its page table leads to.          *)
(***************************************************************************)
EXTENDS MemorySets

UserPages(p) == {v \in Page \ {TRAP_CONTEXT} : page_table[p][v] # None}

spaceBar ==
    [p \in Proc |-> [v \in IF status[p] = "live" THEN UserPages(p) ELSE {} |->
                        mem[page_table[p][v]]]]

Image(prog) == Restrict(ElfContents(prog), (DOMAIN ElfContents(prog)) \ {TRAP_CONTEXT})

Private == INSTANCE PrivateMemory
               WITH space <- spaceBar, UserPage <- Page \ {TRAP_CONTEXT},
                    Images <- {Image(prog) : prog \in Programs}

(***************************************************************************)
(* A store, mmap, munmap, sbrk, fork, exec, spawn or exit of one process   *)
(* is never seen in the memory of another, a page that is mapped reads as  *)
(* zero whoever had its frame before, and fork copies every page.          *)
(***************************************************************************)
ImplementsPrivateMemory == Private!MemorySpec
=============================================================================
