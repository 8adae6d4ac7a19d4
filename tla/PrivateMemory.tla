---------------------------- MODULE PrivateMemory ----------------------------
(***************************************************************************)
(* What the address spaces promise to a user: each process has a memory of *)
(* its own.  It changes by what the process itself does; new pages read as *)
(* zero, a forked child starts with a copy, and a program with its image.  *)
(***************************************************************************)
EXTENDS Functions

CONSTANTS Proc, UserPage, Zero, Data, Images

VARIABLE space   \* for each process, the contents of the pages it has

Nothing == [v \in {} |-> Zero]

MemoryInit ==
    \E p \in Proc, image \in Images :
        space = [q \in Proc |-> IF q = p THEN image ELSE Nothing]

MapZeroed(p, V) ==
    /\ V \cap DOMAIN space[p] = {}
    /\ space' = [space EXCEPT ![p] = [v \in V \cup DOMAIN @ |->
                                        IF v \in V THEN Zero ELSE @[v]]]

Unmap(p, V) ==
    /\ V \subseteq DOMAIN space[p]
    /\ space' = [space EXCEPT ![p] = Restrict(@, (DOMAIN @) \ V)]

Write(p, v, d) ==
    /\ v \in DOMAIN space[p]
    /\ space' = [space EXCEPT ![p][v] = d]

Copy(p, q) ==
    /\ space[q] = Nothing
    /\ space' = [space EXCEPT ![q] = space[p]]

Load(p, image) == space' = [space EXCEPT ![p] = image]

Drop(p) == space' = [space EXCEPT ![p] = Nothing]

MemoryNext ==
    \E p \in Proc :
        \/ \E V \in SUBSET UserPage : MapZeroed(p, V) \/ Unmap(p, V)
        \/ \E v \in UserPage, d \in Data : Write(p, v, d)
        \/ \E q \in Proc : Copy(p, q)
        \/ \E image \in Images : Load(p, image)
        \/ Drop(p)

MemorySpec == MemoryInit /\ [][MemoryNext]_space
=============================================================================
