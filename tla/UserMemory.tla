------------------------------ MODULE UserMemory ------------------------------
(***************************************************************************)
(* What copying between the kernel and a process promises: bytes go to, or *)
(* come from, consecutive addresses as the process sees them, and nothing  *)
(* else in memory changes.                                                 *)
(***************************************************************************)
EXTENDS Naturals, Sequences

CONSTANTS Addr, Byte

VARIABLES view,     \* memory as the process sees it
          rest,     \* memory that the process does not see
          taken     \* bytes that the kernel just took from the process

Fits(va, n) == \A k \in 0..n - 1 : va + k \in Addr

CopyOut(va, bytes) ==
    /\ Fits(va, Len(bytes))
    /\ view' = [a \in Addr |-> IF a >= va /\ a < va + Len(bytes) THEN bytes[a - va + 1] ELSE view[a]]
    /\ taken' = <<>>
    /\ UNCHANGED rest

CopyIn(va, n) ==
    /\ Fits(va, n)
    /\ taken' = [k \in 1..n |-> view[va + k - 1]]
    /\ UNCHANGED <<view, rest>>

\* A string ends before the first zero.
CopyInString(va, n) ==
    /\ CopyIn(va, n)
    /\ va + n \in Addr /\ view[va + n] = 0
    /\ \A k \in 1..n : taken'[k] # 0
=============================================================================
