----------------------------- MODULE ProcessTree -----------------------------
(***************************************************************************)
(* What the process system calls promise to applications, in terms of pids *)
(* only: processes form a tree under pid 0, an exit leaves a zombie with a *)
(* code and hands the children to pid 0, and waitpid answers as its doc    *)
(* comment says (syscall/process.rs).  No TCBs, queues or vectors.         *)
(***************************************************************************)
EXTENDS Integers

CONSTANTS Pids, Codes, WaitArgs

VARIABLES state,   \* per pid: "unused", "alive" or "zombie"
          ppid,    \* per pid: the parent, -1 for none
          code,    \* per pid: the exit code of a zombie
          result,  \* <<returned, code>> of the last waitpid
          down     \* the kernel has stopped

treeVars == <<state, ppid, code, result, down>>

TreeInit ==
    /\ state = [p \in Pids |-> IF p = 0 THEN "alive" ELSE "unused"]
    /\ ppid = [p \in Pids |-> -1]
    /\ code = [p \in Pids |-> 0]
    /\ result = <<0, 0>>
    /\ down = FALSE

ChildrenOf(p) == {q \in Pids : state[q] # "unused" /\ ppid[q] = p}
WaitedFor(p, arg) == {q \in ChildrenOf(p) : arg = -1 \/ arg = q}

Fork(p, q) ==
    /\ state[p] = "alive" /\ state[q] = "unused"
    /\ state' = [state EXCEPT ![q] = "alive"]
    /\ ppid' = [ppid EXCEPT ![q] = p]
    /\ UNCHANGED <<code, result, down>>

Exit(p, c) ==
    /\ p # 0 /\ state[p] = "alive"
    /\ state' = [state EXCEPT ![p] = "zombie"]
    /\ code' = [code EXCEPT ![p] = c]
    /\ ppid' = [q \in Pids |-> IF q \in ChildrenOf(p) THEN 0 ELSE ppid[q]]
    /\ UNCHANGED <<result, down>>

\* "If there is not a child process whose pid is same as given, return -1.
\* Else if there is a child process but it is still running, return -2."
Wait(p, arg) ==
    /\ state[p] = "alive"
    /\ \/ /\ WaitedFor(p, arg) = {}
          /\ result' = <<-1, 0>>
          /\ UNCHANGED <<state, ppid, code>>
       \/ /\ WaitedFor(p, arg) # {}
          /\ \A q \in WaitedFor(p, arg) : state[q] = "alive"
          /\ result' = <<-2, 0>>
          /\ UNCHANGED <<state, ppid, code>>
       \/ \E q \in WaitedFor(p, arg) :
             /\ state[q] = "zombie"
             /\ result' = <<q, code[q]>>
             /\ state' = [state EXCEPT ![q] = "unused"]
             /\ ppid' = [ppid EXCEPT ![q] = -1]
             /\ code' = [code EXCEPT ![q] = 0]
    /\ UNCHANGED down

\* The process with pid 0 ends, and the system with it.
Shutdown ==
    /\ state[0] = "alive"
    /\ down' = TRUE
    /\ UNCHANGED <<state, ppid, code, result>>

TreeNext ==
    /\ ~down
    /\ \/ \E p, q \in Pids : Fork(p, q)
       \/ \E p \in Pids, c \in Codes : Exit(p, c)
       \/ \E p \in Pids, arg \in WaitArgs : Wait(p, arg)
       \/ Shutdown

TreeSpec == TreeInit /\ [][TreeNext]_treeVars
=============================================================================
