-------------------------- MODULE ProcessRefinement --------------------------
(***************************************************************************)
(* The process subsystem implements ProcessTree: a pid stands for the TCB  *)
(* that holds it, and the queue, the processor, the order of the children  *)
(* and the allocators disappear.                                           *)
(***************************************************************************)
EXTENDS Processes

CONSTANT Pids

ASSUME PidsAssumption == Pids \subseteq Nat /\ 0 \in Pids

Holder(p) == {t \in Live : pid[t] = p}
TcbOf(p) == CHOOSE t \in Holder(p) : TRUE

stateBar ==
    [p \in Pids |-> IF Holder(p) = {} THEN "unused"
                    ELSE IF TcbOf(p) \in Alive THEN "alive" ELSE "zombie"]
ppidBar ==
    [p \in Pids |-> IF Holder(p) = {} \/ parent[TcbOf(p)] = None
                    THEN -1 ELSE pid[parent[TcbOf(p)]]]
codeBar ==
    [p \in Pids |-> IF Holder(p) = {} THEN 0 ELSE exit_code[TcbOf(p)]]

Tree == INSTANCE ProcessTree
            WITH state <- stateBar, ppid <- ppidBar, code <- codeBar,
                 result <- wait_result, down <- (panicked # "no"),
                 Codes <- AllCodes, WaitArgs <- WaitPids

(***************************************************************************)
(* Every behaviour of the TCBs, queues and allocators is one that the pid  *)
(* level allows; in particular sys_waitpid reports -1, -2 or a pid exactly *)
(* when its doc comment says so, and reports it for the right process.     *)
(***************************************************************************)
ImplementsTree == Tree!TreeSpec
=============================================================================
