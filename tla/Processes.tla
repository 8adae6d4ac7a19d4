------------------------------ MODULE Processes ------------------------------
(***************************************************************************)
(* The process subsystem of os/src/task: task control blocks (TCBs) with   *)
(* their parent and children links, the FIFO ready queue, the processor,   *)
(* the pid and kernel-stack allocators, and the traps and system calls     *)
(* that change them (fork, spawn, exit, waitpid, yield, the timer, faults  *)
(* and a read of the console that suspends inside the kernel).             *)
(*                                                                         *)
(* The kernel runs on one hart and takes no trap in supervisor mode        *)
(* (trap_from_kernel panics), so a handler runs to its end or to its next  *)
(* call of schedule: that stretch is one action.  Tcb is the set of heap   *)
(* slots a TCB can occupy; a slot is reused once its TCB is dropped.       *)
(* Address spaces and descriptor tables are not part of this module.       *)
(***************************************************************************)
EXTENDS Integers, FiniteSets, RecycleAllocator

CONSTANTS Tcb,        \* slots for task control blocks
          INITPROC,   \* the slot of the initial process
          None,       \* Option::None where a TCB could be
          ExitCodes,  \* codes applications pass to sys_exit
          WaitPids    \* pids applications pass to sys_waitpid

ASSUME ProcessAssumption ==
    /\ INITPROC \in Tcb
    /\ None \notin Tcb
    /\ ExitCodes \subseteq Int
    /\ WaitPids \subseteq Int

VARIABLES
    \* TaskControlBlock and TaskControlBlockInner, per slot
    task_status, parent, children, exit_code, pid, kstack,
    \* TASK_MANAGER and PROCESSOR
    ready_queue, current,
    \* id.rs
    PID_ALLOCATOR, KSTACK_ALLOCATOR,
    \* tasks whose kernel stack is inside the loop of Stdin::read
    in_read,
    \* <<return value, exit code written>> of the last sys_waitpid
    wait_result,
    \* "no", "completed" (the initial process exited) or "assertion"
    panicked

tcbVars == <<task_status, parent, children, exit_code, pid, kstack>>
schedVars == <<ready_queue, current>>
idVars == <<PID_ALLOCATOR, KSTACK_ALLOCATOR>>
vars == <<tcbVars, schedVars, idVars, in_read, wait_result, panicked>>

IDLE_PID == 0
PageFaultCode == -2
IllegalInstructionCode == -3
AllCodes == ExitCodes \cup {0, PageFaultCode, IllegalInstructionCode}

TaskStatus == {"Ready", "Running", "Zombie"}

\* Slots that hold a TCB, and those whose process has not exited.
Live == {t \in Tcb : task_status[t] # "Dropped"}
Alive == {t \in Tcb : task_status[t] \in {"Ready", "Running"}}

(***************************************************************************)
(* The strong references to a TCB, by the place that holds them: the ready *)
(* queue, the processor, a children vector, the local `task` of a sys_read *)
(* that is suspended on its own kernel stack.                              *)
(***************************************************************************)
StrongRefs(t) ==
    {<<"queue", i>> : i \in {j \in 1..Len(ready_queue) : ready_queue[j] = t}}
    \cup {<<"current", 0>> : x \in {current} \cap {t}}
    \cup {<<"read", 0>> : x \in in_read \cap {t}}
    \cup UNION {{<<u, i>> : i \in {j \in 1..Len(children[u]) : children[u][j] = t}}
                  : u \in Tcb}
-----------------------------------------------------------------------------
(***************************************************************************)
(* Boot: add_initproc creates INITPROC, with the first pid and the first   *)
(* kernel stack, and puts it in the ready queue.                           *)
(***************************************************************************)
Init ==
    /\ task_status = [t \in Tcb |-> IF t = INITPROC THEN "Ready" ELSE "Dropped"]
    /\ parent = [t \in Tcb |-> None]
    /\ children = [t \in Tcb |-> <<>>]
    /\ exit_code = [t \in Tcb |-> 0]
    /\ pid = [t \in Tcb |-> NextId(NewAllocator)]
    /\ kstack = [t \in Tcb |-> NextId(NewAllocator)]
    /\ ready_queue = <<INITPROC>>
    /\ current = None
    /\ PID_ALLOCATOR = Alloc(NewAllocator)
    /\ KSTACK_ALLOCATOR = Alloc(NewAllocator)
    /\ in_read = {}
    /\ wait_result = <<0, 0>>
    /\ panicked = "no"

\* The task t executes in user mode: it can trap.
InUser(t) == panicked = "no" /\ current = t /\ t \in Tcb /\ t \notin in_read

\* TaskManager::add with push_front: the task suspended last runs next.
AddTaskInFront(q, t) == <<t>> \o q

\* A task that is never put back.
AddTaskForgotten(q, t) == q

\* TaskManager::add
AddTask(q, t) == Append(q, t)

\* One round of the loop of run_tasks: fetch_task and switch to the task.
\* With an empty queue the loop only logs a warning.
RunTasks ==
    /\ panicked = "no"
    /\ current = None
    /\ ready_queue # <<>>
    /\ current' = Head(ready_queue)
    /\ ready_queue' = Tail(ready_queue)
    /\ task_status' = [task_status EXCEPT ![Head(ready_queue)] = "Running"]
    /\ UNCHANGED <<parent, children, exit_code, pid, kstack, idVars, in_read,
                   wait_result, panicked>>

\* suspend_current_and_run_next, up to the switch to the idle loop.
Suspend(t) ==
    /\ current' = None
    /\ task_status' = [task_status EXCEPT ![t] = "Ready"]
    /\ ready_queue' = AddTask(ready_queue, t)

SysYield(t) ==
    /\ InUser(t)
    /\ Suspend(t)
    /\ UNCHANGED <<parent, children, exit_code, pid, kstack, idVars, in_read,
                   wait_result, panicked>>

TimerInterrupt(t) ==
    /\ InUser(t)
    /\ Suspend(t)
    /\ UNCHANGED <<parent, children, exit_code, pid, kstack, idVars, in_read,
                   wait_result, panicked>>

\* Stdin::read finds no character, on entry or after a resumption: the task
\* gives up the processor with the loop, and its `task`, on its kernel stack.
StdinEmpty(t) ==
    /\ panicked = "no" /\ current = t /\ t \in Tcb
    /\ Suspend(t)
    /\ in_read' = in_read \cup {t}
    /\ UNCHANGED <<parent, children, exit_code, pid, kstack, idVars,
                   wait_result, panicked>>

\* A resumed Stdin::read finds a character: sys_read returns to user mode.
StdinReady(t) ==
    /\ panicked = "no" /\ current = t /\ t \in in_read
    /\ in_read' = in_read \ {t}
    /\ UNCHANGED <<tcbVars, schedVars, idVars, wait_result, panicked>>

\* TaskControlBlock::fork and ::spawn make the child c of t; add_task.
NewTask(t, c) ==
    /\ task_status[c] = "Dropped"
    /\ pid' = [pid EXCEPT ![c] = NextId(PID_ALLOCATOR)]
    /\ kstack' = [kstack EXCEPT ![c] = NextId(KSTACK_ALLOCATOR)]
    /\ PID_ALLOCATOR' = Alloc(PID_ALLOCATOR)
    /\ KSTACK_ALLOCATOR' = Alloc(KSTACK_ALLOCATOR)
    /\ task_status' = [task_status EXCEPT ![c] = "Ready"]
    /\ parent' = [parent EXCEPT ![c] = t]
    /\ children' = [children EXCEPT ![t] = Append(@, c)]
    /\ ready_queue' = AddTask(ready_queue, c)
    /\ UNCHANGED <<exit_code, current, in_read, wait_result, panicked>>

SysFork(t, c) == InUser(t) /\ NewTask(t, c)

\* The branch of sys_spawn that finds the application; otherwise it returns
\* -1 and changes nothing.
SysSpawn(t, c) == InUser(t) /\ NewTask(t, c)

\* The initial process exits: "All applications completed!".
InitprocExit(t) ==
    /\ InUser(t)
    /\ pid[t] = IDLE_PID
    /\ current' = None
    /\ panicked' = "completed"
    /\ UNCHANGED <<tcbVars, ready_queue, idVars, in_read, wait_result>>

\* Orphans keep pointing at the TCB that exits.
ParentsKept(t) == parent

\* The loop of exit over the children: their parent becomes INITPROC.
ParentsAfterExit(t) ==
    [c \in Tcb |-> IF c \in ToSet(children[t]) THEN INITPROC ELSE parent[c]]

\* No children.clear(): the zombie keeps its references.
ChildrenNotCleared(t) == [children EXCEPT ![INITPROC] = @ \o children[t]]

\* Orphans that have exited already are not handed over.
ChildrenAliveOnly(t) ==
    [children EXCEPT ![INITPROC] = @ \o SelectSeq(children[t], LAMBDA c : c \in Alive),
                     ![t] = <<>>]

\* The same loop pushes them on INITPROC in their order; children.clear().
ChildrenAfterExit(t) ==
    [children EXCEPT ![INITPROC] = @ \o children[t], ![t] = <<>>]

\* exit_current_and_run_next.  The TCB stays, held by its parent's children.
ExitCurrent(t, code) ==
    /\ InUser(t)
    /\ pid[t] # IDLE_PID
    /\ current' = None
    /\ task_status' = [task_status EXCEPT ![t] = "Zombie"]
    /\ exit_code' = [exit_code EXCEPT ![t] = code]
    /\ parent' = ParentsAfterExit(t)
    /\ children' = ChildrenAfterExit(t)
    /\ UNCHANGED <<pid, kstack, ready_queue, idVars, in_read, wait_result,
                   panicked>>

SysExit(t, code) == ExitCurrent(t, code)
PageFault(t) == ExitCurrent(t, PageFaultCode)
IllegalInstruction(t) == ExitCurrent(t, IllegalInstructionCode)

\* The positions in t's children that sys_waitpid(p) looks at.
Matching(t, p) ==
    {i \in 1..Len(children[t]) : p = -1 \/ p = pid[children[t][i]]}

\* A search that takes a child by its pid alone, exited or not.
ReapableByPid(t, p) == Matching(t, p)

Reapable(t, p) ==
    {i \in Matching(t, p) : task_status[children[t][i]] = "Zombie"}

\* sys_waitpid when no child matches.
WaitNoChild(t, p) ==
    /\ InUser(t)
    /\ Matching(t, p) = {}
    /\ wait_result' = <<-1, 0>>
    /\ UNCHANGED <<tcbVars, schedVars, idVars, in_read, panicked>>

\* sys_waitpid when every matching child still runs.
WaitRunning(t, p) ==
    /\ InUser(t)
    /\ Matching(t, p) # {}
    /\ Reapable(t, p) = {}
    /\ wait_result' = <<-2, 0>>
    /\ UNCHANGED <<tcbVars, schedVars, idVars, in_read, panicked>>

\* A kernel stack without its Drop: the slot is never returned.
DropKernelStackLeaks(c) == KSTACK_ALLOCATOR

\* Drop of KernelStack
DropKernelStack(c) == Dealloc(KSTACK_ALLOCATOR, kstack[c])

\* Drop of PidHandle
DropPidHandle(c) == Dealloc(PID_ALLOCATOR, pid[c])

\* sys_waitpid takes the first matching zombie out of the children, asserts
\* that this was the last reference and drops the TCB with its pid and stack.
WaitReap(t, p) ==
    /\ InUser(t)
    /\ \E idx \in Reapable(t, p) : LET c == children[t][idx] IN
          /\ \A j \in Reapable(t, p) : idx <= j
          /\ children' = [children EXCEPT ![t] = RemoveAt(@, idx)]
          /\ wait_result' = <<pid[c], exit_code[c]>>
          /\ PID_ALLOCATOR' = DropPidHandle(c)
          /\ KSTACK_ALLOCATOR' = DropKernelStack(c)
          /\ task_status' = [task_status EXCEPT ![c] = "Dropped"]
          /\ parent' = [parent EXCEPT ![c] = None]
          /\ exit_code' = [exit_code EXCEPT ![c] = 0]
          /\ pid' = [pid EXCEPT ![c] = 0]
          /\ kstack' = [kstack EXCEPT ![c] = 0]
          /\ panicked' = IF /\ StrongRefs(c) = {<<t, idx>>}
                            /\ DeallocAsserts(PID_ALLOCATOR, pid[c])
                            /\ DeallocAsserts(KSTACK_ALLOCATOR, kstack[c])
                         THEN panicked ELSE "assertion"
    /\ UNCHANGED <<schedVars, in_read>>

SysWaitpid(t, p) == WaitNoChild(t, p) \/ WaitRunning(t, p) \/ WaitReap(t, p)

\* The panic handler has shut the machine down.
Halted == panicked # "no" /\ UNCHANGED vars

Step(t) ==
    \/ SysYield(t)
    \/ TimerInterrupt(t)
    \/ StdinEmpty(t)
    \/ StdinReady(t)
    \/ \E c \in Tcb : SysFork(t, c) \/ SysSpawn(t, c)
    \/ \E code \in ExitCodes : SysExit(t, code)
    \/ PageFault(t)
    \/ IllegalInstruction(t)
    \/ InitprocExit(t)
    \/ \E p \in WaitPids : SysWaitpid(t, p)

Next == RunTasks \/ Halted \/ \E t \in Tcb : Step(t)

Spec == Init /\ [][Next]_vars
-----------------------------------------------------------------------------
(***************************************************************************)
(* Fairness.  The idle loop, the kernel side of Stdin::read and the timer  *)
(* (re-armed by every timer trap) always go on; applications owe nothing.  *)
(***************************************************************************)
KernelProgress ==
    /\ WF_vars(RunTasks)
    /\ \A t \in Tcb : /\ WF_vars(TimerInterrupt(t))
                       /\ WF_vars(StdinReady(t) \/ (t \in in_read /\ StdinEmpty(t)))

FairSpec == Spec /\ KernelProgress
-----------------------------------------------------------------------------
\* The types of the TCB fields, of the queues and of the allocators.
TypeOK ==
    /\ task_status \in [Tcb -> TaskStatus \cup {"Dropped"}]
    /\ parent \in [Tcb -> Tcb \cup {None}]
    /\ children \in [Tcb -> Seq(Tcb)]
    /\ exit_code \in [Tcb -> AllCodes]
    /\ pid \in [Tcb -> Nat]
    /\ kstack \in [Tcb -> Nat]
    /\ ready_queue \in Seq(Tcb)
    /\ current \in Tcb \cup {None}
    /\ PID_ALLOCATOR \in RecycleAllocators
    /\ KSTACK_ALLOCATOR \in RecycleAllocators
    /\ in_read \subseteq Tcb
    /\ wait_result \in (Nat \cup {-1, -2}) \X AllCodes
    /\ panicked \in {"no", "completed", "assertion"}

(***************************************************************************)
(* run_tasks, suspend_current_and_run_next and exit_current_and_run_next   *)
(* agree on where a task is: a Ready task is in the ready queue, once; the *)
(* processor holds the Running task and no other; a zombie is in neither,  *)
(* and no zombie sits in the middle of a console read.                     *)
(***************************************************************************)
SchedulerConsistent ==
    /\ IsInjective(ready_queue)
    /\ ToSet(ready_queue) = {t \in Tcb : task_status[t] = "Ready"}
    /\ panicked # "completed" =>
           \A t \in Tcb : task_status[t] = "Running" <=> current = t
    /\ in_read \subseteq Alive

(***************************************************************************)
(* The children vectors and the Weak parent pointers describe one tree:    *)
(* a child is in one vector, once, that of its parent, and the parent has  *)
(* not exited; exit empties the vector of the process that leaves.         *)
(***************************************************************************)
TreeConsistent ==
    /\ \A u \in Tcb :
           /\ IsInjective(children[u])
           /\ ToSet(children[u]) = {c \in Live \ {INITPROC} : parent[c] = u}
    /\ \A c \in Live \ {INITPROC} : parent[c] \in Alive

(***************************************************************************)
(* Every process descends from INITPROC, so every exit code can be         *)
(* collected: no set of processes is cut off from the rest, whatever the   *)
(* order in which parents and children exit and are reaped.                *)
(***************************************************************************)
Rooted ==
    \A S \in SUBSET (Live \ {INITPROC}) :
        S # {} => \E c \in S : parent[c] \in Live \ S

(***************************************************************************)
(* The assertions of sys_waitpid (strong_count is 1: no queue, processor,  *)
(* vector or suspended kernel stack still refers to the TCB that is about  *)
(* to be dropped) and of RecycleAllocator::dealloc never fail.             *)
(***************************************************************************)
NoAssertionFails == panicked # "assertion"

(***************************************************************************)
(* Live TCBs, zombies included, have distinct pids and distinct kernel     *)
(* stacks; the allocators know exactly the identifiers that are in use, so *)
(* none is handed out twice and none is lost.                              *)
(***************************************************************************)
IdsPartitioned ==
    /\ \A t, u \in Live : pid[t] = pid[u] => t = u
    /\ \A t, u \in Live : kstack[t] = kstack[u] => t = u
    /\ Partitions(PID_ALLOCATOR, {pid[t] : t \in Live})
    /\ Partitions(KSTACK_ALLOCATOR, {kstack[t] : t \in Live})

(***************************************************************************)
(* id.rs: "the position of the application KernelStack is determined       *)
(* according to the PID".  The two allocators are separate, but every TCB  *)
(* takes from both and returns to both, so the numbers never drift apart.  *)
(***************************************************************************)
KstackFollowsPid ==
    /\ KSTACK_ALLOCATOR = PID_ALLOCATOR
    /\ \A t \in Live : kstack[t] = pid[t]

(***************************************************************************)
(* The idle loop never spins on an empty queue: while the kernel is up,    *)
(* INITPROC, which cannot leave without a shutdown, is there to be run.    *)
(***************************************************************************)
NeverIdle == panicked = "no" /\ current = None => ready_queue # <<>>

\* exit_current_and_run_next tells the initial process by its pid, 0: it keeps
\* that pid, nobody else has it, and it never becomes a zombie.
InitprocStays == INITPROC \in Alive /\ pid[INITPROC] = IDLE_PID

(***************************************************************************)
(* The inductive invariant: every step of Next keeps this conjunction, and *)
(* Rooted, NeverIdle and ExitReportedOnce rest on it.                      *)
(***************************************************************************)
ProcessInv ==
    /\ TypeOK
    /\ SchedulerConsistent
    /\ TreeConsistent
    /\ NoAssertionFails
    /\ IdsPartitioned
    /\ KstackFollowsPid
    /\ InitprocStays

(***************************************************************************)
(* An exit is final and reported once: a zombie keeps its pid and code,    *)
(* never runs again, and disappears only in the sys_waitpid of its parent  *)
(* that returns that pid and writes that code.                             *)
(***************************************************************************)
ExitReportedOnce ==
    [][\A c \in Tcb : task_status[c] = "Zombie" =>
          \/ /\ task_status'[c] = "Zombie"
             /\ pid'[c] = pid[c] /\ exit_code'[c] = exit_code[c]
          \/ /\ task_status'[c] = "Dropped"
             /\ parent[c] = current
             /\ wait_result' = <<pid[c], exit_code[c]>>]_vars

(***************************************************************************)
(* FIFO scheduling starves nobody: with the timer ticking, a Ready task    *)
(* eventually runs, whatever the other applications do.                    *)
(***************************************************************************)
ReadyRuns ==
    \A t \in Tcb : task_status[t] = "Ready" ~> current = t \/ panicked # "no"

\* The initial process is not stuck reading the console and keeps waiting for
\* any child (external: user code).
InitprocWaits ==
    /\ []<>(INITPROC \notin in_read)
    /\ SF_vars(WaitReap(INITPROC, -1))

(***************************************************************************)
(* If the initial process keeps calling waitpid(-1), every orphan that has *)
(* exited is reaped, also one that was a zombie when its parent exited.    *)
(***************************************************************************)
OrphansReaped ==
    InitprocWaits =>
        \A c \in Tcb : (task_status[c] = "Zombie" /\ parent[c] = INITPROC)
                         ~> (task_status[c] = "Dropped" \/ panicked # "no")
=============================================================================
