---------------------------- MODULE ProcessProofs ----------------------------
(***************************************************************************)
(* ProcessInv is inductive for Processes, for any number of TCB slots, any *)
(* exit codes and any waitpid arguments; the safety properties follow.     *)
(***************************************************************************)
EXTENDS Processes, RecycleAllocatorProofs

USE ProcessAssumption

\* add_initproc leaves one Ready process, alone in the queue and in the tree.
LEMMA InitEstablishes == Init => ProcessInv
<1> SUFFICES ASSUME Init PROVE ProcessInv
  OBVIOUS
<1>1. Live = {INITPROC} /\ Alive = {INITPROC}
  BY DEF Init, Live, Alive
<1>2. pid = [t \in Tcb |-> 0] /\ kstack = [t \in Tcb |-> 0]
  BY FirstAlloc DEF Init
<1>3. /\ <<INITPROC>> \in Seq(Tcb) /\ IsInjective(<<INITPROC>>)
      /\ ToSet(<<INITPROC>>) = {INITPROC}
  BY DEF IsInjective, ToSet
<1>4. TypeOK
  BY <1>2, <1>3, FirstAlloc, EmptyElements
     DEF Init, TypeOK, TaskStatus, AllCodes
<1>5. SchedulerConsistent
  BY <1>1, <1>3 DEF Init, SchedulerConsistent
<1>6. TreeConsistent
  BY <1>1, EmptyElements DEF Init, TreeConsistent
<1>7. IdsPartitioned
  <2>1. {pid[t] : t \in Live} = {0} /\ {kstack[t] : t \in Live} = {0}
    BY <1>1, <1>2
  <2> QED BY <1>1, <2>1, FirstAlloc, ZenonT(40) DEF Init, IdsPartitioned
<1>8. NoAssertionFails /\ KstackFollowsPid /\ InitprocStays
  BY <1>1, <1>2 DEF Init, NoAssertionFails, KstackFollowsPid, InitprocStays,
                    IDLE_PID
<1> QED BY <1>4, <1>5, <1>6, <1>7, <1>8 DEF ProcessInv

(***************************************************************************)
(* A step that changes no TCB field but the status, and moves no task      *)
(* between alive and exited or dropped, keeps the tree and the ids.        *)
(***************************************************************************)
LEMMA TreeAndIdsFramed ==
    ASSUME TreeConsistent, IdsPartitioned, KstackFollowsPid, InitprocStays,
           Live' = Live, Alive' = Alive,
           UNCHANGED <<parent, children, pid, kstack, idVars>>
    PROVE  TreeConsistent' /\ IdsPartitioned' /\ KstackFollowsPid'
           /\ InitprocStays'
<1>1. TreeConsistent'
  BY DEF TreeConsistent
<1>2. IdsPartitioned'
  BY DEF IdsPartitioned, idVars
<1>3. KstackFollowsPid' /\ InitprocStays'
  BY DEF KstackFollowsPid, InitprocStays, idVars
<1> QED BY <1>1, <1>2, <1>3

\* run_tasks moves the head of the queue to the processor.
LEMMA RunTasksKeeps ==
    ASSUME ProcessInv, RunTasks
    PROVE  ProcessInv'
<1> DEFINE h == Head(ready_queue)
<1>1. /\ TypeOK /\ SchedulerConsistent /\ TreeConsistent /\ IdsPartitioned
      /\ KstackFollowsPid /\ InitprocStays /\ NoAssertionFails
  BY DEF ProcessInv
<1>2. /\ Tail(ready_queue) \in Seq(Tcb) /\ IsInjective(Tail(ready_queue))
      /\ h \in Tcb /\ h \in ToSet(ready_queue)
      /\ ToSet(Tail(ready_queue)) = ToSet(ready_queue) \ {h}
  BY <1>1, TailElements, SMTT(30) DEF RunTasks, TypeOK, SchedulerConsistent
<1> HIDE DEF h
<1>3. /\ task_status[h] = "Ready"
      /\ task_status' = [task_status EXCEPT ![h] = "Running"]
      /\ ready_queue' = Tail(ready_queue) /\ current' = h
      /\ current = None /\ panicked = "no"
  BY <1>1, <1>2 DEF RunTasks, SchedulerConsistent, h
<1>4. TypeOK'
  BY <1>1, <1>2, <1>3, ZenonT(40) DEF TypeOK, RunTasks, TaskStatus, idVars
<1>5. Live' = Live /\ Alive' = Alive
  BY <1>1, <1>2, <1>3, SMTT(30) DEF TypeOK, Live, Alive
<1>6. \A t \in Tcb : task_status[t] # "Running"
  BY <1>1, <1>3 DEF SchedulerConsistent
<1>7. SchedulerConsistent'
  <2>1. ToSet(ready_queue') = {t \in Tcb : task_status'[t] = "Ready"}
    BY <1>1, <1>2, <1>3, SMTT(30) DEF SchedulerConsistent, TypeOK
  <2>2. \A t \in Tcb : task_status'[t] = "Running" <=> current' = t
    BY <1>1, <1>2, <1>3, <1>6, ZenonT(40) DEF TypeOK
  <2>3. in_read' \subseteq Alive'
    BY <1>1, <1>5 DEF SchedulerConsistent, RunTasks
  <2> QED BY <1>2, <1>3, <2>1, <2>2, <2>3 DEF SchedulerConsistent
<1>8. NoAssertionFails'
  BY <1>1 DEF NoAssertionFails, RunTasks
<1> QED BY <1>1, <1>4, <1>5, <1>7, <1>8, TreeAndIdsFramed, SMTT(30)
        DEF ProcessInv, RunTasks

\* suspend_current_and_run_next, from a trap or from inside Stdin::read, puts
\* the running task at the end of the queue.
LEMMA SuspendKeeps ==
    ASSUME ProcessInv, NEW t \in Tcb, current = t, panicked = "no", Suspend(t),
           in_read' = in_read \/ in_read' = in_read \cup {t},
           UNCHANGED <<parent, children, exit_code, pid, kstack, idVars,
                       wait_result, panicked>>
    PROVE  ProcessInv'
<1>1. /\ TypeOK /\ SchedulerConsistent /\ TreeConsistent /\ IdsPartitioned
      /\ KstackFollowsPid /\ InitprocStays /\ NoAssertionFails
  BY DEF ProcessInv
<1>2. /\ current' = None /\ ready_queue' = Append(ready_queue, t)
      /\ task_status' = [task_status EXCEPT ![t] = "Ready"]
  BY DEF Suspend, AddTask
<1>3. task_status[t] = "Running" /\ t \notin ToSet(ready_queue)
  BY <1>1 DEF SchedulerConsistent
<1>4. /\ ready_queue' \in Seq(Tcb) /\ IsInjective(ready_queue')
      /\ ToSet(ready_queue') = ToSet(ready_queue) \cup {t}
  BY <1>1, <1>2, <1>3, AppendElements DEF TypeOK, SchedulerConsistent
<1>5. TypeOK'
  BY <1>1, <1>2, <1>4, SMTT(30) DEF TypeOK, TaskStatus, idVars
<1>6. Live' = Live /\ Alive' = Alive /\ t \in Alive
  BY <1>1, <1>2, <1>3 DEF TypeOK, Live, Alive
<1>7. SchedulerConsistent'
  <2>1. ToSet(ready_queue') = {u \in Tcb : task_status'[u] = "Ready"}
    BY <1>1, <1>2, <1>4, SMTT(30) DEF SchedulerConsistent, TypeOK
  <2>2. \A u \in Tcb : task_status'[u] # "Running" /\ current' # u
    BY <1>1, <1>2 DEF SchedulerConsistent, TypeOK
  <2>3. in_read' \subseteq Alive'
    BY <1>1, <1>6 DEF SchedulerConsistent
  <2> QED BY <1>4, <2>1, <2>2, <2>3, SMTT(30) DEF SchedulerConsistent
<1>8. NoAssertionFails'
  BY <1>1 DEF NoAssertionFails
<1> QED BY <1>1, <1>5, <1>6, <1>7, <1>8, TreeAndIdsFramed, SMTT(30) DEF ProcessInv

\* Steps that only leave Stdin::read, record a result of sys_waitpid or do
\* nothing at all.
LEMMA QuietKeeps ==
    ASSUME ProcessInv, UNCHANGED <<tcbVars, schedVars, idVars, panicked>>,
           in_read' \subseteq in_read,
           wait_result' \in (Nat \cup {-1, -2}) \X AllCodes
    PROVE  ProcessInv'
<1>1. /\ TypeOK /\ SchedulerConsistent /\ TreeConsistent /\ IdsPartitioned
      /\ KstackFollowsPid /\ InitprocStays /\ NoAssertionFails
  BY DEF ProcessInv
<1>2. Live' = Live /\ Alive' = Alive
  BY DEF tcbVars, Live, Alive
<1>3. TypeOK'
  BY <1>1, SMTT(30) DEF TypeOK, tcbVars, schedVars, idVars
<1>4. SchedulerConsistent' /\ NoAssertionFails'
  BY <1>1, <1>2
     DEF SchedulerConsistent, NoAssertionFails, tcbVars, schedVars
<1> QED BY <1>1, <1>2, <1>3, <1>4, TreeAndIdsFramed, SMTT(30)
           DEF ProcessInv, tcbVars

\* The exit of the initial process stops the kernel.
LEMMA InitprocExitKeeps ==
    ASSUME ProcessInv, NEW t \in Tcb, InitprocExit(t)
    PROVE  ProcessInv'
<1>1. /\ TypeOK /\ SchedulerConsistent /\ TreeConsistent /\ IdsPartitioned
      /\ KstackFollowsPid /\ InitprocStays /\ NoAssertionFails
  BY DEF ProcessInv
<1>2. Live' = Live /\ Alive' = Alive
  BY DEF InitprocExit, tcbVars, Live, Alive
<1>3. TypeOK' /\ NoAssertionFails'
  BY <1>1, SMTT(30) DEF TypeOK, NoAssertionFails, InitprocExit, tcbVars, idVars
<1>4. SchedulerConsistent'
  BY <1>1, <1>2 DEF SchedulerConsistent, InitprocExit, tcbVars
<1> QED BY <1>1, <1>2, <1>3, <1>4, TreeAndIdsFramed
        DEF ProcessInv, InitprocExit, tcbVars

\* fork and spawn add a Ready leaf to the tree, with a fresh pid and stack.
LEMMA NewTaskKeeps ==
    ASSUME ProcessInv, NEW t \in Tcb, NEW c \in Tcb, InUser(t), NewTask(t, c)
    PROVE  ProcessInv'
<1> DEFINE id == NextId(PID_ALLOCATOR)
<1>1. /\ TypeOK /\ SchedulerConsistent /\ TreeConsistent /\ IdsPartitioned
      /\ KstackFollowsPid /\ InitprocStays /\ NoAssertionFails
  BY DEF ProcessInv
<1>2. /\ current = t /\ panicked = "no" /\ task_status[t] = "Running"
      /\ t \in Alive /\ t \in Live
  BY <1>1 DEF InUser, SchedulerConsistent, Live, Alive
<1>3. c \notin Live /\ c # t /\ c # INITPROC /\ c \notin ToSet(ready_queue)
  BY <1>1, <1>2 DEF NewTask, Live, Alive, InitprocStays, SchedulerConsistent
<1>4. Live' = Live \cup {c} /\ Alive' = Alive \cup {c}
  BY <1>1, SMTT(30) DEF NewTask, TypeOK, Live, Alive
<1>5. /\ ready_queue' \in Seq(Tcb) /\ IsInjective(ready_queue')
      /\ ToSet(ready_queue') = ToSet(ready_queue) \cup {c}
  BY <1>1, <1>3, AppendElements, SMTT(30)
     DEF NewTask, AddTask, TypeOK, SchedulerConsistent
<1>6. c \notin ToSet(children[t])
  BY <1>1, <1>3 DEF TreeConsistent
<1>7. /\ children'[t] \in Seq(Tcb) /\ IsInjective(children'[t])
      /\ ToSet(children'[t]) = ToSet(children[t]) \cup {c}
  <2>1. children'[t] = Append(children[t], c) /\ children[t] \in Seq(Tcb)
    BY <1>1 DEF NewTask, TypeOK
  <2> QED BY <1>1, <1>6, <2>1, AppendElements, SMTT(30) DEF TreeConsistent
<1>8. \A u \in Tcb \ {t} : children'[u] = children[u]
  BY <1>1 DEF NewTask, TypeOK
<1>9. /\ id \in Nat /\ id \notin {pid[u] : u \in Live}
      /\ PID_ALLOCATOR' \in RecycleAllocators
      /\ Partitions(PID_ALLOCATOR', {pid[u] : u \in Live} \cup {id})
  BY <1>1, AllocKeepsPartition, ZenonT(40) DEF NewTask, TypeOK, IdsPartitioned
<1>10. /\ NextId(KSTACK_ALLOCATOR) = id /\ KSTACK_ALLOCATOR' = PID_ALLOCATOR'
       /\ pid' = [pid EXCEPT ![c] = id] /\ kstack' = [kstack EXCEPT ![c] = id]
  BY <1>1 DEF NewTask, KstackFollowsPid
<1> HIDE DEF id
<1>11. TypeOK'
  <2>1. children' \in [Tcb -> Seq(Tcb)]
    BY <1>1, <1>7 DEF TypeOK, NewTask
  <2>2. /\ task_status' \in [Tcb -> TaskStatus \cup {"Dropped"}]
        /\ parent' \in [Tcb -> Tcb \cup {None}]
    BY <1>1, ZenonT(40) DEF TypeOK, NewTask, TaskStatus
  <2>3. pid' \in [Tcb -> Nat] /\ kstack' \in [Tcb -> Nat]
    BY <1>1, <1>9, <1>10 DEF TypeOK
  <2>4. UNCHANGED <<exit_code, current, in_read, wait_result, panicked>>
    BY DEF NewTask
  <2> QED BY <1>1, <1>5, <1>9, <1>10, <2>1, <2>2, <2>3, <2>4, ZenonT(40)
             DEF TypeOK
<1>12. SchedulerConsistent'
  <2>1. ToSet(ready_queue') = {u \in Tcb : task_status'[u] = "Ready"}
    BY <1>1, <1>5, SMTT(30) DEF SchedulerConsistent, TypeOK, NewTask
  <2>2. \A u \in Tcb : task_status'[u] = "Running" <=> current' = u
    BY <1>1, <1>2, <1>3 DEF SchedulerConsistent, TypeOK, NewTask
  <2>3. in_read' \subseteq Alive'
    BY <1>1, <1>4, SMTT(30) DEF SchedulerConsistent, NewTask
  <2> QED BY <1>5, <2>1, <2>2, <2>3 DEF SchedulerConsistent
<1>13. TreeConsistent'
  <2>1. parent'[c] = t /\ \A u \in Tcb \ {c} : parent'[u] = parent[u]
    BY <1>1 DEF NewTask, TypeOK
  <2>2. \A u \in Tcb : IsInjective(children'[u])
    BY <1>1, <1>7, <1>8, SMTT(30) DEF TreeConsistent
  <2>3. ASSUME NEW u \in Tcb
        PROVE  ToSet(children'[u]) = {d \in Live' \ {INITPROC} : parent'[d] = u}
    BY <1>1, <1>3, <1>4, <1>7, <1>8, <2>1, SMTT(30) DEF TreeConsistent, Live
  <2>4. \A d \in Live' \ {INITPROC} : parent'[d] \in Alive'
    BY <1>1, <1>2, <1>4, <2>1, SMTT(30) DEF TreeConsistent, Live
  <2> QED BY <2>2, <2>3, <2>4, SMTT(30) DEF TreeConsistent
<1>14. IdsPartitioned' /\ KstackFollowsPid'
  <2>1. \A u \in Live' : kstack'[u] = pid'[u]
    BY <1>1, <1>4, <1>10 DEF KstackFollowsPid, TypeOK, Live
  <2>2. \A u \in Live : pid'[u] = pid[u]
    BY <1>1, <1>3, <1>10 DEF TypeOK, Live
  <2>3. pid'[c] = id
    BY <1>1, <1>10 DEF TypeOK
  <2>4. {pid'[u] : u \in Live'} = {pid[u] : u \in Live} \cup {id}
    BY <1>4, <2>2, <2>3
  <2>5. {kstack'[u] : u \in Live'} = {pid'[u] : u \in Live'}
    BY <2>1
  <2>6. \A u, v \in Live' : pid'[u] = pid'[v] => u = v
    BY <1>1, <1>4, <1>9, <2>2, <2>3, SMTT(30) DEF IdsPartitioned
  <2>7. \A u, v \in Live' : kstack'[u] = kstack'[v] => u = v
    BY <2>1, <2>6
  <2>8. /\ Partitions(PID_ALLOCATOR', {pid'[u] : u \in Live'})
        /\ Partitions(KSTACK_ALLOCATOR', {kstack'[u] : u \in Live'})
    BY <1>9, <1>10, <2>4, <2>5, ZenonT(40)
  <2> QED BY <1>10, <2>1, <2>6, <2>7, <2>8, SMTT(30)
             DEF IdsPartitioned, KstackFollowsPid
<1>15. InitprocStays' /\ NoAssertionFails'
  BY <1>1, <1>3, <1>4, <1>10, SMTT(30)
     DEF InitprocStays, NoAssertionFails, NewTask, TypeOK
<1> QED BY <1>11, <1>12, <1>13, <1>14, <1>15, SMTT(30) DEF ProcessInv

\* exit_current_and_run_next turns the running task into a zombie without
\* children; INITPROC gets them, and their parent pointers agree.
LEMMA ExitKeeps ==
    ASSUME ProcessInv, NEW t \in Tcb, NEW code \in AllCodes,
           ExitCurrent(t, code)
    PROVE  ProcessInv'
<1>1. /\ TypeOK /\ SchedulerConsistent /\ TreeConsistent /\ IdsPartitioned
      /\ KstackFollowsPid /\ InitprocStays /\ NoAssertionFails
  BY DEF ProcessInv
<1>2. /\ current = t /\ panicked = "no" /\ t \notin in_read /\ pid[t] # IDLE_PID
      /\ task_status[t] = "Running" /\ t \in Live /\ t \in Alive
  BY <1>1 DEF ExitCurrent, InUser, SchedulerConsistent, Live, Alive
<1>3. t # INITPROC
  BY <1>1, <1>2 DEF InitprocStays
<1>4. /\ task_status' = [task_status EXCEPT ![t] = "Zombie"]
      /\ exit_code' = [exit_code EXCEPT ![t] = code]
      /\ current' = None
      /\ UNCHANGED <<pid, kstack, ready_queue, idVars, in_read, wait_result,
                     panicked>>
  BY DEF ExitCurrent
<1>5. Live' = Live /\ Alive' = Alive \ {t}
  BY <1>1, <1>2, <1>4 DEF TypeOK, Live, Alive
<1>6. /\ children[t] \in Seq(Tcb) /\ children[INITPROC] \in Seq(Tcb)
      /\ ToSet(children[t]) = {c \in Live \ {INITPROC} : parent[c] = t}
      /\ ToSet(children[INITPROC]) = {c \in Live \ {INITPROC} : parent[c] = INITPROC}
      /\ IsInjective(children[t]) /\ IsInjective(children[INITPROC])
  BY <1>1 DEF TypeOK, TreeConsistent
<1>7. /\ children'[t] = <<>>
      /\ children'[INITPROC] = children[INITPROC] \o children[t]
      /\ \A u \in Tcb \ {t, INITPROC} : children'[u] = children[u]
  BY <1>1, <1>3, ZenonT(40) DEF ExitCurrent, ChildrenAfterExit, TypeOK
<1>8. /\ children'[INITPROC] \in Seq(Tcb) /\ IsInjective(children'[INITPROC])
      /\ ToSet(children'[INITPROC]) = ToSet(children[INITPROC]) \cup ToSet(children[t])
  <2>1. ToSet(children[INITPROC]) \cap ToSet(children[t]) = {}
    BY <1>3, <1>6, SMTT(30)
  <2> QED BY <1>6, <1>7, <2>1, ConcatElements, SMTT(30)
<1>9. \A c \in Tcb : parent'[c] = IF c \in ToSet(children[t]) THEN INITPROC ELSE parent[c]
  BY DEF ExitCurrent, ParentsAfterExit
<1>10. TypeOK'
  <2>1. children' \in [Tcb -> Seq(Tcb)]
    <3>1. children' = [u \in Tcb |-> children'[u]]
      BY <1>1, ZenonT(40) DEF ExitCurrent, ChildrenAfterExit, TypeOK
    <3>2. \A u \in Tcb : children'[u] \in Seq(Tcb)
      BY <1>1, <1>7, <1>8, EmptyElements, ZenonT(40) DEF TypeOK
    <3> QED BY <3>1, <3>2
  <2>2. parent' \in [Tcb -> Tcb \cup {None}]
    BY <1>1 DEF ExitCurrent, ParentsAfterExit, TypeOK
  <2> QED BY <1>1, <1>4, <2>1, <2>2, ZenonT(40) DEF TypeOK, TaskStatus, idVars
<1>11. SchedulerConsistent'
  <2>1. ToSet(ready_queue') = {u \in Tcb : task_status'[u] = "Ready"}
    BY <1>1, <1>2, <1>4 DEF SchedulerConsistent, TypeOK
  <2>2. \A u \in Tcb : task_status'[u] # "Running" /\ current' # u
    BY <1>1, <1>2, <1>4 DEF SchedulerConsistent, TypeOK
  <2>3. in_read' \subseteq Alive'
    BY <1>1, <1>2, <1>4, <1>5, SMTT(30) DEF SchedulerConsistent
  <2> QED BY <1>1, <1>4, <2>1, <2>2, <2>3, SMTT(30) DEF SchedulerConsistent
<1>12. TreeConsistent'
  <2>1. \A u \in Tcb : IsInjective(children'[u])
    BY <1>1, <1>7, <1>8, EmptyElements, ZenonT(40) DEF TreeConsistent
  <2>2. ASSUME NEW u \in Tcb
        PROVE  ToSet(children'[u]) = {d \in Live' \ {INITPROC} : parent'[d] = u}
    <3>1. CASE u = t
      BY <3>1, <1>3, <1>5, <1>6, <1>7, <1>9, EmptyElements, SMTT(30) DEF Live
    <3>2. CASE u = INITPROC
      BY <3>2, <1>5, <1>6, <1>8, <1>9, SMTT(30) DEF Live
    <3>3. CASE u # t /\ u # INITPROC
      BY <3>3, <1>1, <1>5, <1>6, <1>7, <1>9, SMTT(30) DEF TreeConsistent, Live
    <3> QED BY <3>1, <3>2, <3>3, SMTT(30)
  <2>3. \A d \in Live' \ {INITPROC} : parent'[d] \in Alive'
    <3>1. INITPROC \in Alive'
      BY <1>1, <1>3, <1>5, SMTT(30) DEF InitprocStays
    <3> QED BY <1>1, <1>5, <1>6, <1>9, <3>1, SMTT(30) DEF TreeConsistent, Live
  <2> QED BY <2>1, <2>2, <2>3, SMTT(30) DEF TreeConsistent
<1>13. IdsPartitioned' /\ KstackFollowsPid'
  BY <1>1, <1>4, <1>5, SMTT(30) DEF IdsPartitioned, KstackFollowsPid, idVars
<1>14. InitprocStays' /\ NoAssertionFails'
  BY <1>1, <1>3, <1>4, <1>5, SMTT(30) DEF InitprocStays, NoAssertionFails
<1> QED BY <1>10, <1>11, <1>12, <1>13, <1>14, SMTT(30) DEF ProcessInv

\* The zombie that sys_waitpid removes has no other strong reference, and its
\* pid and kernel stack are in use until then: no assertion fails, and what
\* remains is again a tree with its identifiers partitioned.
LEMMA ReapKeeps ==
    ASSUME ProcessInv, NEW t \in Tcb, NEW p \in WaitPids, WaitReap(t, p)
    PROVE  ProcessInv'
<1>1. /\ TypeOK /\ SchedulerConsistent /\ TreeConsistent /\ IdsPartitioned
      /\ KstackFollowsPid /\ InitprocStays /\ NoAssertionFails
  BY SMTT(30) DEF ProcessInv
<1>2. PICK idx \in Reapable(t, p) : LET c == children[t][idx] IN
         /\ children' = [children EXCEPT ![t] = RemoveAt(@, idx)]
         /\ wait_result' = <<pid[c], exit_code[c]>>
         /\ PID_ALLOCATOR' = Dealloc(PID_ALLOCATOR, pid[c])
         /\ KSTACK_ALLOCATOR' = Dealloc(KSTACK_ALLOCATOR, kstack[c])
         /\ task_status' = [task_status EXCEPT ![c] = "Dropped"]
         /\ parent' = [parent EXCEPT ![c] = None]
         /\ exit_code' = [exit_code EXCEPT ![c] = 0]
         /\ pid' = [pid EXCEPT ![c] = 0] /\ kstack' = [kstack EXCEPT ![c] = 0]
         /\ panicked' = IF /\ StrongRefs(c) = {<<t, idx>>}
                           /\ DeallocAsserts(PID_ALLOCATOR, pid[c])
                           /\ DeallocAsserts(KSTACK_ALLOCATOR, kstack[c])
                        THEN panicked ELSE "assertion"
  BY ZenonT(40) DEF WaitReap, DropPidHandle, DropKernelStack
<1> DEFINE c == children[t][idx]
<1>3. idx \in 1..Len(children[t]) /\ task_status[c] = "Zombie"
  BY <1>2 DEF Reapable, Matching
<1>4. /\ children' = [children EXCEPT ![t] = RemoveAt(@, idx)]
      /\ wait_result' = <<pid[c], exit_code[c]>>
      /\ PID_ALLOCATOR' = Dealloc(PID_ALLOCATOR, pid[c])
      /\ KSTACK_ALLOCATOR' = Dealloc(KSTACK_ALLOCATOR, kstack[c])
      /\ task_status' = [task_status EXCEPT ![c] = "Dropped"]
      /\ parent' = [parent EXCEPT ![c] = None]
      /\ exit_code' = [exit_code EXCEPT ![c] = 0]
      /\ pid' = [pid EXCEPT ![c] = 0] /\ kstack' = [kstack EXCEPT ![c] = 0]
      /\ panicked' = IF /\ StrongRefs(c) = {<<t, idx>>}
                        /\ DeallocAsserts(PID_ALLOCATOR, pid[c])
                        /\ DeallocAsserts(KSTACK_ALLOCATOR, kstack[c])
                     THEN panicked ELSE "assertion"
      /\ UNCHANGED <<ready_queue, current, in_read>>
  BY <1>2, ZenonT(40) DEF WaitReap, schedVars
<1>5. /\ children[t] \in Seq(Tcb) /\ IsInjective(children[t])
      /\ ToSet(children[t]) = {d \in Live \ {INITPROC} : parent[d] = t}
  BY <1>1 DEF TypeOK, TreeConsistent
<1>6. c \in ToSet(children[t])
  BY <1>3, <1>5, SeqElements, SMTT(30)
<1>7. /\ RemoveAt(children[t], idx) \in Seq(Tcb)
      /\ IsInjective(RemoveAt(children[t], idx))
      /\ ToSet(RemoveAt(children[t], idx)) = ToSet(children[t]) \ {c}
  BY <1>3, <1>5, RemoveAtElements, SMTT(30)
<1>8. /\ c \in Tcb /\ c \in Live /\ c # INITPROC /\ parent[c] = t /\ c \notin Alive
  BY <1>3, <1>5, <1>6, SMTT(30) DEF Live, Alive
<1>9. /\ current = t /\ panicked = "no" /\ t \in Alive /\ t # c
  BY <1>1, <1>8 DEF WaitReap, InUser, SchedulerConsistent, Alive
<1>10. StrongRefs(c) = {<<t, idx>>}
  <2>1. /\ ready_queue \in Seq(Tcb) /\ c \notin ToSet(ready_queue)
        /\ c # current /\ c \notin in_read
    BY <1>1, <1>3, <1>8, <1>9, SMTT(30) DEF SchedulerConsistent, TypeOK
  <2>2. \A i \in 1..Len(ready_queue) : ready_queue[i] # c
    BY <2>1, SeqElements, SMTT(30)
  <2>3. ASSUME NEW u \in Tcb, NEW j \in 1..Len(children[u]), children[u][j] = c
        PROVE  u = t /\ j = idx
    <3>1. children[u] \in Seq(Tcb) /\ c \in ToSet(children[u])
      BY <1>1, <2>3, SeqElements, ZenonT(40) DEF TypeOK
    <3>2. u = t
      BY <1>1, <1>8, <3>1, SMTT(30) DEF TreeConsistent
    <3> QED BY <1>3, <1>5, <2>3, <3>2, SeqElements, SMTT(30)
  <2> HIDE DEF c
  <2>4. \A x : x \in StrongRefs(c) => x = <<t, idx>>
    BY <2>1, <2>2, <2>3, SMTT(30) DEF StrongRefs
  <2>5. <<t, idx>> \in StrongRefs(c)
    BY <1>3, SMTT(30) DEF StrongRefs, c
  <2> QED BY <2>4, <2>5, SMTT(30)
<1> HIDE DEF c
<1>11. /\ DeallocAsserts(PID_ALLOCATOR, pid[c])
       /\ PID_ALLOCATOR' \in RecycleAllocators
       /\ Partitions(PID_ALLOCATOR', {pid[u] : u \in Live} \ {pid[c]})
  <2>1. pid[c] \in {pid[u] : u \in Live}
    BY <1>8
  <2> QED BY <1>1, <1>4, <2>1, DeallocKeepsPartition, ZenonT(40)
             DEF TypeOK, IdsPartitioned
<1>12. kstack[c] = pid[c] /\ KSTACK_ALLOCATOR' = PID_ALLOCATOR'
  BY <1>1, <1>4, <1>8, SMTT(30) DEF KstackFollowsPid
<1>13. panicked' = "no"
  BY <1>1, <1>4, <1>9, <1>10, <1>11, <1>12, SMTT(30) DEF KstackFollowsPid
<1>14. Live' = Live \ {c} /\ Alive' = Alive
  BY <1>1, <1>3, <1>4, <1>8, ZenonT(40) DEF TypeOK, Live, Alive
<1>15. TypeOK'
  <2>1. children' \in [Tcb -> Seq(Tcb)]
    BY <1>1, <1>4, <1>7, SMTT(30) DEF TypeOK
  <2>2. wait_result' \in (Nat \cup {-1, -2}) \X AllCodes
    BY <1>1, <1>4, <1>8, SMTT(30) DEF TypeOK
  <2>3. exit_code' \in [Tcb -> AllCodes]
    BY <1>1, <1>4, ZenonT(40) DEF TypeOK, AllCodes
  <2>4. pid' \in [Tcb -> Nat] /\ kstack' \in [Tcb -> Nat]
    BY <1>1, <1>4, ZenonT(40) DEF TypeOK
  <2>5. /\ task_status' \in [Tcb -> TaskStatus \cup {"Dropped"}]
        /\ parent' \in [Tcb -> Tcb \cup {None}]
    BY <1>1, <1>4, ZenonT(40) DEF TypeOK
  <2> QED BY <1>1, <1>4, <1>11, <1>12, <1>13, <2>1, <2>2, <2>3, <2>4, <2>5, SMTT(30)
             DEF TypeOK
<1>16. SchedulerConsistent'
  <2>1. \A u \in Tcb : /\ task_status'[u] = "Ready" <=> task_status[u] = "Ready"
                       /\ task_status'[u] = "Running" <=> task_status[u] = "Running"
    BY <1>1, <1>3, <1>4, ZenonT(40) DEF TypeOK, c
  <2> QED BY <1>1, <1>4, <1>9, <1>14, <2>1, SMTT(30) DEF SchedulerConsistent
<1>17. TreeConsistent'
  <2>1. \A u \in Tcb \ {c} : parent'[u] = parent[u]
    BY <1>1, <1>4, SMTT(30) DEF TypeOK
  <2>2. /\ children'[t] = RemoveAt(children[t], idx)
        /\ \A u \in Tcb \ {t} : children'[u] = children[u]
    BY <1>1, <1>4, SMTT(30) DEF TypeOK
  <2>3. ASSUME NEW u \in Tcb
        PROVE  /\ IsInjective(children'[u])
               /\ ToSet(children'[u]) = {d \in Live' \ {INITPROC} : parent'[d] = u}
    <3>1. CASE u = t
      BY <3>1, <1>5, <1>7, <1>14, <2>1, <2>2, SMTT(30) DEF Live
    <3>2. CASE u # t
      BY <3>2, <1>1, <1>8, <1>14, <2>1, <2>2, SMTT(30) DEF TreeConsistent, Live
    <3> QED BY <3>1, <3>2, SMTT(30)
  <2>4. \A d \in Live' \ {INITPROC} : parent'[d] \in Alive'
    BY <1>1, <1>14, <2>1, SMTT(30) DEF TreeConsistent, Live
  <2> QED BY <2>3, <2>4, SMTT(30) DEF TreeConsistent
<1>18. IdsPartitioned' /\ KstackFollowsPid'
  <2>1. \A u \in Live' : /\ u \in Live /\ u # c
                         /\ pid'[u] = pid[u] /\ kstack'[u] = pid[u]
    BY <1>1, <1>4, <1>14, SMTT(30) DEF TypeOK, Live, KstackFollowsPid
  <2>2. \A u, v \in Live' : pid'[u] = pid'[v] => u = v
    BY <1>1, <2>1 DEF IdsPartitioned
  <2>3. {pid'[u] : u \in Live'} = {pid[u] : u \in Live} \ {pid[c]}
    <3>1. \A u \in Live \ {c} : pid[u] # pid[c]
      BY <1>1, <1>8 DEF IdsPartitioned
    <3> QED BY <1>14, <2>1, <3>1, SMTT(30)
  <2>4. {kstack'[u] : u \in Live'} = {pid'[u] : u \in Live'}
    BY <2>1
  <2>5. \A u, v \in Live' : kstack'[u] = kstack'[v] => u = v
    BY <2>1, <2>2, SMTT(30)
  <2>6. /\ Partitions(PID_ALLOCATOR', {pid'[u] : u \in Live'})
        /\ Partitions(KSTACK_ALLOCATOR', {kstack'[u] : u \in Live'})
    BY <1>11, <1>12, <2>3, <2>4, ZenonT(40)
  <2> QED BY <1>12, <2>1, <2>2, <2>5, <2>6, SMTT(30)
             DEF IdsPartitioned, KstackFollowsPid
<1>19. InitprocStays' /\ NoAssertionFails'
  BY <1>1, <1>4, <1>8, <1>13, <1>14, SMTT(30) DEF InitprocStays, NoAssertionFails, TypeOK
<1> QED BY <1>15, <1>16, <1>17, <1>18, <1>19, SMTT(30) DEF ProcessInv

(***************************************************************************)
(* The kinds of step of Next.  Yield, the timer and the console suspend;   *)
(* fork and spawn make a task; exit and the faults make a zombie; waitpid  *)
(* reaps; the rest changes no TCB.                                         *)
(***************************************************************************)
Suspends(t) ==
    /\ current = t /\ panicked = "no" /\ Suspend(t)
    /\ in_read' = in_read \/ in_read' = in_read \cup {t}
    /\ UNCHANGED <<parent, children, exit_code, pid, kstack, idVars,
                   wait_result, panicked>>

Quiet ==
    /\ UNCHANGED <<tcbVars, schedVars, idVars, panicked>>
    /\ in_read' \subseteq in_read
    /\ wait_result' = wait_result \/ wait_result' \in {<<-1, 0>>, <<-2, 0>>}

LEMMA StepKinds ==
    ASSUME [Next]_vars
    PROVE  \/ RunTasks
           \/ Quiet
           \/ \E t \in Tcb :
                 \/ Suspends(t)
                 \/ InitprocExit(t)
                 \/ \E c \in Tcb : InUser(t) /\ NewTask(t, c)
                 \/ \E code \in AllCodes : ExitCurrent(t, code)
                 \/ \E p \in WaitPids : WaitReap(t, p)
<1>1. CASE Halted \/ UNCHANGED vars
  BY <1>1 DEF Halted, vars, Quiet
<1>2. ASSUME NEW t \in Tcb, SysYield(t) \/ TimerInterrupt(t) \/ StdinEmpty(t)
      PROVE  Suspends(t)
  BY <1>2 DEF SysYield, TimerInterrupt, StdinEmpty, InUser, Suspends
<1>3. ASSUME NEW t \in Tcb, StdinReady(t)
      PROVE  Quiet
  BY <1>3 DEF StdinReady, Quiet
<1>4. ASSUME NEW t \in Tcb, NEW p \in WaitPids, WaitNoChild(t, p) \/ WaitRunning(t, p)
      PROVE  Quiet
  BY <1>4 DEF WaitNoChild, WaitRunning, Quiet
<1>5. AllCodes = ExitCodes \cup {0, PageFaultCode, IllegalInstructionCode}
  BY DEF AllCodes
<1>6. CASE \E t \in Tcb : Step(t)
  <2>1. PICK t \in Tcb : Step(t)
    BY <1>6
  <2>2. CASE \E c \in Tcb : SysFork(t, c) \/ SysSpawn(t, c)
    BY <2>2 DEF SysFork, SysSpawn
  <2>3. CASE (\E code \in ExitCodes : SysExit(t, code)) \/ PageFault(t) \/ IllegalInstruction(t)
    BY <1>5, <2>3, ZenonT(40) DEF SysExit, PageFault, IllegalInstruction
  <2>4. CASE \E p \in WaitPids : SysWaitpid(t, p)
    BY <1>4, <2>4 DEF SysWaitpid
  <2> QED BY <1>2, <1>3, <2>1, <2>2, <2>3, <2>4, SMTT(30) DEF Step
<1> QED BY <1>1, <1>6 DEF Next

\* Every step of the kernel keeps the invariant.
LEMMA StepKeeps ==
    ASSUME ProcessInv, [Next]_vars
    PROVE  ProcessInv'
<1>1. CASE Quiet
  <2>1. wait_result' \in (Nat \cup {-1, -2}) \X AllCodes
    BY <1>1 DEF Quiet, ProcessInv, TypeOK, AllCodes
  <2> QED BY <1>1, <2>1, QuietKeeps, SMTT(30) DEF Quiet
<1>2. ASSUME NEW t \in Tcb, Suspends(t)
      PROVE  ProcessInv'
  BY <1>2, SuspendKeeps DEF Suspends
<1> QED BY <1>1, <1>2, StepKinds, RunTasksKeeps, InitprocExitKeeps, NewTaskKeeps,
          ExitKeeps, ReapKeeps, SMTT(30)

(***************************************************************************)
(* The invariant of the process subsystem, for every number of processes:  *)
(* queue and statuses agree, children and parents describe one tree, the   *)
(* assertions of sys_waitpid and of the allocators hold, pids and stacks   *)
(* of live TCBs are distinct and move together.                            *)
(***************************************************************************)
THEOREM ProcessesCorrect == Spec => []ProcessInv
<1>1. Init => ProcessInv
  BY InitEstablishes
<1>2. ProcessInv /\ [Next]_vars => ProcessInv'
  BY StepKeeps
<1> QED BY <1>1, <1>2, PTL DEF Spec

\* The type invariant.
THEOREM TypeCorrect == Spec => []TypeOK
<1>1. ProcessInv => TypeOK
  BY DEF ProcessInv
<1> QED BY <1>1, ProcessesCorrect, PTL

\* The assertion strong_count == 1 of sys_waitpid and those of
\* RecycleAllocator::dealloc hold in every execution.
THEOREM AssertionsHold == Spec => []NoAssertionFails
<1>1. ProcessInv => NoAssertionFails
  BY DEF ProcessInv
<1> QED BY <1>1, ProcessesCorrect, PTL

\* Neither a pid nor a kernel stack is ever handed out twice or lost.
THEOREM IdsNeverShared == Spec => []IdsPartitioned
<1>1. ProcessInv => IdsPartitioned
  BY SMTT(30) DEF ProcessInv
<1> QED BY <1>1, ProcessesCorrect, PTL

\* The ready queue, the processor and the statuses agree, with every order of
\* yields, timer interrupts, console reads, exits and waits.
THEOREM SchedulerAgrees == Spec => []SchedulerConsistent
<1>1. ProcessInv => SchedulerConsistent
  BY DEF ProcessInv
<1> QED BY <1>1, ProcessesCorrect, PTL

\* Children vectors and parent pointers describe one tree, also while exit
\* hands children over and waitpid takes them out.
THEOREM TreeAgrees == Spec => []TreeConsistent
<1>1. ProcessInv => TreeConsistent
  BY DEF ProcessInv
<1> QED BY <1>1, ProcessesCorrect, PTL

\* The kernel stack of a process is the one of its pid, as id.rs says, though
\* two allocators hand them out.
THEOREM KstacksFollowPids == Spec => []KstackFollowsPid
<1>1. ProcessInv => KstackFollowsPid
  BY DEF ProcessInv
<1> QED BY <1>1, ProcessesCorrect, PTL

\* run_tasks always finds a task while the kernel is up: INITPROC is alive,
\* so it is Ready, and in the queue, or Running, and then current.
THEOREM IdleLoopBusy == Spec => []NeverIdle
<1>1. ProcessInv => NeverIdle
  <2> SUFFICES ASSUME ProcessInv, panicked = "no", current = None
               PROVE  ready_queue # <<>>
    BY DEF NeverIdle
  <2>1. INITPROC \in ToSet(ready_queue)
    BY DEF ProcessInv, InitprocStays, Alive, SchedulerConsistent
  <2> QED BY <2>1, EmptyElements
<1> QED BY <1>1, ProcessesCorrect, PTL

\* fork attaches a leaf, exit moves children to INITPROC, waitpid removes a
\* leaf: none of them cuts a set of processes off.
LEMMA RootedKeeps ==
    ASSUME ProcessInv, Rooted, [Next]_vars
    PROVE  Rooted'
<1>1. /\ TypeOK /\ SchedulerConsistent /\ TreeConsistent /\ InitprocStays
  BY DEF ProcessInv
<1>2. INITPROC \in Live
  BY <1>1 DEF InitprocStays, Live, Alive
<1>3. ASSUME UNCHANGED parent, Live' = Live
      PROVE  Rooted'
  BY <1>3 DEF Rooted
<1>4. CASE RunTasks
  <2>1. ready_queue \in Seq(Tcb) /\ Head(ready_queue) \in ToSet(ready_queue)
    BY <1>1, <1>4, TailElements DEF TypeOK, SchedulerConsistent, RunTasks
  <2>2. task_status[Head(ready_queue)] = "Ready"
    BY <1>1, <2>1 DEF SchedulerConsistent
  <2>3. Live' = Live
    BY <1>1, <1>4, <2>2, ZenonT(40) DEF RunTasks, Live, TypeOK
  <2> QED BY <1>3, <1>4, <2>3, SMTT(30) DEF RunTasks
<1>5. CASE Quiet
  BY <1>3, <1>5 DEF Quiet, tcbVars, Live
<1>6. ASSUME NEW t \in Tcb, Suspends(t)
      PROVE  Rooted'
  <2>1. task_status[t] = "Running"
    BY <1>1, <1>6 DEF Suspends, SchedulerConsistent
  <2>2. Live' = Live
    BY <1>1, <1>6, <2>1, SMTT(30) DEF Suspends, Suspend, Live, TypeOK
  <2> QED BY <1>3, <1>6, <2>2 DEF Suspends
<1>7. ASSUME NEW t \in Tcb, InitprocExit(t)
      PROVE  Rooted'
  BY <1>3, <1>7 DEF InitprocExit, tcbVars, Live
<1>8. ASSUME NEW t \in Tcb, NEW c \in Tcb, InUser(t), NewTask(t, c)
      PROVE  Rooted'
  <2>1. t \in Live /\ c \notin Live /\ t # c
    BY <1>1, <1>8, SMTT(30) DEF InUser, NewTask, SchedulerConsistent, Live
  <2>2. Live' = Live \cup {c}
    BY <1>1, <1>8, SMTT(30) DEF NewTask, TypeOK, Live
  <2>3. parent'[c] = t /\ \A u \in Tcb \ {c} : parent'[u] = parent[u]
    BY <1>1, <1>8 DEF NewTask, TypeOK
  <2>4. ASSUME NEW S \in SUBSET (Live' \ {INITPROC}), S # {}
        PROVE  \E d \in S : parent'[d] \in Live' \ S
    <3>1. CASE S = {c}
      BY <3>1, <2>1, <2>2, <2>3, SMTT(30)
    <3>2. CASE S # {c}
      <4>1. S \ {c} \in SUBSET (Live \ {INITPROC}) /\ S \ {c} # {}
        BY <3>2, <2>2, <2>4, SMTT(30)
      <4>2. PICK d \in S \ {c} : parent[d] \in Live \ (S \ {c})
        BY <4>1, ZenonT(40) DEF Rooted
      <4> QED BY <4>1, <4>2, <2>1, <2>2, <2>3, SMTT(30) DEF Live
    <3> QED BY <3>1, <3>2
  <2> QED BY <2>4 DEF Rooted
<1>9. ASSUME NEW t \in Tcb, NEW code \in AllCodes, ExitCurrent(t, code)
      PROVE  Rooted'
  <2>1. Live' = Live
    BY <1>1, <1>9 DEF ExitCurrent, InUser, SchedulerConsistent, TypeOK, Live
  <2>2. \A u \in Tcb : parent'[u] = INITPROC \/ parent'[u] = parent[u]
    BY <1>9 DEF ExitCurrent, ParentsAfterExit
  <2>3. ASSUME NEW S \in SUBSET (Live' \ {INITPROC}), S # {}
        PROVE  \E d \in S : parent'[d] \in Live' \ S
    <3>1. PICK d \in S : parent[d] \in Live \ S
      BY <2>1, <2>3, SMTT(30) DEF Rooted
    <3> QED BY <1>2, <2>1, <2>2, <3>1, SMTT(30) DEF Live
  <2> QED BY <2>3 DEF Rooted
<1>10. ASSUME NEW t \in Tcb, NEW p \in WaitPids, WaitReap(t, p)
       PROVE  Rooted'
  <2>1. PICK idx \in Reapable(t, p) :
           /\ task_status' = [task_status EXCEPT ![children[t][idx]] = "Dropped"]
           /\ parent' = [parent EXCEPT ![children[t][idx]] = None]
    BY <1>10, ZenonT(40) DEF WaitReap
  <2> DEFINE c == children[t][idx]
  <2>2. task_status[c] = "Zombie"
    BY <2>1 DEF Reapable
  <2> HIDE DEF c
  <2>3. c \notin Alive /\ Live' = Live \ {c}
    BY <1>1, <2>1, <2>2, ZenonT(40) DEF Live, Alive, TypeOK, c
  <2>4. \A u \in Live' : parent'[u] = parent[u]
    BY <1>1, <2>1, <2>3, SMTT(30) DEF Live, TypeOK, c
  <2>5. ASSUME NEW S \in SUBSET (Live' \ {INITPROC}), S # {}
        PROVE  \E d \in S : parent'[d] \in Live' \ S
    <3>1. PICK d \in S : parent[d] \in Live \ S
      BY <2>3, <2>5, SMTT(30) DEF Rooted
    <3>2. parent[d] \in Alive
      BY <1>1, <2>3 DEF TreeConsistent
    <3> QED BY <2>3, <2>4, <3>1, <3>2, SMTT(30)
  <2> QED BY <2>5, SMTT(30) DEF Rooted
<1> QED BY <1>4, <1>5, <1>6, <1>7, <1>8, <1>9, <1>10, StepKinds, SMTT(30)

\* Every process descends from INITPROC, so that each zombie has a living
\* ancestor that inherits it at the latest when its parent exits.
THEOREM AllRooted == Spec => []Rooted
<1>1. ASSUME Init PROVE Rooted
  <2>1. Live \ {INITPROC} = {}
    BY <1>1 DEF Init, Live
  <2> QED BY <2>1, SMTT(30) DEF Rooted
<1>2. ProcessInv /\ Rooted /\ [Next]_vars => Rooted'
  BY RootedKeeps
<1> QED BY <1>1, <1>2, ProcessesCorrect, PTL DEF Spec

\* What one step may do to a zombie: nothing, or report it and drop it.
ZombieStep(c) ==
    \/ /\ task_status'[c] = "Zombie"
       /\ pid'[c] = pid[c] /\ exit_code'[c] = exit_code[c]
    \/ /\ task_status'[c] = "Dropped"
       /\ parent[c] = current
       /\ wait_result' = <<pid[c], exit_code[c]>>

LEMMA ZombieStays ==
    ASSUME ProcessInv, [Next]_vars, NEW c \in Tcb, task_status[c] = "Zombie"
    PROVE  ZombieStep(c)
<1>1. /\ TypeOK /\ SchedulerConsistent /\ TreeConsistent
  BY DEF ProcessInv
<1>2. CASE RunTasks
  <2>1. ready_queue \in Seq(Tcb) /\ Head(ready_queue) \in ToSet(ready_queue)
    BY <1>1, <1>2, TailElements, SMTT(30)
       DEF TypeOK, SchedulerConsistent, RunTasks
  <2>2. Head(ready_queue) # c
    BY <1>1, <2>1 DEF SchedulerConsistent
  <2> QED BY <1>1, <1>2, <2>2, SMTT(30) DEF RunTasks, TypeOK, ZombieStep
<1>3. CASE Quiet
  BY <1>3, SMTT(30) DEF Quiet, tcbVars, ZombieStep
<1>4. ASSUME NEW t \in Tcb, Suspends(t)
      PROVE  ZombieStep(c)
  BY <1>1, <1>4, SMTT(30)
     DEF Suspends, Suspend, SchedulerConsistent, TypeOK, ZombieStep
<1>5. ASSUME NEW t \in Tcb, InitprocExit(t)
      PROVE  ZombieStep(c)
  BY <1>5, SMTT(30) DEF InitprocExit, tcbVars, ZombieStep
<1>6. ASSUME NEW t \in Tcb, NEW d \in Tcb, InUser(t), NewTask(t, d)
      PROVE  ZombieStep(c)
  BY <1>1, <1>6, SMTT(30) DEF NewTask, TypeOK, ZombieStep
<1>7. ASSUME NEW t \in Tcb, NEW code \in AllCodes, ExitCurrent(t, code)
      PROVE  ZombieStep(c)
  BY <1>1, <1>7, SMTT(30)
     DEF ExitCurrent, InUser, SchedulerConsistent, TypeOK, ZombieStep
<1>8. ASSUME NEW t \in Tcb, NEW p \in WaitPids, WaitReap(t, p)
      PROVE  ZombieStep(c)
  <2>1. PICK idx \in Reapable(t, p) : LET d == children[t][idx] IN
           /\ task_status' = [task_status EXCEPT ![d] = "Dropped"]
           /\ pid' = [pid EXCEPT ![d] = 0]
           /\ exit_code' = [exit_code EXCEPT ![d] = 0]
           /\ wait_result' = <<pid[d], exit_code[d]>>
    BY <1>8, ZenonT(40) DEF WaitReap
  <2>2. idx \in 1..Len(children[t]) /\ children[t] \in Seq(Tcb)
    BY <1>1, <2>1 DEF Reapable, Matching, TypeOK
  <2>3. children[t][idx] \in ToSet(children[t])
    BY <2>2, SeqElements, SMTT(30)
  <2>4. current = t
    BY <1>8, SMTT(30) DEF WaitReap, InUser
  <2>5. parent[children[t][idx]] = t
    BY <1>1, <2>3 DEF TreeConsistent
  <2> QED BY <1>1, <2>1, <2>4, <2>5, SMTT(30) DEF TypeOK, ZombieStep
<1> QED BY <1>2, <1>3, <1>4, <1>5, <1>6, <1>7, <1>8, StepKinds, SMTT(30)

\* An exit is reported exactly once, to the process that is the parent then.
THEOREM ExitsReportedOnce == Spec => ExitReportedOnce
<1> DEFINE A == \A c \in Tcb : task_status[c] = "Zombie" => ZombieStep(c)
<1>1. ProcessInv /\ [Next]_vars => A
  BY ZombieStays
<1>2. Spec => [][A]_vars
  <2> HIDE DEF A
  <2> QED BY <1>1, ProcessesCorrect, PTL DEF Spec
<1> QED BY <1>2 DEF ExitReportedOnce, ZombieStep
=============================================================================
