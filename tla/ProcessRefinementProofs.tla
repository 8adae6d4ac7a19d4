----------------------- MODULE ProcessRefinementProofs -----------------------
(***************************************************************************)
(* The process subsystem implements ProcessTree, for any number of TCB     *)
(* slots.  The proof rests on ProcessInv: live TCBs have distinct pids, so *)
(* that a pid names one TCB, and the children vectors are the tree.        *)
(***************************************************************************)
EXTENDS ProcessRefinement, ProcessProofs

USE ProcessAssumption

\* Pids has every pid that is in use; so it is when Pids is Nat, or an initial
\* segment that is long enough for the slots there are.
PidsSuffice == \A t \in Live : pid[t] \in Pids

\* A slot without a TCB has no exit code, and the initial process no parent.
SlotsFresh ==
    /\ \A t \in Tcb : task_status[t] = "Dropped" => exit_code[t] = 0
    /\ parent[INITPROC] = None

\* The refinement mapping with the state it depends on as parameters.
HolderIn(live, id, p) == {t \in live : id[t] = p}
TcbIn(live, id, p) == CHOOSE t \in HolderIn(live, id, p) : TRUE
StateIn(live, alive, id) ==
    [p \in Pids |-> IF HolderIn(live, id, p) = {} THEN "unused"
                    ELSE IF TcbIn(live, id, p) \in alive THEN "alive" ELSE "zombie"]
PpidIn(live, id, par) ==
    [p \in Pids |-> IF HolderIn(live, id, p) = {} \/ par[TcbIn(live, id, p)] = None
                    THEN -1 ELSE id[par[TcbIn(live, id, p)]]]
CodeIn(live, id, code) ==
    [p \in Pids |-> IF HolderIn(live, id, p) = {} THEN 0
                    ELSE code[TcbIn(live, id, p)]]

LEMMA Bars ==
    /\ stateBar = StateIn(Live, Alive, pid)
    /\ ppidBar = PpidIn(Live, pid, parent)
    /\ codeBar = CodeIn(Live, pid, exit_code)
    /\ stateBar' = StateIn(Live', Alive', pid')
    /\ ppidBar' = PpidIn(Live', pid', parent')
    /\ codeBar' = CodeIn(Live', pid', exit_code')
BY DEF stateBar, ppidBar, codeBar, Holder, TcbOf, StateIn, PpidIn, CodeIn,
       HolderIn, TcbIn

\* Functions of the pids in use and of those that are not.
Mirrors(live, alive, id, par, code, s, pp, c) ==
    /\ \A t \in live :
          /\ id[t] \in Pids
          /\ s[id[t]] = IF t \in alive THEN "alive" ELSE "zombie"
          /\ pp[id[t]] = IF par[t] = None THEN -1 ELSE id[par[t]]
          /\ c[id[t]] = code[t]
    /\ \A p \in Pids : (\A t \in live : id[t] # p) =>
          s[p] = "unused" /\ pp[p] = -1 /\ c[p] = 0

\* Where pids are distinct, a pid in use shows the TCB that holds it.
LEMMA Mirrored ==
    ASSUME NEW live, NEW alive, NEW id, NEW par, NEW code,
           \A t, u \in live : id[t] = id[u] => t = u,
           \A t \in live : id[t] \in Pids
    PROVE  Mirrors(live, alive, id, par, code, StateIn(live, alive, id),
                   PpidIn(live, id, par), CodeIn(live, id, code))
<1>1. ASSUME NEW t \in live
      PROVE  HolderIn(live, id, id[t]) # {} /\ TcbIn(live, id, id[t]) = t
  <2>1. HolderIn(live, id, id[t]) = {t}
    BY <1>1 DEF HolderIn
  <2> QED BY <2>1 DEF TcbIn
<1>2. ASSUME NEW p \in Pids, \A t \in live : id[t] # p
      PROVE  HolderIn(live, id, p) = {}
  BY <1>2 DEF HolderIn
<1> QED BY <1>1, <1>2 DEF Mirrors, StateIn, PpidIn, CodeIn

MirrorsNow == Mirrors(Live, Alive, pid, parent, exit_code, stateBar, ppidBar, codeBar)

LEMMA TreeMirrors ==
    /\ IdsPartitioned /\ PidsSuffice => MirrorsNow
    /\ IdsPartitioned' /\ PidsSuffice' => MirrorsNow'
<1>1. ASSUME IdsPartitioned, PidsSuffice PROVE MirrorsNow
  BY <1>1, Mirrored, Bars, ZenonT(40) DEF IdsPartitioned, PidsSuffice, MirrorsNow
<1>2. ASSUME IdsPartitioned', PidsSuffice' PROVE MirrorsNow'
  BY <1>2, Mirrored, Bars, ZenonT(40) DEF IdsPartitioned, PidsSuffice, MirrorsNow
<1> QED BY <1>1, <1>2

\* Functions that agree on the pids in use and on the others are equal.
LEMMA ByPid ==
    ASSUME NEW live, NEW id, NEW f, NEW g,
           f = [p \in Pids |-> f[p]], g = [p \in Pids |-> g[p]],
           \A t \in live : f[id[t]] = g[id[t]],
           \A p \in Pids : (\A t \in live : id[t] # p) => f[p] = g[p]
    PROVE  f = g
<1>1. ASSUME NEW p \in Pids PROVE f[p] = g[p]
  OBVIOUS
<1> QED BY <1>1

LEMMA BarFunctions ==
    /\ stateBar = [p \in Pids |-> stateBar[p]]
    /\ ppidBar = [p \in Pids |-> ppidBar[p]]
    /\ codeBar = [p \in Pids |-> codeBar[p]]
    /\ stateBar' = [p \in Pids |-> stateBar'[p]]
    /\ ppidBar' = [p \in Pids |-> ppidBar'[p]]
    /\ codeBar' = [p \in Pids |-> codeBar'[p]]
BY DEF stateBar, ppidBar, codeBar

\* What changes neither who is there nor who has exited is no step of the tree.
LEMMA Framed ==
    ASSUME Live' = Live, Alive' = Alive, UNCHANGED <<pid, parent, exit_code>>
    PROVE  UNCHANGED <<stateBar, ppidBar, codeBar>>
BY Bars

\* What ProcessInv says of TCBs that the mapping needs.
LEMMA TreeFacts ==
    ASSUME ProcessInv, SlotsFresh
    PROVE  /\ \A t, u \in Live : pid[t] = pid[u] => t = u
           /\ Alive \subseteq Live /\ Live \subseteq Tcb
           /\ INITPROC \in Alive /\ pid[INITPROC] = 0
           /\ \A c \in Live : parent[c] = None \/ parent[c] \in Alive
           /\ \A c \in Live : \A u \in Tcb :
                 parent[c] = u <=> c \in ToSet(children[u])
<1>1. Alive \subseteq Live /\ Live \subseteq Tcb
  BY DEF Alive, Live
<1>2. INITPROC \in Alive /\ pid[INITPROC] = 0
  BY DEF ProcessInv, InitprocStays, IDLE_PID
<1>3. \A t, u \in Live : pid[t] = pid[u] => t = u
  BY DEF ProcessInv, IdsPartitioned
<1>4. \A c \in Live : parent[c] = None \/ parent[c] \in Alive
  BY DEF ProcessInv, TreeConsistent, SlotsFresh
<1>5. \A c \in Live : \A u \in Tcb : parent[c] = u <=> c \in ToSet(children[u])
  <2> SUFFICES ASSUME NEW c \in Live, NEW u \in Tcb
               PROVE  parent[c] = u <=> c \in ToSet(children[u])
    OBVIOUS
  <2>1. ToSet(children[u]) = {d \in Live \ {INITPROC} : parent[d] = u}
    BY DEF ProcessInv, TreeConsistent
  <2>2. parent[INITPROC] # u
    BY DEF SlotsFresh
  <2> QED BY <2>1, <2>2
<1> QED BY <1>1, <1>2, <1>3, <1>4, <1>5, SMTT(30)

LEMMA FreshKeeps ==
    ASSUME ProcessInv, SlotsFresh, [Next]_vars
    PROVE  SlotsFresh'
<1>1. /\ TypeOK /\ TreeConsistent /\ SchedulerConsistent /\ INITPROC \in Alive
  BY DEF ProcessInv, InitprocStays
<1>2. CASE RunTasks
  BY <1>1, <1>2, SMTT(30) DEF RunTasks, TypeOK, SlotsFresh
<1>3. CASE Quiet
  BY <1>3, SMTT(30) DEF Quiet, tcbVars, SlotsFresh
<1>4. ASSUME NEW t \in Tcb, Suspends(t)
      PROVE  SlotsFresh'
  BY <1>1, <1>4, SMTT(30) DEF Suspends, Suspend, TypeOK, SlotsFresh
<1>5. ASSUME NEW t \in Tcb, InitprocExit(t)
      PROVE  SlotsFresh'
  BY <1>5, SMTT(30) DEF InitprocExit, tcbVars, SlotsFresh
<1>6. ASSUME NEW t \in Tcb, NEW c \in Tcb, InUser(t), NewTask(t, c)
      PROVE  SlotsFresh'
  BY <1>1, <1>6, SMTT(30) DEF NewTask, TypeOK, SlotsFresh, Alive
<1>7. ASSUME NEW t \in Tcb, NEW code \in AllCodes, ExitCurrent(t, code)
      PROVE  SlotsFresh'
  <2>1. INITPROC \notin ToSet(children[t])
    BY <1>1 DEF TreeConsistent
  <2>2. parent'[INITPROC] = parent[INITPROC]
    BY <1>7, <2>1 DEF ExitCurrent, ParentsAfterExit
  <2>3. \A u \in Tcb : task_status'[u] = "Dropped" => exit_code'[u] = 0
    BY <1>1, <1>7, SMTT(30) DEF ExitCurrent, TypeOK, SlotsFresh
  <2> QED BY <2>2, <2>3 DEF SlotsFresh
<1>8. ASSUME NEW t \in Tcb, NEW p \in WaitPids, WaitReap(t, p)
      PROVE  SlotsFresh'
  <2>1. PICK idx \in Reapable(t, p) : LET d == children[t][idx] IN
           /\ task_status' = [task_status EXCEPT ![d] = "Dropped"]
           /\ parent' = [parent EXCEPT ![d] = None]
           /\ exit_code' = [exit_code EXCEPT ![d] = 0]
    BY <1>8, ZenonT(40) DEF WaitReap
  <2> QED BY <1>1, <2>1, SMTT(30) DEF TypeOK, SlotsFresh
<1> QED BY <1>2, <1>3, <1>4, <1>5, <1>6, <1>7, <1>8, StepKinds, SMTT(30)

\* The children vector of a process has the TCBs of its children in the tree.
LEMMA ChildrenNow ==
    ASSUME ProcessInv, PidsSuffice, SlotsFresh, NEW t \in Live
    PROVE  /\ pid[t] \in Pids
           /\ \A u \in Live : pid[u] \in Tree!ChildrenOf(pid[t]) <=> parent[u] = t
           /\ \A q \in Tree!ChildrenOf(pid[t]) : \E u \in Live : q = pid[u]
<1>1. MirrorsNow
  BY TreeMirrors DEF ProcessInv
<1>2. pid[t] \in Pids /\ pid[t] # -1
  BY PidsAssumption DEF PidsSuffice
<1>3. ASSUME NEW u \in Live
      PROVE  pid[u] \in Tree!ChildrenOf(pid[t]) <=> parent[u] = t
  <2>1. /\ pid[u] \in Pids /\ stateBar[pid[u]] # "unused"
        /\ ppidBar[pid[u]] = IF parent[u] = None THEN -1 ELSE pid[parent[u]]
    BY <1>1 DEF MirrorsNow, Mirrors
  <2>2. t # None /\ (parent[u] = None \/ parent[u] \in Live)
    BY TreeFacts
  <2>3. ppidBar[pid[u]] = pid[t] <=> parent[u] = t
    BY <1>2, <2>1, <2>2, TreeFacts, SMTT(30)
  <2> QED BY <2>1, <2>3 DEF Tree!ChildrenOf
<1>4. ASSUME NEW q \in Tree!ChildrenOf(pid[t])
      PROVE  \E u \in Live : q = pid[u]
  <2>1. q \in Pids /\ stateBar[q] # "unused"
    BY <1>4 DEF Tree!ChildrenOf
  <2> QED BY <1>1, <2>1 DEF MirrorsNow, Mirrors
<1> QED BY <1>2, <1>3, <1>4

\* The children that sys_waitpid looks at are those that Wait looks at.
LEMMA MatchingNow ==
    ASSUME ProcessInv, PidsSuffice, SlotsFresh, NEW t \in Live, NEW arg \in WaitPids
    PROVE  /\ \A i \in Matching(t, arg) :
                 /\ children[t][i] \in Live /\ parent[children[t][i]] = t
                 /\ pid[children[t][i]] \in Tree!WaitedFor(pid[t], arg)
           /\ \A q \in Tree!WaitedFor(pid[t], arg) :
                 \E i \in Matching(t, arg) : q = pid[children[t][i]]
<1>1. /\ t \in Tcb /\ children[t] \in Seq(Tcb)
      /\ ToSet(children[t]) = {c \in Live \ {INITPROC} : parent[c] = t}
  BY TreeFacts, SMTT(30) DEF ProcessInv, TypeOK, TreeConsistent
<1>2. \A x : x \in ToSet(children[t]) <=>
               \E i \in 1..Len(children[t]) : x = children[t][i]
  BY <1>1, SeqElements
<1>3. ASSUME NEW i \in Matching(t, arg)
      PROVE  /\ children[t][i] \in Live /\ parent[children[t][i]] = t
             /\ pid[children[t][i]] \in Tree!WaitedFor(pid[t], arg)
  <2>1. i \in 1..Len(children[t]) /\ (arg = -1 \/ arg = pid[children[t][i]])
    BY <1>3 DEF Matching
  <2>2. children[t][i] \in Live /\ parent[children[t][i]] = t
    BY <1>1, <1>2, <2>1, SMTT(30)
  <2>3. pid[children[t][i]] \in Tree!ChildrenOf(pid[t])
    BY <2>2, ChildrenNow, SMTT(30)
  <2> QED BY <2>1, <2>2, <2>3, SMTT(30) DEF Tree!WaitedFor
<1>4. ASSUME NEW q \in Tree!WaitedFor(pid[t], arg)
      PROVE  \E i \in Matching(t, arg) : q = pid[children[t][i]]
  <2>1. q \in Tree!ChildrenOf(pid[t]) /\ (arg = -1 \/ arg = q)
    BY <1>4 DEF Tree!WaitedFor
  <2>2. PICK u \in Live : q = pid[u]
    BY <2>1, ChildrenNow, SMTT(30)
  <2>3. parent[u] = t
    BY <2>1, <2>2, ChildrenNow, SMTT(30)
  <2>4. u \in ToSet(children[t])
    BY <1>1, <2>3, TreeFacts, SMTT(30)
  <2>5. PICK i \in 1..Len(children[t]) : u = children[t][i]
    BY <1>2, <2>4
  <2> QED BY <2>1, <2>2, <2>5, SMTT(30) DEF Matching
<1> QED BY <1>3, <1>4, SMTT(30)

\* fork and spawn are Fork: the pid that NextId gives was unused.
LEMMA NewTaskForks ==
    ASSUME ProcessInv, ProcessInv', PidsSuffice, PidsSuffice', SlotsFresh,
           NEW t \in Tcb, NEW c \in Tcb, InUser(t), NewTask(t, c)
    PROVE  pid[t] \in Pids /\ \E q \in Pids : Tree!Fork(pid[t], q)
<1> DEFINE id == pid'[c]
<1>1. /\ TypeOK /\ SchedulerConsistent /\ MirrorsNow /\ MirrorsNow'
      /\ \A u, v \in Live' : pid'[u] = pid'[v] => u = v
  BY TreeMirrors DEF ProcessInv, IdsPartitioned
<1>2. t \in Alive /\ t \in Live /\ c \notin Live
  BY <1>1 DEF InUser, NewTask, SchedulerConsistent, Alive, Live
<1>3. Live' = Live \cup {c} /\ Alive' = Alive \cup {c}
  BY <1>1, SMTT(30) DEF NewTask, TypeOK, Live, Alive
<1>4. /\ \A u \in Live : pid'[u] = pid[u] /\ parent'[u] = parent[u]
      /\ parent'[c] = t /\ exit_code' = exit_code /\ exit_code[c] = 0
  BY <1>1, <1>2, SMTT(30) DEF NewTask, TypeOK, SlotsFresh, Live
<1>5. id \in Pids /\ \A u \in Live : pid[u] # id
  BY <1>1, <1>2, <1>3, <1>4 DEF PidsSuffice
<1>6. t # None /\ \A u \in Live : parent[u] = None \/ parent[u] \in Live
  BY TreeFacts
<1> HIDE DEF id
<1>7. /\ stateBar'[id] = "alive" /\ ppidBar'[id] = pid[t] /\ codeBar'[id] = 0
      /\ stateBar[id] = "unused" /\ codeBar[id] = 0
  <2>1. /\ stateBar'[id] = "alive" /\ codeBar'[id] = 0
        /\ ppidBar'[id] = IF t = None THEN -1 ELSE pid'[t]
    BY <1>1, <1>3, <1>4, SMTT(30) DEF MirrorsNow, Mirrors, id
  <2>2. stateBar[id] = "unused" /\ codeBar[id] = 0
    BY <1>1, <1>5, SMTT(30) DEF MirrorsNow, Mirrors
  <2> QED BY <1>2, <1>4, <1>6, <2>1, <2>2, SMTT(30)
<1>8. ASSUME NEW u \in Live
      PROVE  /\ pid[u] \in Pids /\ pid[u] # id
             /\ stateBar'[pid[u]] = stateBar[pid[u]]
             /\ ppidBar'[pid[u]] = ppidBar[pid[u]]
             /\ codeBar'[pid[u]] = codeBar[pid[u]]
  <2>1. u \in Live' /\ pid'[u] = pid[u] /\ u \in Alive' <=> u \in Alive
    BY <1>2, <1>3, <1>4, SMTT(30)
  <2>2. /\ stateBar'[pid[u]] = IF u \in Alive THEN "alive" ELSE "zombie"
        /\ codeBar'[pid[u]] = exit_code[u]
        /\ ppidBar'[pid[u]] = IF parent[u] = None THEN -1 ELSE pid'[parent[u]]
    BY <1>1, <1>2, <1>3, <1>4, <2>1, SMTT(30) DEF MirrorsNow, Mirrors
  <2>3. parent[u] = None \/ pid'[parent[u]] = pid[parent[u]]
    BY <1>4, <1>6, SMTT(30)
  <2>4. /\ pid[u] \in Pids /\ codeBar[pid[u]] = exit_code[u]
        /\ stateBar[pid[u]] = IF u \in Alive THEN "alive" ELSE "zombie"
        /\ ppidBar[pid[u]] = IF parent[u] = None THEN -1 ELSE pid[parent[u]]
    BY <1>1 DEF MirrorsNow, Mirrors
  <2> QED BY <1>5, <2>2, <2>3, <2>4, SMTT(30)
<1>9. ASSUME NEW p \in Pids, \A u \in Live : pid[u] # p, p # id
      PROVE  /\ stateBar'[p] = stateBar[p] /\ ppidBar'[p] = ppidBar[p]
             /\ codeBar'[p] = codeBar[p]
  <2>1. \A u \in Live' : pid'[u] # p
    BY <1>3, <1>4, <1>9, SMTT(30) DEF id
  <2> QED BY <1>1, <1>9, <2>1, SMTT(30) DEF MirrorsNow, Mirrors
<1>10. ASSUME NEW p \in Pids
       PROVE  /\ stateBar'[p] = IF p = id THEN "alive" ELSE stateBar[p]
              /\ ppidBar'[p] = IF p = id THEN pid[t] ELSE ppidBar[p]
              /\ codeBar'[p] = codeBar[p]
  BY <1>7, <1>8, <1>9, SMTT(30)
<1>11. /\ stateBar' = [stateBar EXCEPT ![id] = "alive"]
       /\ ppidBar' = [ppidBar EXCEPT ![id] = pid[t]]
       /\ codeBar' = codeBar
  BY <1>10, BarFunctions, SMTT(30)
<1>12. stateBar[pid[t]] = "alive" /\ pid[t] \in Pids
  BY <1>1, <1>2, SMTT(30) DEF MirrorsNow, Mirrors
<1>13. Tree!Fork(pid[t], id)
  BY <1>7, <1>11, <1>12, SMTT(30) DEF Tree!Fork, NewTask
<1> QED BY <1>5, <1>12, <1>13, SMTT(30)

\* exit is Exit: the zombie keeps its pid and pid 0 gets its children.
LEMMA ExitExits ==
    ASSUME ProcessInv, ProcessInv', PidsSuffice, PidsSuffice', SlotsFresh,
           NEW t \in Tcb, NEW code \in AllCodes, ExitCurrent(t, code)
    PROVE  pid[t] \in Pids /\ Tree!Exit(pid[t], code)
<1>1. /\ TypeOK /\ SchedulerConsistent /\ MirrorsNow /\ MirrorsNow'
  BY TreeMirrors DEF ProcessInv
<1>2. t \in Alive /\ t \in Live
  BY <1>1 DEF ExitCurrent, InUser, SchedulerConsistent, Alive, Live
<1>3. Live' = Live /\ Alive' = Alive \ {t} /\ pid' = pid
  BY <1>1, <1>2, SMTT(30) DEF ExitCurrent, TypeOK, Live, Alive
<1>4. ASSUME NEW u \in Live
      PROVE  /\ parent'[u] = IF parent[u] = t THEN INITPROC ELSE parent[u]
             /\ exit_code'[u] = IF u = t THEN code ELSE exit_code[u]
  <2>1. u \in Tcb /\ (parent[u] = t <=> u \in ToSet(children[t]))
    BY TreeFacts
  <2>2. parent'[u] = IF u \in ToSet(children[t]) THEN INITPROC ELSE parent[u]
    BY <2>1 DEF ExitCurrent, ParentsAfterExit
  <2>3. exit_code'[u] = IF u = t THEN code ELSE exit_code[u]
    BY <1>1, <2>1 DEF ExitCurrent, TypeOK
  <2> QED BY <2>1, <2>2, <2>3, SMTT(30)
<1>5. pid[t] \in Pids /\ pid[t] # 0
  BY <1>2 DEF PidsSuffice, ExitCurrent, IDLE_PID
<1>6. INITPROC # None /\ pid[INITPROC] = 0
  BY TreeFacts, SMTT(30)
<1> DEFINE C == Tree!ChildrenOf(pid[t])
<1>7. ASSUME NEW u \in Live
      PROVE  /\ stateBar'[pid[u]] = IF pid[u] = pid[t] THEN "zombie" ELSE stateBar[pid[u]]
             /\ codeBar'[pid[u]] = IF pid[u] = pid[t] THEN code ELSE codeBar[pid[u]]
             /\ ppidBar'[pid[u]] = IF pid[u] \in C THEN 0 ELSE ppidBar[pid[u]]
  <2>1. pid[u] = pid[t] <=> u = t
    BY <1>2, TreeFacts
  <2>2. pid[u] \in C <=> parent[u] = t
    BY <1>2, ChildrenNow, SMTT(30)
  <2>3. /\ stateBar'[pid[u]] = IF u \in Alive \ {t} THEN "alive" ELSE "zombie"
        /\ codeBar'[pid[u]] = exit_code'[u]
        /\ ppidBar'[pid[u]] = IF parent'[u] = None THEN -1 ELSE pid[parent'[u]]
    BY <1>1, <1>3, SMTT(30) DEF MirrorsNow, Mirrors
  <2>4. /\ codeBar[pid[u]] = exit_code[u]
        /\ stateBar[pid[u]] = IF u \in Alive THEN "alive" ELSE "zombie"
        /\ ppidBar[pid[u]] = IF parent[u] = None THEN -1 ELSE pid[parent[u]]
    BY <1>1, SMTT(30) DEF MirrorsNow, Mirrors
  <2>5. ppidBar'[pid[u]] = IF parent[u] = t THEN 0 ELSE ppidBar[pid[u]]
    BY <1>4, <1>6, <2>3, <2>4, SMTT(30)
  <2> QED BY <1>2, <1>4, <2>1, <2>2, <2>3, <2>4, <2>5, SMTT(30)
<1>8. ASSUME NEW p \in Pids, \A u \in Live : pid[u] # p
      PROVE  /\ stateBar'[p] = stateBar[p] /\ codeBar'[p] = codeBar[p]
             /\ ppidBar'[p] = ppidBar[p] /\ p # pid[t] /\ p \notin C
  <2>1. p # pid[t] /\ p \notin C
    BY <1>2, <1>8, ChildrenNow, SMTT(30)
  <2> QED BY <1>1, <1>3, <1>8, <2>1, SMTT(30) DEF MirrorsNow, Mirrors
<1> HIDE DEF C
<1>9. ASSUME NEW p \in Pids
      PROVE  /\ stateBar'[p] = IF p = pid[t] THEN "zombie" ELSE stateBar[p]
             /\ codeBar'[p] = IF p = pid[t] THEN code ELSE codeBar[p]
             /\ ppidBar'[p] = IF p \in C THEN 0 ELSE ppidBar[p]
  BY <1>7, <1>8, SMTT(30)
<1>10. /\ stateBar' = [stateBar EXCEPT ![pid[t]] = "zombie"]
       /\ codeBar' = [codeBar EXCEPT ![pid[t]] = code]
  BY <1>9, BarFunctions, SMTT(30)
<1>11. ppidBar' = [q \in Pids |-> IF q \in C THEN 0 ELSE ppidBar[q]]
  BY <1>9, BarFunctions, SMTT(30)
<1>12. stateBar[pid[t]] = "alive"
  BY <1>1, <1>2, SMTT(30) DEF MirrorsNow, Mirrors
<1>13. UNCHANGED <<wait_result, (panicked # "no")>>
  BY DEF ExitCurrent
<1> QED BY <1>5, <1>10, <1>11, <1>12, <1>13, SMTT(30) DEF Tree!Exit, C

\* sys_waitpid without a match, or with running matches only, is Wait.
LEMMA NothingReaped ==
    ASSUME ProcessInv, PidsSuffice, SlotsFresh, NEW t \in Tcb, NEW arg \in WaitPids,
           WaitNoChild(t, arg) \/ WaitRunning(t, arg)
    PROVE  pid[t] \in Pids /\ Tree!Wait(pid[t], arg)
<1> DEFINE W == Tree!WaitedFor(pid[t], arg)
<1>1. TypeOK /\ SchedulerConsistent /\ MirrorsNow
  BY TreeMirrors DEF ProcessInv
<1>2. InUser(t) /\ UNCHANGED <<tcbVars, panicked>>
  BY DEF WaitNoChild, WaitRunning
<1>3. t \in Alive /\ t \in Live
  BY <1>1, <1>2, SMTT(30) DEF InUser, SchedulerConsistent, Alive, Live
<1>4. stateBar[pid[t]] = "alive" /\ pid[t] \in Pids
  BY <1>1, <1>3 DEF MirrorsNow, Mirrors
<1>5. UNCHANGED <<stateBar, ppidBar, codeBar>>
  <2>1. Live' = Live /\ Alive' = Alive /\ UNCHANGED <<pid, parent, exit_code>>
    BY <1>2 DEF Live, Alive, tcbVars
  <2> QED BY <2>1, Framed
<1>6. CASE WaitNoChild(t, arg)
  <2>1. W = {}
    BY <1>3, <1>6, MatchingNow, SMTT(30) DEF WaitNoChild
  <2> QED BY <1>2, <1>4, <1>5, <1>6, <2>1, SMTT(30) DEF Tree!Wait, WaitNoChild
<1>7. CASE WaitRunning(t, arg)
  <2>1. W # {}
    BY <1>3, <1>7, MatchingNow, SMTT(30) DEF WaitRunning
  <2>2. ASSUME NEW q \in W PROVE stateBar[q] = "alive"
    <3>1. PICK i \in Matching(t, arg) : q = pid[children[t][i]]
      BY <1>3, MatchingNow, SMTT(30)
    <3>2. children[t][i] \in Live /\ task_status[children[t][i]] # "Zombie"
      BY <1>3, <1>7, <3>1, MatchingNow, SMTT(30) DEF WaitRunning, Reapable
    <3>3. children[t][i] \in Alive
      BY <1>1, <3>2, SMTT(30) DEF TypeOK, TaskStatus, Live, Alive
    <3> QED BY <1>1, <3>1, <3>2, <3>3, SMTT(30) DEF MirrorsNow, Mirrors
  <2> QED BY <1>2, <1>4, <1>5, <1>7, <2>1, <2>2, SMTT(30) DEF Tree!Wait, WaitRunning
<1> QED BY <1>4, <1>6, <1>7, SMTT(30)

\* sys_waitpid that takes a zombie is Wait: it reports that zombie's pid and
\* code, and the pid is unused from then on.
LEMMA ZombieReaped ==
    ASSUME ProcessInv, ProcessInv', PidsSuffice, PidsSuffice', SlotsFresh,
           NEW t \in Tcb, NEW arg \in WaitPids, WaitReap(t, arg)
    PROVE  pid[t] \in Pids /\ Tree!Wait(pid[t], arg)
<1>1. /\ TypeOK /\ SchedulerConsistent /\ MirrorsNow /\ MirrorsNow'
  BY TreeMirrors DEF ProcessInv
<1>2. t \in Alive /\ t \in Live /\ panicked = "no"
  BY <1>1 DEF WaitReap, InUser, SchedulerConsistent, Alive, Live
<1>3. PICK idx \in Reapable(t, arg) : LET d == children[t][idx] IN
         /\ task_status' = [task_status EXCEPT ![d] = "Dropped"]
         /\ parent' = [parent EXCEPT ![d] = None]
         /\ exit_code' = [exit_code EXCEPT ![d] = 0]
         /\ pid' = [pid EXCEPT ![d] = 0]
         /\ wait_result' = <<pid[d], exit_code[d]>>
         /\ panicked' \in {panicked, "assertion"}
  BY ZenonT(40) DEF WaitReap
<1> DEFINE c == children[t][idx]
<1>4. /\ c \in Live /\ task_status[c] = "Zombie"
      /\ pid[c] \in Tree!WaitedFor(pid[t], arg)
  BY <1>2, MatchingNow, SMTT(30) DEF Reapable
<1>5. /\ task_status' = [task_status EXCEPT ![c] = "Dropped"]
      /\ parent' = [parent EXCEPT ![c] = None]
      /\ exit_code' = [exit_code EXCEPT ![c] = 0]
      /\ pid' = [pid EXCEPT ![c] = 0]
      /\ wait_result' = <<pid[c], exit_code[c]>>
      /\ panicked' = "no"
  BY <1>2, <1>3, SMTT(30) DEF ProcessInv, NoAssertionFails
<1> HIDE DEF c
<1>6. Live' = Live \ {c} /\ Alive' = Alive /\ c \notin Alive
  BY <1>1, <1>4, <1>5, SMTT(30) DEF TypeOK, Live, Alive
<1>7. ASSUME NEW u \in Live, u # c
      PROVE  pid'[u] = pid[u] /\ parent'[u] = parent[u] /\ exit_code'[u] = exit_code[u]
  BY <1>1, <1>5, <1>7, SMTT(30) DEF TypeOK, Live
<1>8. ASSUME NEW u \in Live, u # c
      PROVE  /\ pid[u] \in Pids /\ pid[u] # pid[c]
             /\ stateBar'[pid[u]] = stateBar[pid[u]]
             /\ ppidBar'[pid[u]] = ppidBar[pid[u]]
             /\ codeBar'[pid[u]] = codeBar[pid[u]]
  <2>1. pid[u] # pid[c] /\ (parent[u] = None \/ (parent[u] \in Live /\ parent[u] # c))
    BY <1>4, <1>6, <1>8, TreeFacts, SMTT(30)
  <2>2. u \in Live' /\ pid'[u] = pid[u] /\ u \in Alive' <=> u \in Alive
    BY <1>6, <1>7, <1>8, SMTT(30)
  <2>3. /\ stateBar'[pid[u]] = IF u \in Alive THEN "alive" ELSE "zombie"
        /\ codeBar'[pid[u]] = exit_code[u]
        /\ ppidBar'[pid[u]] = IF parent[u] = None THEN -1 ELSE pid'[parent[u]]
    BY <1>1, <1>6, <1>7, <1>8, <2>2, SMTT(30) DEF MirrorsNow, Mirrors
  <2>4. parent[u] = None \/ pid'[parent[u]] = pid[parent[u]]
    BY <1>7, <2>1, SMTT(30)
  <2>5. /\ pid[u] \in Pids /\ codeBar[pid[u]] = exit_code[u]
        /\ stateBar[pid[u]] = IF u \in Alive THEN "alive" ELSE "zombie"
        /\ ppidBar[pid[u]] = IF parent[u] = None THEN -1 ELSE pid[parent[u]]
    BY <1>1 DEF MirrorsNow, Mirrors
  <2> QED BY <2>1, <2>3, <2>4, <2>5, SMTT(30)
<1>9. ASSUME NEW p \in Pids, \A u \in Live : u # c => pid[u] # p
      PROVE  stateBar'[p] = "unused" /\ ppidBar'[p] = -1 /\ codeBar'[p] = 0
  <2>1. \A u \in Live' : pid'[u] # p
    BY <1>6, <1>7, <1>9, SMTT(30)
  <2> QED BY <1>1, <2>1, SMTT(30) DEF MirrorsNow, Mirrors
<1>10. /\ pid[c] \in Pids /\ stateBar[pid[c]] = "zombie"
       /\ codeBar[pid[c]] = exit_code[c]
  BY <1>1, <1>4, <1>6, SMTT(30) DEF MirrorsNow, Mirrors
<1>11. ASSUME NEW p \in Pids
       PROVE  /\ stateBar'[p] = IF p = pid[c] THEN "unused" ELSE stateBar[p]
              /\ ppidBar'[p] = IF p = pid[c] THEN -1 ELSE ppidBar[p]
              /\ codeBar'[p] = IF p = pid[c] THEN 0 ELSE codeBar[p]
  <2>1. CASE \A u \in Live : pid[u] # p
    <3>1. stateBar[p] = "unused" /\ ppidBar[p] = -1 /\ codeBar[p] = 0
      BY <1>1, <2>1, SMTT(30) DEF MirrorsNow, Mirrors
    <3> QED BY <1>4, <1>9, <2>1, <3>1, SMTT(30)
  <2>2. CASE p = pid[c]
    <3>1. \A u \in Live : u # c => pid[u] # p
      BY <1>8, <2>2, SMTT(30)
    <3> QED BY <1>9, <2>2, <3>1, SMTT(30)
  <2>3. CASE \E u \in Live : u # c /\ pid[u] = p
    BY <1>8, <2>3, SMTT(30)
  <2> QED BY <2>1, <2>2, <2>3, SMTT(30)
<1>12. /\ stateBar' = [stateBar EXCEPT ![pid[c]] = "unused"]
       /\ ppidBar' = [ppidBar EXCEPT ![pid[c]] = -1]
       /\ codeBar' = [codeBar EXCEPT ![pid[c]] = 0]
  BY <1>11, BarFunctions, SMTT(30)
<1>13. stateBar[pid[t]] = "alive" /\ pid[t] \in Pids
  BY <1>1, <1>2, SMTT(30) DEF MirrorsNow, Mirrors
<1>14. wait_result' = <<pid[c], codeBar[pid[c]]>> /\ UNCHANGED (panicked # "no")
  BY <1>2, <1>5, <1>10, SMTT(30)
<1> QED BY <1>4, <1>10, <1>12, <1>13, <1>14, ZenonT(40) DEF Tree!Wait

\* Every step of the kernel is a step of the tree or none.
LEMMA StepImplements ==
    ASSUME ProcessInv, ProcessInv', PidsSuffice, PidsSuffice', SlotsFresh,
           [Next]_vars
    PROVE  [Tree!TreeNext]_(Tree!treeVars)
<1> DEFINE Same == UNCHANGED <<stateBar, ppidBar, codeBar, wait_result, (panicked # "no")>>
<1>1. TypeOK /\ SchedulerConsistent
  BY DEF ProcessInv
<1>2. ASSUME Same PROVE UNCHANGED Tree!treeVars
  BY <1>2 DEF Tree!treeVars
<1>3. CASE RunTasks
  <2>1. ready_queue \in Seq(Tcb) /\ Head(ready_queue) \in ToSet(ready_queue)
    BY <1>1, <1>3, TailElements, SMTT(30)
       DEF TypeOK, SchedulerConsistent, RunTasks
  <2>2. Live' = Live /\ Alive' = Alive
    BY <1>1, <1>3, <2>1, SMTT(30) DEF RunTasks, TypeOK, SchedulerConsistent, Live, Alive
  <2> QED BY <1>2, <1>3, <2>2, Framed, SMTT(30) DEF RunTasks
<1>4. CASE Halted \/ UNCHANGED vars
  <2>1. UNCHANGED vars
    BY <1>4 DEF Halted
  <2>2. Live' = Live /\ Alive' = Alive
    BY <2>1 DEF vars, tcbVars, Live, Alive
  <2> QED BY <1>2, <2>1, <2>2, Framed, SMTT(30) DEF vars, tcbVars
<1>5. ASSUME NEW t \in Tcb, SysYield(t) \/ TimerInterrupt(t) \/ StdinEmpty(t)
      PROVE  Same
  <2>1. Suspends(t)
    BY <1>5 DEF SysYield, TimerInterrupt, StdinEmpty, InUser, Suspends
  <2>2. task_status[t] = "Running"
    BY <1>1, <2>1, SMTT(30) DEF Suspends, SchedulerConsistent
  <2>3. Live' = Live /\ Alive' = Alive
    BY <1>1, <2>1, <2>2, SMTT(30) DEF Suspends, Suspend, TypeOK, Live, Alive
  <2> QED BY <2>1, <2>3, Framed, SMTT(30) DEF Suspends
<1>6. ASSUME NEW t \in Tcb, StdinReady(t)
      PROVE  Same
  <2>1. Live' = Live /\ Alive' = Alive
    BY <1>6 DEF StdinReady, tcbVars, Live, Alive
  <2> QED BY <1>6, <2>1, Framed, SMTT(30) DEF StdinReady, tcbVars
<1>7. ASSUME NEW t \in Tcb, NEW c \in Tcb, SysFork(t, c) \/ SysSpawn(t, c)
      PROVE  Tree!TreeNext
  <2>1. InUser(t) /\ NewTask(t, c)
    BY <1>7 DEF SysFork, SysSpawn
  <2>2. PICK q \in Pids : Tree!Fork(pid[t], q)
    BY <2>1, NewTaskForks
  <2>3. pid[t] \in Pids /\ panicked = "no"
    BY <2>1, NewTaskForks DEF InUser
  <2> QED BY <2>2, <2>3, SMTT(30) DEF Tree!TreeNext
<1>8. ASSUME NEW t \in Tcb, NEW code \in AllCodes, ExitCurrent(t, code)
      PROVE  Tree!TreeNext
  <2>1. pid[t] \in Pids /\ Tree!Exit(pid[t], code) /\ panicked = "no"
    BY <1>8, ExitExits, ZenonT(40) DEF ExitCurrent, InUser
  <2> QED BY <2>1 DEF Tree!TreeNext
<1>9. ASSUME NEW t \in Tcb, InitprocExit(t)
      PROVE  Tree!TreeNext
  <2>1. MirrorsNow /\ INITPROC \in Alive /\ INITPROC \in Live /\ pid[INITPROC] = 0
    BY TreeMirrors, TreeFacts DEF ProcessInv
  <2>2. stateBar[0] = "alive"
    BY <2>1 DEF MirrorsNow, Mirrors
  <2>3. Live' = Live /\ Alive' = Alive
    BY <1>9 DEF InitprocExit, tcbVars, Live, Alive
  <2>4. UNCHANGED <<stateBar, ppidBar, codeBar>>
    BY <1>9, <2>3, Framed, SMTT(30) DEF InitprocExit, tcbVars
  <2>5. /\ panicked = "no" /\ (panicked # "no")' = TRUE /\ wait_result' = wait_result
    BY <1>9 DEF InitprocExit, InUser
  <2>6. Tree!Shutdown
    BY <2>2, <2>4, <2>5, SMTT(30) DEF Tree!Shutdown
  <2> QED BY <2>5, <2>6 DEF Tree!TreeNext
<1>10. ASSUME NEW t \in Tcb, NEW p \in WaitPids, SysWaitpid(t, p)
       PROVE  Tree!TreeNext
  <2>1. pid[t] \in Pids /\ Tree!Wait(pid[t], p)
    BY <1>10, NothingReaped, ZombieReaped, SMTT(30) DEF SysWaitpid
  <2>2. panicked = "no"
    BY <1>10 DEF SysWaitpid, WaitNoChild, WaitRunning, WaitReap, InUser
  <2> QED BY <2>1, <2>2, SMTT(30) DEF Tree!TreeNext
<1>11. CASE \E t \in Tcb : Step(t)
  <2>1. PICK t \in Tcb : Step(t)
    BY <1>11
  <2>2. /\ ExitCodes \subseteq AllCodes
        /\ PageFaultCode \in AllCodes /\ IllegalInstructionCode \in AllCodes
    BY DEF AllCodes
  <2>3. CASE (\E code \in ExitCodes : SysExit(t, code)) \/ PageFault(t)
             \/ IllegalInstruction(t)
    BY <1>8, <2>2, <2>3, ZenonT(40) DEF SysExit, PageFault, IllegalInstruction
  <2> HIDE DEF Same
  <2> QED BY <1>2, <1>5, <1>6, <1>7, <1>9, <1>10, <2>1, <2>3, ZenonT(40) DEF Step
<1> QED BY <1>3, <1>4, <1>11, SMTT(30) DEF Next

\* add_initproc makes a tree of one process, pid 0.
LEMMA InitImplements ==
    ASSUME Init
    PROVE  PidsSuffice /\ SlotsFresh /\ Tree!TreeInit
<1>1. Live = {INITPROC} /\ Alive = {INITPROC}
  BY DEF Init, Live, Alive
<1>2. pid = [t \in Tcb |-> 0]
  BY FirstAlloc DEF Init
<1>3. PidsSuffice /\ SlotsFresh
  BY <1>1, <1>2, PidsAssumption, SMTT(30) DEF Init, PidsSuffice, SlotsFresh
<1>4. MirrorsNow
  BY <1>3, InitEstablishes, TreeMirrors, SMTT(30) DEF ProcessInv
<1>5. ASSUME NEW p \in Pids
      PROVE  /\ stateBar[p] = IF p = 0 THEN "alive" ELSE "unused"
             /\ ppidBar[p] = -1 /\ codeBar[p] = 0
  BY <1>1, <1>2, <1>4, SMTT(30) DEF Init, MirrorsNow, Mirrors
<1>6. /\ stateBar = [p \in Pids |-> IF p = 0 THEN "alive" ELSE "unused"]
      /\ ppidBar = [p \in Pids |-> -1] /\ codeBar = [p \in Pids |-> 0]
  BY <1>5, BarFunctions
<1> QED BY <1>3, <1>6, SMTT(30) DEF Init, Tree!TreeInit

(***************************************************************************)
(* fork, spawn, exit and waitpid do what ProcessTree says of pids, for any *)
(* number of processes, as long as Pids has the pids that are in use.      *)
(***************************************************************************)
THEOREM ProcessesImplementTree == Spec /\ []PidsSuffice => ImplementsTree
<1>1. Init => SlotsFresh /\ Tree!TreeInit
  BY InitImplements
<1>2. ProcessInv /\ SlotsFresh /\ [Next]_vars => SlotsFresh'
  BY FreshKeeps
<1>3. ProcessInv /\ ProcessInv' /\ PidsSuffice /\ PidsSuffice' /\ SlotsFresh
         /\ [Next]_vars => [Tree!TreeNext]_(Tree!treeVars)
  BY StepImplements
<1> QED BY <1>1, <1>2, <1>3, ProcessesCorrect, PTL
        DEF Spec, ImplementsTree, Tree!TreeSpec

\* In particular with all natural numbers as pids.
THEOREM ProcessesImplementTreeOfNat ==
    ASSUME Pids = Nat
    PROVE  Spec => ImplementsTree
<1>1. ProcessInv => PidsSuffice
  BY DEF ProcessInv, TypeOK, PidsSuffice, Live
<1> QED BY <1>1, ProcessesCorrect, ProcessesImplementTree, PTL
=============================================================================
