---------------------------- MODULE SchedProofs -----------------------------
(* The invariants of Sched, for any number of CPUs, tasks, spinlocks and   *)
(* channels, and those of the sleep lock on top of it.                     *)
EXTENDS Sleeplock, TLAPS

TaskPc == Pc \ {"window", "scan", "pick", "back"}
CpuPc == {"window", "scan", "pick", "back", "kernel", "wake", "rouse"}

(* A CPU is on its own scheduler's flow or on one task, no task is on two  *)
(* CPUs, and a scheduler that has switched away waits at "back".           *)
Placement ==
    /\ \A c \in Cpu : run[c] = c \/ run[c] \in Task
    /\ \A c, d \in Cpu, t \in Task : run[c] = t /\ run[d] = t => c = d
    /\ \A c \in Cpu : pc[c] \in CpuPc
    /\ \A t \in Task : pc[t] \in TaskPc
    /\ \A c \in Cpu : run[c] \in Task => pc[c] = "back" /\ idx[c] = run[c]

(* state is RUN exactly while a CPU executes the task; any other task has  *)
(* a saved context.                                                        *)
Contexts ==
    /\ \A t \in Task : state[t] = "RUN" <=> \E c \in Cpu : run[c] = t
    /\ \A t \in Task : state[t] # "RUN" => pc[t] \in {"resume", "slept"}
    /\ \A t \in Task : state[t] = "SLEEP" => pc[t] = "slept" /\ chan[t] = achan[t]

CurTask ==
    \A c \in Cpu :
        /\ run[c] \in Task => cur_task[c] = run[c]
        /\ run[c] = c => cur_task[c] = None \/ (pc[c] = "back" /\ cur_task[c] = idx[c])

(* Who holds a task's lock can be read off the flow a CPU executes.        *)
OwnsTask(c, t) ==
    \/ pc[run[c]] \in {"pick", "rouse", "probe"} /\ idx[run[c]] = t
    \/ run[c] = c /\ pc[c] = "back" /\ idx[c] = t
    \/ run[c] = t /\ pc[t] \in {"ready", "resume", "unlock", "doze", "slept"}

TaskLocksOf(c) == \A t \in Task : owner[t] = c <=> OwnsTask(c, t)
TaskLocks == \A c \in Cpu : TaskLocksOf(c)

(* Where a CPU may hold another spinlock, and that it holds one at most.   *)
OtherLocksOf(c) ==
    /\ \A l \in Lock : owner[l] = c =>
         \/ pc[run[c]] = "kernel" /\ l # tq
         \/ pc[run[c]] \in {"wake", "rouse"} /\ ret[run[c]] = "kernel" /\ l # tq
         \/ pc[run[c]] \in {"sleep", "unlock"} /\ alock[run[c]] = l
         \/ pc[run[c]] \in {"alloc", "probe", "panic"} /\ l = tq
    /\ \A l, m \in Lock : owner[l] = c /\ owner[m] = c => l = m
    /\ pc[run[c]] \in {"alloc", "probe"} => owner[tq] = c
    /\ pc[run[c]] \in {"sleep", "unlock"} /\ alock[run[c]] # None => owner[alock[run[c]]] = c
OtherLocks == \A c \in Cpu : OtherLocksOf(c)

(* The arguments and the loop counter of the call a flow is in.            *)
ArgumentsOf(f) ==
    /\ pc[f] \notin {"wake", "panic"} => idx[f] \in Task
    /\ alock[f] # tq
    /\ f \in Cpu => ret[f] \in {"window", "kernel"}
    /\ f \in Task =>
         /\ pc[f] = "relock" => alock[f] \in Lock
         /\ pc[f] \in {"yield", "ready", "resume"} => ret[f] = "user"
         /\ pc[f] \in {"sleep", "unlock", "doze", "slept", "relock"} => ret[f] = "kernel"
         /\ ret[f] # "window"
         /\ pc[f] \in {"wake", "rouse"} => ret[f] \in {"kernel", "yield"}
Arguments == \A f \in Flow : ArgumentsOf(f)

(* A slot between alloc_task and the end of sys_fork has one parent.       *)
Forking ==
    /\ \A t \in Task : pc[t] = "fork" => newtask[t] \in Task /\ state[newtask[t]] = "INIT"
    /\ \A t, u \in Task : pc[t] = "fork" /\ pc[u] = "fork" /\ newtask[t] = newtask[u] => t = u

(* NoLostWakeup, at every step of the loop of wakeup.                      *)
SweptOf(c) ==
    \A l \in Lock, t \in Task :
        pc[run[c]] \in {"wake", "rouse"} /\ owner[l] = c /\ t < idx[run[c]]
            => ~Waits(t, achan[run[c]], l)
Swept == \A c \in Cpu : SweptOf(c)

IInv ==
    /\ TypeOK
    /\ Placement
    /\ Contexts
    /\ CurTask
    /\ TaskLocks
    /\ OtherLocks
    /\ Arguments
    /\ Forking
    /\ Swept

(* What the assumptions on the constants say of tasks, CPUs and flows, in  *)
(* the form the steps use.                                                 *)
LEMMA Constants ==
    /\ Cpu \cap Task = {} /\ None \notin Cpu \cup Task
    /\ Lock \cap Task = {} /\ Lock \cap Cpu = {} /\ tq \in Lock /\ None \notin Lock
    /\ tstub \in Chan /\ None \notin Chan
    /\ NPROC \in Nat \ {0}
    /\ \A i \in Task : i \in 0 .. NPROC /\ i + 1 \in 0 .. NPROC /\ i < NPROC
    /\ \A i \in 0 .. NPROC : i < NPROC => i \in Task
    /\ 0 \in Task
  BY CpuAssumption, NPROCAssumption, LockAssumption, ChanAssumption DEF Task

(* The state that main leaves the scheduler in satisfies the inductive     *)
(* invariant.                                                              *)
LEMMA InitIInv == Init => IInv
<1> SUFFICES ASSUME Init PROVE IInv
  BY Zenon
<1> USE Constants DEF Init, Started
<1>1. TypeOK
  BY Zenon DEF TypeOK, Flow, State, Pc
<1>2. Placement /\ Contexts /\ CurTask
  BY Zenon DEF Placement, Contexts, CurTask, Flow, TaskPc, CpuPc, Pc
<1>3. TaskLocks /\ OtherLocks
  BY Zenon DEF TaskLocks, TaskLocksOf, OwnsTask, OtherLocks, OtherLocksOf, Flow
<1>4. Arguments /\ Forking
  BY Zenon DEF Arguments, ArgumentsOf, Forking, Flow
<1>5. Swept
  BY Zenon DEF Swept, SweptOf, Flow
<1> QED
  BY <1>1, <1>2, <1>3, <1>4, <1>5, Zenon DEF IInv
-----------------------------------------------------------------------------
(* What most steps do: CPU c stays on its flow, and neither touches what   *)
(* belongs to another flow nor takes or gives a lock for another CPU.      *)
Stays(c) ==
    /\ UNCHANGED <<state, cur_task, run, newtask>>
    /\ \A g \in Flow \ {run[c]} :
         /\ pc'[g] = pc[g] /\ ret'[g] = ret[g] /\ idx'[g] = idx[g]
         /\ achan'[g] = achan[g] /\ alock'[g] = alock[g]
    /\ \A t \in Task \ {run[c]} : chan'[t] = chan[t]
    /\ \A d \in Cpu \ {c}, x \in Task \cup Lock : owner'[x] = d <=> owner[x] = d
    /\ pc[run[c]] # "back"
    /\ pc'[run[c]] \in IF run[c] = c THEN CpuPc ELSE TaskPc \ {"fork", "doze"}

(* After such a step only what the invariant says of c and of its flow is  *)
(* left to show.                                                           *)
LEMMA StaysIInv ==
    ASSUME IInv, NEW c \in Cpu, Stays(c),
           TypeOK', TaskLocksOf(c)', OtherLocksOf(c)', ArgumentsOf(run[c])', SweptOf(c)'
    PROVE  IInv'
<1> USE Constants DEF IInv
<1>a. /\ run[c] \in Flow /\ (run[c] = c \/ run[c] \in Task)
      /\ \A d \in Cpu \ {c} : run[d] \in Flow \ {run[c]}
      /\ \A t \in Task : t = run[c] => state[t] = "RUN"
      /\ \A d \in Cpu : alock[run[d]] \in Lock \cup {None}
  BY DEF TypeOK, Placement, Contexts
<1>1. Placement'
  BY DEF Stays, Flow, Placement
<1>2. Contexts'
  BY DEF Stays, Flow, Contexts
<1>3. CurTask'
  BY <1>a DEF Stays, CurTask
<1>4. ASSUME NEW d \in Cpu, d # c
      PROVE  TaskLocksOf(d)' /\ OtherLocksOf(d)' /\ SweptOf(d)'
  <2>1. TaskLocksOf(d)'
    BY <1>a DEF Stays, TaskLocks, TaskLocksOf, OwnsTask
  <2>2. OtherLocksOf(d)'
    BY <1>a DEF Stays, OtherLocks, OtherLocksOf
  <2>3. SweptOf(d)'
    BY <1>a DEF Stays, Flow, Swept, SweptOf, Waits
  <2> QED
    BY <2>1, <2>2, <2>3, Zenon
<1>5. Arguments'
  <2> SUFFICES ASSUME NEW f \in Flow PROVE ArgumentsOf(f)'
    BY Zenon DEF Arguments
  <2>1. CASE f = run[c]
    BY <2>1, Zenon DEF Stays
  <2>2. CASE f # run[c]
    <3>1. /\ pc'[f] = pc[f] /\ ret'[f] = ret[f] /\ idx'[f] = idx[f]
          /\ achan'[f] = achan[f] /\ alock'[f] = alock[f]
      BY <2>2, Zenon DEF Stays
    <3>2. ArgumentsOf(f)
      BY Zenon DEF Arguments
    <3> QED
      BY ONLY <3>1, <3>2, Zenon DEF ArgumentsOf
  <2> QED
    BY <2>1, <2>2, Zenon
<1>6. Forking'
  BY DEF Stays, Flow, Forking
<1> QED
  BY <1>1, <1>2, <1>3, <1>4, <1>5, <1>6, Zenon DEF TaskLocks, OtherLocks, Swept

(* What the inductive invariant says of the flow that CPU c executes, the  *)
(* only one that a step of c which does not switch context depends on.     *)
Local(c) ==
    /\ TypeOK /\ run[c] \in Flow /\ (run[c] = c \/ run[c] \in Task)
    /\ run[c] = c => pc[run[c]] \in CpuPc
    /\ run[c] \in Task => pc[run[c]] \in TaskPc
    /\ ArgumentsOf(run[c]) /\ TaskLocksOf(c) /\ OtherLocksOf(c) /\ SweptOf(c)
    /\ owner \in [Task \cup Lock -> Cpu \cup {None}] /\ pc \in [Flow -> Pc]
    /\ ret \in [Flow -> {"window", "user", "kernel", "yield"}] /\ idx \in [Flow -> 0 .. NPROC]
    /\ achan \in [Flow -> Chan \cup {None}] /\ alock \in [Flow -> Lock \cup {None}]

(* The inductive invariant gives all of it.                                *)
LEMMA Here == ASSUME IInv, NEW c \in Cpu PROVE Local(c)
  BY Zenon DEF Local, IInv, TypeOK, Flow, Placement, Arguments, TaskLocks, OtherLocks, Swept

(* Two CPUs are on different flows.                                        *)
LEMMA Apart ==
    ASSUME IInv, NEW c \in Cpu
    PROVE  /\ \A d \in Cpu : /\ run[d] \in Flow /\ alock[run[d]] \in Lock \cup {None}
                             /\ d # c => run[d] # run[c] /\ run[d] # c
           /\ run[c] # c => pc[c] = "back" /\ idx[c] = run[c]
<1>1. Placement /\ TypeOK
  BY Zenon DEF IInv
<1> QED
  BY ONLY <1>1, Constants DEF Placement, TypeOK

(* The inductive invariant survives task_schedule opening its interrupt    *)
(* window.                                                                 *)
LEMMA WindowIInv ==
    ASSUME IInv, NEW c \in Cpu, Window(c) PROVE IInv'
<1> USE Constants DEF Window, Goto, At, OnTask
<1>h. Local(c)
  BY Here, Zenon
<1>1. TypeOK'
  BY <1>h, Zenon DEF Local, TypeOK, ArgumentsOf, Pc
<1>2. Stays(c)
  BY <1>h, Zenon DEF Local, Stays, Flow, ArgumentsOf, Pc, TaskPc, CpuPc
<1>3. TaskLocksOf(c)' /\ OtherLocksOf(c)' /\ ArgumentsOf(run[c])' /\ SweptOf(c)'
  BY <1>h, Zenon DEF Local, TaskLocksOf, OwnsTask, OtherLocksOf, ArgumentsOf, SweptOf, Waits, Flow, TaskPc, CpuPc
<1> QED
  BY ONLY IInv, c \in Cpu, <1>1, <1>2, <1>3, StaysIInv, Zenon

(* The inductive invariant survives task_schedule taking a slot's lock.    *)
LEMMA ScanGetIInv ==
    ASSUME IInv, NEW c \in Cpu, ScanGet(c) PROVE IInv'
<1> USE Constants DEF ScanGet, Goto, spin_get, At, OnTask
<1>h. Local(c)
  BY Here, Zenon
<1>a. /\ c \in Flow /\ run[c] = c /\ idx[c] \in Task
      /\ owner' = [owner EXCEPT ![idx[c]] = c]
      /\ pc' = [pc EXCEPT ![c] = "pick"]
  BY <1>h, Zenon DEF Local, Flow, ArgumentsOf
<1>1. TypeOK'
  BY <1>a, <1>h DEF Local, TypeOK, Pc
<1>2. Stays(c)
  <2>1. UNCHANGED <<state, cur_task, run, newtask>> /\ pc[run[c]] # "back"
    BY <1>a, <1>h, Zenon DEF Local, Flow, ArgumentsOf, Pc, TaskPc, CpuPc
  <2>2. /\ \A g \in Flow \ {run[c]} :
             /\ pc'[g] = pc[g] /\ ret'[g] = ret[g] /\ idx'[g] = idx[g]
             /\ achan'[g] = achan[g] /\ alock'[g] = alock[g]
        /\ \A t \in Task \ {run[c]} : chan'[t] = chan[t]
    BY <1>a, <1>h, Zenon DEF Local, Flow, ArgumentsOf, Pc, TaskPc, CpuPc
  <2>3. \A d \in Cpu \ {c}, x \in Task \cup Lock : owner'[x] = d <=> owner[x] = d
    OBVIOUS
  <2>4. pc'[run[c]] \in IF run[c] = c THEN CpuPc ELSE TaskPc \ {"fork", "doze"}
    BY <1>a, <1>h, Zenon DEF Local, Flow, ArgumentsOf, Pc, TaskPc, CpuPc
  <2> QED
    BY <2>1, <2>2, <2>3, <2>4, Zenon DEF Stays
<1>3. TaskLocksOf(c)' /\ OtherLocksOf(c)' /\ ArgumentsOf(run[c])' /\ SweptOf(c)'
  <2>1. TaskLocksOf(c)'
    BY <1>h, Zenon DEF Local, TaskLocksOf, OwnsTask
  <2>2. OtherLocksOf(c)'
    BY <1>a, <1>h DEF Local, OtherLocksOf
  <2>3. ArgumentsOf(run[c])'
    BY <1>a, <1>h, Zenon DEF Local, ArgumentsOf, Flow, TaskPc, CpuPc
  <2>4. SweptOf(c)'
    BY <1>a, <1>h, Zenon DEF Local, ArgumentsOf, SweptOf, Waits, Flow, TaskPc, CpuPc
  <2> QED
    BY ONLY <2>1, <2>2, <2>3, <2>4, Zenon
<1> QED
  BY ONLY IInv, c \in Cpu, <1>1, <1>2, <1>3, StaysIInv, Zenon

(* The inductive invariant survives task_schedule switching to a READY     *)
(* task or passing over another.                                           *)
LEMMA PickIInv ==
    ASSUME IInv, NEW c \in Cpu, Pick(c) PROVE IInv'
<1> USE Constants
<1>h. Local(c)
  BY Here, Zenon
<1>a. PICK i \in Task : i = idx[c] /\ run[c] = c /\ pc[c] = "pick" /\ c \in Flow /\ i \in Flow /\ i # c
  BY <1>h, Zenon DEF Pick, At, OnTask, Local, ArgumentsOf, Flow
<1>b. pc' = [pc EXCEPT ![c] = "back"] /\ UNCHANGED <<chan, owner, ret, idx, achan, alock, newtask>>
  BY Zenon DEF Pick, Goto
<1>c. \A f \in Flow : pc'[f] = IF f = c THEN "back" ELSE pc[f]
  BY <1>h, <1>b, Zenon DEF Local
<1>1. CASE state[i] = "READY"
  <2>a. /\ state' = [state EXCEPT ![i] = "RUN"]
        /\ cur_task' = [cur_task EXCEPT ![c] = i]
        /\ run' = [run EXCEPT ![c] = i]
    BY <1>1, <1>a, Zenon DEF Pick
  <2>1. TypeOK'
    BY <1>h, <1>a, <1>b, <2>a, Zenon DEF Local, TypeOK, State, Pc, Flow
  <2>b. /\ \A u \in Task : state'[u] = IF u = i THEN "RUN" ELSE state[u]
        /\ \A d \in Cpu : cur_task'[d] = IF d = c THEN i ELSE cur_task[d]
        /\ \A d \in Cpu : run'[d] = IF d = c THEN i ELSE run[d]
    BY <1>h, <2>a, Zenon DEF Local, TypeOK
  <2>c. /\ pc[i] \in {"resume", "slept"}
        /\ \A d \in Cpu : run[d] \in Flow /\ run[d] # i /\ (d # c => run[d] # c)
    BY <1>1 DEF TypeOK, IInv, Contexts, Placement
  <2>2. Placement' /\ CurTask'
    <3>1. Placement'
      BY <1>a, <1>b, <1>c, <2>b, <2>c DEF IInv, Placement, CpuPc
    <3>2. CurTask'
      BY <1>b, <2>b DEF IInv, CurTask
    <3> QED
      BY ONLY <3>1, <3>2, Zenon
  <2>3. Contexts' /\ Forking'
    <3>1. Contexts'
      BY <1>a, <1>b, <2>b DEF IInv, Contexts
    <3>2. Forking'
      BY <1>1, <1>b, <2>b DEF IInv, Forking
    <3> QED
      BY ONLY <3>1, <3>2, Zenon
  <2>4. TaskLocks'
    BY <1>a, <1>b, <2>b, <2>c DEF IInv, TaskLocks, TaskLocksOf, OwnsTask
  <2>5. OtherLocks'
    BY <1>a, <1>b, <2>b, <2>c DEF IInv, OtherLocks, OtherLocksOf
  <2>6. Arguments'
    BY <1>a, <1>b DEF IInv, Arguments, ArgumentsOf
  <2>7. Swept'
    BY <1>b, <2>b, <2>c DEF IInv, Swept, SweptOf, Waits
  <2> QED
    BY ONLY <2>1, <2>2, <2>3, <2>4, <2>5, <2>6, <2>7, Zenon DEF IInv
<1>2. CASE state[i] # "READY"
  <2>a. UNCHANGED <<state, cur_task, run>>
    BY <1>2, <1>a, Zenon DEF Pick
  <2>1. TypeOK'
    BY <1>h, <1>a, <1>b, <2>a, Zenon DEF Local, TypeOK, Pc
  <2>2. Stays(c)
    BY <1>a, <1>b, <2>a DEF Stays, CpuPc
  <2>3. TaskLocksOf(c)' /\ OtherLocksOf(c)' /\ ArgumentsOf(run[c])' /\ SweptOf(c)'
    <3>1. TaskLocksOf(c)'
      BY <1>h, <1>a, <1>b, <2>a DEF Local, TaskLocksOf, OwnsTask
    <3>2. OtherLocksOf(c)'
      BY <1>h, <1>a, <1>b, <1>c, <2>a, Zenon DEF Local, OtherLocksOf, ArgumentsOf, Flow
    <3>3. ArgumentsOf(run[c])'
      BY <1>h, <1>a, <1>b, <1>c, <2>a, Zenon DEF Local, ArgumentsOf, Flow
    <3>4. SweptOf(c)'
      BY <1>h, <1>a, <1>b, <1>c, <2>a, Zenon DEF Local, ArgumentsOf, SweptOf, Flow
    <3> QED
      BY ONLY <3>1, <3>2, <3>3, <3>4, Zenon
  <2> QED
    BY ONLY IInv, c \in Cpu, <2>1, <2>2, <2>3, StaysIInv, Zenon
<1> QED
  BY <1>1, <1>2, Zenon

(* The inductive invariant survives the scheduler leaving the task that    *)
(* switched back to it.                                                    *)
LEMMA BackIInv ==
    ASSUME IInv, NEW c \in Cpu, Back(c) PROVE IInv'
<1> USE Constants
<1>h. Local(c)
  BY Here, Zenon
<1>a. PICK i \in Task : i = idx[c] /\ run[c] = c /\ pc[c] = "back" /\ c \in Flow
  BY <1>h, Zenon DEF Back, At, OnTask, Local, ArgumentsOf
<1>b. PICK place \in {"window", "scan"}, j \in Task :
        /\ pc' = [pc EXCEPT ![c] = place]
        /\ idx' = [idx EXCEPT ![c] = j]
  <2>1. i + 1 # NPROC => i + 1 \in Task
    OBVIOUS
  <2>2. idx' = [idx EXCEPT ![c] = IF i + 1 = NPROC THEN 0 ELSE i + 1]
    BY <1>a, Zenon DEF Back
  <2>3. pc' = [pc EXCEPT ![c] = IF i + 1 = NPROC THEN "window" ELSE "scan"]
    BY <1>a, Zenon DEF Back, Goto
  <2> QED
    BY <2>1, <2>2, <2>3, Zenon
<1>c. /\ cur_task' = [cur_task EXCEPT ![c] = None] /\ owner' = [owner EXCEPT ![i] = None]
      /\ UNCHANGED <<state, chan, run, ret, achan, alock, newtask>>
  BY <1>a, Zenon DEF Back, spin_put
<1>1. TypeOK'
  BY <1>h, <1>a, <1>b, <1>c, Zenon DEF Local, TypeOK, Pc
<1>d. /\ \A f \in Flow : pc'[f] = IF f = c THEN place ELSE pc[f]
      /\ \A f \in Flow : idx'[f] = IF f = c THEN j ELSE idx[f]
      /\ \A d \in Cpu : cur_task'[d] = IF d = c THEN None ELSE cur_task[d]
      /\ \A x \in Task \cup Lock : owner'[x] = IF x = i THEN None ELSE owner[x]
  BY <1>h, <1>b, <1>c, Zenon DEF Local, TypeOK
<1>e. /\ owner[i] = c
      /\ \A d \in Cpu : run[d] \in Flow /\ (d # c => run[d] # c) /\ alock[run[d]] \in Lock \cup {None}
  BY <1>h, <1>a, Apart, Zenon DEF Local, TaskLocksOf, OwnsTask
<1>2. Placement' /\ Contexts' /\ CurTask' /\ Forking'
  <2>1. Placement'
    BY <1>a, <1>c, <1>d DEF IInv, Placement, Flow, CpuPc
  <2>2. Contexts'
    BY <1>c, <1>d DEF IInv, Contexts, Flow
  <2>3. CurTask'
    BY <1>a, <1>c, <1>d, <1>e DEF IInv, CurTask
  <2>4. Forking'
    BY <1>c, <1>d DEF IInv, Forking, Flow
  <2> QED
    BY ONLY <2>1, <2>2, <2>3, <2>4, Zenon
<1>3. TaskLocks'
  BY <1>a, <1>c, <1>d, <1>e DEF IInv, TaskLocks, TaskLocksOf, OwnsTask
<1>4. OtherLocks'
  BY <1>a, <1>c, <1>d, <1>e DEF IInv, OtherLocks, OtherLocksOf
<1>5. Arguments'
  BY <1>c, <1>d, Zenon DEF IInv, Arguments, ArgumentsOf
<1>6. Swept'
  BY <1>c, <1>d, <1>e DEF IInv, Swept, SweptOf, Waits, Flow
<1> QED
  BY ONLY <1>1, <1>2, <1>3, <1>4, <1>5, <1>6, Zenon DEF IInv

(* The inductive invariant survives yield taking the task's own lock.      *)
LEMMA YieldGetIInv ==
    ASSUME IInv, NEW c \in Cpu, YieldGet(c) PROVE IInv'
<1> USE Constants DEF YieldGet, Goto, spin_get, At, OnTask
<1>h. Local(c)
  BY Here, Zenon
<1>1. TypeOK'
  BY <1>h, Zenon DEF Local, TypeOK, ArgumentsOf, Pc
<1>2. Stays(c)
  BY <1>h, Zenon DEF Local, Stays, Flow, ArgumentsOf, Pc, TaskPc, CpuPc
<1>3. TaskLocksOf(c)' /\ OtherLocksOf(c)' /\ ArgumentsOf(run[c])' /\ SweptOf(c)'
  <2>1. TaskLocksOf(c)'
    BY <1>h, Zenon DEF Local, TaskLocksOf, OwnsTask, ArgumentsOf, Flow, TaskPc, CpuPc
  <2>2. OtherLocksOf(c)'
    BY <1>h, Zenon DEF Local, OtherLocksOf, ArgumentsOf, Flow, TaskPc, CpuPc
  <2>3. ArgumentsOf(run[c])'
    BY <1>h, Zenon DEF Local, ArgumentsOf, Flow, TaskPc, CpuPc
  <2>4. SweptOf(c)'
    BY <1>h, Zenon DEF Local, ArgumentsOf, SweptOf, Waits, Flow, TaskPc, CpuPc
  <2> QED
    BY ONLY <2>1, <2>2, <2>3, <2>4, Zenon
<1> QED
  BY ONLY IInv, c \in Cpu, <1>1, <1>2, <1>3, StaysIInv, Zenon

(* The inductive invariant survives yield switching away as READY.         *)
LEMMA YieldSwitchIInv ==
    ASSUME IInv, NEW c \in Cpu, YieldSwitch(c) PROVE IInv'
<1> USE Constants
<1>h. Local(c)
  BY Here, Zenon
<1>a. PICK t \in Task : t = run[c] /\ pc[t] = "ready" /\ t \in Flow /\ t # c /\ c \in Flow
  BY Zenon DEF YieldSwitch, At, OnTask, Flow
<1>b. /\ state' = [state EXCEPT ![t] = "READY"] /\ run' = [run EXCEPT ![c] = c]
      /\ pc' = [pc EXCEPT ![t] = "resume"]
      /\ UNCHANGED <<chan, owner, cur_task, ret, idx, achan, alock, newtask>>
  BY <1>a, Zenon DEF YieldSwitch, Goto
<1>1. TypeOK'
  BY <1>h, <1>a, <1>b, Zenon DEF Local, TypeOK, State, Pc
<1>c. /\ \A u \in Task : state'[u] = IF u = t THEN "READY" ELSE state[u]
      /\ \A d \in Cpu : run'[d] = IF d = c THEN c ELSE run[d]
      /\ \A f \in Flow : pc'[f] = IF f = t THEN "resume" ELSE pc[f]
  BY <1>h, <1>b, Zenon DEF Local, TypeOK
<1>d. /\ pc[c] = "back" /\ idx[c] = t
      /\ \A d \in Cpu : run[d] \in Flow /\ (d # c => run[d] # t /\ run[d] # c)
  BY <1>a, Apart, Zenon
<1>2. Placement' /\ Contexts' /\ CurTask' /\ Forking'
  <2>1. Placement'
    BY <1>b DEF IInv, Placement, TaskPc, Pc
  <2>2. Contexts'
    BY <1>a, <1>b, <1>c, <1>d DEF IInv, Contexts
  <2>3. CurTask'
    BY <1>a, <1>b, <1>d DEF IInv, CurTask
  <2>4. Forking'
    BY <1>a, <1>b DEF IInv, Contexts, Forking
  <2> QED
    BY ONLY <2>1, <2>2, <2>3, <2>4, Zenon
<1>3. TaskLocks'
  BY <1>a, <1>b, <1>d DEF IInv, TaskLocks, TaskLocksOf, OwnsTask
<1>4. OtherLocks'
  BY <1>a, <1>b, <1>d DEF IInv, OtherLocks, OtherLocksOf
<1>5. Arguments'
  BY <1>a, <1>b DEF IInv, Arguments, ArgumentsOf
<1>6. Swept'
  BY <1>b, <1>d DEF IInv, Swept, SweptOf, Waits
<1> QED
  BY ONLY <1>1, <1>2, <1>3, <1>4, <1>5, <1>6, Zenon DEF IInv

(* The inductive invariant survives yield or first_sched putting the lock  *)
(* after the switch.                                                       *)
LEMMA ResumeIInv ==
    ASSUME IInv, NEW c \in Cpu, Resume(c) PROVE IInv'
<1> USE Constants DEF Resume, Return, spin_put, At, OnTask, Goto
<1>h. Local(c)
  BY Here, Zenon
<1>a. /\ run[c] \in Task /\ pc[run[c]] = "resume"
      /\ owner[run[c]] = c /\ ret[run[c]] = "user"
  BY <1>h, Zenon DEF Local, ArgumentsOf, TaskLocksOf, OwnsTask
<1>1. TypeOK'
  BY <1>a, <1>h, Zenon DEF Local, TypeOK, ArgumentsOf, Pc
<1>2. Stays(c)
  BY <1>a, <1>h, Zenon DEF Local, Stays, Flow, ArgumentsOf, Pc, TaskPc, CpuPc
<1>3. TaskLocksOf(c)' /\ OtherLocksOf(c)' /\ ArgumentsOf(run[c])' /\ SweptOf(c)'
  <2>1. TaskLocksOf(c)'
    BY <1>a, <1>h, Zenon DEF Local, TaskLocksOf, OwnsTask, ArgumentsOf, Flow, TaskPc, CpuPc
  <2>2. OtherLocksOf(c)'
    BY <1>a, <1>h, Zenon DEF Local, OtherLocksOf, ArgumentsOf, Flow, TaskPc, CpuPc
  <2>3. ArgumentsOf(run[c])'
    BY <1>a, <1>h, Zenon DEF Local, ArgumentsOf, Flow, TaskPc, CpuPc
  <2>4. SweptOf(c)'
    BY <1>a, <1>h, Zenon DEF Local, ArgumentsOf, SweptOf, Waits, Flow, TaskPc, CpuPc
  <2> QED
    BY ONLY <2>1, <2>2, <2>3, <2>4, Zenon
<1> QED
  BY ONLY IInv, c \in Cpu, <1>1, <1>2, <1>3, StaysIInv, Zenon

-----------------------------------------------------------------------------
(* The steps of sleep and of wakeup, and those of the kernel code that     *)
(* calls them.                                                             *)

(* The inductive invariant survives sleep taking the task's own lock.      *)
LEMMA SleepGetIInv ==
    ASSUME IInv, NEW c \in Cpu, SleepGet(c) PROVE IInv'
<1> USE Constants DEF SleepGet, Goto, spin_get, At, OnTask
<1>h. Local(c)
  BY Here, Zenon
<1>1. TypeOK'
  BY <1>h, Zenon DEF Local, TypeOK, ArgumentsOf, Pc
<1>2. Stays(c)
  BY <1>h, Zenon DEF Local, Stays, Flow, ArgumentsOf, Pc, TaskPc, CpuPc
<1>3. TaskLocksOf(c)' /\ OtherLocksOf(c)' /\ ArgumentsOf(run[c])' /\ SweptOf(c)'
  <2>1. TaskLocksOf(c)'
    BY <1>h, Zenon DEF Local, TaskLocksOf, OwnsTask, ArgumentsOf, Flow, TaskPc, CpuPc
  <2>2. OtherLocksOf(c)'
    BY <1>h DEF Local, OtherLocksOf
  <2>3. ArgumentsOf(run[c])'
    BY <1>h, Zenon DEF Local, ArgumentsOf, Flow, TaskPc, CpuPc
  <2>4. SweptOf(c)'
    BY <1>h, Zenon DEF Local, ArgumentsOf, SweptOf, Waits, Flow, TaskPc, CpuPc
  <2> QED
    BY ONLY <2>1, <2>2, <2>3, <2>4, Zenon
<1> QED
  BY ONLY IInv, c \in Cpu, <1>1, <1>2, <1>3, StaysIInv, Zenon

(* The inductive invariant survives sleep putting the caller's lock.       *)
LEMMA SleepUnlockIInv ==
    ASSUME IInv, NEW c \in Cpu, SleepUnlock(c) PROVE IInv'
<1> USE Constants
<1>h. Local(c)
  BY Here, Zenon
<1>a. PICK t \in Task : t = run[c] /\ pc[t] = "unlock" /\ t \in Flow /\ t # c
  BY <1>h, Zenon DEF SleepUnlock, At, OnTask, Local
<1>b. /\ pc' = [pc EXCEPT ![t] = "doze"]
      /\ UNCHANGED <<state, chan, cur_task, run, ret, idx, achan, alock, newtask>>
  BY <1>a, Zenon DEF SleepUnlock, Goto
<1>c. /\ owner' \in [Task \cup Lock -> Cpu \cup {None}]
      /\ \A l \in Lock : owner'[l] = IF owner[l] = c THEN None ELSE owner[l]
      /\ \A u \in Task : owner'[u] = owner[u]
  BY <1>h, <1>a DEF SleepUnlock, spin_put, Local, OtherLocksOf
<1>1. TypeOK'
  BY <1>h, <1>a, <1>b, <1>c, Zenon DEF Local, TypeOK, Pc
<1>d. /\ \A f \in Flow : pc'[f] = IF f = t THEN "doze" ELSE pc[f]
      /\ \A d \in Cpu : run[d] \in Flow /\ (d # c => run[d] # t) /\ alock[run[d]] \in Lock \cup {None}
  <2>1. \A f \in Flow : pc'[f] = IF f = t THEN "doze" ELSE pc[f]
    BY <1>h, <1>b, Zenon DEF Local
  <2>2. \A d \in Cpu : run[d] \in Flow /\ (d # c => run[d] # t) /\ alock[run[d]] \in Lock \cup {None}
    BY <1>a, Apart, Zenon
  <2> QED
    BY <2>1, <2>2, Zenon
<1>2. Placement' /\ Contexts' /\ CurTask' /\ Forking'
  <2>1. Placement'
    BY <1>b DEF IInv, Placement, TaskPc, Pc
  <2>2. Contexts'
    BY <1>a, <1>b DEF IInv, Contexts
  <2>3. CurTask'
    BY <1>b DEF IInv, CurTask
  <2>4. Forking'
    BY <1>b DEF IInv, Forking
  <2> QED
    BY ONLY <2>1, <2>2, <2>3, <2>4, Zenon
<1>3. TaskLocks'
  BY <1>a, <1>b, <1>c DEF IInv, TaskLocks, TaskLocksOf, OwnsTask
<1>4. OtherLocks'
  BY <1>a, <1>b, <1>c, <1>d DEF IInv, OtherLocks, OtherLocksOf
<1>5. Arguments'
  BY <1>a, <1>b DEF IInv, Arguments, ArgumentsOf
<1>6. Swept'
  <2> SUFFICES ASSUME NEW d \in Cpu PROVE SweptOf(d)'
    BY Zenon DEF Swept
  <2>1. SweptOf(d) /\ OtherLocksOf(c)
    BY <1>h, Zenon DEF IInv, Swept, Local
  <2> QED
    BY ONLY <1>a, <1>b, <1>c, <2>1, Constants DEF OtherLocksOf, SweptOf, Waits
<1> QED
  BY ONLY <1>1, <1>2, <1>3, <1>4, <1>5, <1>6, Zenon DEF IInv

(* The inductive invariant survives sleep switching away as SLEEP.         *)
LEMMA SleepSwitchIInv ==
    ASSUME IInv, NEW c \in Cpu, SleepSwitch(c) PROVE IInv'
<1> USE Constants
<1>h. Local(c)
  BY Here, Zenon
<1>a. PICK t \in Task : t = run[c] /\ pc[t] = "doze" /\ t \in Flow /\ t # c /\ c \in Flow
  BY Zenon DEF SleepSwitch, At, OnTask, Flow
<1>b. /\ state' = [state EXCEPT ![t] = "SLEEP"] /\ chan' = [chan EXCEPT ![t] = achan[t]]
      /\ run' = [run EXCEPT ![c] = c] /\ pc' = [pc EXCEPT ![t] = "slept"]
      /\ UNCHANGED <<owner, cur_task, ret, idx, achan, alock, newtask>>
  BY <1>a, Zenon DEF SleepSwitch, Goto
<1>1. TypeOK'
  BY <1>h, <1>a, <1>b, Zenon DEF Local, TypeOK, State, Pc
<1>c. /\ \A u \in Task : state'[u] = IF u = t THEN "SLEEP" ELSE state[u]
      /\ \A u \in Task : chan'[u] = IF u = t THEN achan[t] ELSE chan[u]
      /\ \A d \in Cpu : run'[d] = IF d = c THEN c ELSE run[d]
      /\ \A f \in Flow : pc'[f] = IF f = t THEN "slept" ELSE pc[f]
  BY <1>h, <1>b, Zenon DEF Local, TypeOK
<1>d. /\ pc[c] = "back" /\ idx[c] = t
      /\ \A d \in Cpu : run[d] \in Flow /\ (d # c => run[d] # t /\ run[d] # c)
  BY <1>a, Apart, Zenon
<1>2. Placement' /\ Contexts' /\ CurTask' /\ Forking'
  <2>1. Placement'
    BY <1>b DEF IInv, Placement, TaskPc, Pc
  <2>2. Contexts'
    BY <1>a, <1>b, <1>c, <1>d DEF IInv, Contexts
  <2>3. CurTask'
    BY <1>a, <1>b, <1>d DEF IInv, CurTask
  <2>4. Forking'
    BY <1>a, <1>b DEF IInv, Contexts, Forking
  <2> QED
    BY ONLY <2>1, <2>2, <2>3, <2>4, Zenon
<1>3. TaskLocks'
  BY <1>a, <1>b, <1>d DEF IInv, TaskLocks, TaskLocksOf, OwnsTask
<1>4. OtherLocks'
  BY <1>a, <1>b, <1>d DEF IInv, OtherLocks, OtherLocksOf
<1>5. Arguments'
  BY <1>a, <1>b DEF IInv, Arguments, ArgumentsOf
<1>6. Swept'
  BY <1>a, <1>b, <1>d DEF IInv, Swept, SweptOf, Waits
<1> QED
  BY ONLY <1>1, <1>2, <1>3, <1>4, <1>5, <1>6, Zenon DEF IInv

(* The inductive invariant survives sleep resuming after a wakeup.         *)
LEMMA SleptIInv ==
    ASSUME IInv, NEW c \in Cpu, Slept(c) PROVE IInv'
<1> USE Constants
<1>h. Local(c)
  BY Here, Zenon
<1>a. PICK t \in Task :
        /\ t = run[c] /\ pc[t] = "slept" /\ t \in Flow /\ t # c
        /\ owner[t] = c /\ ret[t] = "kernel" /\ alock[t] \in Lock \cup {None}
  BY <1>h, Zenon DEF Slept, At, OnTask, Local, ArgumentsOf, TaskLocksOf, OwnsTask
<1>b. /\ chan' = [chan EXCEPT ![t] = None] /\ owner' = [owner EXCEPT ![t] = None]
      /\ UNCHANGED <<state, cur_task, run, newtask>>
  BY <1>a, Zenon DEF Slept, spin_put
<1>c. /\ pc' = [pc EXCEPT ![t] = IF alock[t] # None THEN "relock" ELSE "kernel"]
      /\ ret' = [ret EXCEPT ![t] = IF alock[t] # None THEN "kernel" ELSE "user"]
      /\ idx' = [idx EXCEPT ![t] = IF alock[t] # None THEN idx[t] ELSE 0]
      /\ achan' = [achan EXCEPT ![t] = IF alock[t] # None THEN achan[t] ELSE None]
      /\ alock' = alock
  BY <1>h, <1>a DEF Slept, Return, Goto, Local
<1>1. TypeOK'
  BY <1>h, <1>a, <1>b, <1>c, Zenon DEF Local, TypeOK, ArgumentsOf, Pc
<1>2. Stays(c)
  <2>1. UNCHANGED <<state, cur_task, run, newtask>> /\ pc[run[c]] # "back"
    BY <1>h, <1>a, <1>b, <1>c, Zenon DEF Local, TypeOK, Pc, TaskPc
  <2>2. /\ \A g \in Flow \ {run[c]} :
             /\ pc'[g] = pc[g] /\ ret'[g] = ret[g] /\ idx'[g] = idx[g]
             /\ achan'[g] = achan[g] /\ alock'[g] = alock[g]
        /\ \A u \in Task \ {run[c]} : chan'[u] = chan[u]
    BY <1>h, <1>a, <1>b, <1>c, Zenon DEF Local, TypeOK, Pc, TaskPc
  <2>3. \A d \in Cpu \ {c}, x \in Task \cup Lock : owner'[x] = d <=> owner[x] = d
    BY <1>h, <1>a, <1>b, <1>c, Zenon DEF Local, TypeOK, Pc, TaskPc
  <2>4. pc'[run[c]] \in IF run[c] = c THEN CpuPc ELSE TaskPc \ {"fork", "doze"}
    BY <1>h, <1>a, <1>b, <1>c, Zenon DEF Local, TypeOK, Pc, TaskPc
  <2> QED
    BY <2>1, <2>2, <2>3, <2>4, Zenon DEF Stays
<1>3. TaskLocksOf(c)' /\ OtherLocksOf(c)' /\ ArgumentsOf(run[c])' /\ SweptOf(c)'
  <2>1. TaskLocksOf(c)'
    BY <1>h, <1>a, <1>b, <1>c DEF Local, TaskLocksOf, OwnsTask
  <2>2. OtherLocksOf(c)'
    BY <1>h, <1>a, <1>b, <1>c, Zenon DEF Local, OtherLocksOf, ArgumentsOf
  <2>3. ArgumentsOf(run[c])'
    BY <1>h, <1>a, <1>b, <1>c, Zenon DEF Local, ArgumentsOf
  <2>4. SweptOf(c)'
    BY <1>h, <1>a, <1>b, <1>c, Zenon DEF Local, ArgumentsOf, SweptOf
  <2> QED
    BY ONLY <2>1, <2>2, <2>3, <2>4, Zenon
<1> QED
  BY ONLY IInv, c \in Cpu, <1>1, <1>2, <1>3, StaysIInv, Zenon

(* The inductive invariant survives sleep taking the caller's lock again.  *)
LEMMA RelockIInv ==
    ASSUME IInv, NEW c \in Cpu, Relock(c) PROVE IInv'
<1> USE Constants DEF Relock, Return, spin_get, At, OnTask, Goto
<1>h. Local(c)
  BY Here, Zenon
<1>a. /\ run[c] \in Task /\ pc[run[c]] = "relock"
      /\ alock[run[c]] \in Lock /\ ret[run[c]] = "kernel"
      /\ \A t \in Task : owner'[t] = owner[t]
  BY <1>h, Zenon DEF Local, ArgumentsOf
<1>1. TypeOK'
  BY <1>a, <1>h, Zenon DEF Local, TypeOK, ArgumentsOf, Pc
<1>2. Stays(c)
  BY <1>a, <1>h, Zenon DEF Local, Stays, Flow, ArgumentsOf, Pc, TaskPc, CpuPc
<1>3. TaskLocksOf(c)' /\ OtherLocksOf(c)' /\ ArgumentsOf(run[c])' /\ SweptOf(c)'
  BY <1>a, <1>h, Zenon DEF Local, TaskLocksOf, OwnsTask, OtherLocksOf, ArgumentsOf, SweptOf, Waits, Flow, TaskPc, CpuPc
<1> QED
  BY ONLY IInv, c \in Cpu, <1>1, <1>2, <1>3, StaysIInv, Zenon

(* The inductive invariant survives wakeup taking a slot's lock.           *)
LEMMA WakeGetIInv ==
    ASSUME IInv, NEW c \in Cpu, WakeGet(c) PROVE IInv'
<1> USE Constants DEF WakeGet, Goto, spin_get, At
<1>h. Local(c)
  BY Here, Zenon
<1>a. /\ run[c] \in Flow /\ pc[run[c]] = "wake"
      /\ idx[run[c]] \in Task /\ owner[idx[run[c]]] = None
  BY <1>h, Zenon DEF Local
<1>1. TypeOK'
  BY <1>a, <1>h, Zenon DEF Local, TypeOK, ArgumentsOf, Pc
<1>2. Stays(c)
  BY <1>a, <1>h, Zenon DEF Local, Stays, Flow, ArgumentsOf, Pc, TaskPc, CpuPc
<1>3. TaskLocksOf(c)' /\ OtherLocksOf(c)' /\ ArgumentsOf(run[c])' /\ SweptOf(c)'
  <2>1. TaskLocksOf(c)'
    BY <1>a, <1>h, Zenon DEF Local, TaskLocksOf, OwnsTask, ArgumentsOf, Flow, TaskPc, CpuPc
  <2>2. OtherLocksOf(c)'
    BY <1>h DEF Local, OtherLocksOf
  <2>3. ArgumentsOf(run[c])'
    BY <1>a, <1>h, Zenon DEF Local, ArgumentsOf, Flow, TaskPc, CpuPc
  <2>4. SweptOf(c)'
    BY <1>h DEF Local, SweptOf, Waits
  <2> QED
    BY ONLY <2>1, <2>2, <2>3, <2>4, Zenon
<1> QED
  BY ONLY IInv, c \in Cpu, <1>1, <1>2, <1>3, StaysIInv, Zenon

(* The inductive invariant survives wakeup passing over the caller's own   *)
(* slot.                                                                   *)
LEMMA WakeSelfIInv ==
    ASSUME IInv, NEW c \in Cpu, WakeSelf(c) PROVE IInv'
<1> USE Constants DEF WakeSelf, At
<1>h. Local(c)
  BY Here, Zenon
<1>b. idx[run[c]] \in Task /\ idx[run[c]] = run[c] /\ pc[run[c]] = "wake"
  BY DEF IInv, TypeOK, Placement, CurTask
<1>c. \A t \in Task : t < idx[run[c]] + 1 => t < idx[run[c]] \/ t = idx[run[c]]
  BY <1>b
<1>a. /\ idx[run[c]] \in Task /\ idx[run[c]] = run[c] /\ pc[run[c]] = "wake"
      /\ \A t \in Task : t < idx[run[c]] + 1 => t < idx[run[c]] \/ t = idx[run[c]]
  BY <1>b, <1>c, Zenon
<1>1. TypeOK'
  BY <1>a, <1>h, Zenon DEF Local, TypeOK, ArgumentsOf, Pc
<1>2. Stays(c)
  BY <1>a, <1>h, Zenon DEF Local, Stays, Flow, ArgumentsOf, Pc, TaskPc, CpuPc
<1>3. TaskLocksOf(c)' /\ OtherLocksOf(c)' /\ ArgumentsOf(run[c])' /\ SweptOf(c)'
  <2>1. TaskLocksOf(c)'
    BY <1>a, <1>h, Zenon DEF Local, TaskLocksOf, OwnsTask, ArgumentsOf, Flow, TaskPc, CpuPc
  <2>2. OtherLocksOf(c)'
    BY <1>a, <1>h, Zenon DEF Local, OtherLocksOf, ArgumentsOf, Flow, TaskPc, CpuPc
  <2>3. ArgumentsOf(run[c])'
    BY <1>a, <1>h, Zenon DEF Local, ArgumentsOf, Flow, TaskPc, CpuPc
  <2>4. SweptOf(c)'
    BY <1>a, <1>h DEF Local, SweptOf, Waits
  <2> QED
    BY ONLY <2>1, <2>2, <2>3, <2>4, Zenon
<1> QED
  BY ONLY IInv, c \in Cpu, <1>1, <1>2, <1>3, StaysIInv, Zenon

(* The inductive invariant survives wakeup making a sleeper on the channel *)
(* READY.                                                                  *)
LEMMA RouseIInv ==
    ASSUME IInv, NEW c \in Cpu, Rouse(c) PROVE IInv'
<1> USE Constants
<1>h. Local(c)
  BY Here, Zenon
<1>a. PICK f \in Flow, i \in Task : f = run[c] /\ i = idx[f] /\ pc[f] = "rouse" /\ owner[i] = c
  BY <1>h, Zenon DEF Rouse, At, Local, ArgumentsOf, TaskLocksOf, OwnsTask
<1>b. /\ state' = IF state[i] = "SLEEP" /\ chan[i] = achan[f] THEN [state EXCEPT ![i] = "READY"] ELSE state
      /\ owner' = [owner EXCEPT ![i] = None]
      /\ pc' = [pc EXCEPT ![f] = "wake"]
      /\ UNCHANGED <<chan, cur_task, run, ret, achan, alock, newtask>>
  BY <1>a, Zenon DEF Rouse, spin_put, Goto
<1>c. idx' = [idx EXCEPT ![f] = i + 1]
  BY <1>a, Zenon DEF Rouse
<1>1. TypeOK'
  BY <1>h, <1>a, <1>b, <1>c, Zenon DEF Local, TypeOK, State, Pc
<1>d. \A u \in Task : state'[u] = IF u = i /\ state[i] = "SLEEP" /\ chan[i] = achan[f] THEN "READY" ELSE state[u]
  BY <1>h, <1>b, Zenon DEF Local, TypeOK
<1>e. \A x \in Task \cup Lock : owner'[x] = IF x = i THEN None ELSE owner[x]
  BY <1>h, <1>b, Zenon DEF Local, TypeOK
<1>f. \A g \in Flow : pc'[g] = IF g = f THEN "wake" ELSE pc[g]
  BY <1>h, <1>b, Zenon DEF Local, TypeOK
<1>g. \A g \in Flow : idx'[g] = IF g = f THEN i + 1 ELSE idx[g]
  BY <1>h, <1>c, Zenon DEF Local, TypeOK
<1>k. UNCHANGED <<chan, cur_task, run, ret, achan, alock, newtask>>
  BY <1>b, Zenon
<1>m. \A d \in Cpu : run[d] \in Flow /\ (d # c => run[d] # f) /\ alock[run[d]] \in Lock \cup {None}
  BY <1>a, Apart, Zenon
<1>n. \A u \in Task : u < i + 1 => u < i \/ u = i
  OBVIOUS
<1>o. /\ Placement /\ Contexts /\ CurTask /\ Forking
      /\ TaskLocks /\ OtherLocks /\ Arguments /\ Swept
  BY Zenon DEF IInv
<1>2. Placement' /\ Contexts' /\ CurTask' /\ Forking'
  <2>1. Placement'
    BY ONLY <1>a, <1>f, <1>g, <1>k, <1>o DEF Placement, Flow, TaskPc, CpuPc, Pc
  <2>2. Contexts'
    BY ONLY <1>a, <1>d, <1>f, <1>k, <1>o DEF Contexts, Flow
  <2>3. CurTask'
    BY ONLY <1>a, <1>f, <1>g, <1>k, <1>o, Constants, Zenon DEF CurTask, Flow
  <2>4. Forking'
    BY ONLY <1>d, <1>f, <1>k, <1>o DEF Forking, Flow
  <2> QED
    BY ONLY <2>1, <2>2, <2>3, <2>4, Zenon
<1>3. TaskLocks'
  <2> SUFFICES ASSUME NEW d \in Cpu, NEW t \in Task PROVE (owner[t] = d <=> OwnsTask(d, t))'
    BY Zenon DEF TaskLocks, TaskLocksOf
  <2>1. owner[t] = d <=> OwnsTask(d, t)
    BY <1>o, Zenon DEF TaskLocks, TaskLocksOf
  <2>2. owner[i] = c /\ (owner[i] = d => d = c)
    BY <1>a, Zenon
  <2> QED
    BY ONLY <1>a, <1>e, <1>f, <1>g, <1>k, <1>m, <2>1, Constants DEF OwnsTask
<1>4. OtherLocks'
  <2> SUFFICES ASSUME NEW d \in Cpu PROVE OtherLocksOf(d)'
    BY Zenon DEF OtherLocks
  <2>1. OtherLocksOf(d)
    BY <1>o, Zenon DEF OtherLocks
  <2>2. \A l \in Lock : owner'[l] = owner[l]
    BY <1>e, Constants, Zenon
  <2> QED
    BY ONLY <1>a, <1>f, <1>k, <1>m, <2>1, <2>2, Constants DEF OtherLocksOf
<1>5. Arguments'
  BY ONLY <1>a, <1>f, <1>g, <1>k, <1>o DEF Arguments, ArgumentsOf
<1>6. Swept'
  <2>1. pc[i] # "doze" /\ (state[i] = "SLEEP" => chan[i] = achan[i])
    BY ONLY <1>a, <1>o DEF Contexts, TaskLocks, TaskLocksOf, OwnsTask
  <2> SUFFICES ASSUME NEW d \in Cpu, NEW l \in Lock, NEW t \in Task,
                      pc'[run[d]] \in {"wake", "rouse"}, owner'[l] = d, t < idx'[run[d]]
               PROVE  ~Waits(t, achan[run[d]], l)'
    BY <1>k, Zenon DEF Swept, SweptOf
  <2>2. owner[l] = d /\ pc[run[d]] \in {"wake", "rouse"}
    BY ONLY <1>a, <1>e, <1>f, <1>m, l \in Lock, d \in Cpu, pc'[run[d]] \in {"wake", "rouse"},
       owner'[l] = d, Constants, Zenon
  <2>3. Waits(t, achan[run[d]], l)' => Waits(t, achan[run[d]], l)
    BY ONLY <1>a, <1>d, <1>f, <1>k, <2>1, Constants, t \in Task, Zenon DEF Waits, Flow
  <2>4. CASE t < idx[run[d]]
    BY <1>o, <2>2, <2>3, <2>4, Zenon DEF Swept, SweptOf
  <2>5. CASE ~(t < idx[run[d]])
    <3>1. d = c /\ t = i
      BY ONLY <1>a, <1>g, <1>m, <1>n, <2>5, t < idx'[run[d]], d \in Cpu, t \in Task, Zenon
    <3> QED
      BY ONLY <1>a, <1>d, <1>f, <1>k, <2>1, <3>1, Constants, Zenon DEF Waits, Flow
  <2> QED
    BY <2>4, <2>5, Zenon
<1> QED
  BY ONLY <1>1, <1>2, <1>3, <1>4, <1>5, <1>6, Zenon DEF IInv

(* The inductive invariant survives wakeup reaching the end of the table.  *)
LEMMA WakeDoneIInv ==
    ASSUME IInv, NEW c \in Cpu, WakeDone(c) PROVE IInv'
<1> USE Constants DEF WakeDone, Return, At, Goto
<1>h. Local(c)
  BY Here, Zenon
<1>1. TypeOK'
  BY <1>h, Zenon DEF Local, TypeOK, ArgumentsOf, Pc
<1>2. Stays(c)
  BY <1>h, Zenon DEF Local, Stays, Flow, ArgumentsOf, Pc, TaskPc, CpuPc
<1>3. TaskLocksOf(c)' /\ OtherLocksOf(c)' /\ ArgumentsOf(run[c])' /\ SweptOf(c)'
  <2>1. TaskLocksOf(c)'
    BY <1>h, Zenon DEF Local, TaskLocksOf, OwnsTask, ArgumentsOf, Flow, TaskPc, CpuPc
  <2>2. OtherLocksOf(c)'
    BY <1>h, Zenon DEF Local, OtherLocksOf, ArgumentsOf, Flow, TaskPc, CpuPc
  <2>3. ArgumentsOf(run[c])'
    BY <1>h, Zenon DEF Local, ArgumentsOf, Flow, TaskPc, CpuPc
  <2>4. SweptOf(c)'
    BY <1>h, Zenon DEF Local, ArgumentsOf, SweptOf, Waits, Flow, TaskPc, CpuPc
  <2> QED
    BY ONLY <2>1, <2>2, <2>3, <2>4, Zenon
<1> QED
  BY ONLY IInv, c \in Cpu, <1>1, <1>2, <1>3, StaysIInv, Zenon

(* The inductive invariant survives kernel code taking a spinlock.         *)
LEMMA KernelGetIInv ==
    ASSUME IInv, NEW c \in Cpu, NEW l \in Lock \ {tq}, KernelGet(c, l) PROVE IInv'
<1> USE Constants DEF KernelGet, spin_get, At, HeldBy
<1>h. Local(c)
  BY Here, Zenon
<1>1. TypeOK'
  BY <1>h, Zenon DEF Local, TypeOK, ArgumentsOf, Pc
<1>2. Stays(c)
  BY <1>h, Zenon DEF Local, Stays, Flow, ArgumentsOf, Pc, TaskPc, CpuPc
<1>3. TaskLocksOf(c)' /\ OtherLocksOf(c)' /\ ArgumentsOf(run[c])' /\ SweptOf(c)'
  <2>1. TaskLocksOf(c)'
    BY DEF TaskLocksOf, OwnsTask
  <2>2. OtherLocksOf(c)'
    BY <1>h, Zenon DEF Local, OtherLocksOf, ArgumentsOf, Flow, TaskPc, CpuPc
  <2>3. ArgumentsOf(run[c])'
    BY <1>h, Zenon DEF Local, ArgumentsOf, Flow, TaskPc, CpuPc
  <2>4. SweptOf(c)'
    BY <1>h, Zenon DEF Local, ArgumentsOf, SweptOf, Waits, Flow, TaskPc, CpuPc
  <2> QED
    BY ONLY <2>1, <2>2, <2>3, <2>4, Zenon
<1> QED
  BY ONLY IInv, c \in Cpu, <1>1, <1>2, <1>3, StaysIInv, Zenon

(* The inductive invariant survives kernel code putting a spinlock.        *)
LEMMA KernelPutIInv ==
    ASSUME IInv, NEW c \in Cpu, NEW l \in Lock \ {tq}, KernelPut(c, l) PROVE IInv'
<1> USE Constants DEF KernelPut, spin_put, At
<1>h. Local(c)
  BY Here, Zenon
<1>1. TypeOK'
  BY <1>h, Zenon DEF Local, TypeOK, ArgumentsOf, Pc
<1>2. Stays(c)
  BY <1>h, Zenon DEF Local, Stays, Flow, ArgumentsOf, Pc, TaskPc, CpuPc
<1>3. TaskLocksOf(c)' /\ OtherLocksOf(c)' /\ ArgumentsOf(run[c])' /\ SweptOf(c)'
  BY <1>h, Zenon DEF Local, TaskLocksOf, OwnsTask, OtherLocksOf, ArgumentsOf, SweptOf, Waits, Flow, TaskPc, CpuPc
<1> QED
  BY ONLY IInv, c \in Cpu, <1>1, <1>2, <1>3, StaysIInv, Zenon

(* The inductive invariant survives kernel code calling sleep.             *)
LEMMA KernelSleepIInv ==
    ASSUME IInv, NEW c \in Cpu, NEW ch \in Chan, NEW l \in (Lock \ {tq}) \cup {None}, KernelSleep(c, ch, l) PROVE IInv'
<1> USE Constants DEF KernelSleep, At, OnTask, HeldBy, CallSleep, Goto
<1>h. Local(c)
  BY Here, Zenon
<1>1. TypeOK'
  BY <1>h, Zenon DEF Local, TypeOK, ArgumentsOf, Pc
<1>2. Stays(c)
  <2>1. UNCHANGED <<state, cur_task, run, newtask>> /\ pc[run[c]] # "back"
    BY <1>h, Zenon DEF Local, ArgumentsOf, Pc, TaskPc, CpuPc
  <2>2. /\ \A g \in Flow \ {run[c]} :
             /\ pc'[g] = pc[g] /\ ret'[g] = ret[g] /\ idx'[g] = idx[g]
             /\ achan'[g] = achan[g] /\ alock'[g] = alock[g]
        /\ \A t \in Task \ {run[c]} : chan'[t] = chan[t]
    BY <1>h, Zenon DEF Local, ArgumentsOf, Pc, TaskPc, CpuPc
  <2>3. \A d \in Cpu \ {c}, x \in Task \cup Lock : owner'[x] = d <=> owner[x] = d
    BY <1>h, Zenon DEF Local, ArgumentsOf, Pc, TaskPc, CpuPc
  <2>4. pc'[run[c]] \in IF run[c] = c THEN CpuPc ELSE TaskPc \ {"fork", "doze"}
    BY <1>h, Zenon DEF Local, ArgumentsOf, Pc, TaskPc, CpuPc
  <2> QED
    BY <2>1, <2>2, <2>3, <2>4, Zenon DEF Stays
<1>3. TaskLocksOf(c)' /\ OtherLocksOf(c)' /\ ArgumentsOf(run[c])' /\ SweptOf(c)'
  <2>1. TaskLocksOf(c)'
    BY <1>h, Zenon DEF Local, TaskLocksOf, OwnsTask, ArgumentsOf, Flow, TaskPc, CpuPc
  <2>2. OtherLocksOf(c)'
    BY <1>h, Zenon DEF Local, OtherLocksOf, ArgumentsOf, Flow, TaskPc, CpuPc
  <2>3. ArgumentsOf(run[c])'
    BY <1>h, Zenon DEF Local, ArgumentsOf, Flow, TaskPc, CpuPc
  <2>4. SweptOf(c)'
    BY <1>h, Zenon DEF Local, ArgumentsOf, SweptOf, Waits, Flow, TaskPc, CpuPc
  <2> QED
    BY ONLY <2>1, <2>2, <2>3, <2>4, Zenon
<1> QED
  BY ONLY IInv, c \in Cpu, <1>1, <1>2, <1>3, StaysIInv, Zenon

(* The inductive invariant survives kernel code calling wakeup.            *)
LEMMA KernelWakeupIInv ==
    ASSUME IInv, NEW c \in Cpu, NEW ch \in Chan, KernelWakeup(c, ch) PROVE IInv'
<1> USE Constants DEF KernelWakeup, At, CallWakeup, Goto
<1>h. Local(c)
  BY Here, Zenon
<1>1. TypeOK'
  BY <1>h, Zenon DEF Local, TypeOK, ArgumentsOf, Pc
<1>2. Stays(c)
  BY <1>h, Zenon DEF Local, Stays, Flow, ArgumentsOf, Pc, TaskPc, CpuPc
<1>3. TaskLocksOf(c)' /\ OtherLocksOf(c)' /\ ArgumentsOf(run[c])' /\ SweptOf(c)'
  <2>1. TaskLocksOf(c)'
    BY <1>h, Zenon DEF Local, TaskLocksOf, OwnsTask, ArgumentsOf, Flow, TaskPc, CpuPc
  <2>2. OtherLocksOf(c)'
    BY <1>h, Zenon DEF Local, OtherLocksOf, ArgumentsOf, Flow, TaskPc, CpuPc
  <2>3. ArgumentsOf(run[c])'
    BY <1>h, Zenon DEF Local, ArgumentsOf, Flow, TaskPc, CpuPc
  <2>4. SweptOf(c)'
    BY <1>h DEF Local, SweptOf
  <2> QED
    BY ONLY <2>1, <2>2, <2>3, <2>4, Zenon
<1> QED
  BY ONLY IInv, c \in Cpu, <1>1, <1>2, <1>3, StaysIInv, Zenon
-----------------------------------------------------------------------------
(* The steps of fork, exec and the trap handler, and the theorems.         *)

(* The inductive invariant survives alloc_task taking a slot's lock.       *)
LEMMA AllocGetIInv ==
    ASSUME IInv, NEW c \in Cpu, AllocGet(c) PROVE IInv'
<1> USE Constants DEF AllocGet, Goto, spin_get, At, OnTask
<1>h. Local(c)
  BY Here, Zenon
<1>1. TypeOK'
  BY <1>h, Zenon DEF Local, TypeOK, ArgumentsOf, Pc
<1>2. Stays(c)
  BY <1>h, Zenon DEF Local, Stays, Flow, ArgumentsOf, Pc, TaskPc, CpuPc
<1>3. TaskLocksOf(c)' /\ OtherLocksOf(c)' /\ ArgumentsOf(run[c])' /\ SweptOf(c)'
  <2>1. TaskLocksOf(c)'
    BY <1>h, Zenon DEF Local, TaskLocksOf, OwnsTask, ArgumentsOf, Flow, TaskPc, CpuPc
  <2>2. OtherLocksOf(c)'
    BY <1>h DEF Local, OtherLocksOf, ArgumentsOf
  <2>3. ArgumentsOf(run[c])'
    BY <1>h, Zenon DEF Local, ArgumentsOf, Flow, TaskPc, CpuPc
  <2>4. SweptOf(c)'
    BY <1>h, Zenon DEF Local, ArgumentsOf, SweptOf, Waits, Flow, TaskPc, CpuPc
  <2> QED
    BY ONLY <2>1, <2>2, <2>3, <2>4, Zenon
<1> QED
  BY ONLY IInv, c \in Cpu, <1>1, <1>2, <1>3, StaysIInv, Zenon

(* The inductive invariant survives alloc_task claiming a free slot or     *)
(* going on.                                                               *)
LEMMA AllocProbeIInv ==
    ASSUME IInv, NEW c \in Cpu, AllocProbe(c) PROVE IInv'
<1> USE Constants
<1>h. Local(c)
  BY Here, Zenon
<1>a. PICK t \in Task, i \in Task :
        t = run[c] /\ i = idx[t] /\ pc[t] = "probe" /\ t \in Flow /\ t \notin Cpu
  BY <1>h, Zenon DEF AllocProbe, At, OnTask, Local, ArgumentsOf
<1>b. /\ \A d \in Cpu : run[d] \in Flow /\ (d # c => run[d] # t) /\ alock[run[d]] \in Lock \cup {None}
      /\ state[t] = "RUN"
  BY <1>a DEF IInv, TypeOK, Placement, Contexts
<1>c. /\ \A u \in Task : owner[u] = c <=> u = i
      /\ \A l \in Lock : owner[l] = c <=> l = tq
  BY <1>h, <1>a, Zenon DEF Local, TaskLocksOf, OwnsTask, OtherLocksOf
<1>1. CASE state[i] = "FREE"
  <2>a. /\ state' = [state EXCEPT ![i] = "INIT"]
        /\ owner' = [owner EXCEPT ![i] = None, ![tq] = None]
        /\ newtask' = [newtask EXCEPT ![t] = i]
        /\ idx' = [idx EXCEPT ![t] = 0]
        /\ pc' = [pc EXCEPT ![t] = "fork"]
    BY <1>1, <1>a, Zenon DEF AllocProbe, Goto
  <2>u. UNCHANGED <<chan, cur_task, run, ret, achan, alock>>
    BY Zenon DEF AllocProbe
  <2>1. TypeOK'
    BY <1>h, <1>a, <2>a, <2>u, Zenon DEF Local, TypeOK, State, Pc
  <2>b. /\ \A f \in Flow : pc'[f] = IF f = t THEN "fork" ELSE pc[f]
        /\ \A f \in Flow : idx'[f] = IF f = t THEN 0 ELSE idx[f]
        /\ \A u \in Task : state'[u] = IF u = i THEN "INIT" ELSE state[u]
        /\ \A u \in Task : newtask'[u] = IF u = t THEN i ELSE newtask[u]
        /\ \A d \in Cpu, x \in Task \cup Lock : owner'[x] = d <=> d # c /\ owner[x] = d
    BY <1>h, <1>c, <2>a, Zenon DEF Local, TypeOK
  <2>c. /\ i # t /\ \A d \in Cpu : run[d] # i
        /\ \A u \in Task : pc[u] = "fork" => newtask[u] # i
    BY <1>1, <1>b, Zenon DEF IInv, Contexts, Forking
  <2>2. Placement' /\ Contexts' /\ CurTask' /\ Forking'
    <3>1. Placement'
      BY <2>u, <2>b DEF IInv, Placement, Flow, TaskPc, Pc
    <3>2. Contexts'
      BY <1>b, <2>u, <2>b, <2>c DEF IInv, Contexts, Flow
    <3>3. CurTask'
      BY <1>b, <2>u, <2>b DEF IInv, CurTask
    <3>4. Forking'
      BY <2>b, <2>c DEF IInv, Forking, Flow
    <3> QED
      BY ONLY <3>1, <3>2, <3>3, <3>4, Zenon
  <2>3. TaskLocks'
    BY <1>a, <1>b, <2>u, <2>b DEF IInv, TaskLocks, TaskLocksOf, OwnsTask
  <2>4. OtherLocks'
    BY <1>a, <1>b, <2>u, <2>b DEF IInv, OtherLocks, OtherLocksOf
  <2>5. Arguments'
    BY <2>u, <2>b DEF IInv, Arguments, ArgumentsOf
  <2>6. Swept'
    BY <1>b, <2>u, <2>b DEF IInv, Swept, SweptOf, Waits, Flow
  <2> QED
    BY ONLY <2>1, <2>2, <2>3, <2>4, <2>5, <2>6, Zenon DEF IInv
<1>2. CASE state[i] # "FREE"
  <2>a. /\ owner' = [owner EXCEPT ![i] = None]
        /\ idx' = [idx EXCEPT ![t] = i + 1]
        /\ pc' = [pc EXCEPT ![t] = IF i + 1 = NPROC THEN "panic" ELSE "alloc"]
    BY <1>2, <1>a, ZenonT(60) DEF AllocProbe, Goto, spin_put
  <2>u. UNCHANGED <<state, newtask, chan, cur_task, run, ret, achan, alock>>
    BY <1>2, <1>a, Zenon DEF AllocProbe
  <2>b. i + 1 \in 0 .. NPROC /\ (i + 1 # NPROC => i + 1 \in Task)
    OBVIOUS
  <2>1. TypeOK'
    BY <1>h, <1>a, <2>a, <2>u, <2>b, Zenon DEF Local, TypeOK, Pc
  <2>2. Stays(c)
    BY <1>a, <1>c, <2>a, <2>u DEF Stays, Pc, TaskPc
  <2>3. TaskLocksOf(c)' /\ OtherLocksOf(c)' /\ ArgumentsOf(run[c])' /\ SweptOf(c)'
    <3>1. TaskLocksOf(c)'
      BY <1>h, <1>a, <2>a, <2>u DEF Local, TaskLocksOf, OwnsTask
    <3>2. OtherLocksOf(c)'
      BY <1>a, <1>c, <2>a, <2>u DEF OtherLocksOf
    <3>3. ArgumentsOf(run[c])'
      BY <1>h, <1>a, <1>c, <2>a, <2>u, <2>b, Zenon DEF Local, ArgumentsOf
    <3>4. SweptOf(c)'
      BY <1>h, <1>a, <1>c, <2>a, <2>u, <2>b, Zenon DEF Local, ArgumentsOf, SweptOf
    <3> QED
      BY ONLY <3>1, <3>2, <3>3, <3>4, Zenon
  <2> QED
    BY ONLY IInv, c \in Cpu, <2>1, <2>2, <2>3, StaysIInv, Zenon
<1> QED
  BY <1>1, <1>2, Zenon

(* The inductive invariant survives fork publishing the new task.          *)
LEMMA ForkReadyIInv ==
    ASSUME IInv, NEW c \in Cpu, ForkReady(c) PROVE IInv'
<1> USE Constants
<1>a. PICK t \in Task, n \in Task :
        /\ t = run[c] /\ n = newtask[t] /\ pc[t] = "fork" /\ state[n] = "INIT"
        /\ t \in Flow /\ n \in Flow /\ t \notin Cpu /\ n \notin Cpu
  BY Zenon DEF ForkReady, At, OnTask, IInv, Forking, Flow
<1>b. /\ t # n /\ state[t] = "RUN" /\ pc[n] \in {"resume", "slept"}
      /\ \A d \in Cpu : run[d] \in Flow /\ run[d] # n /\ (d # c => run[d] # t)
  BY <1>a DEF IInv, Contexts, Placement, TypeOK
<1>c. /\ pc' = [pc EXCEPT ![t] = "kernel", ![n] = "resume"]
      /\ ret' = [ret EXCEPT ![n] = "user"]
      /\ state' = [state EXCEPT ![n] = "READY"]
      /\ newtask' = [newtask EXCEPT ![t] = None]
  BY <1>a, Zenon DEF ForkReady
<1>u. UNCHANGED <<chan, owner, cur_task, run, idx, achan, alock>>
  BY Zenon DEF ForkReady
<1>1. TypeOK'
  BY <1>a, <1>c, <1>u, Zenon DEF IInv, TypeOK, State, Pc
<1>d. /\ \A f \in Flow : pc'[f] = IF f = n THEN "resume" ELSE IF f = t THEN "kernel" ELSE pc[f]
      /\ \A f \in Flow : ret'[f] = IF f = n THEN "user" ELSE ret[f]
      /\ \A u \in Task : state'[u] = IF u = n THEN "READY" ELSE state[u]
      /\ \A u \in Task : newtask'[u] = IF u = t THEN None ELSE newtask[u]
  BY <1>a, <1>b, <1>c, Zenon DEF IInv, TypeOK
<1>2. Placement' /\ Contexts' /\ CurTask' /\ Forking'
  <2>1. Placement'
    BY <1>u, <1>d DEF IInv, Placement, Flow, TaskPc, Pc
  <2>2. Contexts'
    <3>1. Contexts /\ UNCHANGED <<chan, run, achan>>
      BY <1>u, Zenon DEF IInv
    <3>2. \A u \in Task : pc'[u] = IF u = n THEN "resume" ELSE IF u = t THEN "kernel" ELSE pc[u]
      BY <1>d, Zenon DEF Flow
    <3>0. run' = run /\ chan' = chan /\ achan' = achan
      BY <1>u, Zenon
    <3>3. ASSUME NEW u \in Task
          PROVE  /\ state'[u] = "RUN" <=> (\E d \in Cpu : run[d] = u)
                 /\ state'[u] # "RUN" => pc'[u] \in {"resume", "slept"}
                 /\ state'[u] = "SLEEP" => pc'[u] = "slept" /\ chan[u] = achan[u]
      <4>1. CASE u = n
        <5>1. state'[u] = "READY" /\ pc'[u] = "resume" /\ ~\E d \in Cpu : run[d] = u
          BY <1>b, <1>d, <3>2, <4>1, Zenon
        <5> QED
          BY ONLY <5>1, Zenon
      <4>2. CASE u = t
        <5>1. state'[u] = "RUN" /\ \E d \in Cpu : run[d] = u
          BY <1>a, <1>b, <1>d, <4>2, Zenon
        <5> QED
          BY ONLY <5>1, Zenon
      <4>3. CASE u # n /\ u # t
        <5>1. state'[u] = state[u] /\ pc'[u] = pc[u]
          BY <1>d, <3>2, <4>3, Zenon
        <5> QED
          BY ONLY u \in Task, <3>1, <5>1, Zenon DEF Contexts
      <4> QED
        BY <4>1, <4>2, <4>3, Zenon
    <3> QED
      BY ONLY <3>0, <3>3, Zenon DEF Contexts
  <2>3. CurTask' /\ Forking'
    <3>1. CurTask'
      BY <1>b, <1>u, <1>d DEF IInv, CurTask
    <3>2. Forking'
      BY <1>a, <1>d DEF IInv, Forking, Flow
    <3> QED
      BY ONLY <3>1, <3>2, Zenon
  <2> QED
    BY <2>1, <2>2, <2>3, Zenon
<1>3. TaskLocks'
  BY <1>a, <1>b, <1>u, <1>d DEF IInv, TaskLocks, TaskLocksOf, OwnsTask
<1>4. OtherLocks'
  BY <1>a, <1>b, <1>u, <1>d DEF IInv, OtherLocks, OtherLocksOf
<1>5. Arguments'
  BY <1>a, <1>b, <1>u, <1>d DEF IInv, Arguments, ArgumentsOf
<1>6. Swept'
  BY <1>b, <1>u, <1>d DEF IInv, Swept, SweptOf, Waits, Flow
<1> QED
  BY ONLY <1>1, <1>2, <1>3, <1>4, <1>5, <1>6, Zenon DEF IInv

(* The inductive invariant survives the call of fork.                      *)
LEMMA sys_forkIInv ==
    ASSUME IInv, NEW c \in Cpu, sys_fork(c) PROVE IInv'
<1> USE Constants DEF sys_fork, Goto, spin_get, At, OnTask, HeldBy
<1>h. Local(c)
  BY Here, Zenon
<1>1. TypeOK'
  BY <1>h, Zenon DEF Local, TypeOK, ArgumentsOf, Pc
<1>2. Stays(c)
  BY DEF Stays, Pc, TaskPc
<1>3. TaskLocksOf(c)' /\ OtherLocksOf(c)' /\ ArgumentsOf(run[c])' /\ SweptOf(c)'
  <2>1. TaskLocksOf(c)'
    BY DEF TaskLocksOf, OwnsTask
  <2>2. OtherLocksOf(c)'
    BY <1>h, Zenon DEF Local, OtherLocksOf, ArgumentsOf, Flow, TaskPc, CpuPc
  <2>3. ArgumentsOf(run[c])'
    BY <1>h, Zenon DEF Local, ArgumentsOf, Flow, TaskPc, CpuPc
  <2>4. SweptOf(c)'
    BY <1>h, Zenon DEF Local, ArgumentsOf, SweptOf, Waits, Flow, TaskPc, CpuPc
  <2> QED
    BY ONLY <2>1, <2>2, <2>3, <2>4, Zenon
<1> QED
  BY ONLY IInv, c \in Cpu, <1>1, <1>2, <1>3, StaysIInv, Zenon

(* The inductive invariant survives the call of exec.                      *)
LEMMA sys_execIInv ==
    ASSUME IInv, NEW c \in Cpu, sys_exec(c) PROVE IInv'
<1> USE Constants DEF sys_exec, Goto, At, OnTask, HeldBy
<1>h. Local(c)
  BY Here, Zenon
<1>1. TypeOK'
  BY <1>h, Zenon DEF Local, TypeOK, ArgumentsOf, Pc
<1>2. Stays(c)
  BY <1>h, Zenon DEF Local, Stays, Flow, ArgumentsOf, Pc, TaskPc, CpuPc
<1>3. TaskLocksOf(c)' /\ OtherLocksOf(c)' /\ ArgumentsOf(run[c])' /\ SweptOf(c)'
  BY <1>h, Zenon DEF Local, TaskLocksOf, OwnsTask, OtherLocksOf, ArgumentsOf, SweptOf, Waits, Flow, TaskPc, CpuPc
<1> QED
  BY ONLY IInv, c \in Cpu, <1>1, <1>2, <1>3, StaysIInv, Zenon

(* The inductive invariant survives a task entering the kernel.            *)
LEMMA TrapIInv ==
    ASSUME IInv, NEW c \in Cpu, Trap(c) PROVE IInv'
<1> USE Constants DEF Trap, Goto, At
<1>h. Local(c)
  BY Here, Zenon
<1>1. TypeOK'
  BY <1>h, Zenon DEF Local, TypeOK, ArgumentsOf, Pc
<1>2. Stays(c)
  BY <1>h, Zenon DEF Local, Stays, Flow, ArgumentsOf, Pc, TaskPc, CpuPc
<1>3. TaskLocksOf(c)' /\ OtherLocksOf(c)' /\ ArgumentsOf(run[c])' /\ SweptOf(c)'
  BY <1>h, Zenon DEF Local, TaskLocksOf, OwnsTask, OtherLocksOf, ArgumentsOf, SweptOf, Waits, Flow, TaskPc, CpuPc
<1> QED
  BY ONLY IInv, c \in Cpu, <1>1, <1>2, <1>3, StaysIInv, Zenon

(* The inductive invariant survives the timer interrupt.                   *)
LEMMA asy_timerIInv ==
    ASSUME IInv, NEW c \in Cpu, asy_timer(c) PROVE IInv'
<1> USE Constants DEF asy_timer, Goto, At
<1>h. Local(c)
  BY Here, Zenon
<1>1. TypeOK'
  BY <1>h, Zenon DEF Local, TypeOK, ArgumentsOf, Pc
<1>2. Stays(c)
  BY <1>h, Zenon DEF Local, Stays, Flow, ArgumentsOf, Pc, TaskPc, CpuPc
<1>3. TaskLocksOf(c)' /\ OtherLocksOf(c)' /\ ArgumentsOf(run[c])' /\ SweptOf(c)'
  <2>1. TaskLocksOf(c)'
    BY <1>h, Zenon DEF Local, TaskLocksOf, OwnsTask, ArgumentsOf, Flow, TaskPc, CpuPc
  <2>2. OtherLocksOf(c)'
    BY <1>h, Zenon DEF Local, OtherLocksOf, ArgumentsOf, Flow, TaskPc, CpuPc
  <2>3. ArgumentsOf(run[c])'
    BY <1>h, Zenon DEF Local, ArgumentsOf, Flow, TaskPc, CpuPc
  <2>4. SweptOf(c)'
    BY <1>h DEF Local, SweptOf
  <2> QED
    BY ONLY <2>1, <2>2, <2>3, <2>4, Zenon
<1> QED
  BY ONLY IInv, c \in Cpu, <1>1, <1>2, <1>3, StaysIInv, Zenon

(* The inductive invariant survives the return to user mode.               *)
LEMMA TrapReturnIInv ==
    ASSUME IInv, NEW c \in Cpu, TrapReturn(c) PROVE IInv'
<1> USE Constants DEF TrapReturn, Goto, At, OnTask, HeldBy
<1>h. Local(c)
  BY Here, Zenon
<1>1. TypeOK'
  BY <1>h, Zenon DEF Local, TypeOK, ArgumentsOf, Pc
<1>2. Stays(c)
  BY <1>h, Zenon DEF Local, Stays, Flow, ArgumentsOf, Pc, TaskPc, CpuPc
<1>3. TaskLocksOf(c)' /\ OtherLocksOf(c)' /\ ArgumentsOf(run[c])' /\ SweptOf(c)'
  <2>1. TaskLocksOf(c)'
    BY <1>h, Zenon DEF Local, TaskLocksOf, OwnsTask, ArgumentsOf, Flow, TaskPc, CpuPc
  <2>2. OtherLocksOf(c)'
    BY <1>h, Zenon DEF Local, OtherLocksOf, ArgumentsOf, Flow, TaskPc, CpuPc
  <2>3. ArgumentsOf(run[c])'
    BY <1>h, Zenon DEF Local, ArgumentsOf, Flow, TaskPc, CpuPc
  <2>4. SweptOf(c)'
    BY <1>h, Zenon DEF Local, ArgumentsOf, SweptOf, Waits, Flow, TaskPc, CpuPc
  <2> QED
    BY ONLY <2>1, <2>2, <2>3, <2>4, Zenon
<1> QED
  BY ONLY IInv, c \in Cpu, <1>1, <1>2, <1>3, StaysIInv, Zenon

(* Every step of every CPU preserves the invariant.                        *)
LEMMA NextIInv == IInv /\ [Next]_vars => IInv'
<1> SUFFICES ASSUME IInv, [Next]_vars PROVE IInv'
  BY Zenon
<1>1. ASSUME NEW c \in Cpu, SchedStep(c) PROVE IInv'
  BY <1>1, WindowIInv, ScanGetIInv, PickIInv, BackIInv, YieldGetIInv, YieldSwitchIInv,
     ResumeIInv, SleepGetIInv, SleepUnlockIInv, SleepSwitchIInv, SleptIInv, RelockIInv,
     WakeGetIInv, WakeSelfIInv, RouseIInv, WakeDoneIInv, Zenon DEF SchedStep
<1>2. ASSUME UNCHANGED vars PROVE IInv'
  <2> USE <1>2 DEF vars
  <2>1. TypeOK' /\ Placement' /\ Contexts' /\ CurTask'
    BY DEF IInv, TypeOK, Placement, Contexts, CurTask
  <2>2. TaskLocks'
    <3>1. SUFFICES ASSUME NEW c \in Cpu, NEW t \in Task PROVE owner'[t] = c <=> OwnsTask(c, t)'
      BY Zenon DEF TaskLocks, TaskLocksOf
    <3>2. OwnsTask(c, t)' <=> OwnsTask(c, t)
      BY Zenon DEF OwnsTask
    <3>3. owner[t] = c <=> OwnsTask(c, t)
      BY Zenon DEF IInv, TaskLocks, TaskLocksOf
    <3> QED
      BY <3>2, <3>3, Zenon
  <2>5. OtherLocks'
    <3>1. SUFFICES ASSUME NEW c \in Cpu PROVE OtherLocksOf(c)'
      BY Zenon DEF OtherLocks
    <3>2. OtherLocksOf(c)
      BY Zenon DEF IInv, OtherLocks
    <3> QED
      BY <3>2, ZenonT(60) DEF OtherLocksOf
  <2>3. Arguments' /\ Forking'
    BY Zenon DEF IInv, Arguments, ArgumentsOf, Forking
  <2>4. Swept'
    BY Zenon DEF IInv, Swept, SweptOf, Waits
  <2> QED
    BY <2>1, <2>2, <2>3, <2>4, <2>5, Zenon DEF IInv
<1>3. ASSUME NEW c \in Cpu, ForkStep(c) PROVE IInv'
  BY <1>2, <1>3, AllocGetIInv, AllocProbeIInv, ForkReadyIInv, Zenon DEF ForkStep, Panic
<1>4. ASSUME NEW c \in Cpu, KernelStep(c) PROVE IInv'
  BY <1>4, KernelGetIInv, KernelPutIInv, KernelSleepIInv, KernelWakeupIInv, sys_forkIInv,
     sys_execIInv, TrapReturnIInv, Zenon DEF KernelStep
<1> QED
  BY <1>1, <1>2, <1>3, <1>4, TrapIInv, asy_timerIInv, Zenon DEF Next

(* The inductive invariant always holds.                                   *)
LEMMA SpecIInv == Spec => []IInv
  BY InitIInv, NextIInv, PTL DEF Spec
-----------------------------------------------------------------------------
(* Type correctness.                                                       *)
THEOREM TypeCorrect == Spec => []TypeOK
<1>1. IInv => TypeOK
  BY Zenon DEF IInv
<1> QED
  BY <1>1, SpecIInv, PTL

(* No task is ever on two CPUs, whatever the kernel code that calls the    *)
(* scheduler does within sche.c:60.                                        *)
THEOREM OneCpu == Spec => []OneCpuPerTask
<1>1. IInv => OneCpuPerTask
  BY Zenon DEF IInv, Placement, OneCpuPerTask, OnTask
<1> QED
  BY <1>1, SpecIInv, PTL

(* The state of an unlocked task agrees with what the CPUs execute.        *)
THEOREM Truth == Spec => []StateTellsTruth
<1>1. IInv => StateTellsTruth
  <2> SUFFICES ASSUME IInv, NEW t \in Task, owner[t] = None
               PROVE  /\ state[t] = "RUN" <=> \E c \in Cpu : run[c] = t
                      /\ \A c \in Cpu : cur_task[c] = t <=> run[c] = t
    BY Zenon DEF StateTellsTruth
  <2>1. state[t] = "RUN" <=> \E c \in Cpu : run[c] = t
    BY Zenon DEF IInv, Contexts
  <2>2. ASSUME NEW c \in Cpu PROVE cur_task[c] = t <=> run[c] = t
    BY Constants DEF IInv, Placement, CurTask, TaskLocks, TaskLocksOf, OwnsTask
  <2> QED
    BY <2>1, <2>2, Zenon
<1> QED
  BY <1>1, SpecIInv, PTL

(* A wakeup by the holder of the sleepers' lock misses none of them.       *)
THEOREM WakeupComplete == Spec => []NoLostWakeup
<1>1. IInv => NoLostWakeup
  BY Zenon DEF IInv, Swept, SweptOf, NoLostWakeup, At
<1> QED
  BY <1>1, SpecIInv, PTL

(* The panics of spin_get and spin_put are unreachable, across context     *)
(* switches and migration between CPUs.                                    *)
THEOREM PanicFree == Spec => []NoPanic
<1>1. IInv => NoPanic
  <2> SUFFICES ASSUME IInv, NEW c \in Cpu
               PROVE LET f == run[c] IN
        /\ pc[f] \in {"pick", "back", "rouse", "probe"} => owner[idx[f]] = c
        /\ pc[f] \in {"ready", "resume", "unlock", "doze", "slept"} => owner[f] = c
        /\ pc[f] = "unlock" /\ alock[f] # None => owner[alock[f]] = c
        /\ pc[f] = "probe" => owner[tq] = c
        /\ pc[f] \in {"yield", "sleep"} => owner[f] # c
        /\ pc[f] = "relock" => owner[alock[f]] # c
        /\ pc[f] \in {"scan", "wake", "alloc"} /\ idx[f] < NPROC => owner[idx[f]] # c
    BY Zenon DEF NoPanic
  <2> USE Constants DEF IInv
  <2>a. run[c] \in Flow /\ pc[run[c]] \in Pc /\ idx[run[c]] \in 0 .. NPROC
    BY Zenon DEF TypeOK
  <2>1. pc[run[c]] \in {"pick", "back", "rouse", "probe"} => owner[idx[run[c]]] = c
    BY <2>a DEF TaskLocks, TaskLocksOf, OwnsTask, Placement, Arguments, ArgumentsOf, TaskPc
  <2>2. pc[run[c]] \in {"ready", "resume", "unlock", "doze", "slept"} => owner[run[c]] = c
    BY <2>a, Zenon DEF TaskLocks, TaskLocksOf, OwnsTask, Placement, CpuPc
  <2>3. pc[run[c]] = "unlock" /\ alock[run[c]] # None => owner[alock[run[c]]] = c
    BY Zenon DEF OtherLocks, OtherLocksOf
  <2>4. pc[run[c]] = "probe" => owner[tq] = c
    BY Zenon DEF OtherLocks, OtherLocksOf
  <2>5. pc[run[c]] \in {"yield", "sleep"} => owner[run[c]] # c
    BY DEF TaskLocks, TaskLocksOf, OwnsTask, Placement, CpuPc
  <2>6. pc[run[c]] = "relock" => owner[alock[run[c]]] # c
    BY <2>a DEF OtherLocks, OtherLocksOf, Placement, CpuPc, Arguments, ArgumentsOf
  <2>7. pc[run[c]] \in {"scan", "wake", "alloc"} /\ idx[run[c]] < NPROC => owner[idx[run[c]]] # c
    BY <2>a DEF TaskLocks, TaskLocksOf, OwnsTask
  <2> QED
    BY <2>1, <2>2, <2>3, <2>4, <2>5, <2>6, <2>7, Zenon
<1> QED
  BY <1>1, SpecIInv, PTL

(* Every context switch happens with the lock of the task it leaves or     *)
(* enters held, and with no other lock held (doc.md:179).                  *)
THEOREM Switches == Spec => SwitchInCritical
<1> DEFINE Switch == \A c \in Cpu : run'[c] # run[c] =>
         /\ run[c] = c \/ run'[c] = c
         /\ \E t \in {run[c], run'[c]} \cap Task : HeldBy(c) = {t} /\ HeldBy(c)' = {t}
<1>1. IInv /\ [Next]_vars => [Switch]_vars
  <2> SUFFICES ASSUME IInv, Next PROVE Switch
    BY Zenon
  <2> USE Constants DEF IInv
  <2>1. ASSUME NEW c \in Cpu, Pick(c), state[idx[c]] = "READY" PROVE Switch
    <3>1. run[c] = c /\ idx[c] \in Task /\ pc[c] = "pick" /\ owner' = owner
      BY <2>1, Zenon DEF Pick, At, OnTask, Placement, TypeOK, Arguments, ArgumentsOf, Flow
    <3>2. run' = [run EXCEPT ![c] = idx[c]]
      BY <2>1, Zenon DEF Pick
    <3>3. HeldBy(c) = {idx[c]}
      BY <3>1 DEF HeldBy, TaskLocks, TaskLocksOf, OwnsTask, OtherLocks, OtherLocksOf
    <3> QED
      BY <3>1, <3>2, <3>3 DEF HeldBy
  <2>2. ASSUME NEW c \in Cpu, YieldSwitch(c) \/ SleepSwitch(c) PROVE Switch
    <3>1. run[c] \in Task /\ pc[run[c]] \in {"ready", "doze"} /\ owner' = owner
      BY <2>2, Zenon DEF YieldSwitch, SleepSwitch, At, OnTask
    <3>2. run' = [run EXCEPT ![c] = c]
      BY <2>2, Zenon DEF YieldSwitch, SleepSwitch
    <3>3. HeldBy(c) = {run[c]}
      BY <3>1 DEF HeldBy, TaskLocks, TaskLocksOf, OwnsTask, OtherLocks, OtherLocksOf
    <3> QED
      BY <3>1, <3>2, <3>3 DEF HeldBy
  <2>3. ASSUME run' = run PROVE Switch
    BY <2>3, Zenon
  <2>4. ASSUME NEW c \in Cpu, SchedStep(c) PROVE Switch
    BY <2>1, <2>2, <2>3, <2>4, ZenonT(60) DEF SchedStep, Window, ScanGet, Pick, Back, YieldGet, Resume,
       SleepGet, SleepUnlock, Slept, Relock, WakeGet, WakeSelf, Rouse, WakeDone
  <2>5. ASSUME NEW c \in Cpu, ForkStep(c) \/ Trap(c) \/ asy_timer(c) \/ KernelStep(c) PROVE run' = run
    BY <2>5, ZenonT(60) DEF ForkStep, AllocGet, AllocProbe, ForkReady, Panic, Trap, asy_timer, KernelStep,
       KernelGet, KernelPut, KernelSleep, KernelWakeup, CallSleep, CallWakeup, sys_fork,
       sys_exec, TrapReturn, vars
  <2> QED
    BY <2>3, <2>4, <2>5, Zenon DEF Next
<1> QED
  BY <1>1, SpecIInv, PTL DEF Spec, SwitchInCritical

-----------------------------------------------------------------------------
(* Mutual exclusion of a sleep lock and the absence of its panics.         *)
(* Neither depends on the wakeups, which may be lost.                      *)

Label == Pc \cup {"tas", "own", "cs", "put", "release", "notify"}

(* What is needed of the scheduler: a CPU executes its own scheduler or a  *)
(* task, and the scheduler's flow never gets into the lock's code.         *)
Flows ==
    /\ pc \in [Flow -> Label] /\ ret \in [Flow -> Label]
    /\ idx \in [Flow -> 0 .. NPROC]
    /\ run \in [Cpu -> Flow]
    /\ \A c \in Cpu : run[c] = c \/ run[c] \in Task
    /\ \A c \in Cpu : pc[c] \in {"window", "scan", "pick", "back", "wake", "rouse"}
    /\ \A c \in Cpu : ret[c] = "window"
    /\ \A t \in Task : pc[t] # "window"
    /\ \A f \in Flow : pc[f] # "wake" => idx[f] \in Task

(* A holder that is off the CPU is in yield, and no other call returns to  *)
(* the place where the lock is held.                                       *)
Returns ==
    \A t \in Task : /\ ret[t] \in {"user", "yield", "tas", "put"}
                    /\ ret[t] = "put" => pc[t] \in {"yield", "ready", "resume"}

(* lock->task is the holder, except before it is written and after it is   *)
(* erased.                                                                 *)
OwnerWritten ==
    /\ stask \in Task \cup {None}
    /\ \A t \in Task : pc[t] \in {"cs", "put"} \/ ret[t] = "put" => stask = t
    /\ \A t \in Task : pc[t] \in {"own", "release"} => stask = None
    /\ ~slocked => stask = None

SInv ==
    /\ slocked \in BOOLEAN
    /\ Flows
    /\ Returns
    /\ OwnerWritten
    /\ SleepMutex
    /\ SleepNoPanic

(* The lock starts free, with every task off the CPU.                      *)
LEMMA InitSInv == SLInit => SInv
<1> SUFFICES ASSUME SLInit PROVE SInv
  BY Zenon
<1> USE Constants DEF SLInit, Started
<1>1. Flows
  BY Zenon DEF Flows, Flow, Label, Pc
<1>2. Returns /\ SleepNoPanic
  BY Zenon DEF Returns, SleepNoPanic, Flow
<1>3. OwnerWritten
  BY Zenon DEF OwnerWritten, Flow
<1>4. SleepMutex
  BY Zenon DEF SleepMutex, Holding, Flow
<1> QED
  BY <1>1, <1>2, <1>3, <1>4, Zenon DEF SInv
-----------------------------------------------------------------------------
(* The scheduler does not touch the lock: a step of it or a timer          *)
(* interrupt leaves a holder a holder and makes nobody one.                *)
LEMMA SchedSInv ==
    ASSUME SInv, NEW c \in Cpu, SchedStep(c) \/ asy_timer(c), UNCHANGED svars
    PROVE  SInv'
<1> USE Constants DEF svars, At, OnTask, Goto
<1>0. /\ run[c] \in Flow /\ c \in Flow /\ Task \subseteq Flow /\ Cpu \subseteq Flow
      /\ run[c] \in Task => run[c] # c
  BY Zenon DEF SInv, Flows, Flow
<1>1. /\ Flows'
      /\ \A t \in Task : /\ ret[t] = "put" => pc[t] \in {"yield", "ready", "resume"}
                         /\ ret'[t] \in {"user", "yield", "tas", "put"}
                         /\ ret'[t] = "put" => pc'[t] \in {"yield", "ready", "resume"}
                         /\ Holding(t)' <=> Holding(t)
                         /\ pc'[t] \in {"cs", "put"} \/ ret'[t] = "put"
                              => pc[t] \in {"cs", "put"} \/ ret[t] = "put"
                         /\ pc'[t] \in {"own", "release"} => pc[t] = pc'[t]
                         /\ pc'[t] # "panic"
  <2> USE <1>0 DEF SInv, Flows, Returns, SleepNoPanic, Label, Pc, Holding
  <2>1. CASE Window(c)
    BY <2>1 DEF Window
  <2>2. CASE ScanGet(c)
    BY <2>2 DEF ScanGet
  <2>3. CASE Pick(c)
    BY <2>3 DEF Pick
  <2>4. CASE Back(c)
    BY <2>4 DEF Back
  <2>5. CASE YieldGet(c)
    BY <2>5 DEF YieldGet
  <2>6. CASE YieldSwitch(c)
    BY <2>6 DEF YieldSwitch
  <2>7. CASE Resume(c)
    BY <2>7 DEF Resume, Return
  <2>8. CASE SleepGet(c)
    BY <2>8 DEF SleepGet
  <2>9. CASE SleepUnlock(c)
    BY <2>9 DEF SleepUnlock
  <2>10. CASE SleepSwitch(c)
    BY <2>10 DEF SleepSwitch
  <2>11. CASE Slept(c)
    BY <2>11 DEF Slept, Return
  <2>12. CASE Relock(c)
    BY <2>12 DEF Relock, Return
  <2>13. CASE WakeGet(c)
    BY <2>13 DEF WakeGet
  <2>14. CASE WakeSelf(c)
    BY <2>14 DEF WakeSelf
  <2>15. CASE Rouse(c)
    BY <2>15 DEF Rouse
  <2>16. CASE WakeDone(c)
    BY <2>16 DEF WakeDone, Return
  <2>17. CASE asy_timer(c)
    BY <2>17 DEF asy_timer
  <2> QED
    BY <2>1, <2>2, <2>3, <2>4, <2>5, <2>6, <2>7, <2>8, <2>9, <2>10, <2>11, <2>12,
       <2>13, <2>14, <2>15, <2>16, <2>17, Zenon DEF SchedStep
<1>2. Returns' /\ SleepNoPanic'
  BY <1>1, Zenon DEF Returns, SleepNoPanic
<1>3. OwnerWritten'
  BY <1>1, Zenon DEF SInv, OwnerWritten
<1>4. SleepMutex'
  BY <1>1, Zenon DEF SInv, OwnerWritten, SleepMutex
<1> QED
  BY <1>1, <1>2, <1>3, <1>4, Zenon DEF SInv

(* Every step of sleep_get, of the holder and of sleep_put keeps the       *)
(* invariant.                                                              *)
LEMMA ClientSInv ==
    ASSUME SInv, NEW c \in Cpu, ClientStep(c)
    PROVE  SInv'
<1> USE Constants DEF At, Goto
<1>0. /\ run[c] \in Flow /\ Task \subseteq Flow /\ Cpu \subseteq Flow
      /\ run[c] \in Task \/ run[c] = c
  BY Zenon DEF SInv, Flows, Flow
<1>1. run[c] \in Task
  BY <1>0, Zenon DEF SInv, Flows, ClientStep, sleep_get, TestAndSet, TestAndSetFails, SetTask, Block,
     ClearTask, Release, Notify
<1> USE <1>0, <1>1
<1>2. CASE sleep_get(c)
  <2>1. ~sleep_holding(run[c])
    BY <1>2 DEF sleep_get, sleep_holding, SInv, SleepMutex, Holding, Returns
  <2>2. /\ pc[run[c]] = "user" /\ pc' = [pc EXCEPT ![run[c]] = "tas"]
        /\ UNCHANGED <<run, ret, idx, slocked, stask>>
    BY <1>2, <2>1, Zenon DEF sleep_get, svars
  <2>3. slocked' \in BOOLEAN /\ Flows' /\ Returns' /\ SleepNoPanic'
    BY <2>2 DEF SInv, Flows, Returns, Label, SleepNoPanic
  <2>4. \A t \in Task : /\ Holding(t)' <=> Holding(t)
                        /\ pc'[t] \in {"own", "cs", "put", "release"} => pc'[t] = pc[t]
    BY <2>2 DEF SInv, Flows, Holding
  <2>5. OwnerWritten'
    BY <2>2, <2>4, Zenon DEF SInv, OwnerWritten
  <2>6. SleepMutex'
    BY <2>2, <2>4, Zenon DEF SInv, OwnerWritten, SleepMutex
  <2> QED
    BY <2>3, <2>5, <2>6, Zenon DEF SInv
<1>3. CASE TestAndSet(c)
  <2>1. slocked' \in BOOLEAN /\ Flows' /\ Returns' /\ SleepNoPanic'
    BY <1>3 DEF TestAndSet, SInv, Flows, Returns, Label, SleepNoPanic
  <2>2. OwnerWritten' /\ SleepMutex'
    BY <1>3, Zenon DEF TestAndSet, SInv, Flows, OwnerWritten, SleepMutex, Holding
  <2> QED
    BY <2>1, <2>2, Zenon DEF SInv
<1>4. CASE TestAndSetFails(c)
  <2>1. /\ pc[run[c]] = "tas" /\ pc' = [pc EXCEPT ![run[c]] = "sleep"]
        /\ ret' = [ret EXCEPT ![run[c]] = "tas"]
        /\ UNCHANGED <<run, idx, slocked, stask>>
    BY <1>4, Zenon DEF TestAndSetFails, CallSleep
  <2>2. slocked' \in BOOLEAN /\ Flows'
    BY <2>1 DEF SInv, Flows, Label, Pc
  <2>3. Returns' /\ SleepNoPanic'
    BY <2>1 DEF SInv, Flows, Returns, SleepNoPanic
  <2>4. \A t \in Task : /\ Holding(t)' <=> Holding(t)
                        /\ pc'[t] \in {"own", "cs", "put", "release"} => pc'[t] = pc[t]
                        /\ ret'[t] = "put" => ret[t] = "put"
    BY <2>1 DEF SInv, Flows, Returns, Holding
  <2>5. OwnerWritten'
    BY <2>1, <2>4, Zenon DEF SInv, OwnerWritten
  <2>6. SleepMutex'
    BY <2>1, <2>4, Zenon DEF SInv, OwnerWritten, SleepMutex
  <2> QED
    BY <2>2, <2>3, <2>5, <2>6, Zenon DEF SInv
<1>5. CASE SetTask(c)
  <2>1. slocked' \in BOOLEAN /\ Flows' /\ Returns' /\ SleepNoPanic'
    BY <1>5 DEF SetTask, SInv, Flows, Returns, Label, SleepNoPanic
  <2>2. OwnerWritten' /\ SleepMutex'
    BY <1>5 DEF SetTask, SInv, Flows, OwnerWritten, SleepMutex, Holding
  <2> QED
    BY <2>1, <2>2, Zenon DEF SInv
<1>6. CASE Block(c)
  <2>1. slocked' \in BOOLEAN /\ Flows' /\ Returns' /\ SleepNoPanic'
    BY <1>6 DEF Block, svars, SInv, Flows, Returns, Label, Pc, SleepNoPanic
  <2>2. OwnerWritten' /\ SleepMutex'
    BY <1>6 DEF Block, svars, SInv, Flows, OwnerWritten, SleepMutex, Holding
  <2> QED
    BY <2>1, <2>2, Zenon DEF SInv
<1>7. CASE ClearTask(c)
  <2>1. sleep_holding(run[c])
    BY <1>7, Zenon DEF ClearTask, sleep_holding, SInv, OwnerWritten, SleepMutex, Holding
  <2>2. slocked' \in BOOLEAN /\ Flows' /\ Returns' /\ SleepNoPanic'
    BY <1>7, <2>1 DEF ClearTask, SInv, Flows, Returns, Label, SleepNoPanic
  <2>3. OwnerWritten' /\ SleepMutex'
    BY <1>7, <2>1 DEF ClearTask, SInv, Flows, Returns, OwnerWritten, SleepMutex, Holding
  <2> QED
    BY <2>2, <2>3, Zenon DEF SInv
<1>8. CASE Release(c)
  <2>1. /\ pc' = [pc EXCEPT ![run[c]] = "notify"] /\ ret' = ret /\ run' = run /\ idx' = idx
        /\ slocked' = FALSE /\ stask' = stask /\ pc[run[c]] = "release"
    BY <1>8, Zenon DEF Release
  <2>2. Flows' /\ Returns' /\ SleepNoPanic'
    BY <2>1 DEF SInv, Flows, Returns, SleepNoPanic, Label
  <2>3. \A t \in Task : ~Holding(t)'
    BY <2>1, ZenonT(60) DEF SInv, Flows, Returns, SleepMutex, Holding
  <2>4. OwnerWritten' /\ SleepMutex'
    BY <2>1, <2>3, Zenon DEF SInv, Flows, OwnerWritten, SleepMutex, Holding
  <2> QED
    BY <2>1, <2>2, <2>4, Zenon DEF SInv
<1>9. CASE Notify(c)
  <2>1. slocked' \in BOOLEAN /\ Flows' /\ Returns' /\ SleepNoPanic'
    BY <1>9 DEF Notify, CallWakeup, svars, SInv, Flows, Returns, Label, Pc, SleepNoPanic
  <2>2. OwnerWritten' /\ SleepMutex'
    BY <1>9 DEF Notify, CallWakeup, svars, SInv, Returns, OwnerWritten, SleepMutex, Holding
  <2> QED
    BY <2>1, <2>2, Zenon DEF SInv
<1> QED
  BY <1>2, <1>3, <1>4, <1>5, <1>6, <1>7, <1>8, <1>9, Zenon DEF ClientStep

(* The invariant always holds.                                             *)
LEMMA SpecSInv == SLSpec => []SInv
<1>1. SInv /\ [SLNext]_allvars => SInv'
  <2>1. ASSUME SInv, UNCHANGED allvars PROVE SInv'
    BY <2>1, Zenon
       DEF allvars, vars, svars, SInv, Flows, Returns, OwnerWritten, SleepMutex, SleepNoPanic, Holding
  <2> QED
    BY <2>1, SchedSInv, ClientSInv, Zenon DEF SLNext, CpuStep
<1> QED
  BY InitSInv, <1>1, PTL DEF SLSpec

(* At most one task holds a sleep lock, on any number of CPUs.             *)
THEOREM SleepExclusion == SLSpec => []SleepMutex
<1>1. SInv => SleepMutex
  BY Zenon DEF SInv
<1> QED
  BY <1>1, SpecSInv, PTL

(* The panics of sleep_get and sleep_put do not fire.                      *)
THEOREM SleepPanicFree == SLSpec => []SleepNoPanic
<1>1. SInv => SleepNoPanic
  BY Zenon DEF SInv
<1> QED
  BY <1>1, SpecSInv, PTL
=============================================================================
