------------------------------- MODULE Sched --------------------------------
(***************************************************************************)
(* The scheduler: task_schedule, yield, sleep, wakeup and first_sched of   *)
(* kernel/task/sche.c, the creation of tasks (alloc_task, sys_fork) and    *)
(* their restart (sys_exec), with the timer and device interrupts of       *)
(* kernel/trap/trap.c.                                                     *)
(*                                                                         *)
(* A flow of control is a task or a CPU's scheduler.  run[c] is the flow   *)
(* whose stack CPU c executes on; context_switch changes it and leaves the *)
(* other flow's pc as its saved context.  Spinlocks are used at the level  *)
(* of Mutex: one step per spin_get, one per spin_put.  A critical section  *)
(* of a task's lock is at least a step for spin_get and a step for the     *)
(* body with its spin_put or its context_switch.                           *)
(*                                                                         *)
(* The kernel code that calls these functions is left open: in "kernel" a  *)
(* flow takes and releases a spinlock, calls sleep and wakeup on any       *)
(* channel, forks and execs in any order, within the one rule sche.c:60    *)
(* gives (at most one spinlock held when calling sleep, and it is the one  *)
(* passed).  Interrupts are masked in the kernel, so one is taken only in  *)
(* user mode or between the sti and the cli of task_schedule, where the    *)
(* handler runs on the scheduler's flow and neither sleeps nor yields.     *)
(***************************************************************************)
EXTENDS Integers, FiniteSets

CONSTANTS
    Cpu,    \* the harts
    NPROC,  \* size of task_queue
    Lock,   \* spinlocks other than the tasks' own
    tq,     \* the one that protects task_queue's free slots
    Chan,   \* the addresses tasks sleep on
    tstub,  \* the one the timer wakes
    None    \* NULL

Task == 0 .. NPROC - 1
Flow == Cpu \cup Task

ASSUME CpuAssumption == Cpu \cap Task = {} /\ None \notin Cpu \cup Task
ASSUME NPROCAssumption == NPROC \in Nat \ {0}
ASSUME LockAssumption == Lock \cap Task = {} /\ Lock \cap Cpu = {} /\ tq \in Lock /\ None \notin Lock
ASSUME ChanAssumption == tstub \in Chan /\ None \notin Chan

VARIABLES
    state,     \* t->state
    chan,      \* t->chan
    owner,     \* holder of every spinlock; a task stands for its t->lock
    cur_task,  \* c->cur_task
    run,       \* the flow CPU c executes
    pc,        \* where each flow is, or where it resumes
    ret,       \* where its call of yield, sleep or wakeup returns to
    idx,       \* the i of its loop over task_queue
    achan,     \* the chan argument of its call
    alock,     \* the lock argument of its call of sleep
    newtask    \* the c of its sys_fork

vars == <<state, chan, owner, cur_task, run, pc, ret, idx, achan, alock, newtask>>

State == {"FREE", "INIT", "READY", "RUN", "SLEEP"}

Pc == {"window", "scan", "pick", "back",
       "user", "kernel",
       "yield", "ready", "resume",
       "sleep", "unlock", "doze", "slept", "relock",
       "wake", "rouse",
       "alloc", "probe", "fork", "panic"}

TypeOK ==
    /\ state \in [Task -> State]
    /\ chan \in [Task -> Chan \cup {None}]
    /\ owner \in [Task \cup Lock -> Cpu \cup {None}]
    /\ cur_task \in [Cpu -> Task \cup {None}]
    /\ run \in [Cpu -> Flow]
    /\ pc \in [Flow -> Pc]
    /\ ret \in [Flow -> {"window", "user", "kernel", "yield"}]
    /\ idx \in [Flow -> 0 .. NPROC]
    /\ achan \in [Flow -> Chan \cup {None}]
    /\ alock \in [Flow -> Lock \cup {None}]
    /\ newtask \in [Task -> Task \cup {None}]

(* Tasks in ready have a context that starts with the spin_put of          *)
(* first_sched, or of the child's half of sys_fork, and goes to user mode. *)
Started(ready) ==
    /\ state = [t \in Task |-> IF t \in ready THEN "READY" ELSE "FREE"]
    /\ chan = [t \in Task |-> None]
    /\ owner = [x \in Task \cup Lock |-> None]
    /\ cur_task = [c \in Cpu |-> None]
    /\ run = [c \in Cpu |-> c]
    /\ pc = [f \in Flow |-> IF f \in Cpu THEN "window" ELSE "resume"]
    /\ ret = [f \in Flow |-> IF f \in Cpu THEN "window" ELSE "user"]
    /\ idx = [f \in Flow |-> 0]
    /\ achan = [f \in Flow |-> None]
    /\ alock = [f \in Flow |-> None]
    /\ newtask = [t \in Task |-> None]

(* init_proc1 leaves task 0 READY.                                         *)
Init == Started({0})

HeldBy(c) == {x \in Task \cup Lock : owner[x] = c}
spin_get(c, x) == owner[x] = None /\ owner' = [owner EXCEPT ![x] = c]
spin_put(x) == owner' = [owner EXCEPT ![x] = None]
Goto(f, label) == pc' = [pc EXCEPT ![f] = label]

(* Leave the function for its caller; the arguments are dead from here on. *)
Return(f) ==
    /\ Goto(f, ret[f])
    /\ ret' = [ret EXCEPT ![f] = IF f \in Cpu THEN "window" ELSE "user"]
    /\ idx' = [idx EXCEPT ![f] = 0]
    /\ achan' = [achan EXCEPT ![f] = None]
    /\ alock' = [alock EXCEPT ![f] = None]

At(c, label) == pc[run[c]] = label
OnTask(c) == run[c] \in Task
-----------------------------------------------------------------------------
(* task_schedule: sti, cli, then one pass over task_queue.                 *)
Window(c) ==
    /\ At(c, "window") /\ ~OnTask(c)
    /\ Goto(c, "scan")
    /\ UNCHANGED <<state, chan, owner, cur_task, run, ret, idx, achan, alock, newtask>>

ScanGet(c) ==
    /\ At(c, "scan") /\ ~OnTask(c)
    /\ spin_get(c, idx[c])
    /\ Goto(c, "pick")
    /\ UNCHANGED <<state, chan, cur_task, run, ret, idx, achan, alock, newtask>>

(* Slips that the properties below must notice are kept next to the code   *)
(* they are slips in.  Here: the picked task keeps its state.              *)
PickKeepsReady(c) ==
    /\ At(c, "pick") /\ ~OnTask(c)
    /\ Goto(c, "back")
    /\ IF state[idx[c]] = "READY"
         THEN /\ cur_task' = [cur_task EXCEPT ![c] = idx[c]]
              /\ run' = [run EXCEPT ![c] = idx[c]]
         ELSE UNCHANGED <<cur_task, run>>
    /\ UNCHANGED <<state, chan, owner, ret, idx, achan, alock, newtask>>

(* A READY task becomes RUN and the CPU switches to its context.           *)
Pick(c) ==
    /\ At(c, "pick") /\ ~OnTask(c)
    /\ Goto(c, "back")
    /\ IF state[idx[c]] = "READY"
         THEN /\ state' = [state EXCEPT ![idx[c]] = "RUN"]
              /\ cur_task' = [cur_task EXCEPT ![c] = idx[c]]
              /\ run' = [run EXCEPT ![c] = idx[c]]
         ELSE UNCHANGED <<state, cur_task, run>>
    /\ UNCHANGED <<chan, owner, ret, idx, achan, alock, newtask>>

(* Slip: c->cur_task is not reset.                                         *)
BackKeepsCurrent(c) ==
    /\ At(c, "back") /\ ~OnTask(c)
    /\ spin_put(idx[c])
    /\ idx' = [idx EXCEPT ![c] = IF @ + 1 = NPROC THEN 0 ELSE @ + 1]
    /\ Goto(c, IF idx[c] + 1 = NPROC THEN "window" ELSE "scan")
    /\ UNCHANGED <<state, chan, cur_task, run, ret, achan, alock, newtask>>

(* Back from the task, or the task was not READY.                          *)
Back(c) ==
    /\ At(c, "back") /\ ~OnTask(c)
    /\ cur_task' = [cur_task EXCEPT ![c] = None]
    /\ spin_put(idx[c])
    /\ idx' = [idx EXCEPT ![c] = IF @ + 1 = NPROC THEN 0 ELSE @ + 1]
    /\ Goto(c, IF idx[c] + 1 = NPROC THEN "window" ELSE "scan")
    /\ UNCHANGED <<state, chan, run, ret, achan, alock, newtask>>
-----------------------------------------------------------------------------
(* Slip: yield does not take the task's lock.                              *)
YieldUnlocked(c) ==
    /\ At(c, "yield") /\ OnTask(c)
    /\ Goto(run[c], "ready")
    /\ UNCHANGED <<state, chan, owner, cur_task, run, ret, idx, achan, alock, newtask>>

(* yield, and the end of sys_exec, which gives up the CPU the same way.    *)
YieldGet(c) ==
    /\ At(c, "yield") /\ OnTask(c)
    /\ spin_get(c, run[c])
    /\ Goto(run[c], "ready")
    /\ UNCHANGED <<state, chan, cur_task, run, ret, idx, achan, alock, newtask>>

YieldSwitch(c) ==
    /\ At(c, "ready") /\ OnTask(c)
    /\ state' = [state EXCEPT ![run[c]] = "READY"]
    /\ run' = [run EXCEPT ![c] = c]
    /\ Goto(run[c], "resume")
    /\ UNCHANGED <<chan, owner, cur_task, ret, idx, achan, alock, newtask>>

(* The spin_put after the switch in yield, at the start of first_sched and *)
(* in the child's half of sys_fork.                                        *)
Resume(c) ==
    /\ At(c, "resume") /\ OnTask(c)
    /\ spin_put(run[c])
    /\ Return(run[c])
    /\ UNCHANGED <<state, chan, cur_task, run, newtask>>
-----------------------------------------------------------------------------
(* sleep(achan, alock)                                                     *)
SleepGet(c) ==
    /\ At(c, "sleep") /\ OnTask(c)
    /\ spin_get(c, run[c])
    /\ Goto(run[c], "unlock")
    /\ UNCHANGED <<state, chan, cur_task, run, ret, idx, achan, alock, newtask>>

(* Slip: sleep keeps the lock it was given.                                *)
SleepKeepsLock(c) ==
    /\ At(c, "unlock") /\ OnTask(c)
    /\ Goto(run[c], "doze")
    /\ UNCHANGED <<state, chan, owner, cur_task, run, ret, idx, achan, alock, newtask>>

SleepUnlock(c) ==
    /\ At(c, "unlock") /\ OnTask(c)
    /\ IF alock[run[c]] # None THEN spin_put(alock[run[c]]) ELSE UNCHANGED owner
    /\ Goto(run[c], "doze")
    /\ UNCHANGED <<state, chan, cur_task, run, ret, idx, achan, alock, newtask>>

SleepSwitch(c) ==
    /\ At(c, "doze") /\ OnTask(c)
    /\ chan' = [chan EXCEPT ![run[c]] = achan[run[c]]]
    /\ state' = [state EXCEPT ![run[c]] = "SLEEP"]
    /\ run' = [run EXCEPT ![c] = c]
    /\ Goto(run[c], "slept")
    /\ UNCHANGED <<owner, cur_task, ret, idx, achan, alock, newtask>>

Slept(c) ==
    /\ At(c, "slept") /\ OnTask(c)
    /\ chan' = [chan EXCEPT ![run[c]] = None]
    /\ spin_put(run[c])
    /\ IF alock[run[c]] # None
         THEN Goto(run[c], "relock") /\ UNCHANGED <<ret, idx, achan, alock>>
         ELSE Return(run[c])
    /\ UNCHANGED <<state, cur_task, run, newtask>>

Relock(c) ==
    /\ At(c, "relock") /\ OnTask(c)
    /\ spin_get(c, alock[run[c]])
    /\ Return(run[c])
    /\ UNCHANGED <<state, chan, cur_task, run, newtask>>
-----------------------------------------------------------------------------
(* Slip: wakeup passes over a task whose lock is busy.                     *)
WakeGetTry(c) ==
    /\ At(c, "wake") /\ idx[run[c]] < NPROC /\ idx[run[c]] # cur_task[c]
    /\ IF owner[idx[run[c]]] = None
         THEN spin_get(c, idx[run[c]]) /\ Goto(run[c], "rouse") /\ UNCHANGED idx
         ELSE idx' = [idx EXCEPT ![run[c]] = @ + 1] /\ UNCHANGED <<owner, pc>>
    /\ UNCHANGED <<state, chan, cur_task, run, ret, achan, alock, newtask>>

(* wakeup(achan)                                                           *)
WakeGet(c) ==
    /\ At(c, "wake") /\ idx[run[c]] < NPROC /\ idx[run[c]] # cur_task[c]
    /\ spin_get(c, idx[run[c]])
    /\ Goto(run[c], "rouse")
    /\ UNCHANGED <<state, chan, cur_task, run, ret, idx, achan, alock, newtask>>

WakeSelf(c) ==
    /\ At(c, "wake") /\ idx[run[c]] < NPROC /\ idx[run[c]] = cur_task[c]
    /\ idx' = [idx EXCEPT ![run[c]] = @ + 1]
    /\ UNCHANGED <<state, chan, owner, cur_task, run, pc, ret, achan, alock, newtask>>

Rouse(c) ==
    /\ At(c, "rouse")
    /\ LET t == idx[run[c]] IN
         /\ state' = IF state[t] = "SLEEP" /\ chan[t] = achan[run[c]]
                       THEN [state EXCEPT ![t] = "READY"] ELSE state
         /\ spin_put(t)
    /\ idx' = [idx EXCEPT ![run[c]] = @ + 1]
    /\ Goto(run[c], "wake")
    /\ UNCHANGED <<chan, cur_task, run, ret, achan, alock, newtask>>

(* For asy_timer the return is to its call of yield.                       *)
WakeDone(c) ==
    /\ At(c, "wake") /\ idx[run[c]] = NPROC
    /\ Return(run[c])
    /\ UNCHANGED <<state, chan, owner, cur_task, run, newtask>>
-----------------------------------------------------------------------------
(* alloc_task scans task_queue with tq held.                               *)
AllocGet(c) ==
    /\ At(c, "alloc") /\ OnTask(c)
    /\ spin_get(c, idx[run[c]])
    /\ Goto(run[c], "probe")
    /\ UNCHANGED <<state, chan, cur_task, run, ret, idx, achan, alock, newtask>>

AllocProbe(c) ==
    /\ At(c, "probe") /\ OnTask(c)
    /\ LET t == run[c]
           i == idx[t] IN
         IF state[i] = "FREE"
           THEN /\ state' = [state EXCEPT ![i] = "INIT"]
                /\ owner' = [owner EXCEPT ![i] = None, ![tq] = None]
                /\ newtask' = [newtask EXCEPT ![t] = i]
                /\ idx' = [idx EXCEPT ![t] = 0]
                /\ Goto(t, "fork")
           ELSE /\ spin_put(i)
                /\ idx' = [idx EXCEPT ![t] = @ + 1]
                /\ Goto(t, IF i + 1 = NPROC THEN "panic" ELSE "alloc")
                /\ UNCHANGED <<state, newtask>>
    /\ UNCHANGED <<chan, cur_task, run, ret, achan, alock>>

(* sys_fork gives the child a context and makes it READY, without its lock. *)
ForkReady(c) ==
    /\ At(c, "fork") /\ OnTask(c)
    /\ LET t == run[c]
           n == newtask[t] IN
         /\ pc' = [pc EXCEPT ![t] = "kernel", ![n] = "resume"]
         /\ ret' = [ret EXCEPT ![n] = "user"]
         /\ state' = [state EXCEPT ![n] = "READY"]
         /\ newtask' = [newtask EXCEPT ![t] = None]
    /\ UNCHANGED <<chan, owner, cur_task, run, idx, achan, alock>>

(* panic never returns.                                                    *)
Panic(c) == At(c, "panic") /\ UNCHANGED vars
-----------------------------------------------------------------------------
(* do_trap: a system call or a device interrupt enters the kernel, the     *)
(* timer interrupt calls wakeup(&tstub) and, from user mode, yield.        *)
Trap(c) ==
    /\ At(c, "user") \/ At(c, "window")
    /\ Goto(run[c], "kernel")
    /\ UNCHANGED <<state, chan, owner, cur_task, run, ret, idx, achan, alock, newtask>>

asy_timer(c) ==
    /\ At(c, "user") \/ At(c, "window")
    /\ Goto(run[c], "wake")
    /\ idx' = [idx EXCEPT ![run[c]] = 0]
    /\ achan' = [achan EXCEPT ![run[c]] = tstub]
    /\ ret' = [ret EXCEPT ![run[c]] = IF At(c, "user") THEN "yield" ELSE "window"]
    /\ UNCHANGED <<state, chan, owner, cur_task, run, alock, newtask>>

-----------------------------------------------------------------------------
(* The callers: kernel code of a system call, or of an interrupt handler.  *)
CallSleep(c, ch, l, label) ==
    /\ Goto(run[c], "sleep")
    /\ achan' = [achan EXCEPT ![run[c]] = ch]
    /\ alock' = [alock EXCEPT ![run[c]] = l]
    /\ ret' = [ret EXCEPT ![run[c]] = label]
    /\ UNCHANGED <<state, chan, owner, cur_task, run, idx, newtask>>

CallWakeup(c, ch, label) ==
    /\ Goto(run[c], "wake")
    /\ idx' = [idx EXCEPT ![run[c]] = 0]
    /\ achan' = [achan EXCEPT ![run[c]] = ch]
    /\ ret' = [ret EXCEPT ![run[c]] = label]
    /\ UNCHANGED <<state, chan, owner, cur_task, run, alock, newtask>>

KernelGet(c, l) ==
    /\ At(c, "kernel") /\ HeldBy(c) = {}
    /\ spin_get(c, l)
    /\ UNCHANGED <<state, chan, cur_task, run, pc, ret, idx, achan, alock, newtask>>

KernelPut(c, l) ==
    /\ At(c, "kernel") /\ owner[l] = c
    /\ spin_put(l)
    /\ UNCHANGED <<state, chan, cur_task, run, pc, ret, idx, achan, alock, newtask>>

(* A caller of sleep holds the lock it passes and no other (sche.c:60).    *)
KernelSleep(c, ch, l) ==
    /\ At(c, "kernel") /\ OnTask(c)
    /\ HeldBy(c) = IF l = None THEN {} ELSE {l}
    /\ CallSleep(c, ch, l, "kernel")

KernelWakeup(c, ch) ==
    /\ At(c, "kernel")
    /\ CallWakeup(c, ch, "kernel")

(* sys_fork calls alloc_task, which takes tq.                              *)
sys_fork(c) ==
    /\ At(c, "kernel") /\ OnTask(c) /\ HeldBy(c) = {}
    /\ spin_get(c, tq)
    /\ Goto(run[c], "alloc")
    /\ idx' = [idx EXCEPT ![run[c]] = 0]
    /\ UNCHANGED <<state, chan, cur_task, run, ret, achan, alock, newtask>>

(* sys_exec resets the context to first_sched and gives up the CPU.        *)
sys_exec(c) ==
    /\ At(c, "kernel") /\ OnTask(c) /\ HeldBy(c) = {}
    /\ Goto(run[c], "yield")
    /\ ret' = [ret EXCEPT ![run[c]] = "user"]
    /\ UNCHANGED <<state, chan, owner, cur_task, run, idx, achan, alock, newtask>>

TrapReturn(c) ==
    /\ At(c, "kernel") /\ HeldBy(c) = {}
    /\ Goto(run[c], IF OnTask(c) THEN "user" ELSE "window")
    /\ UNCHANGED <<state, chan, owner, cur_task, run, ret, idx, achan, alock, newtask>>
-----------------------------------------------------------------------------
SchedStep(c) ==
    \/ Window(c) \/ ScanGet(c) \/ Pick(c) \/ Back(c)
    \/ YieldGet(c) \/ YieldSwitch(c) \/ Resume(c)
    \/ SleepGet(c) \/ SleepUnlock(c) \/ SleepSwitch(c) \/ Slept(c) \/ Relock(c)
    \/ WakeGet(c) \/ WakeSelf(c) \/ Rouse(c) \/ WakeDone(c)

ForkStep(c) == AllocGet(c) \/ AllocProbe(c) \/ ForkReady(c) \/ Panic(c)

KernelStep(c) ==
    \/ \E l \in Lock \ {tq} : KernelGet(c, l) \/ KernelPut(c, l)
    \/ \E ch \in Chan, l \in (Lock \ {tq}) \cup {None} : KernelSleep(c, ch, l)
    \/ \E ch \in Chan : KernelWakeup(c, ch)
    \/ sys_fork(c)
    \/ sys_exec(c)
    \/ TrapReturn(c)

Next == \E c \in Cpu : SchedStep(c) \/ ForkStep(c) \/ Trap(c) \/ asy_timer(c) \/ KernelStep(c)

Spec == Init /\ [][Next]_vars
-----------------------------------------------------------------------------
(* No task is executed by two CPUs at once: no two of them are ever on one *)
(* kernel stack.                                                           *)
OneCpuPerTask == \A c, d \in Cpu : c # d /\ OnTask(c) => run[c] # run[d]

(* Whenever a task's lock is free, its state tells the truth: it is RUN    *)
(* exactly if some CPU executes it and has it as cur_task; so the          *)
(* scheduler, which looks at the state under the lock, never switches to a *)
(* context that is still in use.                                           *)
StateTellsTruth ==
    \A t \in Task : owner[t] = None =>
        /\ state[t] = "RUN" <=> \E c \in Cpu : run[c] = t
        /\ \A c \in Cpu : cur_task[c] = t <=> run[c] = t

(* sche.c:66: a wakeup(ch) whose caller holds the lock l that sleepers     *)
(* pass to sleep leaves no sleeper behind: no task whose slot it has       *)
(* already passed is asleep on (ch, l), or has given up l on its way there. *)
Waits(t, ch, l) ==
    /\ achan[t] = ch /\ alock[t] = l
    /\ pc[t] = "doze" \/ (pc[t] = "slept" /\ state[t] = "SLEEP")

NoLostWakeup ==
    \A c \in Cpu, l \in Lock :
        At(c, "wake") /\ owner[l] = c =>
            \A t \in Task : t < idx[run[c]] => ~Waits(t, achan[run[c]], l)

(* The panics of spin_get and spin_put: a flow that is about to release a  *)
(* lock runs on the CPU that holds it, even if another CPU took the lock   *)
(* or the flow slept in between, and one about to take a lock does not     *)
(* have it.                                                                *)
NoPanic ==
    \A c \in Cpu : LET f == run[c] IN
        /\ pc[f] \in {"pick", "back", "rouse", "probe"} => owner[idx[f]] = c
        /\ pc[f] \in {"ready", "resume", "unlock", "doze", "slept"} => owner[f] = c
        /\ pc[f] = "unlock" /\ alock[f] # None => owner[alock[f]] = c
        /\ pc[f] = "probe" => owner[tq] = c
        /\ pc[f] \in {"yield", "sleep"} => owner[f] # c
        /\ pc[f] = "relock" => owner[alock[f]] # c
        /\ pc[f] \in {"scan", "wake", "alloc"} /\ idx[f] < NPROC => owner[idx[f]] # c

(* doc.md:179: a CPU that changes a task's state and then switches context *)
(* does so in the task's critical section, and the flow it switches to     *)
(* releases the lock: at a context switch the CPU holds the lock of the    *)
(* task it leaves or enters, and no other.                                 *)
SwitchInCritical ==
    [][\A c \in Cpu : run'[c] # run[c] =>
         /\ run[c] = c \/ run'[c] = c
         /\ \E t \in {run[c], run'[c]} \cap Task : HeldBy(c) = {t} /\ HeldBy(c)' = {t}]_vars
=============================================================================
