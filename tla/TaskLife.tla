------------------------------ MODULE TaskLife ------------------------------
(***************************************************************************)
(* The life of a task on top of the scheduler of Sched: sys_fork,          *)
(* sys_exit, sys_wait (kernel/syscall/systask.c) and kill                  *)
(* (kernel/task/sche.c), with the tree of parents and children.            *)
(*                                                                         *)
(* Task 0 is init, which never exits.  The channel of a parent's wait, the *)
(* address of its list head childs, is named by the parent.  An operation  *)
(* on a child list is one step: on several CPUs the list of init is also   *)
(* subject to races on its pointers that are not modelled.                 *)
(*                                                                         *)
(* Two things that go wrong on several CPUs are kept as history, so that   *)
(* the properties can say what holds but for them.  missed has the parents *)
(* that had looked at a child before it exited and were not asleep yet.    *)
(* trodden is that a slot was handed out while a CPU still executed on its *)
(* kernel stack: nothing can be said of what follows, and the model stops. *)
(***************************************************************************)
EXTENDS Sched, Sequences

ASSUME ChildChans == Task \subseteq Chan

VARIABLES
    parent,    \* t->parent
    childs,    \* t->childs, the list of its children from head to tail
    pos,       \* the place of sys_wait's pointer in the list
    abandoned, \* children of a killed parent, which kill hands to nobody
    missed,    \* parents in sys_wait that may sleep through the exit of a child
    trodden    \* a new task was given the kernel stack a CPU executes on

lvars == <<parent, childs, pos, abandoned, missed, trodden>>
lifevars == <<vars, lvars>>

LifeInit ==
    /\ Init
    /\ parent = [t \in Task |-> None]
    /\ childs = [t \in Task |-> <<>>]
    /\ pos = [t \in Task |-> 0]
    /\ abandoned = {}
    /\ missed = {}
    /\ trodden = FALSE

(* What is on a list, and the list without its i-th entry (list_remove).   *)
Elems(list) == {list[i] : i \in DOMAIN list}
Without(list, i) == SubSeq(list, 1, i - 1) \o SubSeq(list, i + 1, Len(list))

AtCall(c) == At(c, "kernel") /\ OnTask(c) /\ HeldBy(c) = {}
-----------------------------------------------------------------------------
(* sys_fork: task_info_init and list_pushback for the new child.           *)
Fork(c) ==
    /\ ForkReady(c)
    /\ LET t == run[c]
           n == newtask[t] IN
         /\ parent' = [parent EXCEPT ![n] = t]
         /\ childs' = [childs EXCEPT ![n] = <<>>, ![t] = Append(@, n)]
         /\ abandoned' = abandoned \ {n}
         /\ trodden' = \E d \in Cpu : run[d] = n
    /\ UNCHANGED <<pos, missed>>

(* sys_exit, with its loop that hands the children to init.                *)
sys_exit(c) ==
    /\ AtCall(c) /\ run[c] # 0
    /\ Goto(run[c], "orphan")
    /\ UNCHANGED <<state, chan, owner, cur_task, run, ret, idx, achan, alock, newtask, lvars>>

OrphanGet(c) ==
    /\ At(c, "orphan") /\ childs[run[c]] # <<>>
    /\ spin_get(c, Head(childs[run[c]]))
    /\ Goto(run[c], "adopt")
    /\ UNCHANGED <<state, chan, cur_task, run, ret, idx, achan, alock, newtask, lvars>>

(* Slip: the child's parent pointer is not changed.                        *)
AdoptKeepsParent(c) ==
    /\ At(c, "adopt")
    /\ LET u == Head(childs[run[c]]) IN
         /\ childs' = [childs EXCEPT ![run[c]] = Tail(@), ![0] = Append(@, u)]
         /\ spin_put(u)
    /\ Goto(run[c], "orphan")
    /\ UNCHANGED <<state, chan, cur_task, run, ret, idx, achan, alock, newtask, parent, pos, abandoned, missed, trodden>>

Adopt(c) ==
    /\ At(c, "adopt")
    /\ LET u == Head(childs[run[c]]) IN
         /\ parent' = [parent EXCEPT ![u] = 0]
         /\ childs' = [childs EXCEPT ![run[c]] = Tail(@), ![0] = Append(@, u)]
         /\ spin_put(u)
    /\ Goto(run[c], "orphan")
    /\ UNCHANGED <<state, chan, cur_task, run, ret, idx, achan, alock, newtask, pos, abandoned, missed, trodden>>

(* sys_wait takes no lock: a parent that has looked at the child and is    *)
(* not yet asleep notices neither its exit nor the wakeup.                 *)
InGap(p, u) ==
    \/ pc[p] = "sleep" /\ ret[p] = "look"
    \/ pc[p] = "look" /\ \E i \in DOMAIN childs[p] : childs[p][i] = u /\ i < pos[p]

(* Slip: wakeup(&t->childs) for wakeup(&t->parent->childs).                *)
SetExitOwnChan(c) ==
    /\ state' = [state EXCEPT ![run[c]] = "EXIT"]
    /\ Goto(run[c], "wake")
    /\ idx' = [idx EXCEPT ![run[c]] = 0]
    /\ achan' = [achan EXCEPT ![run[c]] = run[c]]
    /\ ret' = [ret EXCEPT ![run[c]] = "bury"]
    /\ pos' = [pos EXCEPT ![run[c]] = 0]
    /\ missed' = (missed \cup {p \in {parent[run[c]]} \ {0} : InGap(p, run[c])}) \ {run[c]}
    /\ UNCHANGED <<chan, owner, cur_task, run, alock, newtask, parent, trodden>>

(* clean_source, t->state = EXIT without t->lock, and the call of wakeup.  *)
SetExit(c) ==
    /\ state' = [state EXCEPT ![run[c]] = "EXIT"]
    /\ Goto(run[c], "wake")
    /\ idx' = [idx EXCEPT ![run[c]] = 0]
    /\ achan' = [achan EXCEPT ![run[c]] = parent[run[c]]]
    /\ ret' = [ret EXCEPT ![run[c]] = "bury"]
    /\ pos' = [pos EXCEPT ![run[c]] = 0]
    /\ missed' = (missed \cup {p \in {parent[run[c]]} \ {0} : InGap(p, run[c])}) \ {run[c]}
    /\ UNCHANGED <<chan, owner, cur_task, run, alock, newtask, parent, trodden>>

Exit(c) ==
    /\ At(c, "orphan") /\ childs[run[c]] = <<>>
    /\ SetExit(c)
    /\ UNCHANGED <<childs, abandoned>>

(* kill does the same for the current task, but leaves its children alone. *)
kill(c) ==
    /\ AtCall(c) /\ run[c] # 0
    /\ SetExit(c)
    /\ abandoned' = abandoned \cup Elems(childs[run[c]])
    /\ UNCHANGED childs

(* Only now t->lock is taken, for the switch to the scheduler.             *)
BuryGet(c) ==
    /\ At(c, "bury")
    /\ spin_get(c, run[c])
    /\ Goto(run[c], "buried")
    /\ UNCHANGED <<state, chan, cur_task, run, ret, idx, achan, alock, newtask, lvars>>

BurySwitch(c) ==
    /\ At(c, "buried")
    /\ run' = [run EXCEPT ![c] = c]
    /\ UNCHANGED <<state, chan, owner, cur_task, pc, ret, idx, achan, alock, newtask, lvars>>
-----------------------------------------------------------------------------
(* sys_wait returns at once if there are no children.  It looks at them    *)
(* one by one without a lock, ...                                          *)
sys_wait(c) ==
    /\ AtCall(c) /\ childs[run[c]] # <<>>
    /\ Goto(run[c], "look")
    /\ pos' = [pos EXCEPT ![run[c]] = 1]
    /\ UNCHANGED <<state, chan, owner, cur_task, run, ret, idx, achan, alock, newtask, parent, childs, abandoned, missed, trodden>>

LookNext(c) ==
    /\ At(c, "look") /\ pos[run[c]] <= Len(childs[run[c]])
    /\ state[childs[run[c]][pos[run[c]]]] # "EXIT"
    /\ pos' = [pos EXCEPT ![run[c]] = @ + 1]
    /\ UNCHANGED <<vars, parent, childs, abandoned, missed, trodden>>

(* ... takes the first one that has exited off the list and frees it, ...  *)
Found(c) ==
    /\ At(c, "look") /\ pos[run[c]] <= Len(childs[run[c]])
    /\ state[childs[run[c]][pos[run[c]]]] = "EXIT"
    /\ childs' = [childs EXCEPT ![run[c]] = Without(@, pos[run[c]])]

Reap(c) ==
    /\ Found(c)
    /\ LET t == run[c]
           u == childs[t][pos[t]] IN
         /\ state' = [state EXCEPT ![u] = "FREE"]
         /\ Goto(t, "kernel")
         /\ pos' = [pos EXCEPT ![t] = 0]
         /\ missed' = missed \ {t}
    /\ UNCHANGED <<chan, owner, cur_task, run, ret, idx, achan, alock, newtask, parent, abandoned, trodden>>

(* ... unless copy_to_user finds no page for the exit code and calls kill: *)
(* the child, on no list any more, is abandoned with the others, ...       *)
ReapKilled(c) ==
    /\ Found(c) /\ run[c] # 0
    /\ SetExit(c)
    /\ abandoned' = abandoned \cup Elems(childs[run[c]])

(* ... or sleeps on &t->childs, with no lock, and starts over.             *)
WaitSleep(c) ==
    /\ At(c, "look") /\ pos[run[c]] > Len(childs[run[c]])
    /\ CallSleep(c, run[c], None, "look")
    /\ pos' = [pos EXCEPT ![run[c]] = 1]
    /\ UNCHANGED <<parent, childs, abandoned, missed, trodden>>
-----------------------------------------------------------------------------
LifeStep(c) ==
    \/ Fork(c)
    \/ sys_exit(c) \/ OrphanGet(c) \/ Adopt(c) \/ Exit(c) \/ kill(c)
    \/ BuryGet(c) \/ BurySwitch(c)
    \/ sys_wait(c) \/ LookNext(c) \/ Reap(c) \/ ReapKilled(c) \/ WaitSleep(c)

BaseStep(c) ==
    \/ SchedStep(c) \/ AllocGet(c) \/ AllocProbe(c) \/ Panic(c)
    \/ OnTask(c) /\ Trap(c)
    \/ asy_timer(c) \/ sys_fork(c) \/ TrapReturn(c)

LifeCpuStep(c) == (BaseStep(c) /\ UNCHANGED lvars) \/ LifeStep(c)

LifeNext ==
    \/ ~trodden /\ \E c \in Cpu : LifeCpuStep(c)
    \/ trodden /\ UNCHANGED lifevars

LifeSpec == LifeInit /\ [][LifeNext]_lifevars

(* Every CPU goes on executing, and a spinlock that is free again and      *)
(* again is got in the end; a CPU neither stays in user mode without a     *)
(* timer interrupt nor takes interrupts for ever instead of scanning the   *)
(* queue.                                                                  *)
FairLife ==
    /\ LifeSpec
    /\ \A c \in Cpu : /\ SF_lifevars(LifeCpuStep(c))
                      /\ SF_lifevars(((asy_timer(c) /\ OnTask(c)) \/ Window(c)) /\ UNCHANGED lvars)
-----------------------------------------------------------------------------
(* doc.md:179 and :184: a task that exits is in its critical section from  *)
(* the change of its state until the switch, so that its slot is not       *)
(* handed out while a CPU still executes it, on its kernel stack.          *)
SwitchedOutBeforeReuse ==
    \A t \in Task : state[t] \in {"FREE", "INIT", "READY"} => \A c \in Cpu : run[c] # t

(* A parent asleep in sys_wait has no child that has exited, unless the    *)
(* wakeup of an exiting task is still on its way to the parent's slot, or  *)
(* the exit fell into the gap between the parent's look and its sleep.     *)
Informed(t) ==
    state[t] = "SLEEP" /\ chan[t] = t /\ (\E u \in Elems(childs[t]) : state[u] = "EXIT") =>
        \E u \in Task : /\ pc[u] \in {"wake", "rouse"} /\ ret[u] = "bury"
                        /\ achan[u] = t /\ idx[u] <= t

NoLostExit == \A t \in Task \ ({0} \cup missed) : Informed(t)

(* systask.c:44: orphans are handed to init, which waits for them in an    *)
(* endless loop (user/src/init.c): once no task is handing over its        *)
(* children, init does not sleep with one that has exited among its own.   *)
OrphansReachInit ==
    (\A t \in Task : pc[t] \notin {"orphan", "adopt"}) => Informed(0)

(* The tree: a task that is in use is in the child list of its parent,     *)
(* once, and in no other list, whatever exits, adoptions and reuses of     *)
(* slots came before. The exceptions are those kill makes: the children of *)
(* a task it ended, and the child that a sys_wait it ended had taken off   *)
(* the list and not freed.                                                 *)
Family ==
    \A t \in Task \ ({0} \cup abandoned) :
        state[t] \notin {"FREE", "INIT"} =>
            /\ parent[t] \in Task
            /\ \E i \in DOMAIN childs[parent[t]] :
                  /\ childs[parent[t]][i] = t
                  /\ \A u \in Task : \A j \in DOMAIN childs[u] :
                        childs[u][j] = t => u = parent[t] /\ j = i

(* sys_wait returns: a parent in it that has a child that has exited gets  *)
(* back to its caller or is killed, unless the exit fell into the gap      *)
(* before its sleep, or the kernel stops or panics for want of a slot.     *)
InWait(t) == pc[t] = "look" \/ (ret[t] = "look" /\ state[t] # "EXIT")

WaitReturns ==
    \A t \in Task \ {0} :
        (InWait(t) /\ \E u \in Elems(childs[t]) : state[u] = "EXIT")
            ~> \/ pc[t] = "kernel" \/ state[t] = "EXIT"
               \/ t \in missed \/ trodden \/ \E u \in Task : pc[u] = "panic"
=============================================================================
