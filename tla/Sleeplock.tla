----------------------------- MODULE Sleeplock ------------------------------
(***************************************************************************)
(* A sleep lock (kernel/util/sleeplock.c) on top of the scheduler of       *)
(* Sched: tasks repeatedly enter the kernel, call sleep_get, use the       *)
(* resource, and call sleep_put.  sleep_get waits with sleep(lock, NULL):  *)
(* no spinlock covers the test of lock->locked and the call of sleep.      *)
(*                                                                         *)
(* While it holds the lock a task may block once, as a buffer's holder     *)
(* does for the disk: it gives up the CPU and comes back later.            *)
(***************************************************************************)
EXTENDS Sched

CONSTANT slk     \* the address of the sleep lock, the channel of its waiters

ASSUME SlkAssumption == slk \in Chan \ {tstub}

VARIABLES
    slocked,  \* lock->locked
    stask,    \* lock->task
    missed    \* waiters that had found the lock taken, and not yet entered
              \* sleep, when it was released

svars == <<slocked, stask, missed>>
allvars == <<vars, svars>>

(* Every task has been forked and waits for a CPU.                         *)
SLInit ==
    /\ Started(Task)
    /\ slocked = FALSE
    /\ stask = None
    /\ missed = {}

sleep_holding(t) == slocked /\ stask = t
-----------------------------------------------------------------------------
(* sleep_get: the panic test on entry, ...                                 *)
sleep_get(c) ==
    /\ At(c, "user")
    /\ Goto(run[c], IF sleep_holding(run[c]) THEN "panic" ELSE "tas")
    /\ UNCHANGED <<state, chan, owner, cur_task, run, ret, idx, achan, alock, newtask, svars>>

(* Slip: the old value of lock->locked is not looked at.                   *)
TestAndSetBlind(c) ==
    /\ At(c, "tas")
    /\ slocked' = TRUE
    /\ Goto(run[c], "own")
    /\ UNCHANGED <<state, chan, owner, cur_task, run, ret, idx, achan, alock, newtask, stask, missed>>

(* ... the test-and-set, which succeeds ...                                *)
TestAndSet(c) ==
    /\ At(c, "tas") /\ ~slocked
    /\ slocked' = TRUE
    /\ missed' = missed \ {run[c]}
    /\ Goto(run[c], "own")
    /\ UNCHANGED <<state, chan, owner, cur_task, run, ret, idx, achan, alock, newtask, stask>>

(* ... or fails, and the task sleeps before it tries again.                *)
TestAndSetFails(c) ==
    /\ At(c, "tas") /\ slocked
    /\ CallSleep(c, slk, None, "tas")
    /\ missed' = missed \ {run[c]}
    /\ UNCHANGED <<slocked, stask>>

(* Slip: lock->task is not written.                                        *)
SetTaskForgotten(c) ==
    /\ At(c, "own")
    /\ Goto(run[c], "cs")
    /\ UNCHANGED <<state, chan, owner, cur_task, run, ret, idx, achan, alock, newtask, svars>>

SetTask(c) ==
    /\ At(c, "own")
    /\ stask' = run[c]
    /\ Goto(run[c], "cs")
    /\ UNCHANGED <<state, chan, owner, cur_task, run, ret, idx, achan, alock, newtask, slocked, missed>>

(* The holder waits for the disk, off the CPU, or goes straight on.        *)
Block(c) ==
    /\ At(c, "cs")
    /\ Goto(run[c], "yield")
    /\ ret' = [ret EXCEPT ![run[c]] = "put"]
    /\ UNCHANGED <<state, chan, owner, cur_task, run, idx, achan, alock, newtask, svars>>

(* sleep_put: the panic test and lock->task = NULL, ...                    *)
ClearTask(c) ==
    /\ At(c, "cs") \/ At(c, "put")
    /\ IF sleep_holding(run[c])
         THEN Goto(run[c], "release") /\ stask' = None
         ELSE Goto(run[c], "panic") /\ UNCHANGED stask
    /\ UNCHANGED <<state, chan, owner, cur_task, run, ret, idx, achan, alock, newtask, slocked, missed>>

(* ... the release, ...                                                    *)
Release(c) ==
    /\ At(c, "release")
    /\ slocked' = FALSE
    /\ missed' = missed \cup {t \in Task : pc[t] = "sleep" /\ ret[t] = "tas"}
    /\ Goto(run[c], "notify")
    /\ UNCHANGED <<state, chan, owner, cur_task, run, ret, idx, achan, alock, newtask, stask>>

(* Slip: the waiters are woken on another channel.                         *)
NotifyElsewhere(c) ==
    /\ At(c, "notify")
    /\ CallWakeup(c, tstub, "user")
    /\ UNCHANGED svars

(* ... and the wakeup of the waiters, on the way back to user mode.        *)
Notify(c) ==
    /\ At(c, "notify")
    /\ CallWakeup(c, slk, "user")
    /\ UNCHANGED svars
-----------------------------------------------------------------------------
ClientStep(c) ==
    \/ sleep_get(c) \/ TestAndSet(c) \/ TestAndSetFails(c) \/ SetTask(c)
    \/ Block(c) \/ ClearTask(c) \/ Release(c) \/ Notify(c)

CpuStep(c) ==
    \/ (SchedStep(c) \/ asy_timer(c)) /\ UNCHANGED svars
    \/ ClientStep(c)

SLNext == \E c \in Cpu : CpuStep(c)

SLSpec == SLInit /\ [][SLNext]_allvars

(* Every CPU goes on executing, and a spinlock that is free again and      *)
(* again is got in the end; a CPU neither stays in user mode without a     *)
(* timer interrupt nor takes interrupts for ever instead of scanning the   *)
(* queue.                                                                  *)
FairSpec ==
    /\ SLSpec
    /\ \A c \in Cpu : /\ SF_allvars(CpuStep(c))
                      /\ SF_allvars(((asy_timer(c) /\ OnTask(c)) \/ Window(c)) /\ UNCHANGED svars)
-----------------------------------------------------------------------------
(* At most one task is between the test-and-set that takes the lock and    *)
(* the release, on however many CPUs; lock->task is that task or NULL.     *)
Holding(t) == pc[t] \in {"own", "cs", "put", "release"} \/ ret[t] = "put"

SleepMutex ==
    /\ \A t, u \in Task : Holding(t) /\ Holding(u) => t = u
    /\ slocked <=> \E t \in Task : Holding(t)
    /\ stask # None => Holding(stask)

(* The panics of sleep_get and sleep_put never fire.                       *)
SleepNoPanic == \A t \in Task : pc[t] # "panic"

(* No wakeup is lost: a task asleep on a free lock has a releaser still on *)
(* its way to it, before or in the loop of wakeup.                         *)
NoSleeperOnFreeLock ==
    \A t \in Task :
        ~slocked /\ state[t] = "SLEEP" /\ chan[t] = slk =>
            \E u \in Task :
                \/ pc[u] = "notify"
                \/ pc[u] \in {"wake", "rouse"} /\ achan[u] = slk /\ idx[u] <= t

(* A free lock does not stay free while a task is in sleep_get for it: the *)
(* waiter is woken and takes it, or another task does.  The one exception  *)
(* is a waiter that had seen the lock taken and was not yet in sleep when  *)
(* it was released.  (That one given task gets the lock is not promised:   *)
(* sleep_put hands it to nobody, and a task that calls sleep_get again may *)
(* retake it each time before the woken waiter runs.)                      *)
InGet(t) == pc[t] = "tas" \/ ret[t] = "tas"

FreeLockTaken ==
    (~slocked /\ \E t \in Task \ missed : InGet(t)) ~> slocked
=============================================================================
