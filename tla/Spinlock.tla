------------------------------ MODULE Spinlock ------------------------------
(***************************************************************************)
(* The kernel's spinlocks and the interrupt masking nested in them         *)
(* (kernel/util/spinlock.c, push_intr and pop_intr of kernel/task/cpu.h),  *)
(* one instruction-level step at a time.                                   *)
(*                                                                         *)
(* A CPU executes one flow of control, or an interrupt handler on top of   *)
(* it.  An interrupt is taken between any two steps at which the CPU's SIE *)
(* bit (intr) is set; the hardware clears SIE on entry and sret sets it    *)
(* again.  Both flows may call spin_get with SIE set or clear: doc.md:47   *)
(* gives this as the reason for push_intr.  A flow does not ask for a lock *)
(* it took itself, and takes nested locks in increasing order, as the      *)
(* kernel does (tq before a task's lock, con.lock before pr before tx, a   *)
(* slot's lock before mem's, a device's lock before a task's).             *)
(***************************************************************************)
EXTENDS Integers, FiniteSets

CONSTANTS
    Cpu,     \* the harts
    NLock,   \* number of spinlocks, in the order in which they nest
    None     \* the NULL of lock->cpu

ASSUME CpuAssumption == IsFiniteSet(Cpu) /\ None \notin Cpu
ASSUME NLockAssumption == NLock \in Nat

Lock == 1..NLock

VARIABLES
    locked,     \* lock->locked
    cpu,        \* lock->cpu
    intr,       \* sstatus.SIE of each CPU
    raw_intr,   \* c->raw_intr
    spinlevel,  \* c->spinlevel
    pc,         \* next step of the flow the CPU executes
    want,       \* argument of the call in progress
    mine,       \* locks taken by the flow the CPU executes
    under,      \* locks taken by the flow an interrupt handler interrupted
    saved,      \* pc of the interrupted flow, "none" outside a handler
    swant       \* want of the interrupted flow

vars == <<locked, cpu, intr, raw_intr, spinlevel, pc, want, mine, under, saved, swant>>

Pc == {"out", "push", "cli", "tas", "own", "put", "clear", "pop", "panic"}

TypeOK ==
    /\ locked \in [Lock -> BOOLEAN]
    /\ cpu \in [Lock -> Cpu \cup {None}]
    /\ intr \in [Cpu -> BOOLEAN]
    /\ raw_intr \in [Cpu -> BOOLEAN]
    /\ spinlevel \in [Cpu -> Nat]
    /\ pc \in [Cpu -> Pc]
    /\ want \in [Cpu -> Lock \cup {0}]
    /\ mine \in [Cpu -> SUBSET Lock]
    /\ under \in [Cpu -> SUBSET Lock]
    /\ saved \in [Cpu -> Pc \cup {"none"}]
    /\ swant \in [Cpu -> Lock \cup {0}]

Init ==
    /\ locked = [l \in Lock |-> FALSE]
    /\ cpu = [l \in Lock |-> None]
    /\ intr = [c \in Cpu |-> FALSE]
    /\ raw_intr = [c \in Cpu |-> FALSE]
    /\ spinlevel = [c \in Cpu |-> 0]
    /\ pc = [c \in Cpu |-> "out"]
    /\ want = [c \in Cpu |-> 0]
    /\ mine = [c \in Cpu |-> {}]
    /\ under = [c \in Cpu |-> {}]
    /\ saved = [c \in Cpu |-> "none"]
    /\ swant = [c \in Cpu |-> 0]

Held(c) == mine[c] \cup under[c]
InHandler(c) == saved[c] # "none"

spin_holding(c, l) == locked[l] /\ cpu[l] = c
-----------------------------------------------------------------------------
(* The scheduler's sti(); cli(); only a flow without locks calls them.     *)
SetIntr(c, on) ==
    /\ pc[c] = "out" /\ mine[c] = {} /\ ~InHandler(c)
    /\ intr' = [intr EXCEPT ![c] = on]
    /\ UNCHANGED <<locked, cpu, raw_intr, spinlevel, pc, want, mine, under, saved, swant>>

(* Hardware: trap entry clears SIE, the handler starts with no lock.       *)
TrapEnter(c) ==
    /\ intr[c] /\ ~InHandler(c)
    /\ saved' = [saved EXCEPT ![c] = pc[c]]
    /\ swant' = [swant EXCEPT ![c] = want[c]]
    /\ intr' = [intr EXCEPT ![c] = FALSE]
    /\ pc' = [pc EXCEPT ![c] = "out"]
    /\ want' = [want EXCEPT ![c] = 0]
    /\ under' = [under EXCEPT ![c] = mine[c]]
    /\ mine' = [mine EXCEPT ![c] = {}]
    /\ UNCHANGED <<locked, cpu, raw_intr, spinlevel>>

(* Hardware: sret restores SIE; the interrupted flow goes on.              *)
TrapReturn(c) ==
    /\ InHandler(c) /\ pc[c] = "out" /\ mine[c] = {}
    /\ saved' = [saved EXCEPT ![c] = "none"]
    /\ swant' = [swant EXCEPT ![c] = 0]
    /\ intr' = [intr EXCEPT ![c] = TRUE]
    /\ pc' = [pc EXCEPT ![c] = saved[c]]
    /\ want' = [want EXCEPT ![c] = swant[c]]
    /\ mine' = [mine EXCEPT ![c] = under[c]]
    /\ under' = [under EXCEPT ![c] = {}]
    /\ UNCHANGED <<locked, cpu, raw_intr, spinlevel>>
-----------------------------------------------------------------------------
(* spin_get(l)                                                             *)
CallGet(c, l) ==
    /\ pc[c] = "out" /\ \A m \in mine[c] : m < l
    /\ pc' = [pc EXCEPT ![c] = "push"]
    /\ want' = [want EXCEPT ![c] = l]
    /\ UNCHANGED <<locked, cpu, intr, raw_intr, spinlevel, mine, under, saved, swant>>

(* push_intr records SIE on the way from no lock to one ...                *)
PushRead(c) ==
    /\ pc[c] = "push"
    /\ raw_intr' = IF spinlevel[c] = 0 THEN [raw_intr EXCEPT ![c] = intr[c]] ELSE raw_intr
    /\ pc' = [pc EXCEPT ![c] = "cli"]
    /\ UNCHANGED <<locked, cpu, intr, spinlevel, want, mine, under, saved, swant>>

(* Slip: push_intr counts without masking.                                 *)
PushCliUnmasked(c) ==
    /\ pc[c] = "cli"
    /\ spinlevel' = [spinlevel EXCEPT ![c] = @ + 1]
    /\ pc' = [pc EXCEPT ![c] = IF spin_holding(c, want[c]) THEN "panic" ELSE "tas"]
    /\ UNCHANGED <<locked, cpu, intr, raw_intr, want, mine, under, saved, swant>>

(* ... then masks interrupts and counts; with SIE clear nobody sees the    *)
(* count and the spin_holding test of spin_get apart from the masking.     *)
PushCli(c) ==
    /\ pc[c] = "cli"
    /\ intr' = [intr EXCEPT ![c] = FALSE]
    /\ spinlevel' = [spinlevel EXCEPT ![c] = @ + 1]
    /\ pc' = [pc EXCEPT ![c] = IF spin_holding(c, want[c]) THEN "panic" ELSE "tas"]
    /\ UNCHANGED <<locked, cpu, raw_intr, want, mine, under, saved, swant>>

(* Slip: the old value of lock->locked is not looked at.                   *)
TestAndSetBlind(c) ==
    /\ pc[c] = "tas"
    /\ locked' = [locked EXCEPT ![want[c]] = TRUE]
    /\ mine' = [mine EXCEPT ![c] = @ \cup {want[c]}]
    /\ pc' = [pc EXCEPT ![c] = "own"]
    /\ UNCHANGED <<cpu, intr, raw_intr, spinlevel, want, under, saved, swant>>

TestAndSet(c) ==
    /\ pc[c] = "tas" /\ ~locked[want[c]]
    /\ locked' = [locked EXCEPT ![want[c]] = TRUE]
    /\ mine' = [mine EXCEPT ![c] = @ \cup {want[c]}]
    /\ pc' = [pc EXCEPT ![c] = "own"]
    /\ UNCHANGED <<cpu, intr, raw_intr, spinlevel, want, under, saved, swant>>

SetOwner(c) ==
    /\ pc[c] = "own"
    /\ cpu' = [cpu EXCEPT ![want[c]] = c]
    /\ want' = [want EXCEPT ![c] = 0]
    /\ pc' = [pc EXCEPT ![c] = "out"]
    /\ UNCHANGED <<locked, intr, raw_intr, spinlevel, mine, under, saved, swant>>
-----------------------------------------------------------------------------
(* spin_put(l)                                                             *)
CallPut(c, l) ==
    /\ pc[c] = "out" /\ l \in mine[c]
    /\ pc' = [pc EXCEPT ![c] = "put"]
    /\ want' = [want EXCEPT ![c] = l]
    /\ UNCHANGED <<locked, cpu, intr, raw_intr, spinlevel, mine, under, saved, swant>>

ClearOwner(c) ==
    /\ pc[c] = "put"
    /\ IF spin_holding(c, want[c])
         THEN /\ cpu' = [cpu EXCEPT ![want[c]] = None]
              /\ pc' = [pc EXCEPT ![c] = "clear"]
         ELSE /\ pc' = [pc EXCEPT ![c] = "panic"]
              /\ UNCHANGED cpu
    /\ UNCHANGED <<locked, intr, raw_intr, spinlevel, want, mine, under, saved, swant>>

LockRelease(c) ==
    /\ pc[c] = "clear"
    /\ locked' = [locked EXCEPT ![want[c]] = FALSE]
    /\ mine' = [mine EXCEPT ![c] = @ \ {want[c]}]
    /\ pc' = [pc EXCEPT ![c] = "pop"]
    /\ UNCHANGED <<cpu, intr, raw_intr, spinlevel, want, under, saved, swant>>

(* Slip: the release~sti the comment at spinlock.c:36 warns of, on at any  *)
(* level.                                                                  *)
PopIntrAnyLevel(c) ==
    /\ pc[c] = "pop"
    /\ spinlevel' = [spinlevel EXCEPT ![c] = @ - 1]
    /\ intr' = [intr EXCEPT ![c] = raw_intr[c]]
    /\ want' = [want EXCEPT ![c] = 0]
    /\ pc' = [pc EXCEPT ![c] = "out"]
    /\ UNCHANGED <<locked, cpu, raw_intr, mine, under, saved, swant>>

PopIntr(c) ==
    /\ pc[c] = "pop"
    /\ spinlevel' = [spinlevel EXCEPT ![c] = @ - 1]
    /\ intr' = IF spinlevel[c] = 1 /\ raw_intr[c] THEN [intr EXCEPT ![c] = TRUE] ELSE intr
    /\ want' = [want EXCEPT ![c] = 0]
    /\ pc' = [pc EXCEPT ![c] = "out"]
    /\ UNCHANGED <<locked, cpu, raw_intr, mine, under, saved, swant>>
-----------------------------------------------------------------------------
Next ==
    \E c \in Cpu :
        \/ \E on \in BOOLEAN : SetIntr(c, on)
        \/ TrapEnter(c)
        \/ TrapReturn(c)
        \/ \E l \in Lock : CallGet(c, l)
        \/ PushRead(c)
        \/ PushCli(c)
        \/ TestAndSet(c)
        \/ SetOwner(c)
        \/ \E l \in Lock : CallPut(c, l)
        \/ ClearOwner(c)
        \/ LockRelease(c)
        \/ PopIntr(c)

Spec == Init /\ [][Next]_vars
-----------------------------------------------------------------------------
(* Two CPUs are never both between the test-and-set of spin_get and the    *)
(* release of spin_put on one lock, and a handler never shares a lock with *)
(* the flow it interrupted.                                                *)
MutualExclusion ==
    /\ \A c, d \in Cpu : c # d => Held(c) \cap Held(d) = {}
    /\ \A c \in Cpu : mine[c] \cap under[c] = {}

(* A CPU in the critical section of any spinlock has interrupts masked     *)
(* (spinlock.c:36), whatever it released before: so no handler ever runs   *)
(* on top of a flow that holds a lock, and no handler is itself            *)
(* interrupted, since spin_put in a handler restores the masked state.     *)
NoInterruptInCritical ==
    \A c \in Cpu : /\ mine[c] # {} \/ InHandler(c) => ~intr[c]
                   /\ under[c] = {}

(* Neither panic of spin_get and spin_put fires: a flow that respects the  *)
(* calling rules never meets a lock its own CPU already holds, nor         *)
(* releases one that carries another CPU's name.                           *)
NoPanic == \A c \in Cpu : pc[c] # "panic"

(* spinlevel is the number of spinlocks the CPU holds (doc.md:48), give or *)
(* take the one a call in progress has counted and not yet taken, or given *)
(* up and not yet uncounted.                                               *)
Counted(c) == IF pc[c] \in {"tas", "pop"} THEN 1 ELSE 0
SpinlevelCounts ==
    \A c \in Cpu : spinlevel[c] = Cardinality(Held(c)) + Counted(c)

(* Refinement mapping: a lock belongs to the CPU that is between its       *)
(* test-and-set and its release.                                           *)
holder == [l \in Lock |->
    IF \E c \in Cpu : l \in Held(c) THEN CHOOSE c \in Cpu : l \in Held(c) ELSE None]

Abstract == INSTANCE Mutex WITH owner <- holder

(* spin_get and spin_put, with all their intermediate steps and whatever   *)
(* interrupts arrive, act on a lock as one atomic take and one atomic give *)
(* by the CPU that holds it.                                               *)
ImplementsMutex == Abstract!Spec
=============================================================================
