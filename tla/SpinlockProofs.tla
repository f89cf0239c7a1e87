--------------------------- MODULE SpinlockProofs ---------------------------
(* The invariants of Spinlock, for any number of CPUs and locks.           *)
EXTENDS Spinlock, FiniteSetTheorems, TLAPS

(* A lock is in one flow's hands at most.                                  *)
OneHolder == \A l \in Lock, c, d \in Cpu : l \in mine[c] /\ l \in mine[d] => c = d

(* spinlevel counts the locks of the flow on the CPU.                      *)
LevelCounts == \A c \in Cpu : spinlevel[c] = Cardinality(mine[c]) + Counted(c)

(* A lock is marked locked exactly while some flow is between its          *)
(* test-and-set and its release.                                           *)
LockedIsHeld == \A l \in Lock : locked[l] <=> \E c \in Cpu : l \in mine[c]

(* lock->cpu names the holder, except in the two windows where the holder  *)
(* has not yet written it or has already erased it.                        *)
OwnerIsHolder ==
    \A l \in Lock, c \in Cpu :
        cpu[l] = c <=> l \in mine[c] /\ ~(pc[c] \in {"own", "clear"} /\ want[c] = l)

(* Inside spin_get before the test-and-set the lock is one the flow does   *)
(* not hold; from there to the release in spin_put it is one it holds.     *)
CallInProgress ==
    \A c \in Cpu :
        /\ pc[c] \in {"push", "cli", "tas"} => want[c] \in Lock /\ want[c] \notin mine[c]
        /\ pc[c] \in {"own", "put", "clear"} => want[c] \in mine[c]

(* A flow is interrupted only where it holds no lock.                      *)
InterruptedFlow ==
    \A c \in Cpu : InHandler(c) =>
        /\ ~intr[c]
        /\ saved[c] \in {"out", "push", "cli"}
        /\ saved[c] \in {"push", "cli"} => swant[c] \in Lock
        /\ spinlevel[c] > 0 \/ pc[c] = "cli" => ~raw_intr[c]

(* A CPU that counts a lock, or whose flow holds one, is masked.           *)
Masked ==
    \A c \in Cpu : /\ spinlevel[c] > 0 \/ mine[c] # {} => ~intr[c]
                   /\ under[c] = {}

IInv ==
    /\ TypeOK
    /\ OneHolder
    /\ LevelCounts
    /\ LockedIsHeld
    /\ OwnerIsHolder
    /\ CallInProgress
    /\ InterruptedFlow
    /\ Masked
    /\ NoPanic
-----------------------------------------------------------------------------
(* The locks a CPU holds can be counted, and it holds none when it counts  *)
(* none.                                                                   *)
LEMMA HeldCountA ==
    ASSUME NEW S \in SUBSET Lock
    PROVE  /\ IsFiniteSet(S)
           /\ Cardinality(S) \in Nat
           /\ Cardinality(S) = 0 <=> S = {}
<1>1. IsFiniteSet(Lock)
  BY NLockAssumption, FS_Interval DEF Lock
<1>2. IsFiniteSet(S)
  BY <1>1, FS_Subset
<1> QED
  BY <1>2, FS_CardinalityType, FS_EmptySet

(* Taking a lock that is not held adds one to the number of locks held,    *)
(* releasing one that is held takes one away: what spinlevel has to follow. *)
LEMMA HeldCount ==
    ASSUME NEW S \in SUBSET Lock, NEW l \in Lock
    PROVE  /\ l \notin S => Cardinality(S \cup {l}) = Cardinality(S) + 1
           /\ l \in S => Cardinality(S \ {l}) = Cardinality(S) - 1
  BY HeldCountA, FS_AddElement, FS_RemoveElement

(* The initial state satisfies the inductive invariant: no lock is taken.  *)
LEMMA InitIInv == Init => IInv
<1> SUFFICES ASSUME Init PROVE IInv
  OBVIOUS
<1>1. TypeOK
  BY DEF Init, TypeOK, Pc
<1>2. LevelCounts
  BY FS_EmptySet DEF Init, LevelCounts, Counted
<1>3. OneHolder /\ LockedIsHeld /\ OwnerIsHolder /\ CallInProgress
  BY CpuAssumption DEF Init, OneHolder, LockedIsHeld, OwnerIsHolder, CallInProgress
<1>4. InterruptedFlow /\ Masked /\ NoPanic
  BY DEF Init, InterruptedFlow, Masked, NoPanic, InHandler
<1> QED
  BY <1>1, <1>2, <1>3, <1>4 DEF IInv

(* Every step of a CPU, and every interrupt, preserves the invariant.      *)
LEMMA NextIInv == IInv /\ [Next]_vars => IInv'
<1> SUFFICES ASSUME IInv, [Next]_vars PROVE IInv'
  OBVIOUS
<1> USE CpuAssumption DEF IInv
<1>a. \A c \in Cpu : /\ mine[c] \in SUBSET Lock
                     /\ Cardinality(mine[c]) \in Nat
                     /\ Cardinality(mine[c]) = 0 <=> mine[c] = {}
  BY HeldCountA DEF TypeOK
<1>b. \A c \in Cpu : /\ spinlevel[c] = 0 => mine[c] = {}
                     /\ spinlevel[c] = 1 /\ pc[c] = "pop" => mine[c] = {}
                     /\ pc[c] \in {"tas", "pop"} => spinlevel[c] >= 1
                     /\ mine[c] = {} /\ pc[c] \notin {"tas", "pop"} => spinlevel[c] = 0
  <2> TAKE c \in Cpu
  <2> DEFINE k == Cardinality(mine[c])
  <2>1. k \in Nat /\ (k = 0 <=> mine[c] = {}) /\ spinlevel[c] = k + Counted(c)
    BY <1>a DEF LevelCounts
  <2> HIDE DEF k
  <2> QED
    BY <2>1 DEF Counted
<1>1. ASSUME NEW c \in Cpu, NEW on \in BOOLEAN, SetIntr(c, on) PROVE IInv'
  <2>1. TypeOK'
    BY <1>1, <1>b DEF TypeOK, Pc, SetIntr, CallInProgress
  <2>2. (OneHolder /\ LockedIsHeld)'
    BY <1>1 DEF TypeOK, SetIntr, OneHolder, LockedIsHeld, CallInProgress, Masked
  <2>3. (OwnerIsHolder /\ CallInProgress /\ NoPanic)'
    BY <1>1 DEF TypeOK, SetIntr, OneHolder, LockedIsHeld, OwnerIsHolder, CallInProgress, NoPanic, InterruptedFlow, Masked, InHandler, spin_holding
  <2>4. (InterruptedFlow /\ Masked)'
    BY <1>1, <1>b DEF TypeOK, SetIntr, CallInProgress, InterruptedFlow, Masked, InHandler
  <2>5. LevelCounts'
    BY <1>1, <1>a DEF TypeOK, SetIntr, LevelCounts, Counted, Masked
  <2> QED
    BY <2>1, <2>2, <2>3, <2>4, <2>5
<1>2. ASSUME NEW c \in Cpu, TrapEnter(c) PROVE IInv'
  <2>0. /\ mine[c] = {} /\ mine' = mine /\ under' = under
        /\ pc[c] \in {"out", "push", "cli"} /\ spinlevel[c] = 0
    <3>1. mine[c] = {} /\ under[c] = {} /\ ~(spinlevel[c] > 0)
      BY <1>2 DEF TrapEnter, Masked
    <3>2. spinlevel[c] = 0 /\ pc[c] \notin {"tas", "pop"}
      BY <3>1, <1>b DEF TypeOK
    <3>3. pc[c] \in {"out", "push", "cli"}
      BY <3>1, <3>2 DEF TypeOK, Pc, CallInProgress, NoPanic
    <3> QED
      BY <1>2, <3>1, <3>2, <3>3 DEF TypeOK, TrapEnter
  <2>1. TypeOK'
    BY <2>0, <1>2, <1>b DEF TypeOK, Pc, TrapEnter, CallInProgress
  <2>2. (OneHolder /\ LockedIsHeld)'
    BY <2>0, <1>2 DEF TypeOK, TrapEnter, OneHolder, LockedIsHeld, CallInProgress, Masked
  <2>3. (OwnerIsHolder /\ CallInProgress /\ NoPanic)'
    BY <2>0, <1>2 DEF TypeOK, TrapEnter, OneHolder, LockedIsHeld, OwnerIsHolder, CallInProgress, NoPanic, InterruptedFlow, Masked, InHandler, spin_holding
  <2>4. (InterruptedFlow /\ Masked)'
    BY <2>0, <1>2, <1>b DEF TypeOK, TrapEnter, CallInProgress, InterruptedFlow, Masked, InHandler
  <2>5. LevelCounts'
    BY <2>0, <1>2, <1>a DEF TypeOK, TrapEnter, LevelCounts, Counted, Masked
  <2> QED
    BY <2>1, <2>2, <2>3, <2>4, <2>5
<1>3. ASSUME NEW c \in Cpu, TrapReturn(c) PROVE IInv'
  <2>0. /\ mine[c] = {} /\ mine' = mine /\ under' = under
        /\ saved[c] \in {"out", "push", "cli"} /\ spinlevel[c] = 0
    BY <1>3, <1>b DEF TypeOK, TrapReturn, Masked, InterruptedFlow, InHandler
  <2>1. TypeOK'
    BY <2>0, <1>3, <1>b DEF TypeOK, Pc, TrapReturn, CallInProgress
  <2>2. (OneHolder /\ LockedIsHeld)'
    BY <2>0, <1>3 DEF TypeOK, TrapReturn, OneHolder, LockedIsHeld, CallInProgress, Masked
  <2>3. (OwnerIsHolder /\ CallInProgress /\ NoPanic)'
    BY <2>0, <1>3 DEF TypeOK, TrapReturn, OneHolder, LockedIsHeld, OwnerIsHolder, CallInProgress, NoPanic, InterruptedFlow, Masked, InHandler, spin_holding
  <2>4. (InterruptedFlow /\ Masked)'
    BY <2>0, <1>3, <1>b DEF TypeOK, TrapReturn, CallInProgress, InterruptedFlow, Masked, InHandler
  <2>5. LevelCounts'
    BY <2>0, <1>3, <1>a DEF TypeOK, TrapReturn, LevelCounts, Counted, Masked
  <2> QED
    BY <2>1, <2>2, <2>3, <2>4, <2>5
<1>4. ASSUME NEW c \in Cpu, NEW l \in Lock, CallGet(c, l) PROVE IInv'
  <2>1. TypeOK'
    BY <1>4, <1>b DEF TypeOK, Pc, CallGet, CallInProgress
  <2>2. (OneHolder /\ LockedIsHeld)'
    BY <1>4 DEF TypeOK, CallGet, OneHolder, LockedIsHeld, CallInProgress, Masked
  <2>0. l \notin mine[c]
    BY <1>4, NLockAssumption DEF CallGet, TypeOK, Lock
  <2>3. (OwnerIsHolder /\ CallInProgress /\ NoPanic)'
    BY <2>0, <1>4 DEF TypeOK, CallGet, OneHolder, LockedIsHeld, OwnerIsHolder, CallInProgress, NoPanic, InterruptedFlow, Masked, InHandler, spin_holding
  <2>4. (InterruptedFlow /\ Masked)'
    BY <1>4, <1>b DEF TypeOK, CallGet, CallInProgress, InterruptedFlow, Masked, InHandler
  <2>5. LevelCounts'
    BY <1>4, <1>a DEF TypeOK, CallGet, LevelCounts, Counted, Masked
  <2> QED
    BY <2>1, <2>2, <2>3, <2>4, <2>5
<1>5. ASSUME NEW c \in Cpu, PushRead(c) PROVE IInv'
  <2>1. TypeOK'
    BY <1>5, <1>b DEF TypeOK, Pc, PushRead, CallInProgress
  <2>2. (OneHolder /\ LockedIsHeld)'
    BY <1>5 DEF TypeOK, PushRead, OneHolder, LockedIsHeld, CallInProgress, Masked
  <2>3. (OwnerIsHolder /\ CallInProgress /\ NoPanic)'
    BY <1>5 DEF TypeOK, PushRead, OneHolder, LockedIsHeld, OwnerIsHolder, CallInProgress, NoPanic, InterruptedFlow, Masked, InHandler, spin_holding
  <2>4. (InterruptedFlow /\ Masked)'
    BY <1>5, <1>b DEF TypeOK, PushRead, CallInProgress, InterruptedFlow, Masked, InHandler
  <2>5. LevelCounts'
    BY <1>5, <1>a DEF TypeOK, PushRead, LevelCounts, Counted, Masked
  <2> QED
    BY <2>1, <2>2, <2>3, <2>4, <2>5
<1>6. ASSUME NEW c \in Cpu, PushCli(c) PROVE IInv'
  <2>1. TypeOK'
    BY <1>6, <1>b DEF TypeOK, Pc, PushCli, CallInProgress
  <2>2. (OneHolder /\ LockedIsHeld)'
    BY <1>6 DEF TypeOK, PushCli, OneHolder, LockedIsHeld, CallInProgress, Masked
  <2>3. (OwnerIsHolder /\ CallInProgress /\ NoPanic)'
    BY <1>6 DEF TypeOK, PushCli, OneHolder, LockedIsHeld, OwnerIsHolder, CallInProgress, NoPanic, InterruptedFlow, Masked, InHandler, spin_holding
  <2>4. InterruptedFlow' /\ Masked'
    <3>1. InterruptedFlow'
      BY <1>6 DEF TypeOK, PushCli, InterruptedFlow, InHandler
    <3>2. Masked'
      BY <1>6 DEF TypeOK, PushCli, Masked
    <3> QED
      BY <3>1, <3>2
  <2>5. LevelCounts'
    <3> SUFFICES ASSUME NEW d \in Cpu PROVE (spinlevel[d] = Cardinality(mine[d]) + Counted(d))'
      BY DEF LevelCounts
    <3>1. mine'[d] = mine[d] /\ Cardinality(mine[d]) \in Nat /\ spinlevel[d] = Cardinality(mine[d]) + Counted(d)
      BY <1>6, <1>a DEF PushCli, LevelCounts
    <3>2. ~spin_holding(c, want[c])
      BY <1>6 DEF PushCli, CallInProgress, OwnerIsHolder, spin_holding
    <3> QED
      BY <1>6, <3>1, <3>2 DEF TypeOK, PushCli, Counted
  <2> QED
    BY <2>1, <2>2, <2>3, <2>4, <2>5
<1>7. ASSUME NEW c \in Cpu, TestAndSet(c) PROVE IInv'
  <2>1. TypeOK'
    BY <1>7, <1>b DEF TypeOK, Pc, TestAndSet, CallInProgress
  <2>2. (OneHolder /\ LockedIsHeld)'
    BY <1>7 DEF TypeOK, TestAndSet, OneHolder, LockedIsHeld, CallInProgress, Masked
  <2>3. (OwnerIsHolder /\ CallInProgress /\ NoPanic)'
    BY <1>7 DEF TypeOK, TestAndSet, OneHolder, LockedIsHeld, OwnerIsHolder, CallInProgress, NoPanic, InterruptedFlow, Masked, InHandler, spin_holding
  <2>4. (InterruptedFlow /\ Masked)'
    BY <1>7, <1>b DEF TypeOK, TestAndSet, CallInProgress, InterruptedFlow, Masked, InHandler
  <2>5. LevelCounts'
    <3> SUFFICES ASSUME NEW d \in Cpu PROVE (spinlevel[d] = Cardinality(mine[d]) + Counted(d))'
      BY DEF LevelCounts
    <3>1. Cardinality(mine[d]) \in Nat /\ spinlevel[d] = Cardinality(mine[d]) + Counted(d)
      BY <1>a DEF LevelCounts
    <3>2. d = c => Cardinality(mine'[d]) = Cardinality(mine[d]) + 1
      BY <1>7, <1>a, HeldCount DEF TypeOK, TestAndSet, CallInProgress
    <3>3. d # c => mine'[d] = mine[d]
      BY <1>7 DEF TypeOK, TestAndSet
    <3> QED
      BY <1>7, <3>1, <3>2, <3>3 DEF TypeOK, TestAndSet, Counted
  <2> QED
    BY <2>1, <2>2, <2>3, <2>4, <2>5
<1>8. ASSUME NEW c \in Cpu, SetOwner(c) PROVE IInv'
  <2>1. TypeOK'
    BY <1>8, <1>b DEF TypeOK, Pc, SetOwner, CallInProgress
  <2>2. (OneHolder /\ LockedIsHeld)'
    BY <1>8 DEF TypeOK, SetOwner, OneHolder, LockedIsHeld, CallInProgress, Masked
  <2>3. (OwnerIsHolder /\ CallInProgress /\ NoPanic)'
    BY <1>8 DEF TypeOK, SetOwner, OneHolder, LockedIsHeld, OwnerIsHolder, CallInProgress, NoPanic, InterruptedFlow, Masked, InHandler, spin_holding
  <2>4. (InterruptedFlow /\ Masked)'
    BY <1>8, <1>b DEF TypeOK, SetOwner, CallInProgress, InterruptedFlow, Masked, InHandler
  <2>5. LevelCounts'
    BY <1>8, <1>a DEF TypeOK, SetOwner, LevelCounts, Counted, Masked
  <2> QED
    BY <2>1, <2>2, <2>3, <2>4, <2>5
<1>9. ASSUME NEW c \in Cpu, NEW l \in Lock, CallPut(c, l) PROVE IInv'
  <2>1. TypeOK'
    BY <1>9, <1>b DEF TypeOK, Pc, CallPut, CallInProgress
  <2>2. (OneHolder /\ LockedIsHeld)'
    BY <1>9 DEF TypeOK, CallPut, OneHolder, LockedIsHeld, CallInProgress, Masked
  <2>3. (OwnerIsHolder /\ CallInProgress /\ NoPanic)'
    BY <1>9 DEF TypeOK, CallPut, OneHolder, LockedIsHeld, OwnerIsHolder, CallInProgress, NoPanic, InterruptedFlow, Masked, InHandler, spin_holding
  <2>4. (InterruptedFlow /\ Masked)'
    BY <1>9, <1>b DEF TypeOK, CallPut, CallInProgress, InterruptedFlow, Masked, InHandler
  <2>5. LevelCounts'
    BY <1>9, <1>a DEF TypeOK, CallPut, LevelCounts, Counted, Masked
  <2> QED
    BY <2>1, <2>2, <2>3, <2>4, <2>5
<1>10. ASSUME NEW c \in Cpu, ClearOwner(c) PROVE IInv'
  <2>1. TypeOK'
    BY <1>10, <1>b DEF TypeOK, Pc, ClearOwner, CallInProgress
  <2>2. (OneHolder /\ LockedIsHeld)'
    BY <1>10 DEF TypeOK, ClearOwner, OneHolder, LockedIsHeld, CallInProgress, Masked
  <2>3. (OwnerIsHolder /\ CallInProgress /\ NoPanic)'
    BY <1>10 DEF TypeOK, ClearOwner, OneHolder, LockedIsHeld, OwnerIsHolder, CallInProgress, NoPanic, InterruptedFlow, Masked, InHandler, spin_holding
  <2>4. (InterruptedFlow /\ Masked)'
    BY <1>10, <1>b DEF TypeOK, ClearOwner, CallInProgress, InterruptedFlow, Masked, InHandler
  <2>5. LevelCounts'
    BY <1>10, <1>a DEF TypeOK, ClearOwner, LevelCounts, Counted, Masked
  <2> QED
    BY <2>1, <2>2, <2>3, <2>4, <2>5
<1>11. ASSUME NEW c \in Cpu, LockRelease(c) PROVE IInv'
  <2>1. TypeOK'
    BY <1>11, <1>b DEF TypeOK, Pc, LockRelease, CallInProgress
  <2>2. (OneHolder /\ LockedIsHeld)'
    BY <1>11 DEF TypeOK, LockRelease, OneHolder, LockedIsHeld, CallInProgress, Masked
  <2>3. (OwnerIsHolder /\ CallInProgress /\ NoPanic)'
    BY <1>11 DEF TypeOK, LockRelease, OneHolder, LockedIsHeld, OwnerIsHolder, CallInProgress, NoPanic, InterruptedFlow, Masked, InHandler, spin_holding
  <2>4. (InterruptedFlow /\ Masked)'
    BY <1>11, <1>b DEF TypeOK, LockRelease, CallInProgress, InterruptedFlow, Masked, InHandler
  <2>5. LevelCounts'
    <3> SUFFICES ASSUME NEW d \in Cpu PROVE (spinlevel[d] = Cardinality(mine[d]) + Counted(d))'
      BY DEF LevelCounts
    <3>1. Cardinality(mine[d]) \in Nat /\ spinlevel[d] = Cardinality(mine[d]) + Counted(d)
      BY <1>a DEF LevelCounts
    <3>2. d = c => Cardinality(mine'[d]) = Cardinality(mine[d]) - 1
      BY <1>11, <1>a, HeldCount DEF TypeOK, LockRelease, CallInProgress
    <3>3. d # c => mine'[d] = mine[d]
      BY <1>11 DEF TypeOK, LockRelease
    <3> QED
      BY <1>11, <3>1, <3>2, <3>3 DEF TypeOK, LockRelease, Counted
  <2> QED
    BY <2>1, <2>2, <2>3, <2>4, <2>5
<1>12. ASSUME NEW c \in Cpu, PopIntr(c) PROVE IInv'
  <2>1. TypeOK'
    BY <1>12, <1>b DEF TypeOK, Pc, PopIntr, CallInProgress
  <2>2. (OneHolder /\ LockedIsHeld)'
    BY <1>12 DEF TypeOK, PopIntr, OneHolder, LockedIsHeld, CallInProgress, Masked
  <2>3. (OwnerIsHolder /\ CallInProgress /\ NoPanic)'
    BY <1>12 DEF TypeOK, PopIntr, OneHolder, LockedIsHeld, OwnerIsHolder, CallInProgress, NoPanic, InterruptedFlow, Masked, InHandler, spin_holding
  <2>4. (InterruptedFlow /\ Masked)'
    BY <1>12, <1>b DEF TypeOK, PopIntr, CallInProgress, InterruptedFlow, Masked, InHandler
  <2>5. LevelCounts'
    BY <1>12, <1>a DEF TypeOK, PopIntr, LevelCounts, Counted, Masked
  <2> QED
    BY <2>1, <2>2, <2>3, <2>4, <2>5
<1>13. CASE UNCHANGED vars
  BY <1>13 DEF vars, TypeOK, LevelCounts, Counted, InHandler, OneHolder, LockedIsHeld, OwnerIsHolder, CallInProgress, InterruptedFlow, Masked, NoPanic
<1> QED
  BY <1>1, <1>2, <1>3, <1>4, <1>5, <1>6, <1>7, <1>8, <1>9, <1>10, <1>11, <1>12, <1>13 DEF Next

(* The inductive invariant always holds.                                   *)
LEMMA SpecIInv == Spec => []IInv
  BY InitIInv, NextIInv, PTL DEF Spec
-----------------------------------------------------------------------------
(* Type correctness; spinlevel never falls below zero.                     *)
THEOREM TypeCorrect == Spec => []TypeOK
<1>1. IInv => TypeOK
  BY DEF IInv
<1> QED
  BY <1>1, SpecIInv, PTL

(* Mutual exclusion of spin_get/spin_put for any number of CPUs and locks, *)
(* interrupt handlers included.                                            *)
THEOREM Exclusion == Spec => []MutualExclusion
<1>1. IInv => MutualExclusion
  BY DEF IInv, TypeOK, OneHolder, Masked, MutualExclusion, Held
<1> QED
  BY <1>1, SpecIInv, PTL

(* No interrupt is taken inside a critical section or inside a handler.    *)
THEOREM InterruptSafety == Spec => []NoInterruptInCritical
<1>1. IInv => NoInterruptInCritical
  BY DEF IInv, Masked, InterruptedFlow, NoInterruptInCritical
<1> QED
  BY <1>1, SpecIInv, PTL

(* The panics of spin_get and spin_put are unreachable for flows that      *)
(* respect the calling rules.                                              *)
THEOREM PanicFree == Spec => []NoPanic
<1>1. IInv => NoPanic
  BY DEF IInv
<1> QED
  BY <1>1, SpecIInv, PTL

(* spinlevel counts the locks the CPU holds (doc.md:48).                   *)
THEOREM LevelCorrect == Spec => []SpinlevelCounts
<1>1. IInv => SpinlevelCounts
  <2> SUFFICES ASSUME IInv, NEW c \in Cpu
               PROVE  spinlevel[c] = Cardinality(Held(c)) + Counted(c)
    BY DEF SpinlevelCounts
  <2>1. Held(c) = mine[c]
    BY DEF IInv, Masked, Held
  <2> QED
    BY <2>1 DEF IInv, LevelCounts
<1> QED
  BY <1>1, SpecIInv, PTL
-----------------------------------------------------------------------------
(* In the states of the system the refinement mapping is plain: the CPU    *)
(* whose flow has the lock.                                                *)
MappingIsMine ==
    /\ DOMAIN holder = Lock
    /\ \A l \in Lock, c \in Cpu : holder[l] = c <=> l \in mine[c]
    /\ \A l \in Lock : holder[l] \in Cpu \cup {None}

(* The mapping of an invariant state is the plain one.                     *)
LEMMA HolderIsMine == IInv => MappingIsMine
<1> SUFFICES ASSUME IInv, NEW l \in Lock
             PROVE  /\ \A c \in Cpu : holder[l] = c <=> l \in mine[c]
                    /\ holder[l] \in Cpu \cup {None}
  BY DEF MappingIsMine, holder
<1>1. \A c \in Cpu : l \in Held(c) <=> l \in mine[c]
  BY DEF IInv, Masked, Held
<1>2. \A c, d \in Cpu : l \in mine[c] /\ l \in mine[d] => c = d
  BY DEF IInv, OneHolder
<1>3. CASE \E c \in Cpu : l \in mine[c]
  <2>1. PICK c \in Cpu : l \in mine[c]
    BY <1>3
  <2>2. (CHOOSE d \in Cpu : l \in Held(d)) = c
    BY <1>1, <1>2, <2>1
  <2>3. holder[l] = c
    BY <1>1, <2>1, <2>2 DEF holder
  <2> QED
    BY <1>2, <2>1, <2>3, CpuAssumption
<1>4. CASE \A c \in Cpu : l \notin mine[c]
  <2>1. holder[l] = None
    BY <1>1, <1>4 DEF holder
  <2> QED
    BY <1>4, <2>1, CpuAssumption
<1> QED
  BY <1>3, <1>4

(* Only the test-and-set and the release move the mapped owner, the first  *)
(* from None to the CPU and the second back: Spinlock implements Mutex.    *)
THEOREM Refinement == Spec => ImplementsMutex
<1>1. Init => Abstract!Init
  BY DEF Init, Abstract!Init, holder, Held
<1>2. IInv /\ IInv' /\ [Next]_vars => [Abstract!Next]_holder
  <2> SUFFICES ASSUME IInv, IInv', [Next]_vars PROVE [Abstract!Next]_holder
    OBVIOUS
  <2>a. MappingIsMine /\ MappingIsMine'
    BY HolderIsMine, PTL
  <2>b. holder = [l \in Lock |-> holder[l]] /\ holder' = [l \in Lock |-> holder'[l]]
    BY DEF holder
  <2>1. ASSUME NEW c \in Cpu, TestAndSet(c) PROVE Abstract!Get(c, want[c]) /\ want[c] \in Lock
    BY <2>a, <2>b, <2>1 DEF MappingIsMine, TestAndSet, IInv, TypeOK, CallInProgress, LockedIsHeld, Abstract!Get
  <2>2. ASSUME NEW c \in Cpu, LockRelease(c) PROVE Abstract!Put(c, want[c]) /\ want[c] \in Lock
    <3>1. want[c] \in Lock /\ want[c] \in mine[c] /\ mine' = [mine EXCEPT ![c] = @ \ {want[c]}]
      BY <2>2 DEF LockRelease, IInv, TypeOK, CallInProgress
    <3>2. holder[want[c]] = c /\ holder'[want[c]] = None
      <4>1. \A d \in Cpu : want[c] \notin mine'[d]
        BY <3>1 DEF IInv, TypeOK, OneHolder
      <4> QED
        BY <2>a, <3>1, <4>1 DEF MappingIsMine
    <3>3. \A l \in Lock : l # want[c] => holder'[l] = holder[l]
      <4>1. \A l \in Lock, d \in Cpu : l # want[c] => (l \in mine'[d] <=> l \in mine[d])
        BY <3>1 DEF IInv, TypeOK
      <4> QED
        BY <2>a, <4>1 DEF MappingIsMine
    <3> QED
      BY <2>b, <3>1, <3>2, <3>3 DEF Abstract!Put
  <2>3. ASSUME mine' = mine PROVE holder' = holder
    BY <2>a, <2>b, <2>3 DEF MappingIsMine
  <2>4. ASSUME NEW c \in Cpu,
               \/ \E on \in BOOLEAN : SetIntr(c, on)
               \/ \E l \in Lock : CallGet(c, l) \/ CallPut(c, l)
               \/ PushRead(c) \/ PushCli(c) \/ SetOwner(c) \/ ClearOwner(c) \/ PopIntr(c)
        PROVE  mine' = mine
    BY <2>4 DEF SetIntr, CallGet, CallPut, PushRead, PushCli, SetOwner, ClearOwner, PopIntr
  <2>5. ASSUME NEW c \in Cpu, TrapEnter(c) \/ TrapReturn(c) PROVE mine' = mine
    <3>1. mine[c] = {} /\ under[c] = {} /\ mine \in [Cpu -> SUBSET Lock]
      BY <2>5 DEF TrapEnter, TrapReturn, IInv, TypeOK, Masked
    <3>2. mine' = [mine EXCEPT ![c] = {}]
      BY <2>5, <3>1 DEF TrapEnter, TrapReturn
    <3> QED
      BY <3>1, <3>2
  <2>6. CASE UNCHANGED vars
    BY <2>3, <2>6 DEF vars
  <2> QED
    BY <2>1, <2>2, <2>3, <2>4, <2>5, <2>6 DEF Next, Abstract!Next
<1> QED
  BY <1>1, <1>2, SpecIInv, PTL DEF Spec, ImplementsMutex, Abstract!Spec
=============================================================================
