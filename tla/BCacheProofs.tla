---------------------------- MODULE BCacheProofs ----------------------------
(***************************************************************************)
(* Proofs about BCache for any finite set of threads and any sets of       *)
(* buffers, blocks and contents: the invariants the runs check, and that   *)
(* the cache implements BlockStore.                                        *)
(***************************************************************************)
EXTENDS BCache, FiniteSetTheorems, TLAPS

(* A buffer's lock is held by a thread that has the buffer or is filling   *)
(* it.                                                                     *)
LockOwner ==
    /\ \A b \in Buf : lock[b] # None =>
         held[lock[b]][b] # None \/ (pc[lock[b]] \in Reads /\ buf[lock[b]] = b)
    /\ \A t \in Thread : pc[t] \in Reads => held[t][buf[t]] = None

(* What is known of the data: of a buffer that is being filled, of one     *)
(* that a thread has, and of every valid one.                              *)
DataInv ==
    /\ \A t \in Thread : pc[t] = "valid" => data[buf[t]] = disk[want[t]] /\ ~valid[buf[t]]
    /\ \A t \in Thread, b \in Buf : held[t][b] # None => valid[b]
    /\ \A b \in Buf : valid[b] => blockno[b] \in Block

IInv ==
    /\ BCacheTypeOK
    /\ OneBufferPerBlock
    /\ RefcCounts
    /\ RightBuffer
    /\ LockOwner
    /\ DataInv
    /\ NoMisuse
-----------------------------------------------------------------------------
(* Adding or removing one thread, in a finite set of them.                 *)
LEMMA CountThreads ==
    ASSUME NEW S \in SUBSET Thread, NEW t \in Thread
    PROVE  /\ Cardinality(S) \in Nat
           /\ t \notin S => Cardinality(S \cup {t}) = Cardinality(S) + 1
           /\ t \in S => Cardinality(S \ {t}) = Cardinality(S) - 1
           /\ Cardinality(S) = 0 <=> S = {}
<1>1. IsFiniteSet(S)
  BY FS_Subset, ThreadAssumption, Zenon
<1>2. QED
  BY <1>1, FS_CardinalityType, FS_AddElement, FS_RemoveElement, FS_EmptySet, Zenon

(* Moving one thread from one set to another.                              *)
LEMMA ShiftThread ==
    ASSUME NEW S \in SUBSET Thread, NEW T \in SUBSET Thread, NEW t \in Thread, t \notin S, t \in T
    PROVE  /\ Cardinality(S \cup {t}) + Cardinality(T \ {t}) = Cardinality(S) + Cardinality(T)
           /\ Cardinality(T \ {t}) + Cardinality(S \cup {t}) = Cardinality(T) + Cardinality(S)
<1>1. Cardinality(S \cup {t}) = Cardinality(S) + 1 /\ Cardinality(S) \in Nat
  BY CountThreads, Zenon
<1>2. Cardinality(T \ {t}) = Cardinality(T) - 1 /\ Cardinality(T) \in Nat
  BY CountThreads, Zenon
<1>3. QED
  BY <1>1, <1>2

(* init_bcache establishes the invariant.                                  *)
LEMMA InitIInv == Init => IInv
<1> SUFFICES ASSUME Init PROVE IInv
  OBVIOUS
<1> USE NoneAssumption
<1>1. BCacheTypeOK
  BY Zenon DEF Init, BCacheTypeOK, Refers, Reads
<1>2. OneBufferPerBlock /\ RightBuffer /\ LockOwner /\ DataInv /\ NoMisuse
  BY Zenon DEF Init, OneBufferPerBlock, RightBuffer, LockOwner, DataInv, NoMisuse, Refers, Reads
<1>3. RefcCounts
  <2>1. \A b \in Buf : Holders(b) = {} /\ Callers(b) = {}
    BY Zenon DEF Init, Holders, Callers, Refers, Reads
  <2>2. \A b \in Buf : Cardinality(Holders(b)) = 0 /\ Cardinality(Callers(b)) = 0
    BY <2>1, FS_EmptySet, Zenon
  <2>3. \A b \in Buf : refc[b] = 0
    BY Zenon DEF Init
  <2>4. QED
    BY <2>2, <2>3 DEF RefcCounts
<1>4. QED
  BY <1>1, <1>2, <1>3, Zenon DEF IInv

(* A step that changes neither counts nor who refers to what keeps the     *)
(* counts right.                                                           *)
LEMMA SameRefs ==
    ASSUME RefcCounts, refc' = refc,
           \A b \in Buf : Holders(b)' = Holders(b) /\ Callers(b)' = Callers(b)
    PROVE  RefcCounts'
BY Zenon DEF RefcCounts

(* So does one in which a thread takes or gives up what it was calling     *)
(* for.                                                                    *)
LEMMA MovedRef ==
    ASSUME RefcCounts, refc' = refc, NEW t \in Thread, NEW b \in Buf,
           \A d \in Buf \ {b} : Holders(d)' = Holders(d) /\ Callers(d)' = Callers(d),
           \/ /\ t \notin Holders(b) /\ Holders(b)' = Holders(b) \cup {t}
              /\ t \in Callers(b) /\ Callers(b)' = Callers(b) \ {t}
           \/ /\ t \in Holders(b) /\ Holders(b)' = Holders(b) \ {t}
              /\ t \notin Callers(b) /\ Callers(b)' = Callers(b) \cup {t}
    PROVE  RefcCounts'
<1>1. Holders(b) \in SUBSET Thread /\ Callers(b) \in SUBSET Thread
  BY Zenon DEF Holders, Callers
<1>2. Cardinality(Holders(b)') + Cardinality(Callers(b)') = Cardinality(Holders(b)) + Cardinality(Callers(b))
  BY <1>1, ShiftThread
<1>3. ASSUME NEW d \in Buf PROVE refc'[d] = Cardinality(Holders(d)') + Cardinality(Callers(d)')
  BY <1>2, <1>3, Zenon DEF RefcCounts
<1>4. QED
  BY <1>3, Zenon DEF RefcCounts

(* The parts of the invariant that say nothing about counts.               *)
Rest == OneBufferPerBlock /\ RightBuffer /\ LockOwner /\ DataInv /\ NoMisuse

(* bget up to the lock keeps the invariant, ...                            *)
LEMMA BgetIInv ==
    ASSUME IInv, NEW t \in Thread,
           \/ \E k \in Block : bread(t, k)
           \/ \E b \in Buf : BgetHit(t, b) \/ BgetMiss(t, b)
           \/ BgetExhausted(t)
    PROVE  IInv'
<1> USE NoneAssumption
<1> USE DEF Reads, Refers, Goto, bvars
<1>1. ASSUME NEW k \in Block, bread(t, k) PROVE IInv'
  <2>1. BCacheTypeOK' /\ Rest'
    BY <1>1 DEF IInv, Rest, BCacheTypeOK, OneBufferPerBlock, RightBuffer, LockOwner, DataInv, NoMisuse, bread
  <2>2. RefcCounts'
    BY <1>1, SameRefs, Zenon DEF IInv, Holders, Callers, bread, BCacheTypeOK
  <2>3. QED
    BY <2>1, <2>2, Zenon DEF IInv, Rest
<1>2. ASSUME NEW b \in Buf, BgetHit(t, b) PROVE IInv'
  <2>1. BCacheTypeOK'
    BY <1>2 DEF IInv, BCacheTypeOK, BgetHit
  <2>2. Rest'
    BY <1>2 DEF IInv, Rest, BCacheTypeOK, OneBufferPerBlock, RightBuffer, LockOwner, DataInv, NoMisuse, BgetHit
  <2>3. /\ Callers(b)' = Callers(b) \cup {t} /\ t \notin Callers(b)
        /\ \A d \in Buf \ {b} : Callers(d)' = Callers(d)
    BY <1>2 DEF IInv, BCacheTypeOK, Callers, BgetHit
  <2>4. \A d \in Buf : Holders(d)' = Holders(d)
    BY <1>2, Zenon DEF Holders, BgetHit
  <2>5. /\ Cardinality(Callers(b)') = Cardinality(Callers(b)) + 1
        /\ Cardinality(Callers(b)) \in Nat /\ Cardinality(Holders(b)) \in Nat
    BY <2>3, CountThreads DEF Callers, Holders
  <2>6. ASSUME NEW d \in Buf PROVE refc'[d] = Cardinality(Holders(d)') + Cardinality(Callers(d)')
    <3>1. refc'[d] = IF d = b THEN refc[d] + 1 ELSE refc[d]
      BY <1>2, Zenon DEF IInv, BCacheTypeOK, BgetHit
    <3>2. refc[d] = Cardinality(Holders(d)) + Cardinality(Callers(d))
      BY Zenon DEF IInv, RefcCounts
    <3>3. CASE d = b
      BY <2>4, <2>5, <3>1, <3>2, <3>3
    <3>4. CASE d # b
      BY <2>3, <2>4, <3>1, <3>2, <3>4, Zenon
    <3>5. QED
      BY <3>3, <3>4, Zenon
  <2>7. QED
    BY <2>1, <2>2, <2>6, Zenon DEF IInv, Rest, RefcCounts
<1>3. ASSUME NEW b \in Buf, BgetMiss(t, b) PROVE IInv'
  <2>1. refc[b] = 0 /\ \A d \in Buf : blockno[d] # want[t]
    BY <1>3, Zenon DEF BgetMiss, Victim, Miss
  <2>2. Holders(b) = {} /\ Callers(b) = {}
    <3>1. Cardinality(Holders(b)) \in Nat /\ Cardinality(Callers(b)) \in Nat
      BY CountThreads, Zenon DEF Holders, Callers
    <3>2. Cardinality(Holders(b)) = 0 /\ Cardinality(Callers(b)) = 0
      BY <2>1, <3>1 DEF IInv, RefcCounts
    <3>3. QED
      BY <3>2, CountThreads, Zenon DEF Holders, Callers
  <2>3. \A u \in Thread : held[u][b] = None /\ (pc[u] \in Refers => buf[u] # b)
    BY <2>2, Zenon DEF Holders, Callers
  <2>4. BCacheTypeOK'
    BY <1>3, Zenon DEF IInv, BCacheTypeOK, BgetMiss, Recycle
  <2>5. OneBufferPerBlock' /\ RightBuffer' /\ NoMisuse'
    BY <1>3, <2>1, <2>3 DEF IInv, BCacheTypeOK, OneBufferPerBlock, RightBuffer, NoMisuse, BgetMiss, Recycle
  <2>6. LockOwner' /\ DataInv'
    BY <1>3, <2>3 DEF IInv, BCacheTypeOK, LockOwner, DataInv, BgetMiss, Recycle
  <2>7. Callers(b)' = {t} /\ \A d \in Buf \ {b} : Callers(d)' = Callers(d)
    BY <1>3, <2>3 DEF IInv, BCacheTypeOK, Callers, BgetMiss, Recycle
  <2>8. \A d \in Buf : Holders(d)' = Holders(d)
    BY <1>3, Zenon DEF Holders, BgetMiss, Recycle
  <2>9. Cardinality(Callers(b)') = 1 /\ Cardinality(Holders(b)') = 0
    BY <2>2, <2>7, <2>8, FS_Singleton, FS_EmptySet, Zenon
  <2>10. ASSUME NEW d \in Buf PROVE refc'[d] = Cardinality(Holders(d)') + Cardinality(Callers(d)')
    <3>1. refc'[d] = IF d = b THEN 1 ELSE refc[d]
      BY <1>3, Zenon DEF IInv, BCacheTypeOK, BgetMiss, Recycle
    <3>2. refc[d] = Cardinality(Holders(d)) + Cardinality(Callers(d))
      BY Zenon DEF IInv, RefcCounts
    <3>3. QED
      BY <2>7, <2>8, <2>9, <3>1, <3>2
  <2>11. QED
    BY <2>4, <2>5, <2>6, <2>10, Zenon DEF IInv, RefcCounts
<1>4. CASE BgetExhausted(t)
  <2>1. BCacheTypeOK' /\ Rest'
    BY <1>4 DEF IInv, Rest, BCacheTypeOK, OneBufferPerBlock, RightBuffer, LockOwner, DataInv, NoMisuse, BgetExhausted
  <2>2. RefcCounts'
    BY <1>4, SameRefs, Zenon DEF IInv, Holders, Callers, BgetExhausted, BCacheTypeOK
  <2>3. QED
    BY <2>1, <2>2, Zenon DEF IInv, Rest
<1>5. QED
  BY <1>1, <1>2, <1>3, <1>4, Zenon

(* ... so do the lock and the rest of bread, ...                           *)
LEMMA ReadIInv ==
    ASSUME IInv, NEW t \in Thread, BgetLock(t) \/ DiskRead(t) \/ SetValid(t)
    PROVE  IInv'
<1> USE NoneAssumption
<1> USE DEF Reads, Refers, Goto, bvars
<1>1. CASE BgetLock(t)
  <2>1. BCacheTypeOK' /\ OneBufferPerBlock' /\ NoMisuse'
    BY <1>1, Zenon DEF IInv, BCacheTypeOK, OneBufferPerBlock, NoMisuse, BgetLock
  <2>2. buf[t] \in Buf /\ (lock[buf[t]] = None => held[t][buf[t]] = None)
    BY <1>1 DEF IInv, BCacheTypeOK, RightBuffer, BgetLock
  <2>3. RightBuffer'
    BY <1>1 DEF IInv, BCacheTypeOK, RightBuffer, BgetLock
  <2>4. LockOwner'
    BY <1>1, <2>2 DEF IInv, BCacheTypeOK, LockOwner, BgetLock
  <2>5. DataInv'
    BY <1>1, Zenon DEF IInv, BCacheTypeOK, DataInv, BgetLock
  <2>6. RefcCounts'
    BY <1>1, SameRefs, Zenon DEF IInv, Holders, Callers, BgetLock, BCacheTypeOK
  <2>7. QED
    BY <2>1, <2>3, <2>4, <2>5, <2>6, Zenon DEF IInv
<1>r. ASSUME pc[t] \in Reads, Return(t), UNCHANGED <<lru, blockno, refc, lock, data, disk, want, buf>>,
             valid' = [valid EXCEPT ![buf[t]] = TRUE]
      PROVE  IInv'
  <2>1. /\ buf[t] \in Buf /\ want[t] \in Block /\ blockno[buf[t]] = want[t] /\ lock[buf[t]] = t
        /\ held[t][buf[t]] = None
    BY <1>r, Zenon DEF IInv, BCacheTypeOK, RightBuffer, LockOwner
  <2>2. /\ held' \in [Thread -> [Buf -> Block \cup {None}]]
        /\ \A u \in Thread, b \in Buf :
             held'[u][b] = IF u = t /\ b = buf[t] THEN want[t] ELSE held[u][b]
    BY <1>r, Zenon DEF IInv, BCacheTypeOK, Return
  <2>3. pc' \in [Thread -> Refers \cup {"work", "bget", "panic", "misuse"}] /\ pc'[t] = "work"
        /\ \A u \in Thread : u # t => pc'[u] = pc[u]
    BY <1>r, Zenon DEF IInv, BCacheTypeOK, Return
  <2>4. BCacheTypeOK' /\ OneBufferPerBlock' /\ NoMisuse'
    BY <1>r, <2>2, <2>3 DEF IInv, BCacheTypeOK, OneBufferPerBlock, NoMisuse
  <2>5. RightBuffer'
    BY <1>r, <2>2, <2>3 DEF IInv, RightBuffer
  <2>6. \A u \in Thread : u # t /\ pc[u] \in Reads => buf[u] # buf[t]
    BY <2>1, Zenon DEF IInv, RightBuffer
  <2>a. \A b \in Buf : lock[b] # None => lock[b] \in Thread
    BY Zenon DEF IInv, BCacheTypeOK
  <2>7. LockOwner'
    <3>1. ASSUME NEW b \in Buf, lock[b] # None
          PROVE  held'[lock[b]][b] # None \/ (pc'[lock[b]] \in Reads /\ buf[lock[b]] = b)
      <4>1. CASE b = buf[t]
        BY <2>1, <2>2, <4>1, Zenon
      <4>2. CASE b # buf[t]
        BY <2>2, <2>3, <2>a, <3>1, <4>2 DEF IInv, LockOwner
      <4>3. QED
        BY <4>1, <4>2, Zenon
    <3>2. \A u \in Thread : pc'[u] \in Reads => held'[u][buf[u]] = None
      BY <2>2, <2>3 DEF IInv, LockOwner, BCacheTypeOK
    <3>3. QED
      BY <1>r, <3>1, <3>2, Zenon DEF LockOwner
  <2>b. valid'[buf[t]] /\ \A b \in Buf \ {buf[t]} : valid'[b] = valid[b]
    BY <1>r, <2>1, Zenon DEF IInv, BCacheTypeOK
  <2>c. \A u \in Thread : pc'[u] = "valid" => data'[buf'[u]] = disk'[want'[u]] /\ ~valid'[buf'[u]]
    BY <1>r, <2>3, <2>6, <2>b DEF IInv, BCacheTypeOK, DataInv
  <2>d. \A u \in Thread, b \in Buf : held'[u][b] # None => valid'[b]
    BY <2>2, <2>b DEF IInv, DataInv
  <2>e. \A b \in Buf : valid'[b] => blockno'[b] \in Block
    BY <1>r, <2>1, <2>b, Zenon DEF IInv, DataInv
  <2>8. DataInv'
    BY <2>c, <2>d, <2>e, Zenon DEF DataInv
  <2>9. /\ t \notin Holders(buf[t]) /\ Holders(buf[t])' = Holders(buf[t]) \cup {t}
        /\ \A d \in Buf \ {buf[t]} : Holders(d)' = Holders(d)
    BY <1>r, <2>1, <2>2 DEF Holders
  <2>10. /\ t \in Callers(buf[t]) /\ Callers(buf[t])' = Callers(buf[t]) \ {t}
         /\ \A d \in Buf \ {buf[t]} : Callers(d)' = Callers(d)
    BY <1>r, <2>1, <2>3, Zenon DEF Callers
  <2>11. RefcCounts'
    BY <1>r, <2>1, <2>9, <2>10, MovedRef, Zenon DEF IInv
  <2>12. QED
    BY <2>4, <2>5, <2>7, <2>8, <2>11, Zenon DEF IInv
<1>2. CASE DiskRead(t)
  <2>1. CASE valid[buf[t]]
    <3>1. valid = [valid EXCEPT ![buf[t]] = TRUE]
      BY <1>2, <2>1, Zenon DEF IInv, BCacheTypeOK, DiskRead
    <3>2. QED
      BY <1>2, <2>1, <3>1, <1>r, Zenon DEF DiskRead
  <2>2. CASE ~valid[buf[t]]
    <3>1. buf[t] \in Buf /\ lock[buf[t]] = t /\ blockno[buf[t]] = want[t] /\ want[t] \in Block
      BY <1>2, Zenon DEF IInv, BCacheTypeOK, RightBuffer, DiskRead
    <3>d. data' \in [Buf -> Val] /\ pc' = [pc EXCEPT ![t] = "valid"]
      BY <1>2, <2>2, <3>1 DEF IInv, BCacheTypeOK, DiskRead
    <3>e. UNCHANGED <<lru, blockno, refc, valid, lock, disk, held, want, buf>>
      BY <1>2, <2>2, Zenon DEF DiskRead
    <3>a. BCacheTypeOK' /\ OneBufferPerBlock' /\ NoMisuse'
      BY <1>2, <3>d, <3>e, Zenon DEF IInv, BCacheTypeOK, OneBufferPerBlock, NoMisuse, DiskRead
    <3>b. /\ UNCHANGED <<blockno, lock, held, want, buf>>
          /\ \A u \in Thread : pc'[u] = pc[u] \/ (u = t /\ pc[u] \in Reads /\ pc'[u] \in Reads)
      BY <1>2, <2>2, Zenon DEF IInv, BCacheTypeOK, DiskRead
    <3>2. RightBuffer'
      BY <3>b DEF IInv, RightBuffer
    <3>c. LockOwner'
      BY <3>b DEF IInv, BCacheTypeOK, LockOwner
    <3>3. \A u \in Thread : u # t /\ pc[u] \in Reads => buf[u] # buf[t]
      BY <3>1, Zenon DEF IInv, RightBuffer
    <3>4. DataInv'
      BY <1>2, <2>2, <3>1, <3>3 DEF IInv, BCacheTypeOK, DataInv, DiskRead
    <3>5. RefcCounts'
      BY <1>2, <2>2, SameRefs DEF IInv, Holders, Callers, DiskRead, BCacheTypeOK
    <3>6. QED
      BY <3>a, <3>2, <3>c, <3>4, <3>5, Zenon DEF IInv
  <2>3. QED
    BY <2>1, <2>2, Zenon
<1>3. CASE SetValid(t)
  BY <1>3, <1>r, Zenon DEF SetValid
<1>4. QED
  BY <1>1, <1>2, <1>3, Zenon

(* ... and so does what a thread does with a buffer it has.                *)
LEMMA UseIInv ==
    ASSUME IInv, NEW t \in Thread,
           \/ \E b \in Buf : (\E v \in Val : Modify(t, b, v)) \/ bwrite(t, b) \/ brelse(t, b)
           \/ Unref(t) \/ Panic(t)
    PROVE  IInv'
<1> USE NoneAssumption
<1> USE DEF Reads, Refers, Goto, bvars
<1>h. ASSUME NEW b \in Buf, Has(t, b)
      PROVE  /\ lock[b] = t /\ blockno[b] = held[t][b] /\ held[t][b] \in Block /\ valid[b]
             /\ \A u \in Thread : u # t => held[u][b] = None
             /\ \A u \in Thread : pc[u] \in Reads => buf[u] # b
  BY <1>h DEF IInv, RightBuffer, DataInv, Has
<1>1. ASSUME NEW b \in Buf, NEW v \in Val, Modify(t, b, v) PROVE IInv'
  <2>1. \A u \in Thread : pc[u] \in Reads => buf[u] # b
    BY <1>1, <1>h, Zenon DEF Modify
  <2>2. BCacheTypeOK'
    BY <1>1, Zenon DEF IInv, BCacheTypeOK, Modify
  <2>3. OneBufferPerBlock' /\ RightBuffer' /\ LockOwner' /\ NoMisuse'
    BY <1>1 DEF IInv, OneBufferPerBlock, RightBuffer, LockOwner, NoMisuse, Modify
  <2>4. DataInv'
    BY <1>1, <2>1, Zenon DEF IInv, BCacheTypeOK, DataInv, Modify
  <2>5. RefcCounts'
    BY <1>1, SameRefs, Zenon DEF IInv, Holders, Callers, Modify
  <2>6. QED
    BY <2>2, <2>3, <2>4, <2>5, Zenon DEF IInv
<1>2. ASSUME NEW b \in Buf, bwrite(t, b) PROVE IInv'
  <2>1. Has(t, b)
    BY <1>2, Zenon DEF bwrite
  <2>2. /\ disk' = [disk EXCEPT ![blockno[b]] = data[b]]
        /\ UNCHANGED <<lru, blockno, refc, valid, lock, data, held, pc, want, buf>>
    BY <1>2, <1>h, <2>1, Zenon DEF bwrite
  <2>3. BCacheTypeOK'
    BY <2>2, Zenon DEF IInv, BCacheTypeOK
  <2>4. OneBufferPerBlock' /\ RightBuffer' /\ LockOwner' /\ NoMisuse'
    BY <2>2 DEF IInv, OneBufferPerBlock, RightBuffer, LockOwner, NoMisuse
  <2>5. ASSUME NEW u \in Thread, pc[u] = "valid" PROVE disk'[want[u]] = disk[want[u]]
    <3>1. buf[u] \in Buf /\ want[u] \in Block /\ blockno[buf[u]] = want[u] /\ buf[u] # b
      BY <2>5, <1>h, <2>1, Zenon DEF IInv, BCacheTypeOK, RightBuffer
    <3>2. blockno[b] # want[u]
      BY <3>1, Zenon DEF IInv, OneBufferPerBlock
    <3>3. QED
      BY <2>2, <3>1, <3>2, Zenon DEF IInv, BCacheTypeOK
  <2>6. DataInv'
    BY <2>2, <2>5, Zenon DEF IInv, DataInv
  <2>7. RefcCounts'
    BY <2>2, SameRefs, Zenon DEF IInv, Holders, Callers
  <2>8. QED
    BY <2>3, <2>4, <2>6, <2>7, Zenon DEF IInv
<1>3. ASSUME NEW b \in Buf, brelse(t, b) PROVE IInv'
  <2>1. /\ pc[t] = "work" /\ lock[b] = t /\ blockno[b] = held[t][b] /\ held[t][b] \in Block
        /\ \A u \in Thread : u # t => held[u][b] = None
        /\ \A u \in Thread : pc[u] \in Reads => buf[u] # b
    BY <1>3, <1>h, Zenon DEF brelse, Has
  <2>2. /\ lock' = [lock EXCEPT ![b] = None] /\ held' = [held EXCEPT ![t][b] = None]
        /\ buf' = [buf EXCEPT ![t] = b] /\ want' = [want EXCEPT ![t] = held[t][b]]
        /\ pc' = [pc EXCEPT ![t] = "unref"] /\ UNCHANGED <<lru, blockno, refc, valid, data, disk>>
    BY <1>3, <2>1, Zenon DEF brelse
  <2>3. /\ held' \in [Thread -> [Buf -> Block \cup {None}]]
        /\ \A u \in Thread, d \in Buf : held'[u][d] = IF u = t /\ d = b THEN None ELSE held[u][d]
    BY <2>2, Zenon DEF IInv, BCacheTypeOK
  <2>4. /\ pc'[t] = "unref" /\ buf'[t] = b /\ want'[t] = held[t][b]
        /\ \A u \in Thread : u # t => pc'[u] = pc[u] /\ buf'[u] = buf[u] /\ want'[u] = want[u]
        /\ lock'[b] = None /\ \A d \in Buf : d # b => lock'[d] = lock[d]
    BY <2>2, Zenon DEF IInv, BCacheTypeOK
  <2>5. BCacheTypeOK'
    BY <2>1, <2>2, Zenon DEF IInv, BCacheTypeOK
  <2>6. OneBufferPerBlock' /\ NoMisuse'
    BY <2>2 DEF IInv, OneBufferPerBlock, NoMisuse
  <2>7. RightBuffer'
    BY <2>1, <2>2, <2>3, <2>4 DEF IInv, RightBuffer
  <2>8. LockOwner'
    <3>1. ASSUME NEW d \in Buf, lock'[d] # None
          PROVE  held'[lock'[d]][d] # None \/ (pc'[lock'[d]] \in Reads /\ buf'[lock'[d]] = d)
      <4>1. d # b /\ lock'[d] = lock[d] /\ lock[d] \in Thread
        BY <2>4, <3>1 DEF IInv, BCacheTypeOK
      <4>2. held[lock[d]][d] # None \/ (pc[lock[d]] \in Reads /\ buf[lock[d]] = d)
        BY <3>1, <4>1, Zenon DEF IInv, LockOwner
      <4>3. CASE held[lock[d]][d] # None
        BY <2>3, <4>1, <4>3
      <4>4. CASE pc[lock[d]] \in Reads /\ buf[lock[d]] = d
        BY <2>1, <2>4, <4>1, <4>4
      <4>5. QED
        BY <4>2, <4>3, <4>4, Zenon
    <3>2. \A u \in Thread : pc'[u] \in Reads => held'[u][buf'[u]] = None
      BY <2>3, <2>4 DEF IInv, BCacheTypeOK, LockOwner
    <3>3. QED
      BY <3>1, <3>2, Zenon DEF LockOwner
  <2>9. DataInv'
    BY <2>2, <2>4 DEF IInv, DataInv
  <2>10. /\ t \in Holders(b) /\ Holders(b)' = Holders(b) \ {t}
         /\ \A d \in Buf \ {b} : Holders(d)' = Holders(d)
    BY <2>1, <2>3 DEF Holders
  <2>11. /\ t \notin Callers(b) /\ Callers(b)' = Callers(b) \cup {t}
         /\ \A d \in Buf \ {b} : Callers(d)' = Callers(d)
    BY <2>1, <2>4 DEF Callers
  <2>12. RefcCounts'
    BY <2>2, <2>10, <2>11, MovedRef, Zenon DEF IInv
  <2>13. QED
    BY <2>5, <2>6, <2>7, <2>8, <2>9, <2>12, Zenon DEF IInv
<1>4. CASE Unref(t)
  <2>1. buf[t] \in Buf /\ t \in Callers(buf[t]) /\ pc[t] = "unref"
    BY <1>4, Zenon DEF IInv, BCacheTypeOK, Callers, Unref
  <2>2. /\ Cardinality(Callers(buf[t])) \in Nat /\ Cardinality(Callers(buf[t])) # 0
        /\ Cardinality(Callers(buf[t]) \ {t}) = Cardinality(Callers(buf[t])) - 1
        /\ Cardinality(Holders(buf[t])) \in Nat
    BY <2>1, CountThreads, Zenon DEF Callers, Holders
  <2>3. refc[buf[t]] = Cardinality(Holders(buf[t])) + Cardinality(Callers(buf[t]))
    BY <2>1, Zenon DEF IInv, RefcCounts
  <2>4. refc' = [refc EXCEPT ![buf[t]] = refc[buf[t]] - 1]
    BY <1>4, Zenon DEF Unref
  <2>a. refc[buf[t]] - 1 \in Nat
    BY <2>2, <2>3
  <2>5. refc' \in [Buf -> Nat]
    BY <2>4, <2>a, Zenon DEF IInv, BCacheTypeOK
  <2>6. BCacheTypeOK'
    BY <1>4, <2>5, Zenon DEF IInv, BCacheTypeOK, Unref
  <2>7. /\ UNCHANGED <<blockno, valid, lock, data, disk, held>> /\ pc'[t] = "work"
        /\ \A u \in Thread : u # t => pc'[u] = pc[u] /\ buf'[u] = buf[u] /\ want'[u] = want[u]
    BY <1>4, Zenon DEF IInv, BCacheTypeOK, Unref
  <2>8. OneBufferPerBlock' /\ RightBuffer' /\ DataInv' /\ NoMisuse'
    BY <2>7 DEF IInv, OneBufferPerBlock, RightBuffer, DataInv, NoMisuse
  <2>9. LockOwner'
    <3>1. ASSUME NEW b \in Buf, lock[b] # None
          PROVE  held[lock[b]][b] # None \/ (pc'[lock[b]] \in Reads /\ buf'[lock[b]] = b)
      <4>1. lock[b] \in Thread
        BY <3>1, Zenon DEF IInv, BCacheTypeOK
      <4>2. QED
        BY <2>1, <2>7, <3>1, <4>1, Zenon DEF IInv, LockOwner
    <3>2. \A u \in Thread : pc'[u] \in Reads => held[u][buf'[u]] = None
      BY <2>7, Zenon DEF IInv, LockOwner
    <3>3. QED
      BY <2>7, <3>1, <3>2, Zenon DEF LockOwner
  <2>10. \A b \in Buf : /\ Holders(b)' = Holders(b)
                        /\ Callers(b)' = IF b = buf[t] THEN Callers(b) \ {t} ELSE Callers(b)
    BY <2>1, <2>7, Zenon DEF Holders, Callers
  <2>11. ASSUME NEW d \in Buf PROVE refc'[d] = Cardinality(Holders(d)') + Cardinality(Callers(d)')
    <3>1. refc[d] = Cardinality(Holders(d)) + Cardinality(Callers(d))
      BY Zenon DEF IInv, RefcCounts
    <3>2. CASE d = buf[t]
      <4>1. refc'[d] = refc[d] - 1
        BY <2>1, <2>4, <3>2, Zenon DEF IInv, BCacheTypeOK
      <4>2. Cardinality(Holders(d)') = Cardinality(Holders(d)) /\ Cardinality(Callers(d)') = Cardinality(Callers(d)) - 1
        BY <2>2, <2>10, <3>2, Zenon
      <4>3. QED
        BY <2>2, <3>1, <3>2, <4>1, <4>2
    <3>3. CASE d # buf[t]
      BY <2>4, <2>10, <3>1, <3>3, Zenon DEF IInv, BCacheTypeOK
    <3>4. QED
      BY <3>2, <3>3, Zenon
  <2>12. QED
    BY <2>6, <2>8, <2>9, <2>11, Zenon DEF IInv, RefcCounts
<1>5. CASE Panic(t)
  BY <1>5 DEF IInv, BCacheTypeOK, OneBufferPerBlock, RefcCounts, Holders, Callers, RightBuffer, LockOwner, DataInv,
              NoMisuse, Panic, vars
<1>6. QED
  BY <1>1, <1>2, <1>3, <1>4, <1>5, Zenon

(* Every behaviour of the cache stays within the invariant.                *)
LEMMA SpecIInv == Spec => []IInv
<1>1. IInv /\ [Next]_vars => IInv'
  <2>1. ASSUME IInv, UNCHANGED vars PROVE IInv'
    <3>1. UNCHANGED <<lru, blockno, refc, valid, lock, data, disk, held, pc, want, buf>>
      BY <2>1, Zenon DEF vars, bvars
    <3>2. BCacheTypeOK' /\ OneBufferPerBlock' /\ RightBuffer'
      BY <2>1, <3>1, Zenon DEF IInv, BCacheTypeOK, OneBufferPerBlock, RightBuffer, Has
    <3>3. RefcCounts'
      BY <2>1, <3>1, Zenon DEF IInv, RefcCounts, Holders, Callers, Has
    <3>4. LockOwner' /\ DataInv' /\ NoMisuse'
      BY <2>1, <3>1, Zenon DEF IInv, LockOwner, DataInv, NoMisuse, Has
    <3> QED
      BY <3>2, <3>3, <3>4, Zenon DEF IInv
  <2>2. QED
    BY <2>1, BgetIInv, ReadIInv, UseIInv, Zenon DEF Next, ThreadStep
<1>2. QED
  BY <1>1, InitIInv, PTL DEF Spec
-----------------------------------------------------------------------------
(* The types of the cache's fields, for every number of threads.           *)
THEOREM TypeCorrect == Spec => []BCacheTypeOK
<1>1. IInv => BCacheTypeOK
  BY Zenon DEF IInv
<1>2. QED
  BY <1>1, SpecIInv, PTL

(* bget never puts a block into two buffers, and never gives a buffer away *)
(* that a thread has or waits for, whatever buffers a thread has at once.  *)
THEOREM BuffersRight == Spec => []BufferTable
<1>1. IInv => BufferTable
  BY Zenon DEF IInv, BufferTable
<1>2. QED
  BY <1>1, SpecIInv, PTL

(* bwrite and brelse are only reached with the buffer's lock.              *)
THEOREM PanicFree == Spec => []NoMisuse
<1>1. IInv => NoMisuse
  BY Zenon DEF IInv
<1>2. QED
  BY <1>1, SpecIInv, PTL
-----------------------------------------------------------------------------
(* The view of a block, without the choice of its buffer.                  *)
ViewsRight ==
    \A k \in Block : /\ \A b \in Buf : InCache(b, k) => Viewed[k] = data[b]
                     /\ (\A b \in Buf : ~InCache(b, k)) => Viewed[k] = disk[k]

LEMMA ViewOfBlock == IInv => ViewsRight
<1> SUFFICES ASSUME IInv, NEW k \in Block
             PROVE  /\ \A b \in Buf : InCache(b, k) => Viewed[k] = data[b]
                    /\ (\A b \in Buf : ~InCache(b, k)) => Viewed[k] = disk[k]
  BY Zenon DEF ViewsRight
<1>1. \A b, d \in Buf : InCache(b, k) /\ InCache(d, k) => b = d
  BY NoneAssumption, Zenon DEF IInv, OneBufferPerBlock, InCache
<1>2. ASSUME NEW b \in Buf, InCache(b, k) PROVE Viewed[k] = data[b]
  <2>1. (CHOOSE d \in Buf : InCache(d, k)) = b
    BY <1>1, <1>2, Zenon
  <2>2. QED
    BY <1>2, <2>1, Zenon DEF Viewed
<1>3. (\A b \in Buf : ~InCache(b, k)) => Viewed[k] = disk[k]
  BY Zenon DEF Viewed
<1>4. QED
  BY <1>2, <1>3, Zenon

(* A thread that has a buffer, or fills it, is the only one that uses its  *)
(* block.                                                                  *)
LEMMA Alone ==
    ASSUME IInv
    PROVE  /\ \A t \in Thread, b \in Buf : held[t][b] # None => InCache(b, held[t][b]) /\ held[t][b] \in Using[t]
           /\ \A t \in Thread, b \in Buf, k \in Block : k \in Using[t] /\ blockno[b] = k => held[t][b] = k
           /\ \A t, u \in Thread : pc[t] \in Reads => want[t] \notin Using[u]
<1> USE NoneAssumption
<1>1. ASSUME NEW t \in Thread, NEW b \in Buf, held[t][b] # None
      PROVE  InCache(b, held[t][b]) /\ held[t][b] \in Using[t]
  BY <1>1 DEF IInv, RightBuffer, DataInv, InCache, Using
<1>2. ASSUME NEW t \in Thread, NEW b \in Buf, NEW k \in Block, k \in Using[t], blockno[b] = k
      PROVE  held[t][b] = k
  <2>1. PICK d \in Buf : held[t][d] = k
    BY <1>2, Zenon DEF Using
  <2>2. blockno[d] = k
    BY <2>1, Zenon DEF IInv, RightBuffer
  <2>3. QED
    BY <1>2, <2>1, <2>2, Zenon DEF IInv, OneBufferPerBlock
<1>3. ASSUME NEW t \in Thread, NEW u \in Thread, pc[t] \in Reads, want[t] \in Using[u]
      PROVE  FALSE
  <2>1. /\ buf[t] \in Buf /\ want[t] \in Block /\ blockno[buf[t]] = want[t] /\ lock[buf[t]] = t
        /\ held[t][buf[t]] = None
    BY <1>3, Zenon DEF IInv, BCacheTypeOK, RightBuffer, LockOwner, Refers
  <2>2. held[u][buf[t]] = want[t]
    BY <1>2, <1>3, <2>1, Zenon
  <2>3. QED
    BY <2>1, <2>2, Zenon DEF IInv, RightBuffer
<1>4. QED
  BY <1>1, <1>2, <1>3, Zenon

(* Each step of a thread is a step of BlockStore or leaves it alone.       *)
LEMMA StepStore ==
    ASSUME IInv, IInv', ViewsRight, ViewsRight', NEW t \in Thread, ThreadStep(t)
    PROVE  [Store!Next]_(Store!vars)
<1> USE NoneAssumption
<1> USE DEF bvars
<1>0. /\ pc \in [Thread -> Refers \cup {"work", "bget", "panic", "misuse"}]
      /\ buf \in [Thread -> Buf \cup {None}] /\ want \in [Thread -> Block \cup {None}]
      /\ data \in [Buf -> Val] /\ disk \in [Block -> Val] /\ valid \in [Buf -> BOOLEAN]
      /\ blockno \in [Buf -> Block \cup {None}] /\ held \in [Thread -> [Buf -> Block \cup {None}]]
  BY Zenon DEF IInv, BCacheTypeOK
<1>f. Viewed = [k \in Block |-> Viewed[k]] /\ Viewed' = [k \in Block |-> Viewed'[k]]
  BY Zenon DEF Viewed
<1>u. Using = [u \in Thread |-> Using[u]] /\ Using' = [u \in Thread |-> Using'[u]]
  BY Zenon DEF Using
<1>s. ASSUME UNCHANGED <<disk, held, blockno, valid>>, \A b \in Buf : valid[b] => data'[b] = data[b]
      PROVE  UNCHANGED Store!vars
  <2>1. ASSUME NEW k \in Block PROVE Viewed'[k] = Viewed[k]
    BY <1>s DEF ViewsRight, InCache
  <2>2. Using' = Using
    BY <1>s, Zenon DEF Using
  <2>3. QED
    BY <1>s, <1>f, <2>1, <2>2, Zenon DEF Store!vars
<1>1. ASSUME NEW k \in Block, bread(t, k) PROVE UNCHANGED Store!vars
  BY <1>1, <1>s, Zenon DEF bread
<1>2. ASSUME NEW b \in Buf, BgetHit(t, b) PROVE UNCHANGED Store!vars
  BY <1>2, <1>s, Zenon DEF BgetHit
<1>4. CASE BgetExhausted(t)
  BY <1>4, <1>s, Zenon DEF BgetExhausted
<1>5. CASE BgetLock(t)
  BY <1>5, <1>s, Zenon DEF BgetLock
<1>3. ASSUME NEW b \in Buf, BgetMiss(t, b) PROVE [Store!Next]_(Store!vars)
  <2>1. /\ blockno' = [blockno EXCEPT ![b] = want[t]] /\ valid' = [valid EXCEPT ![b] = FALSE]
        /\ UNCHANGED <<data, disk, held>> /\ \A d \in Buf : blockno[d] # want[t]
    BY <1>3, Zenon DEF BgetMiss, Recycle, Miss
  <2>2. \A u \in Thread : held[u][b] = None
    <3>1. refc[b] = 0
      BY <1>3, Zenon DEF BgetMiss, Victim
    <3>2. Cardinality(Holders(b)) \in Nat /\ Cardinality(Callers(b)) \in Nat
      BY CountThreads, Zenon DEF Holders, Callers
    <3>3. Cardinality(Holders(b)) = 0
      BY <3>1, <3>2 DEF IInv, RefcCounts
    <3>4. Holders(b) = {}
      BY <3>3, CountThreads, Zenon DEF Holders
    <3>5. QED
      BY <3>4, Zenon DEF Holders
  <2>3. Using' = Using
    BY <2>1, Zenon DEF Using
  <2>4. \A d \in Buf, k \in Block : InCache(d, k)' <=> InCache(d, k) /\ d # b
    BY <1>0, <2>1, Zenon DEF InCache
  <2>5. CASE valid[b]
    <3>1. blockno[b] \in Block
      BY <2>5, Zenon DEF IInv, DataInv
    <3>2. \A u \in Thread : blockno[b] \notin Using[u]
      BY <2>2, <3>1, Alone, Zenon
    <3>3. \A d \in Buf : InCache(d, blockno[b]) => d = b
      BY <3>1, Zenon DEF IInv, OneBufferPerBlock, InCache
    <3>4. Viewed'[blockno[b]] = disk[blockno[b]]
      BY <2>1, <2>4, <3>1, <3>3, Zenon DEF ViewsRight
    <3>5. ASSUME NEW k \in Block, k # blockno[b] PROVE Viewed'[k] = Viewed[k]
      <4>1. ~InCache(b, k)
        BY <3>5, Zenon DEF InCache
      <4>2. QED
        BY <2>1, <2>4, <4>1 DEF ViewsRight
    <3>6. Viewed' = [Viewed EXCEPT ![blockno[b]] = disk[blockno[b]]]
      BY <1>f, <3>1, <3>4, <3>5, Zenon
    <3>7. Store!Forget(blockno[b])
      BY <2>1, <2>3, <3>2, <3>6, Zenon DEF Store!Forget, Store!Free
    <3>8. QED
      BY <3>1, <3>7, Zenon DEF Store!Next
  <2>6. CASE ~valid[b]
    <3>1. ASSUME NEW k \in Block PROVE Viewed'[k] = Viewed[k]
      <4>1. ~InCache(b, k)
        BY <2>6, Zenon DEF InCache
      <4>2. QED
        BY <2>1, <2>4, <4>1 DEF ViewsRight
    <3>2. QED
      BY <1>f, <2>1, <2>3, <3>1, Zenon DEF Store!vars
  <2>7. QED
    BY <1>0, <2>5, <2>6, Zenon
<1>g. ASSUME pc[t] \in Reads, Return(t), valid[buf[t]] \/ data[buf[t]] = disk[want[t]],
             UNCHANGED <<blockno, data, disk, want, buf>>, valid' = [valid EXCEPT ![buf[t]] = TRUE]
      PROVE  Store!Next
  <2>1. buf[t] \in Buf /\ want[t] \in Block /\ blockno[buf[t]] = want[t]
    BY <1>g, Zenon DEF IInv, BCacheTypeOK, RightBuffer, Refers
  <2>2. \A u \in Thread : want[t] \notin Using[u]
    BY <1>g, Alone, Zenon
  <2>3. \A u \in Thread, b \in Buf : held'[u][b] = IF u = t /\ b = buf[t] THEN want[t] ELSE held[u][b]
    BY <1>0, <1>g, <2>1, Zenon DEF Return
  <2>4. held[t][buf[t]] = None
    BY <1>g, Zenon DEF IInv, LockOwner
  <2>5. ASSUME NEW u \in Thread PROVE Using'[u] = IF u = t THEN Using[u] \cup {want[t]} ELSE Using[u]
    BY <2>1, <2>3, <2>4 DEF Using
  <2>6. Using' = [Using EXCEPT ![t] = Using[t] \cup {want[t]}]
    BY <1>u, <2>5, Zenon
  <2>7. \A d \in Buf, k \in Block : d # buf[t] => (InCache(d, k)' <=> InCache(d, k))
    BY <1>0, <1>g, Zenon DEF InCache
  <2>8. \A k \in Block : InCache(buf[t], k)' <=> k = want[t]
    BY <1>0, <1>g, <2>1, Zenon DEF InCache
  <2>9. ASSUME NEW k \in Block PROVE Viewed'[k] = Viewed[k]
    <3>1. CASE k # want[t]
      <4>1. ~InCache(buf[t], k)
        BY <2>1, <3>1, Zenon DEF InCache
      <4>2. QED
        BY <1>g, <2>7, <2>8, <3>1, <4>1 DEF ViewsRight
    <3>2. CASE k = want[t] /\ valid[buf[t]]
      BY <1>g, <3>2 DEF ViewsRight, InCache
    <3>3. CASE k = want[t] /\ ~valid[buf[t]]
      <4>1. \A d \in Buf : ~InCache(d, k)
        BY <2>1, <3>3, Zenon DEF IInv, OneBufferPerBlock, InCache
      <4>2. QED
        BY <1>g, <2>1, <2>8, <3>3, <4>1, Zenon DEF ViewsRight
    <3>4. QED
      BY <3>1, <3>2, <3>3, Zenon
  <2>10. Store!Get(t, want[t])
    BY <1>f, <1>g, <2>2, <2>6, <2>9, Zenon DEF Store!Get, Store!Free
  <2>11. QED
    BY <2>1, <2>10, Zenon DEF Store!Next
<1>6. CASE DiskRead(t)
  <2>1. CASE valid[buf[t]]
    <3>1. valid = [valid EXCEPT ![buf[t]] = TRUE]
      BY <1>0, <2>1, Zenon
    <3>2. QED
      BY <1>6, <2>1, <3>1, <1>g, Zenon DEF DiskRead, Reads
  <2>2. CASE ~valid[buf[t]]
    BY <1>0, <1>6, <2>2, <1>s, Zenon DEF DiskRead
  <2>3. QED
    BY <2>1, <2>2, Zenon
<1>7. CASE SetValid(t)
  <2>1. data[buf[t]] = disk[want[t]]
    BY <1>7, Zenon DEF IInv, DataInv, SetValid
  <2>2. QED
    BY <1>7, <2>1, <1>g, Zenon DEF SetValid, Reads
<1>h. ASSUME NEW b \in Buf, Has(t, b)
      PROVE  /\ held[t][b] \in Block /\ InCache(b, held[t][b]) /\ held[t][b] \in Using[t] /\ blockno[b] = held[t][b]
             /\ lock[b] = t /\ \A d \in Buf : InCache(d, held[t][b]) => d = b
  <2>1. held[t][b] # None /\ blockno[b] = held[t][b] /\ lock[b] = t
    BY <1>h, Zenon DEF IInv, RightBuffer, Has
  <2>2. held[t][b] \in Block
    BY <2>1, Zenon DEF IInv, BCacheTypeOK
  <2>3. InCache(b, held[t][b]) /\ held[t][b] \in Using[t]
    BY <2>1, <2>2, Zenon DEF IInv, DataInv, InCache, Using
  <2>4. QED
    BY <2>1, <2>2, <2>3, Zenon DEF IInv, OneBufferPerBlock, InCache
<1>8. ASSUME NEW b \in Buf, NEW v \in Val, Modify(t, b, v) PROVE Store!Next
  <2>1. /\ Has(t, b) /\ data' = [data EXCEPT ![b] = v]
        /\ UNCHANGED <<blockno, valid, disk, held>>
    BY <1>8, Zenon DEF Modify
  <2>2. Using' = Using
    BY <2>1, Zenon DEF Using
  <2>3. Viewed'[held[t][b]] = v
    BY <1>0, <1>h, <2>1 DEF ViewsRight, InCache
  <2>4. ASSUME NEW k \in Block, k # held[t][b] PROVE Viewed'[k] = Viewed[k]
    <3>1. ~InCache(b, k)
      BY <1>h, <2>1, <2>4, Zenon DEF InCache
    <3>2. \A d \in Buf : /\ InCache(d, k)' <=> InCache(d, k)
                         /\ InCache(d, k) => data'[d] = data[d]
      BY <1>0, <2>1, <3>1, Zenon DEF InCache
    <3>3. QED
      BY <2>1, <3>2 DEF ViewsRight
  <2>5. Viewed' = [Viewed EXCEPT ![held[t][b]] = v]
    BY <1>f, <1>h, <2>1, <2>3, <2>4, Zenon
  <2>6. Store!Change(t, held[t][b], v)
    BY <1>h, <2>1, <2>2, <2>5, Zenon DEF Store!Change
  <2>7. QED
    BY <1>h, <2>1, <2>6, Zenon DEF Store!Next
<1>9. ASSUME NEW b \in Buf, bwrite(t, b) PROVE Store!Next
  <2>0. Has(t, b)
    BY <1>9, Zenon DEF bwrite
  <2>1. /\ disk' = [disk EXCEPT ![held[t][b]] = data[b]]
        /\ UNCHANGED <<blockno, valid, data, held>>
    BY <1>9, <1>h, <2>0, Zenon DEF bwrite
  <2>2. Using' = Using
    BY <2>1, Zenon DEF Using
  <2>3. Viewed[held[t][b]] = data[b] /\ Viewed'[held[t][b]] = data[b]
    BY <1>h, <2>0, <2>1 DEF ViewsRight, InCache
  <2>4. ASSUME NEW k \in Block, k # held[t][b] PROVE Viewed'[k] = Viewed[k]
    <3>1. disk'[k] = disk[k]
      BY <1>0, <2>1, <2>4, Zenon
    <3>2. QED
      BY <2>1, <3>1 DEF ViewsRight, InCache
  <2>5. Viewed' = Viewed
    BY <1>f, <2>3, <2>4, Zenon
  <2>6. Store!Save(t, held[t][b])
    BY <1>h, <2>0, <2>1, <2>2, <2>3, <2>5, Zenon DEF Store!Save
  <2>7. QED
    BY <1>h, <2>0, <2>6, Zenon DEF Store!Next
<1>10. ASSUME NEW b \in Buf, brelse(t, b) PROVE Store!Next
  <2>0. Has(t, b)
    BY <1>10, Zenon DEF brelse
  <2>1. /\ held' = [held EXCEPT ![t][b] = None]
        /\ UNCHANGED <<blockno, valid, data, disk>>
    BY <1>10, <1>h, <2>0, Zenon DEF brelse
  <2>2. \A u \in Thread, d \in Buf : held'[u][d] = IF u = t /\ d = b THEN None ELSE held[u][d]
    BY <1>0, <2>1, Zenon
  <2>3. \A d \in Buf : held[t][d] = held[t][b] => d = b
    BY <1>h, <2>0, Alone
  <2>4. ASSUME NEW u \in Thread PROVE Using'[u] = IF u = t THEN Using[u] \ {held[t][b]} ELSE Using[u]
    BY <2>2, <2>3 DEF Using
  <2>5. Using' = [Using EXCEPT ![t] = Using[t] \ {held[t][b]}]
    BY <1>u, <2>4, Zenon
  <2>6. ASSUME NEW k \in Block PROVE Viewed'[k] = Viewed[k]
    BY <2>1 DEF ViewsRight, InCache
  <2>7. Store!Put(t, held[t][b])
    BY <1>f, <1>h, <2>0, <2>1, <2>5, <2>6, Zenon DEF Store!Put
  <2>8. QED
    BY <1>h, <2>0, <2>7, Zenon DEF Store!Next
<1>11. CASE Unref(t)
  BY <1>11, <1>s, Zenon DEF Unref
<1>12. CASE Panic(t)
  BY <1>12, <1>s, Zenon DEF Panic, vars
<1>13. QED
  BY <1>1, <1>2, <1>3, <1>4, <1>5, <1>6, <1>7, <1>8, <1>9, <1>10, <1>11, <1>12,
     Zenon DEF ThreadStep

(* The cache implements BlockStore, whatever its callers do with what they *)
(* have: write it or not, and one buffer or several at a time.             *)
THEOREM Transparency == Spec => ImplementsBlockStore
<1>1. Init => Store!Init
  <2> SUFFICES ASSUME Init PROVE Store!Init
    OBVIOUS
  <2>1. \A b \in Buf, k \in Block : ~InCache(b, k)
    BY Zenon DEF Init, InCache
  <2>2. Viewed = disk
    BY <2>1, Zenon DEF Init, Viewed
  <2>3. Using = [t \in Thread |-> {}]
    BY NoneAssumption DEF Init, Using
  <2>4. QED
    BY <2>2, <2>3, Zenon DEF Init, Store!Init
<1>2. IInv /\ IInv' /\ ViewsRight /\ ViewsRight' /\ [Next]_vars => [Store!Next]_(Store!vars)
  <2>1. UNCHANGED vars => UNCHANGED Store!vars
    BY Zenon DEF vars, bvars, Store!vars, Using, Viewed, InCache
  <2>2. QED
    BY <2>1, StepStore, Zenon DEF Next
<1>3. QED
  BY <1>1, <1>2, SpecIInv, ViewOfBlock, PTL DEF Spec, Store!Spec, ImplementsBlockStore
=============================================================================
