----------------------------- MODULE DiskRings -----------------------------
(* The steps of the driver and of the device that move the rings keep the  *)
(* invariant of DiskProofs, for there are never more requests than         *)
(* descriptors; what the two guarantee together follows.                   *)
EXTENDS DiskProofs, FiniteSetTheorems, WellFoundedInduction

(* The handler finds the buffer of the first completion, and its thread.   *)
LEMMA IntrTakeRInv == ASSUME IInv, RInv, IntrTake PROVE RInv'
<1>1. PICK h \in Desc : h = used_ring[used_idx % NUM] /\ h = UsedAt(0)
  <2>1. used_idx + 0 = used_idx
    BY Moduli DEF RInv, RingTypes, Idx
  <2> QED
    BY <2>1, Windows DEF RInv, UsedAt
<1>2. ipc = "loop" /\ used_idx # used
  BY Zenon DEF IntrTake
<1>3. ULen \in 1 .. IDX - 1
  <2>1. used \in 0 .. IDX - 1 /\ used_idx \in 0 .. IDX - 1
    BY Zenon DEF RInv, RingTypes, Idx
  <2> QED
    BY <2>1, <1>2, Moduli, Some, Zenon DEF ULen
<1>4. 0 \in 0 .. ULen - 1
  BY <1>3
<1>5. Pending(h) /\ Moved(h)
  BY <1>1, <1>4, Zenon DEF RInv, Staged
<1>6. PICK u \in Thread : pc[u] \in Waiting /\ h = idx[u][1] /\ bdisk[arg[u].b]
  BY <1>5, Zenon DEF Pending
<1>7. PICK b \in Buf : b = arg[u].b
  BY <1>6, Zenon DEF RInv, Args, Waiting
<1>8. status[h] /\ info[h] = b /\ b # None /\ bdata[b] = sector[b]
  BY <1>5, <1>6, <1>7, NoneAssumption, Zenon DEF Moved, RInv, Filled, Waiting, Chained
<1>9. /\ bdisk' = [bdisk EXCEPT ![b] = FALSE]
      /\ pc' = [v \in Thread |-> IF pc[v] = "asleep" /\ arg[v].b = b THEN "relock" ELSE pc[v]]
      /\ used_idx' = (used_idx + 1) % IDX /\ UNCHANGED ipc
  BY <1>1, <1>8 DEF IntrTake
<1>10. UNCHANGED <<vdisk_lock, free, desc, ops, info, status, avail, avail_ring, used, used_ring,
                   bdata, arg, idx, last_avail, inflight, sector>>
  BY Zenon DEF IntrTake, dvars
<1>11. \A v \in Thread : pc'[v] = pc[v] \/ (pc[v] = "asleep" /\ pc'[v] = "relock")
  BY <1>9, Zenon
<1>12. \A v \in Thread : /\ pc'[v] \in Waiting <=> pc[v] \in Waiting
                         /\ pc'[v] \in Chained <=> pc[v] \in Chained
                         /\ pc'[v] = "publish" <=> pc[v] = "publish"
  BY <1>11, Zenon DEF Waiting, Chained
<1>13. ASSUME NEW v \in Thread, v # u, pc[v] \in Chained
       PROVE  bdisk'[arg[v].b] = bdisk[arg[v].b] /\ idx[v][1] # h
  <2>1. arg[v].b \in Buf \ {b}
    BY <1>7, <1>13, NoneAssumption, Zenon DEF RInv, Args, Chained
  <2>2. pc[v] \in Holding /\ pc[u] \in Holding
    BY <1>6, <1>13, Zenon DEF Chained, Waiting, Holding
  <2>3. idx[v][1] # idx[u][1]
    BY <2>2, <1>13 DEF IInv, Apart
  <2> QED
    BY <2>1, <2>3, <1>6, <1>9, Zenon DEF RInv, RingTypes
<1>14. RingTypes'
  <2>1. used_idx \in Int
    BY Moduli DEF RInv, RingTypes, Idx
  <2>2. used_idx + 1 \in Int
    BY <2>1
  <2>3. used_idx' \in Idx
    BY <2>2, <1>9, Moduli, Remainder, Zenon DEF Idx
  <2> QED
    BY <2>3, <1>9, <1>10, Zenon DEF RInv, RingTypes
<1>15. Locked' /\ Args' /\ Scarce'
  BY <1>9, <1>10, <1>11, Zenon DEF RInv, Locked, Args, Scarce
<1>16. Filled' /\ Entered'
  <2>1. pc[u] # "publish"
    BY <1>6, Zenon DEF Waiting
  <2>2. Filled'
    BY <1>10, <1>12, Zenon DEF RInv, Filled
  <2>3. Entered'
    BY <2>1, <1>10, <1>12, <1>13, Zenon DEF RInv, Entered, Chained
  <2> QED
    BY <2>2, <2>3, Zenon
<1>17. Transferred'
  <2> SUFFICES ASSUME NEW v \in Thread, pc'[v] \in Waiting, ~bdisk'[arg[v].b]
               PROVE  bdata[arg[v].b] = sector[arg[v].b]
    BY <1>10, Zenon DEF Transferred, Waiting
  <2>1. CASE v = u
    BY <2>1, <1>7, <1>8, Zenon
  <2>2. CASE v # u
    <3>1. pc[v] \in Waiting /\ ~bdisk[arg[v].b]
      BY <2>2, <1>12, <1>13, Zenon DEF Waiting, Chained
    <3> QED
      BY <3>1, Zenon DEF RInv, Transferred, Waiting
  <2> QED
    BY <2>1, <2>2, Zenon
<1>18. \A x : /\ Pending(x) /\ x # h => Pending(x)'
              /\ Moved(x) => Moved(x)'
  <2>1. \A x : Pending(x) /\ x # h => Pending(x)'
    <3> SUFFICES ASSUME NEW x, Pending(x), x # h PROVE Pending(x)'
      BY Zenon
    <3>1. PICK v \in Thread : pc[v] \in Waiting /\ x = idx[v][1] /\ bdisk[arg[v].b]
      BY Zenon DEF Pending
    <3>2. v # u /\ pc[v] \in Chained
      BY <3>1, <1>6, Zenon DEF Waiting, Chained
    <3> QED
      BY <3>1, <3>2, <1>10, <1>12, <1>13, Zenon DEF Pending
  <2>2. \A x : Moved(x) => Moved(x)'
    BY <1>10, <1>12, Zenon DEF Moved
  <2> QED
    BY <2>1, <2>2, Zenon
<1>19. PICK n \in Nat : ULen = n + 1
  <2>1. PICK i \in Int : i = ULen - 1
    BY <1>3
  <2> QED
    BY <2>1, <1>3
<1>20. /\ ULen' = n /\ ALen' = ALen
       /\ \A k \in Nat : UsedAt(k)' = UsedAt(k + 1)
       /\ \A k : AvailAt(k)' = AvailAt(k)
  <2>1. ULen' = n /\ \A k \in Nat : UsedAt(k)' = UsedAt(k + 1)
    BY <1>2, <1>9, <1>10, <1>19, UsedTaken DEF RInv
  <2> QED
    BY <2>1, <1>10, Zenon DEF ALen, AvailAt
<1>21. Staged'
  <2>1. \A k \in 0 .. n - 1 : k + 1 \in 0 .. n /\ k + 1 # 0
    OBVIOUS
  <2>2. 0 \in 0 .. n
    OBVIOUS
  <2>3. /\ \A k \in 0 .. n : Pending(UsedAt(k)) /\ UsedAt(k) \notin inflight /\ Moved(UsedAt(k))
        /\ \A j, k \in 0 .. n : j # k => UsedAt(j) # UsedAt(k)
        /\ \A j \in 0 .. ALen - 1, k \in 0 .. n : AvailAt(j) # UsedAt(k)
    <3>1. 0 .. ULen - 1 = 0 .. n
      BY <1>19
    <3> QED
      BY <3>1, Zenon DEF RInv, Staged
  <2>4. \A k \in 0 .. n - 1 : /\ Pending(UsedAt(k))' /\ UsedAt(k)' \notin inflight' /\ Moved(UsedAt(k))'
                              /\ \A i \in 0 .. ALen - 1 : AvailAt(i) # UsedAt(k)'
    BY <2>1, <2>2, <2>3, <1>1, <1>10, <1>18, <1>20
  <2>5. \A j, k \in 0 .. n - 1 : j # k => UsedAt(j)' # UsedAt(k)'
    <3>1. \A j, k \in 0 .. n - 1 : j # k => j + 1 # k + 1
      OBVIOUS
    <3> QED
      BY <3>1, <2>1, <2>3, <1>20
  <2>6. /\ \A x \in inflight : x # h /\ Pending(x)
        /\ \A k \in 0 .. ALen - 1 : AvailAt(k) # h /\ Pending(AvailAt(k)) /\ AvailAt(k) \notin inflight
    BY <2>2, <2>3, <1>1, Zenon DEF RInv, Staged
  <2> QED
    BY <2>4, <2>5, <2>6, <1>10, <1>18, <1>20, Zenon DEF RInv, Staged
<1> QED
  BY <1>14, <1>15, <1>16, <1>17, <1>21, Zenon DEF RInv

(* The device completes a chain: the transfer is made before the entry of  *)
(* the used ring can be seen.                                              *)
LEMMA DevCompleteRInv ==
    ASSUME IInv, RInv, ULen < NUM, NEW h \in Desc, DevComplete(h) PROVE RInv'
<1>1. h \in inflight
  BY Zenon DEF DevComplete
<1>2. PICK u \in Thread : pc[u] \in Waiting /\ h = idx[u][1] /\ bdisk[arg[u].b]
  BY <1>1, Zenon DEF RInv, Staged, Pending
<1>3. PICK b \in Buf : b = arg[u].b
  BY <1>2, Zenon DEF RInv, Args, Waiting
<1>4. /\ desc[h].next = idx[u][2] /\ desc[idx[u][2]].next = idx[u][3]
      /\ desc[idx[u][2]].addr = b /\ desc[idx[u][3]].addr = h /\ ops[h].b = b
  <2>1. pc[u] \in Chained
    BY <1>2, Zenon DEF Waiting, Chained
  <2> QED
    BY <2>1, <1>2, <1>3, Zenon DEF IInv, Linked, RInv, Filled
<1>5. /\ \/ sector' = [sector EXCEPT ![b] = bdata[b]] /\ UNCHANGED bdata
         \/ bdata' = [bdata EXCEPT ![b] = sector[b]] /\ UNCHANGED sector
      /\ status' = [status EXCEPT ![h] = TRUE]
  BY <1>4, Zenon DEF DevComplete
<1>6. /\ used_ring' = [used_ring EXCEPT ![used % NUM] = h] /\ used' = (used + 1) % IDX
      /\ inflight' = inflight \ {h}
  BY Zenon DEF DevComplete
<1>7. UNCHANGED <<vdisk_lock, free, desc, ops, info, avail, avail_ring, used_idx, bdisk, ipc,
                  pc, arg, idx, last_avail>>
  BY Zenon DEF DevComplete, tvars
<1>8. /\ bdata' \in [Buf -> Val] /\ sector' \in [Buf -> Val] /\ bdata'[b] = sector'[b]
      /\ \A c \in Buf \ {b} : bdata'[c] = bdata[c] /\ sector'[c] = sector[c]
  BY <1>5, Zenon DEF RInv, RingTypes
<1>9. RingTypes'
  <2>1. used \in Int
    BY Moduli DEF RInv, RingTypes, Idx
  <2>2. used + 1 \in Int
    BY <2>1
  <2>3. used' \in Idx
    BY <2>2, <1>6, Moduli, Remainder, Zenon DEF Idx
  <2>4. used_ring' \in [Desc -> Desc] /\ status' \in [Desc -> BOOLEAN]
    BY <1>5, <1>6, Zenon DEF RInv, RingTypes
  <2> QED
    BY <2>3, <2>4, <1>6, <1>7, <1>8, Zenon DEF RInv, RingTypes
<1>10. Locked' /\ Args' /\ Scarce' /\ Filled' /\ Entered'
  BY <1>7 DEF RInv, Locked, Args, Scarce, Filled, Entered
<1>11. ASSUME NEW v \in Thread, v # u, pc[v] \in Waiting
       PROVE  arg[v].b \in Buf \ {b} /\ idx[v][1] # h
  <2>1. arg[v].b \in Buf \ {b}
    BY <1>3, <1>11, NoneAssumption, Zenon DEF RInv, Args, Waiting
  <2>2. pc[v] \in Holding /\ pc[u] \in Holding
    BY <1>2, <1>11, Zenon DEF Waiting, Holding
  <2>3. idx[v][1] # idx[u][1]
    BY <2>2, <1>11 DEF IInv, Apart
  <2> QED
    BY <2>1, <2>3, <1>2, Zenon
<1>12. Transferred'
  <2> SUFFICES ASSUME NEW v \in Thread, pc[v] \in Waiting, ~bdisk[arg[v].b]
               PROVE  bdata'[arg[v].b] = sector'[arg[v].b]
    BY <1>7, Zenon DEF Transferred, Waiting
  <2>1. v # u
    BY <1>2, Zenon
  <2>2. bdata[arg[v].b] = sector[arg[v].b]
    BY Zenon DEF RInv, Transferred, Waiting
  <2> QED
    BY <2>1, <2>2, <1>8, <1>11, Zenon
<1>13. \A x : Pending(x) => Pending(x)' /\ x \in Desc
  <2>1. \A v \in Thread : idx[v][1] \in Desc
    BY Fields, Zenon
  <2> QED
    BY <2>1, <1>7, Zenon DEF Pending
<1>14. Moved(h)'
  <2>1. status'[h]
    BY <1>5, Zenon DEF RInv, RingTypes
  <2> QED
    BY <2>1, <1>3, <1>7, <1>8, <1>11, Zenon DEF Moved
<1>15. ASSUME NEW x \in Desc, x # h, Moved(x) PROVE Moved(x)'
  <2>1. status'[x]
    BY <1>5, <1>15, Zenon DEF RInv, RingTypes, Moved
  <2>2. \A v \in Thread : pc[v] \in Waiting /\ x = idx[v][1] => v # u
    BY <1>2, <1>15, Zenon
  <2> QED
    BY <2>1, <2>2, <1>7, <1>8, <1>11, <1>15, Zenon DEF Moved
<1>16. ULen < NUM
  BY Zenon
<1>17. PICK n \in Nat : n = ULen
  BY <1>6, <1>7, <1>16, UsedPut, Zenon DEF RInv
<1>18. /\ ULen' = n + 1 /\ ALen' = ALen
       /\ \A k \in 0 .. n : UsedAt(k)' = IF k = n THEN h ELSE UsedAt(k)
       /\ \A k : AvailAt(k)' = AvailAt(k)
  <2>1. ULen' = n + 1 /\ \A k \in 0 .. n : UsedAt(k)' = IF k = n THEN h ELSE UsedAt(k)
    BY <1>6, <1>7, <1>16, <1>17, UsedPut, Zenon DEF RInv
  <2> QED
    BY <2>1, <1>7, Zenon DEF ALen, AvailAt
<1>19. Staged'
  <2>1. \A k \in 0 .. n - 1 : /\ Pending(UsedAt(k)) /\ UsedAt(k) \notin inflight /\ Moved(UsedAt(k))
                              /\ UsedAt(k) # h
    BY <1>1, <1>17, Zenon DEF RInv, Staged
  <2>2. ASSUME NEW k \in 0 .. n
        PROVE  /\ Pending(UsedAt(k))' /\ UsedAt(k)' \notin inflight' /\ Moved(UsedAt(k))'
               /\ \A j \in 0 .. ALen - 1 : AvailAt(j) # UsedAt(k)'
    <3>1. CASE k = n
      <4>1. UsedAt(k)' = h
        BY <3>1, <1>18, Zenon
      <4>2. Pending(h)' /\ \A j \in 0 .. ALen - 1 : AvailAt(j) # h
        BY <1>1, <1>13, Zenon DEF RInv, Staged
      <4> QED
        BY <4>1, <4>2, <1>6, <1>14, Zenon
    <3>2. CASE k \in 0 .. n - 1
      <4>1. UsedAt(k)' = UsedAt(k)
        BY <3>2, <1>18
      <4>2. \A j \in 0 .. ALen - 1 : AvailAt(j) # UsedAt(k)
        BY <3>2, <1>17, Zenon DEF RInv, Staged
      <4> QED
        BY <3>2, <4>1, <4>2, <2>1, <1>6, <1>13, <1>15, Zenon
    <3> QED
      BY <3>1, <3>2
  <2>3. \A j, k \in 0 .. n : j # k => UsedAt(j)' # UsedAt(k)'
    <3>1. \A j, k \in 0 .. n - 1 : j # k => UsedAt(j) # UsedAt(k)
      BY <1>17, Zenon DEF RInv, Staged
    <3>2. \A k \in 0 .. n : k = n \/ k \in 0 .. n - 1
      OBVIOUS
    <3> QED
      BY <3>1, <3>2, <2>1, <1>18, Zenon
  <2>4. 0 .. ULen' - 1 = 0 .. n
    BY <1>18
  <2>5. /\ \A k \in 0 .. ALen - 1 : Pending(AvailAt(k))' /\ AvailAt(k) \notin inflight'
        /\ \A j, k \in 0 .. ALen - 1 : j # k => AvailAt(j) # AvailAt(k)
        /\ \A x \in inflight' : Pending(x)'
    BY <1>6, <1>13, <1>18, Zenon DEF RInv, Staged
  <2> QED
    BY <2>2, <2>3, <2>4, <2>5, <1>18, Zenon DEF Staged
<1> QED
  BY <1>9, <1>10, <1>12, <1>19, Zenon DEF RInv

-----------------------------------------------------------------------------
(* Counting.                                                               *)
(* c different members of a set of size s: c is at most s, and they are a  *)
(* set of c.                                                               *)
LEMMA Pigeons ==
    ASSUME NEW c \in Nat, NEW S, IsFiniteSet(S), NEW f \in [0 .. c - 1 -> S],
           \A j, k \in 0 .. c - 1 : j # k => f[j] # f[k]
    PROVE  /\ c <= Cardinality(S)
           /\ Cardinality({f[k] : k \in 0 .. c - 1}) = c
<1> DEFINE T == {f[k] : k \in 0 .. c - 1}
<1>1. IsFiniteSet(0 .. c - 1) /\ Cardinality(0 .. c - 1) = c
  BY FS_Interval
<1>2. f \in Injection(0 .. c - 1, S)
  BY Zenon DEF Injection, IsInjective
<1>3. c <= Cardinality(S)
  BY <1>1, <1>2, FS_Injection
<1>4. f \in Bijection(0 .. c - 1, T)
  BY Zenon DEF Bijection, Injection, Surjection, IsInjective
<1>5. Cardinality(T) = Cardinality(0 .. c - 1)
  BY <1>1, <1>4, FS_Bijection, Zenon DEF ExistsBijection
<1> QED
  BY <1>1, <1>3, <1>5

(* A set of numbers has a smallest one.                                    *)
LEMMA Smallest ==
    ASSUME NEW T, T \subseteq Nat, T # {}
    PROVE  \E x \in T : \A y \in T : x <= y
<1>1. PICK x \in T : \A y \in T : ~(<<y, x>> \in OpToRel(<, Nat))
  BY WFMin, NatLessThanWellFounded, Zenon
<1>2. \A y \in T : ~(y < x)
  BY <1>1, Zenon DEF OpToRel
<1> QED
  BY <1>2

(* The avail ring has an entry to spare for it.                            *)
LEMMA AvailRoom ==
    ASSUME IInv, RingTypes, Staged, NEW t \in Thread, pc[t] \in {"fill", "publish"}
    PROVE  ALen < NUM
<1> DEFINE S == Desc \ {idx[t][1]}
           f == [k \in 0 .. ALen - 1 |-> AvailAt(k)]
<1>1. ALen \in Nat /\ \A k \in Int : AvailAt(k) \in Desc
  BY Windows, Moduli
<1>2. idx[t][1] \in Desc
  BY Fields, Zenon
<1>3. IsFiniteSet(Desc) /\ Cardinality(Desc) = NUM
  BY FS_Interval, Moduli DEF Desc
<1>4. IsFiniteSet(S) /\ Cardinality(S) = NUM - 1
  BY <1>2, <1>3, FS_RemoveElement, Zenon
<1>5. ~Pending(idx[t][1])
  BY NotPending, Zenon
<1>6. f \in [0 .. ALen - 1 -> S]
  BY <1>1, <1>5 DEF Staged
<1>7. \A j, k \in 0 .. ALen - 1 : j # k => f[j] # f[k]
  BY Zenon DEF Staged
<1> HIDE DEF f, S
<1>8. ALen <= Cardinality(S)
  BY <1>1, <1>4, <1>6, <1>7, Pigeons, Zenon
<1> QED
  BY <1>1, <1>4, <1>8, Moduli

(* So has the used ring while the device works on a chain.                 *)
LEMMA UsedRoom ==
    ASSUME IInv, RingTypes, Staged, NEW h \in inflight
    PROVE  ULen < NUM
<1> DEFINE S == Desc \ {h}
           f == [k \in 0 .. ULen - 1 |-> UsedAt(k)]
<1>1. ULen \in Nat /\ \A k \in Int : UsedAt(k) \in Desc
  BY Windows, Moduli
<1>2. h \in Desc
  BY Zenon DEF RingTypes
<1>3. IsFiniteSet(Desc) /\ Cardinality(Desc) = NUM
  BY FS_Interval, Moduli DEF Desc
<1>4. IsFiniteSet(S) /\ Cardinality(S) = NUM - 1
  BY <1>2, <1>3, FS_RemoveElement, Zenon
<1>5. f \in [0 .. ULen - 1 -> S]
  BY <1>1 DEF Staged
<1>6. \A j, k \in 0 .. ULen - 1 : j # k => f[j] # f[k]
  BY Zenon DEF Staged
<1> HIDE DEF f, S
<1>7. ULen <= Cardinality(S)
  BY <1>1, <1>4, <1>5, <1>6, Pigeons, Zenon
<1> QED
  BY <1>1, <1>4, <1>7, Moduli

(* alloc3_desc fails only when fewer than three descriptors are free.      *)
LEMMA ThreeLowest ==
    ASSUME NEW a \in Desc, NEW b \in Desc, NEW c \in Desc,
           free[a], free[b], free[c], a # b, a # c, b # c
    PROVE  \E i, j, k \in Desc : Lowest3(i, j, k)
<1> DEFINE F == {m \in Desc : free[m]}
<1>1. F \subseteq Nat /\ a \in F /\ b \in F /\ c \in F
  BY DescNat, Zenon
<1>2. PICK i \in F : \A y \in F : i <= y
  BY <1>1, Smallest, Zenon
<1>3. F \ {i} \subseteq Nat /\ F \ {i} # {}
  BY <1>1
<1>4. PICK j \in F \ {i} : \A y \in F \ {i} : j <= y
  <2> HIDE DEF F
  <2> QED
    BY <1>3, Smallest, Zenon
<1>5. F \ {i, j} \subseteq Nat /\ F \ {i, j} # {}
  BY <1>1
<1>6. PICK k \in F \ {i, j} : \A y \in F \ {i, j} : k <= y
  <2> HIDE DEF F
  <2> QED
    BY <1>5, Smallest, Zenon
<1>7. i \in Nat /\ j \in Nat /\ k \in Nat
  BY <1>1, Zenon
<1>8. i < j /\ j < k
  BY <1>2, <1>4, <1>6, <1>7
<1>9. \A m \in Desc : free[m] /\ m < k => m \in {i, j}
  BY <1>1, <1>6, <1>7
<1> QED
  BY <1>8, <1>9 DEF Lowest3

(* Then the thread sleeps.                                                 *)
LEMMA Alloc3FailsRInv == ASSUME IInv, RInv, NEW t \in Thread, Alloc3Fails(t) PROVE RInv'
<1>1. /\ pc[t] = "get" /\ pc'[t] = "nofree"
      /\ \A u \in Thread \ {t} : pc'[u] = pc[u] \/ (pc[u] = "nofree" /\ pc'[u] = "get")
      /\ \A i, j, k \in Desc : ~Lowest3(i, j, k)
  BY Zenon DEF Alloc3Fails, WokenFree, IInv, DiskTypes
<1>2. UNCHANGED <<vdisk_lock, free, desc, ops, info, status, avail, avail_ring, used, used_ring,
                  used_idx, bdisk, bdata, ipc, arg, idx, last_avail, inflight, sector>>
  BY Zenon DEF Alloc3Fails, dvars
<1>3. RingTypes'
  BY <1>2, Zenon DEF RInv, RingTypes
<1>4. Locked'
  BY <1>1, <1>2 DEF RInv, Locked
<1>5. Args'
  BY <1>1, <1>2 DEF RInv, Args
<1>6. Scarce'
  <2>1. ASSUME NEW i \in Desc, NEW j \in Desc, NEW k \in Desc, free[i], free[j], free[k]
        PROVE  i = j \/ i = k \/ j = k
    BY <2>1, <1>1, ThreeLowest
  <2> QED
    BY <2>1, <1>2 DEF Scarce
<1>7. \A u \in Thread : pc[u] \in Chained \/ pc'[u] \in Chained => pc'[u] = pc[u]
  BY <1>1 DEF Chained
<1>8. Waiting \subseteq Chained
  BY Zenon DEF Waiting, Chained
<1>9. Filled' /\ Staged' /\ Entered' /\ Transferred'
  BY <1>2, <1>7, <1>8, Still
<1> QED
  BY <1>3, <1>4, <1>5, <1>6, <1>9 DEF RInv

(* The invariant of the rings is inductive with that of the table.         *)
LEMMA NextRInv == IInv /\ RInv /\ [Next]_vars => RInv'
<1> SUFFICES ASSUME IInv, RInv, [Next]_vars PROVE RInv'
  OBVIOUS
<1>1. CASE UNCHANGED vars
  <2>1. RingTypes' /\ Locked' /\ Args' /\ Scarce'
    BY <1>1 DEF vars, tvars, dvars, RInv, RingTypes, Locked, Args, Scarce
  <2>2. Filled' /\ Staged' /\ Entered' /\ Transferred'
    BY <1>1, Still, Zenon DEF vars, tvars, dvars
  <2> QED
    BY <2>1, <2>2 DEF RInv
<1>2. CASE \E t \in Thread, b \in Buf, write \in BOOLEAN, v \in Val : Call(t, b, write, v)
  BY <1>2, CallRInv
<1>3. CASE \E t \in Thread : ThreadStep(t)
  <2>1. ASSUME NEW t \in Thread, Fill(t) \/ Publish(t) PROVE RInv'
    <3>1. ALen < NUM
      <4>1. CASE Fill(t)
        <5>1. pc[t] = "fill"
          BY <4>1, Zenon DEF Fill, FillChain
        <5> QED
          BY <5>1, AvailRoom DEF RInv
      <4>2. CASE Publish(t)
        <5>1. pc[t] = "publish"
          BY <4>2, Zenon DEF Publish
        <5> QED
          BY <5>1, AvailRoom DEF RInv
      <4> QED
        BY <2>1, <4>1, <4>2
    <3> QED
      BY <2>1, <3>1, FillRInv, PublishRInv
  <2> QED
    BY <1>3, <2>1, Alloc3RInv, Alloc3FailsRInv, SleepRInv, FinishRInv DEF ThreadStep
<1>4. CASE Intr
  BY <1>4, LockRInv, IntrTakeRInv DEF Intr
<1>5. CASE Device
  <2>1. ASSUME NEW h \in Desc, DevComplete(h) PROVE RInv'
    <3>1. ULen < NUM
      BY <2>1, UsedRoom, Zenon DEF RInv, DevComplete
    <3> QED
      BY <2>1, <3>1, DevCompleteRInv
  <2> QED
    BY <1>5, <2>1, DevTakeRInv, LockRInv DEF Device
<1> QED
  BY <1>1, <1>2, <1>3, <1>4, <1>5 DEF Next

(* Every reachable state of the driver and the device satisfies both       *)
(* invariants.                                                             *)
THEOREM RingInvariance == Spec => [](IInv /\ RInv)
<1>1. Init => IInv /\ RInv
  BY InitIInv, InitRInv, Zenon
<1>2. IInv /\ RInv /\ [Next]_vars => (IInv /\ RInv)'
  BY NextIInv, NextRInv
<1> QED
  BY <1>1, <1>2, PTL DEF Spec

(* The device never sees a chain whose request is over: what is in the     *)
(* unread part of the avail ring or in flight has a thread in              *)
(* virtio_disk_rw that waits for it.                                       *)
THEOREM DeviceLive == Spec => []DeviceSeesLive
<1>1. IInv /\ RInv => DeviceSeesLive
  <2> SUFFICES ASSUME IInv, RInv, NEW h \in Published \cup inflight
               PROVE  \E t \in Thread : /\ pc[t] \in Waiting
                                        /\ h = idx[t][1] /\ Chain(h) = Owned(t)
                                        /\ info[h] = arg[t].b /\ bdisk[arg[t].b]
    BY Zenon DEF DeviceSeesLive, Waiting
  <2>1. Pending(h)
    <3>1. Published = {AvailAt(k) : k \in 0 .. ALen - 1}
      BY UnreadEntries, Zenon DEF RInv
    <3> QED
      BY <3>1 DEF RInv, Staged
  <2>2. PICK t \in Thread : pc[t] \in Waiting /\ h = idx[t][1] /\ bdisk[arg[t].b]
    BY <2>1 DEF Pending
  <2>3. pc[t] \in Chained /\ pc[t] \in Holding
    BY <2>2, Zenon DEF Waiting, Chained, Holding
  <2>4. Chain(h) = {idx[t][1], idx[t][2], idx[t][3]}
    BY <2>2, <2>3, ChainOwned
  <2>5. Owned(t) = {idx[t][1], idx[t][2], idx[t][3]}
    BY <2>3 DEF Owned, Holding
  <2>6. info[h] = arg[t].b
    BY <2>2, <2>3 DEF RInv, Filled
  <2> QED
    BY <2>2, <2>4, <2>5, <2>6
<1> QED
  BY <1>1, RingInvariance, PTL

(* When the loop on b->disk in virtio_disk_rw ends, the block and the      *)
(* buffer agree.                                                           *)
THEOREM TransferMade == Spec => []Transferred
<1>1. IInv /\ RInv => Transferred
  BY DEF RInv
<1> QED
  BY <1>1, RingInvariance, PTL

(* Neither side overwrites an entry of its ring that the other has not     *)
(* read, however far the indices have wrapped: there are never more        *)
(* requests than descriptors.                                              *)
THEOREM EntriesKept == Spec => []RingsHold
<1>1. IInv /\ RInv => RingsHold
  <2> SUFFICES ASSUME IInv, RInv PROVE RingsHold
    OBVIOUS
  <2> DEFINE f == [k \in 0 .. ALen - 1 |-> AvailAt(k)]
             g == [k \in 0 .. ULen - 1 |-> UsedAt(k)]
  <2>1. /\ ALen \in Nat /\ ULen \in Nat
        /\ \A k \in Int : AvailAt(k) \in Desc /\ UsedAt(k) \in Desc
    BY Windows, Moduli DEF RInv
  <2>2. IsFiniteSet(Desc)
    BY FS_Interval, Moduli DEF Desc
  <2>3. f \in [0 .. ALen - 1 -> Desc] /\ g \in [0 .. ULen - 1 -> Desc]
    BY <2>1
  <2>4. /\ \A j, k \in 0 .. ALen - 1 : j # k => f[j] # f[k]
        /\ \A j, k \in 0 .. ULen - 1 : j # k => g[j] # g[k]
    BY Zenon DEF RInv, Staged
  <2>5. /\ {f[k] : k \in 0 .. ALen - 1} = Published
        /\ {g[k] : k \in 0 .. ULen - 1} = {used_ring[n % NUM] : n \in Unread(used_idx, used)}
    BY UnreadEntries, Zenon DEF RInv
  <2> HIDE DEF f, g
  <2>6. /\ Cardinality({f[k] : k \in 0 .. ALen - 1}) = ALen
        /\ Cardinality({g[k] : k \in 0 .. ULen - 1}) = ULen
    BY <2>1, <2>2, <2>3, <2>4, Pigeons
  <2> QED
    BY <2>5, <2>6, Zenon DEF RingsHold, ALen, ULen
<1> QED
  BY <1>1, RingInvariance, PTL

(* Neither free_desc nor virtio_disk_intr panics: no descriptor is freed   *)
(* twice, and the handler finds the buffer, served, of every completion.   *)
THEOREM NeverPanics == Spec => []NoPanic
<1>1. IInv /\ RInv => NoPanic
  BY Zenon DEF IInv, DiskTypes, Place, RInv, RingTypes, NoPanic
<1> QED
  BY <1>1, RingInvariance, PTL

(* A thread sleeps in virtio_disk_rw for descriptors only while fewer than *)
(* three are free: free_chain wakes it before they could be.               *)
THEOREM SleepersWoken == Spec => []NoSleeperOnFreeDescriptors
<1>1. IInv /\ RInv => NoSleeperOnFreeDescriptors
  <2> DEFINE F == {i \in Desc : free[i]}
  <2> SUFFICES ASSUME RInv, NEW t \in Thread, pc[t] = "nofree" PROVE Cardinality(F) < 3
    BY Zenon DEF NoSleeperOnFreeDescriptors
  <2>1. IsFiniteSet(F)
    <3>1. IsFiniteSet(Desc)
      BY FS_Interval, Moduli DEF Desc
    <3> QED
      BY <3>1, FS_Subset, Zenon
  <2>2. \A i, j, k \in F : i = j \/ i = k \/ j = k
    BY Zenon DEF RInv, Scarce
  <2> HIDE DEF F
  <2>3. PICK n \in Nat : n = Cardinality(F)
    BY <2>1, FS_CardinalityType, Zenon
  <2>4. CASE F = {}
    <3>1. Cardinality({}) = 0
      BY FS_EmptySet, Zenon
    <3> QED
      BY ONLY <2>4, <3>1
  <2>5. CASE \E i \in F : F \ {i} = {}
    <3>1. PICK i \in F : F \ {i} = {}
      BY <2>5, Zenon
    <3>2. F = {i}
      BY <3>1, Zenon
    <3>3. Cardinality({i}) = 1
      BY FS_Singleton, Zenon
    <3> QED
      BY ONLY <3>2, <3>3
  <2>6. CASE \E i, j \in F : i # j
    <3>1. PICK i \in F, j \in F : i # j
      BY <2>6, Zenon
    <3>2. F = {i} \cup {j}
      BY <3>1, <2>2
    <3>3. IsFiniteSet({i}) /\ Cardinality({i}) = 1
      BY FS_Singleton, Zenon
    <3>4. Cardinality({i} \cup {j}) = Cardinality({i}) + 1
      <4>1. j \notin {i}
        BY <3>1, Zenon
      <4> QED
        BY <4>1, <3>3, FS_AddElement, Zenon
    <3> QED
      BY ONLY <3>2, <3>3, <3>4
  <2> QED
    BY <2>4, <2>5, <2>6, Zenon
<1> QED
  BY <1>1, RingInvariance, PTL
=============================================================================
