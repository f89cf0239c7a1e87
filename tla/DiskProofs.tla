----------------------------- MODULE DiskProofs -----------------------------
(* The disk driver, for any number of threads, buffers and descriptors and *)
(* any width of the ring indices.  First the descriptor table, which stays *)
(* partitioned among the requests; then the rings, the device and the      *)
(* interrupt handler.                                                      *)
EXTENDS Disk, Rings

Place == {"idle", "get", "nofree", "fill", "publish", "wait", "asleep", "relock"}
Holding == {"fill", "publish", "wait", "asleep", "relock"}
Chained == {"publish", "wait", "asleep", "relock"}

(* The types, with a thread never at the panic of free_desc.               *)
DiskTypes ==
    /\ free \in [Desc -> BOOLEAN]
    /\ desc \in [Desc -> [addr : Desc \cup Buf \cup {None}, more : BOOLEAN, next : Desc]]
    /\ pc \in [Thread -> Place]
    /\ idx \in [Thread -> [1 .. 3 -> Desc]]
    /\ arg \in [Thread -> [b : Buf \cup {None}, write : BOOLEAN]]

(* From Fill on the three descriptors are linked in their order, so that   *)
(* free_chain visits just them.                                            *)
Linked ==
    \A t \in Thread : pc[t] \in Chained =>
        /\ desc[idx[t][1]].more /\ desc[idx[t][1]].next = idx[t][2]
        /\ desc[idx[t][2]].more /\ desc[idx[t][2]].next = idx[t][3]

(* The partition by place in idx.                                          *)
Apart ==
    /\ \A i \in Desc : free[i] <=>
         \A t \in Thread : pc[t] \in Holding => \A n \in 1 .. 3 : idx[t][n] # i
    /\ \A t, u \in Thread : pc[t] \in Holding /\ pc[u] \in Holding /\ t # u =>
         \A m, n \in 1 .. 3 : idx[t][m] # idx[u][n]
    /\ \A t \in Thread : pc[t] \in Holding =>
         idx[t][1] # idx[t][2] /\ idx[t][1] # idx[t][3] /\ idx[t][2] # idx[t][3]

IInv == DiskTypes /\ Linked /\ Apart

(* There is a descriptor 0, and descriptors are ordered as numbers.        *)
LEMMA DescNat == 0 \in Desc /\ Desc \subseteq Nat
  BY NUMAssumption DEF Desc

(* What a thread's request names.                                          *)
LEMMA Fields ==
    ASSUME IInv, NEW t \in Thread
    PROVE  /\ idx[t][1] \in Desc /\ idx[t][2] \in Desc /\ idx[t][3] \in Desc
           /\ arg[t].b \in Buf \cup {None}
<1>1. idx[t] \in [1 .. 3 -> Desc]
  BY Zenon DEF IInv, DiskTypes
<1>2. arg[t] \in [b : Buf \cup {None}, write : BOOLEAN]
  BY Zenon DEF IInv, DiskTypes
<1> QED
  BY <1>1, <1>2

(* Initially all descriptors are free and nobody has any.                  *)
LEMMA InitIInv == Init => IInv
<1> SUFFICES ASSUME Init PROVE IInv
  BY Zenon
<1>1. DiskTypes
  <2>1. 0 \in Desc
    BY DescNat, Zenon
  <2>2. idx \in [Thread -> [1 .. 3 -> Desc]]
    BY <2>1, Zenon DEF Init
  <2>3. desc \in [Desc -> [addr : Desc \cup Buf \cup {None}, more : BOOLEAN, next : Desc]]
    BY <2>1, Zenon DEF Init, NoDesc
  <2> QED
    BY <2>2, <2>3, Zenon DEF Init, DiskTypes, Place, NoArg
<1>2. Linked
  BY Zenon DEF Init, Linked, Chained
<1>3. Apart
  BY Zenon DEF Init, Apart, Holding
<1> QED
  BY <1>1, <1>2, <1>3, Zenon DEF IInv

(* free_chain from the head of a linked request visits its descriptors.    *)
LEMMA ChainOwned ==
    ASSUME IInv, NEW t \in Thread, pc[t] \in Chained
    PROVE  Chain(idx[t][1]) = {idx[t][1], idx[t][2], idx[t][3]}
  BY Zenon DEF IInv, Linked, Chain

(* A step that moves threads only among places that agree on holding and   *)
(* being linked, and leaves the table alone, keeps the invariant.          *)
LEMMA StaysIInv ==
    ASSUME IInv, pc' \in [Thread -> Place], UNCHANGED <<free, desc, idx>>,
           arg' \in [Thread -> [b : Buf \cup {None}, write : BOOLEAN]],
           \A t \in Thread : /\ pc'[t] \in Holding <=> pc[t] \in Holding
                             /\ pc'[t] \in Chained => pc[t] \in Chained
    PROVE  IInv'
<1>1. DiskTypes'
  BY Zenon DEF IInv, DiskTypes
<1>2. Linked'
  BY Zenon DEF IInv, Linked
<1>3. Apart'
  BY DEF IInv, Apart
<1> QED
  BY <1>1, <1>2, <1>3, Zenon DEF IInv

(* Alloc3 gives a thread three free descriptors.                           *)
LEMMA Alloc3IInv == ASSUME IInv, NEW t \in Thread, Alloc3(t) PROVE IInv'
<1>a. PICK i, j, k \in Desc :
        /\ Lowest3(i, j, k)
        /\ free' = [free EXCEPT ![i] = FALSE, ![j] = FALSE, ![k] = FALSE]
        /\ idx' = [idx EXCEPT ![t] = [n \in 1 .. 3 |-> IF n = 1 THEN i ELSE IF n = 2 THEN j ELSE k]]
  BY Zenon DEF Alloc3
<1>b. i # j /\ i # k /\ j # k /\ free[i] /\ free[j] /\ free[k]
  BY <1>a, DescNat DEF Lowest3
<1>1. /\ i # j /\ i # k /\ j # k /\ free[i] /\ free[j] /\ free[k]
      /\ free' = [free EXCEPT ![i] = FALSE, ![j] = FALSE, ![k] = FALSE]
      /\ idx' = [idx EXCEPT ![t] = [n \in 1 .. 3 |-> IF n = 1 THEN i ELSE IF n = 2 THEN j ELSE k]]
  BY <1>a, <1>b, Zenon
<1>2. pc[t] = "get" /\ pc' = [pc EXCEPT ![t] = "fill"] /\ UNCHANGED <<desc, arg>>
  BY Zenon DEF Alloc3
<1>3. DiskTypes'
  <2>1. idx' \in [Thread -> [1 .. 3 -> Desc]]
    BY <1>1, Zenon DEF IInv, DiskTypes
  <2>2. free' \in [Desc -> BOOLEAN]
    BY <1>1, Zenon DEF IInv, DiskTypes
  <2>3. pc' \in [Thread -> Place]
    BY <1>2, Zenon DEF IInv, DiskTypes, Place
  <2> QED
    BY <2>1, <2>2, <2>3, <1>2, Zenon DEF IInv, DiskTypes
<1>4. /\ idx'[t][1] = i /\ idx'[t][2] = j /\ idx'[t][3] = k
      /\ \A u \in Thread \ {t} : idx'[u] = idx[u] /\ pc'[u] = pc[u]
      /\ pc'[t] = "fill"
  BY <1>1, <1>2 DEF IInv, DiskTypes
<1>5. Linked'
  BY <1>2, <1>4 DEF IInv, Linked, Chained
<1>6. \A u \in Thread : pc[u] \in Holding => \A n \in 1 .. 3 : idx[u][n] \notin {i, j, k}
  BY <1>1, Zenon DEF IInv, Apart
<1>7. \A n \in 1 .. 3 : idx'[t][n] \in {i, j, k}
  BY <1>4
<1>8. t \in Thread /\ pc[t] \notin Holding /\ pc'[t] \in Holding
  BY <1>2, <1>4, Zenon DEF Holding
<1>9. Apart'
  <2>1. ASSUME NEW d \in Desc
        PROVE  free'[d] <=> \A u \in Thread : pc'[u] \in Holding => \A n \in 1 .. 3 : idx'[u][n] # d
    <3>1. CASE d \in {i, j, k}
      <4>1. ~free'[d]
        BY <3>1, <1>1, Zenon DEF IInv, DiskTypes
      <4>2. \E n \in 1 .. 3 : idx'[t][n] = d
        BY <3>1, <1>4
      <4> QED
        BY <4>1, <4>2, <1>8, Zenon
    <3>2. CASE d \notin {i, j, k}
      <4>1. free'[d] = free[d]
        BY <3>2, <1>1, Zenon DEF IInv, DiskTypes
      <4>2. free[d] <=> \A u \in Thread : pc[u] \in Holding => \A n \in 1 .. 3 : idx[u][n] # d
        BY Zenon DEF IInv, Apart
      <4> QED
        BY <3>2, <4>1, <4>2, <1>4, <1>7, <1>8
    <3> QED
      BY <3>1, <3>2, Zenon
  <2>2. ASSUME NEW u \in Thread, NEW v \in Thread, pc'[u] \in Holding, pc'[v] \in Holding, u # v,
               NEW m \in 1 .. 3, NEW n \in 1 .. 3
        PROVE  idx'[u][m] # idx'[v][n]
    <3>1. CASE u = t
      BY <3>1, <2>2, <1>4, <1>6, <1>7
    <3>2. CASE v = t
      BY <3>2, <2>2, <1>4, <1>6, <1>7
    <3>3. CASE u # t /\ v # t
      BY <3>3, <2>2, <1>4 DEF IInv, Apart
    <3> QED
      BY <3>1, <3>2, <3>3, Zenon
  <2>3. ASSUME NEW u \in Thread, pc'[u] \in Holding
        PROVE  idx'[u][1] # idx'[u][2] /\ idx'[u][1] # idx'[u][3] /\ idx'[u][2] # idx'[u][3]
    <3>1. CASE u = t
      <4>1. i # j /\ i # k /\ j # k
        BY <1>1, Zenon
      <4> QED
        BY <3>1, <4>1, <1>4, Zenon
    <3>2. CASE u # t
      BY <3>2, <2>3, <1>4 DEF IInv, Apart
    <3> QED
      BY <3>1, <3>2, Zenon
  <2> QED
    BY <2>1, <2>2, <2>3 DEF Apart
<1> QED
  BY <1>3, <1>5, <1>9, Zenon DEF IInv

(* Fill writes only the descriptors of its own request.                    *)
LEMMA FillIInv == ASSUME IInv, NEW t \in Thread, Fill(t) PROVE IInv'
<1> DEFINE h == idx[t][1]
           m == idx[t][2]
           l == idx[t][3]
<1>1. /\ pc[t] = "fill" /\ pc' = [pc EXCEPT ![t] = "publish"] /\ UNCHANGED <<free, arg, idx>>
      /\ desc' = [desc EXCEPT ![h] = [addr |-> h, more |-> TRUE, next |-> m],
                              ![m] = [addr |-> arg[t].b, more |-> TRUE, next |-> l],
                              ![l] = [addr |-> h, more |-> FALSE, next |-> 0]]
  BY Zenon DEF Fill, FillChain
<1>2. h \in Desc /\ m \in Desc /\ l \in Desc /\ 0 \in Desc /\ arg[t].b \in Buf \cup {None}
  BY Fields, DescNat, Zenon
<1>3. h # m /\ h # l /\ m # l
  BY <1>1, Zenon DEF IInv, Apart, Holding
<1> HIDE DEF h, m, l
<1>4. DiskTypes'
  <2>1. desc' \in [Desc -> [addr : Desc \cup Buf \cup {None}, more : BOOLEAN, next : Desc]]
    BY <1>1, <1>2, Zenon DEF IInv, DiskTypes
  <2>2. pc' \in [Thread -> Place]
    BY <1>1, Zenon DEF IInv, DiskTypes, Place
  <2> QED
    BY <2>1, <2>2, <1>1, Zenon DEF IInv, DiskTypes
<1>5. /\ desc'[h].more /\ desc'[h].next = m
      /\ desc'[m].more /\ desc'[m].next = l
      /\ \A d \in Desc \ {h, m, l} : desc'[d] = desc[d]
  BY <1>1, <1>2, <1>3, Zenon DEF IInv, DiskTypes
<1>6. /\ \A u \in Thread \ {t} : pc'[u] = pc[u]
      /\ pc'[t] = "publish" /\ idx' = idx
  BY <1>1, Zenon DEF IInv, DiskTypes
<1>7. Linked'
  <2> SUFFICES ASSUME NEW u \in Thread, pc'[u] \in Chained
               PROVE  /\ desc'[idx[u][1]].more /\ desc'[idx[u][1]].next = idx[u][2]
                      /\ desc'[idx[u][2]].more /\ desc'[idx[u][2]].next = idx[u][3]
    BY <1>6, Zenon DEF Linked
  <2>1. CASE u = t
    BY <2>1, <1>5, Zenon DEF h, m, l
  <2>2. CASE u # t
    <3>1. pc[u] \in Chained /\ pc[u] \in Holding /\ pc[t] \in Holding
      BY <2>2, <1>1, <1>6, Zenon DEF Chained, Holding
    <3>2. \A n, k \in 1 .. 3 : idx[u][n] # idx[t][k]
      BY <3>1, <2>2 DEF IInv, Apart
    <3>3. idx[u][1] \in Desc \ {h, m, l} /\ idx[u][2] \in Desc \ {h, m, l}
      BY <3>2 DEF IInv, DiskTypes, h, m, l
    <3> QED
      BY <3>1, <3>3, <1>5 DEF IInv, Linked
  <2> QED
    BY <2>1, <2>2, Zenon
<1>8. Apart'
  <2>1. \A u \in Thread : pc'[u] \in Holding <=> pc[u] \in Holding
    BY <1>1, <1>6, Zenon DEF Holding
  <2> QED
    BY <2>1, <1>1 DEF IInv, Apart
<1> QED
  BY <1>4, <1>7, <1>8, Zenon DEF IInv

(* Finish gives back just the descriptors of its own request, none of them *)
(* free.                                                                   *)
LEMMA FinishIInv == ASSUME IInv, NEW t \in Thread, Finish(t) PROVE IInv'
<1> DEFINE mine == {idx[t][1], idx[t][2], idx[t][3]}
<1>1. pc[t] = "wait" /\ pc[t] \in Chained /\ pc[t] \in Holding
  BY Zenon DEF Finish, Chained, Holding
<1>2. Chain(idx[t][1]) = mine
  BY <1>1, ChainOwned, Zenon
<1>3. /\ desc' = [i \in Desc |-> IF i \in mine THEN NoDesc ELSE desc[i]]
      /\ free' = [i \in Desc |-> free[i] \/ i \in mine]
      /\ pc' = [WokenFree EXCEPT ![t] = IF \E i \in mine : free[i] THEN "panic" ELSE "idle"]
      /\ arg' = [arg EXCEPT ![t] = NoArg]
      /\ idx' = [idx EXCEPT ![t] = [n \in 1 .. 3 |-> 0]]
  BY <1>2, Zenon DEF Finish, Release
<1>4. mine \subseteq Desc /\ 0 \in Desc
  BY Fields, DescNat, Zenon
<1>5. \A i \in mine : ~free[i]
  BY <1>1, <1>4 DEF IInv, Apart
<1>6. pc' = [u \in Thread |-> IF u = t THEN "idle" ELSE IF pc[u] = "nofree" THEN "get" ELSE pc[u]]
  BY <1>3, <1>5, Zenon DEF WokenFree
<1>7. /\ \A u \in Thread : pc'[u] \in Holding <=> u # t /\ pc[u] \in Holding
      /\ \A u \in Thread : pc'[u] \in Chained => u # t /\ pc[u] \in Chained
  BY <1>6, Zenon DEF Holding, Chained
<1>8. \A u \in Thread \ {t} : idx'[u] = idx[u]
  BY <1>3, Zenon DEF IInv, DiskTypes
<1>9. \A u \in Thread : u # t /\ pc[u] \in Holding => \A n \in 1 .. 3 : idx[u][n] \in Desc \ mine
  <2>1. \A u \in Thread : u # t /\ pc[u] \in Holding => \A n \in 1 .. 3 : idx[u][n] \notin mine
    BY <1>1 DEF IInv, Apart
  <2>2. \A u \in Thread, n \in 1 .. 3 : idx[u][n] \in Desc
    BY DEF IInv, DiskTypes
  <2> QED
    BY <2>1, <2>2, Zenon
<1>10. DiskTypes'
  <2>1. desc' \in [Desc -> [addr : Desc \cup Buf \cup {None}, more : BOOLEAN, next : Desc]]
    BY <1>3, <1>4, Zenon DEF IInv, DiskTypes, NoDesc
  <2>2. free' \in [Desc -> BOOLEAN]
    BY <1>3, Zenon DEF IInv, DiskTypes
  <2>3. pc' \in [Thread -> Place]
    BY <1>6, Zenon DEF IInv, DiskTypes, Place
  <2>4. idx' \in [Thread -> [1 .. 3 -> Desc]]
    BY <1>3, <1>4, Zenon DEF IInv, DiskTypes
  <2>5. arg' \in [Thread -> [b : Buf \cup {None}, write : BOOLEAN]]
    BY <1>3, Zenon DEF IInv, DiskTypes, NoArg
  <2> QED
    BY <2>1, <2>2, <2>3, <2>4, <2>5, Zenon DEF DiskTypes
<1>11. Linked'
  <2> SUFFICES ASSUME NEW u \in Thread, pc'[u] \in Chained
               PROVE  /\ desc'[idx'[u][1]].more /\ desc'[idx'[u][1]].next = idx'[u][2]
                      /\ desc'[idx'[u][2]].more /\ desc'[idx'[u][2]].next = idx'[u][3]
    BY Zenon DEF Linked
  <2>1. u # t /\ pc[u] \in Chained /\ pc[u] \in Holding /\ idx'[u] = idx[u]
    BY <1>7, <1>8, Zenon DEF Holding, Chained
  <2>2. idx[u][1] \in Desc \ mine /\ idx[u][2] \in Desc \ mine
    BY <2>1, <1>9
  <2>3. desc'[idx[u][1]] = desc[idx[u][1]] /\ desc'[idx[u][2]] = desc[idx[u][2]]
    BY <2>2, <1>3, Zenon
  <2> QED
    BY <2>1, <2>3 DEF IInv, Linked
<1>12. Apart'
  <2>1. ASSUME NEW d \in Desc
        PROVE  free'[d] <=> \A u \in Thread : pc'[u] \in Holding => \A n \in 1 .. 3 : idx'[u][n] # d
    <3>1. CASE d \in mine
      <4>1. free'[d]
        BY <3>1, <1>3, Zenon
      <4> HIDE DEF mine
      <4>2. ASSUME NEW u \in Thread, pc'[u] \in Holding, NEW n \in 1 .. 3 PROVE idx'[u][n] # d
        BY <4>2, <3>1, <1>7, <1>8, <1>9, Zenon
      <4> QED
        BY <4>1, <4>2, Zenon
    <3>2. CASE d \notin mine
      <4>1. free'[d] = free[d]
        BY <3>2, <1>3, Zenon DEF IInv, DiskTypes
      <4>2. free[d] <=> \A u \in Thread : pc[u] \in Holding => \A n \in 1 .. 3 : idx[u][n] # d
        BY Zenon DEF IInv, Apart
      <4>3. \A n \in 1 .. 3 : idx[t][n] # d
        BY <3>2
      <4> QED
        BY <4>1, <4>2, <4>3, <1>7, <1>8
    <3> QED
      BY <3>1, <3>2, Zenon
  <2>2. ASSUME NEW u \in Thread, NEW v \in Thread, pc'[u] \in Holding, pc'[v] \in Holding, u # v,
               NEW m \in 1 .. 3, NEW n \in 1 .. 3
        PROVE  idx'[u][m] # idx'[v][n]
    BY <2>2, <1>7, <1>8 DEF IInv, Apart
  <2>3. ASSUME NEW u \in Thread, pc'[u] \in Holding
        PROVE  idx'[u][1] # idx'[u][2] /\ idx'[u][1] # idx'[u][3] /\ idx'[u][2] # idx'[u][3]
    BY <2>3, <1>7, <1>8, Zenon DEF IInv, Apart
  <2> QED
    BY <2>1, <2>2, <2>3 DEF Apart
<1> QED
  BY <1>10, <1>11, <1>12, Zenon DEF IInv

(* The other steps of threads, the handler and the device change no        *)
(* descriptor, and move no thread into or out of a request.                *)
LEMMA OtherIInv ==
    ASSUME IInv,
           \/ \E t \in Thread, b \in Buf, write \in BOOLEAN, v \in Val : Call(t, b, write, v)
           \/ \E t \in Thread : Alloc3Fails(t) \/ Publish(t) \/ Sleep(t) \/ Relock(t)
           \/ Intr
           \/ Device
    PROVE  IInv'
<1>1. CASE \E t \in Thread, b \in Buf, write \in BOOLEAN, v \in Val : Call(t, b, write, v)
  <2>1. PICK t \in Thread, b \in Buf, write \in BOOLEAN, v \in Val : Call(t, b, write, v)
    BY <1>1, Zenon
  <2>2. pc' \in [Thread -> Place] /\ arg' \in [Thread -> [b : Buf \cup {None}, write : BOOLEAN]]
    BY <2>1, Zenon DEF Call, IInv, DiskTypes, Place
  <2>3. \A u \in Thread : /\ pc'[u] \in Holding <=> pc[u] \in Holding
                          /\ pc'[u] \in Chained => pc[u] \in Chained
    BY <2>1, Zenon DEF Call, IInv, DiskTypes, Holding, Chained
  <2> QED
    BY <2>1, <2>2, <2>3, StaysIInv, Zenon DEF Call
<1>2. CASE \E t \in Thread : Alloc3Fails(t)
  <2>1. PICK t \in Thread : Alloc3Fails(t)
    BY <1>2, Zenon
  <2>2. /\ pc[t] = "get" /\ pc'[t] = "nofree" /\ pc' \in [Thread -> Place]
        /\ \A u \in Thread \ {t} : pc'[u] = pc[u] \/ (pc[u] = "nofree" /\ pc'[u] = "get")
    BY <2>1, Zenon DEF Alloc3Fails, WokenFree, IInv, DiskTypes, Place
  <2>3. \A u \in Thread : /\ pc'[u] \in Holding <=> pc[u] \in Holding
                          /\ pc'[u] \in Chained => pc[u] \in Chained
    BY <2>2, Zenon DEF Holding, Chained
  <2>4. arg' \in [Thread -> [b : Buf \cup {None}, write : BOOLEAN]] /\ UNCHANGED <<free, desc, idx>>
    BY <2>1, Zenon DEF Alloc3Fails, IInv, DiskTypes
  <2> QED
    BY <2>2, <2>3, <2>4, StaysIInv, Zenon
<1>3. CASE \E t \in Thread : Publish(t) \/ Sleep(t) \/ Relock(t)
  <2>1. PICK t \in Thread : Publish(t) \/ Sleep(t) \/ Relock(t)
    BY <1>3, Zenon
  <2>2. /\ pc[t] \in Chained /\ pc'[t] \in Chained /\ pc' \in [Thread -> Place]
        /\ \A u \in Thread \ {t} : pc'[u] = pc[u]
    BY <2>1 DEF Publish, Sleep, Relock, IInv, DiskTypes, Place, Chained
  <2>3. \A u \in Thread : /\ pc'[u] \in Holding <=> pc[u] \in Holding
                          /\ pc'[u] \in Chained => pc[u] \in Chained
    BY <2>2, Zenon DEF Holding, Chained
  <2>4. arg' \in [Thread -> [b : Buf \cup {None}, write : BOOLEAN]] /\ UNCHANGED <<free, desc, idx>>
    BY <2>1 DEF Publish, Sleep, Relock, IInv, DiskTypes
  <2> QED
    BY <2>2, <2>3, <2>4, StaysIInv, Zenon
<1>4. CASE Intr \/ Device
  <2>1. /\ pc' \in [Thread -> Place]
        /\ \A u \in Thread : pc'[u] = pc[u] \/ (pc[u] = "asleep" /\ pc'[u] = "relock")
    <3>1. CASE IntrTake
      BY <3>1 DEF IntrTake, IInv, DiskTypes, Place
    <3>2. CASE UNCHANGED pc
      BY <3>2, Zenon DEF IInv, DiskTypes
    <3> QED
      BY <3>1, <3>2, <1>4, Zenon DEF Intr, IntrGet, IntrDone, Device, DevTake, DevComplete, DevIntr, tvars
  <2>2. \A u \in Thread : /\ pc'[u] \in Holding <=> pc[u] \in Holding
                          /\ pc'[u] \in Chained => pc[u] \in Chained
    BY <2>1, Zenon DEF Holding, Chained
  <2>3. UNCHANGED <<free, desc, idx, arg>>
    BY <1>4, Zenon DEF Intr, IntrGet, IntrTake, IntrDone, Device, DevTake, DevComplete, DevIntr, tvars
  <2>4. arg' \in [Thread -> [b : Buf \cup {None}, write : BOOLEAN]]
    BY <2>3, Zenon DEF IInv, DiskTypes
  <2> QED
    BY <2>1, <2>2, <2>3, <2>4, StaysIInv, Zenon
<1> QED
  BY <1>1, <1>2, <1>3, <1>4, Zenon

(* The invariant is inductive.                                             *)
LEMMA NextIInv == IInv /\ [Next]_vars => IInv'
<1> SUFFICES ASSUME IInv, [Next]_vars PROVE IInv'
  BY Zenon
<1>1. CASE UNCHANGED vars
  BY <1>1, StaysIInv, Zenon DEF vars, tvars, IInv, DiskTypes
<1>2. CASE Next
  BY <1>2, Alloc3IInv, FillIInv, FinishIInv, OtherIInv, Zenon DEF Next, ThreadStep
<1> QED
  BY <1>1, <1>2, Zenon

(* Every reachable state of the driver satisfies the invariant.            *)
THEOREM Invariance == Spec => []IInv
  BY InitIInv, NextIInv, PTL DEF Spec

(* alloc3_desc and free_chain keep the descriptor table partitioned: a     *)
(* descriptor is free or in the request of exactly one thread.             *)
THEOREM Partition == Spec => []DescriptorsPartitioned
<1>1. IInv => DescriptorsPartitioned
  <2> SUFFICES ASSUME IInv PROVE DescriptorsPartitioned
    BY Zenon
  <2>1. \A t \in Thread : pc[t] \in Holding => Owned(t) = {idx[t][n] : n \in 1 .. 3}
    BY Zenon DEF Owned, Holding
  <2>2. \A t \in Thread : pc[t] \notin Holding => Owned(t) = {}
    BY Zenon DEF Owned, Holding
  <2>3. \A i \in Desc, t \in Thread :
          i \in Owned(t) <=> pc[t] \in Holding /\ \E n \in 1 .. 3 : idx[t][n] = i
    BY <2>1, <2>2
  <2>4. \A i \in Desc : free[i] <=> \A t \in Thread : i \notin Owned(t)
    BY <2>3 DEF IInv, Apart
  <2>5. \A t, u \in Thread : t # u => Owned(t) \cap Owned(u) = {}
    BY <2>1, <2>2 DEF IInv, Apart
  <2>6. \A t \in Thread : Owned(t) # {} =>
           idx[t][1] # idx[t][2] /\ idx[t][1] # idx[t][3] /\ idx[t][2] # idx[t][3]
    BY <2>2, Zenon DEF IInv, Apart
  <2> QED
    BY <2>4, <2>5, <2>6, Zenon DEF DescriptorsPartitioned
<1> QED
  BY <1>1, Invariance, PTL

-----------------------------------------------------------------------------
(* The rings.                                                              *)

Waiting == {"wait", "asleep", "relock"}

RingTypes ==
    /\ vdisk_lock \in Thread \cup {"intr", None}
    /\ ops \in [Desc -> [b : Buf \cup {None}, write : BOOLEAN]]
    /\ info \in [Desc -> Buf \cup {None}]
    /\ status \in [Desc -> BOOLEAN]
    /\ avail \in Idx /\ last_avail \in Idx /\ used \in Idx /\ used_idx \in Idx
    /\ avail_ring \in [Desc -> Desc] /\ used_ring \in [Desc -> Desc]
    /\ bdisk \in [Buf -> BOOLEAN]
    /\ bdata \in [Buf -> Val] /\ sector \in [Buf -> Val]
    /\ ipc \in {"idle", "loop"}
    /\ inflight \subseteq Desc

(* Whoever is between spin_get and spin_put, or sleep, holds vdisk_lock.   *)
Locked ==
    /\ \A t \in Thread : pc[t] \in {"fill", "publish", "wait"} => vdisk_lock = t
    /\ ipc = "loop" => vdisk_lock = "intr"

(* Each call is about a buffer of its own.                                 *)
Args ==
    /\ \A t \in Thread : pc[t] # "idle" => arg[t].b \in Buf
    /\ \A t, u \in Thread : t # u /\ arg[t].b = arg[u].b => arg[t].b = None

(* From Fill on the chain of a request, its header and info say what it is *)
(* about.                                                                  *)
Filled ==
    \A t \in Thread : pc[t] \in Chained =>
        /\ desc[idx[t][2]].addr = arg[t].b /\ desc[idx[t][3]].addr = idx[t][1]
        /\ ops[idx[t][1]] = arg[t] /\ info[idx[t][1]] = arg[t].b

(* The entries of the rings that the other side has not read: how many,    *)
(* and the k-th of them.                                                   *)
ALen == (avail - last_avail) % IDX
ULen == (used - used_idx) % IDX
AvailAt(k) == avail_ring[(last_avail + k) % NUM]
UsedAt(k) == used_ring[(used_idx + k) % NUM]

(* h is the head of a request whose thread waits for the device.           *)
Pending(h) == \E t \in Thread : pc[t] \in Waiting /\ h = idx[t][1] /\ bdisk[arg[t].b]

(* Its transfer has been made.                                             *)
Moved(h) ==
    /\ status[h]
    /\ \A t \in Thread : pc[t] \in Waiting /\ h = idx[t][1] => bdata[arg[t].b] = sector[arg[t].b]

(* What lies in the rings and with the device is pending, and in just one  *)
(* of the three places, once.                                              *)
Staged ==
    /\ \A k \in 0 .. ALen - 1 : Pending(AvailAt(k)) /\ AvailAt(k) \notin inflight
    /\ \A h \in inflight : Pending(h)
    /\ \A k \in 0 .. ULen - 1 : /\ Pending(UsedAt(k)) /\ UsedAt(k) \notin inflight
                                /\ Moved(UsedAt(k))
    /\ \A j, k \in 0 .. ALen - 1 : j # k => AvailAt(j) # AvailAt(k)
    /\ \A j, k \in 0 .. ULen - 1 : j # k => UsedAt(j) # UsedAt(k)
    /\ \A j \in 0 .. ALen - 1, k \in 0 .. ULen - 1 : AvailAt(j) # UsedAt(k)

(* The request about to be published has its entry in the ring.            *)
Entered ==
    \A t \in Thread : pc[t] = "publish" => avail_ring[avail % NUM] = idx[t][1] /\ bdisk[arg[t].b]

(* While a thread sleeps for descriptors no three are free.                *)
Scarce ==
    \A t \in Thread : pc[t] = "nofree" =>
        \A i, j, k \in Desc : free[i] /\ free[j] /\ free[k] => i = j \/ i = k \/ j = k

RInv == RingTypes /\ Locked /\ Args /\ Filled /\ Staged /\ Entered /\ Transferred /\ Scarce

(* What the assumptions say of the two moduli.                             *)
LEMMA Moduli ==
    /\ NUM \in Nat \ {0} /\ IDX \in Nat \ {0}
    /\ NUM < IDX /\ IDX % NUM = 0
  BY NUMAssumption, IDXAssumption

(* The windows of unread entries lie within the rings.                     *)
LEMMA Windows ==
    ASSUME RingTypes
    PROVE  /\ ALen \in 0 .. IDX - 1 /\ ULen \in 0 .. IDX - 1
           /\ avail % NUM \in Desc /\ used % NUM \in Desc
           /\ \A k \in Int : /\ (last_avail + k) % NUM \in Desc /\ AvailAt(k) \in Desc
                            /\ (used_idx + k) % NUM \in Desc /\ UsedAt(k) \in Desc
<1>1. /\ avail \in Int /\ last_avail \in Int /\ used \in Int /\ used_idx \in Int
      /\ avail_ring \in [Desc -> Desc] /\ used_ring \in [Desc -> Desc]
  BY Moduli DEF RingTypes, Idx
<1>2. ALen \in 0 .. IDX - 1 /\ ULen \in 0 .. IDX - 1
  BY <1>1, Moduli, Bounded, Zenon DEF ALen, ULen
<1>3. \A x \in Int : x % NUM \in Desc
  BY Moduli, Remainder, Zenon DEF Desc
<1>4. ASSUME NEW k \in Int
      PROVE  /\ (last_avail + k) % NUM \in Desc /\ AvailAt(k) \in Desc
             /\ (used_idx + k) % NUM \in Desc /\ UsedAt(k) \in Desc
  <2>1. last_avail + k \in Int /\ used_idx + k \in Int
    BY <1>1
  <2>2. (last_avail + k) % NUM \in Desc /\ (used_idx + k) % NUM \in Desc
    BY <2>1, <1>3, Zenon
  <2> QED
    BY <2>2, <1>1, Zenon DEF AvailAt, UsedAt
<1> QED
  BY <1>1, <1>2, <1>3, <1>4, Zenon

(* A head in the rings or with the device is not that of a thread that     *)
(* still fills in its chain.                                               *)
LEMMA NotPending ==
    ASSUME IInv, NEW t \in Thread, pc[t] \in {"fill", "publish"}
    PROVE  ~Pending(idx[t][1])
<1>1. pc[t] \in Holding /\ pc[t] \notin Waiting
  BY Zenon DEF Holding, Waiting
<1>2. \A u \in Thread : pc[u] \in Waiting => pc[u] \in Holding
  BY Zenon DEF Holding, Waiting
<1> QED
  BY <1>1, <1>2 DEF IInv, Apart, Pending

(* The device takes an entry: the window loses its first.                  *)
LEMMA AvailTaken ==
    ASSUME RingTypes, last_avail # avail, last_avail' = (last_avail + 1) % IDX,
           UNCHANGED <<avail, avail_ring>>
    PROVE  /\ ALen \in 1 .. IDX - 1 /\ ALen' = ALen - 1
           /\ avail_ring[last_avail % NUM] = AvailAt(0)
           /\ \A k \in Nat : AvailAt(k)' = AvailAt(k + 1)
<1>1. avail \in 0 .. IDX - 1 /\ last_avail \in 0 .. IDX - 1 /\ last_avail \in Int /\ last_avail + 0 = last_avail
  BY Moduli DEF RingTypes, Idx
<1>2. ALen \in 1 .. IDX - 1
  BY <1>1, Moduli, Some, Zenon DEF ALen
<1>3. ALen' = ALen - 1
  BY <1>1, Moduli, Shrink, Zenon DEF ALen
<1>4. \A k \in Int : (((last_avail + 1) % IDX) + k) % NUM = (last_avail + (k + 1)) % NUM
  BY <1>1, Moduli, Onward, Zenon
<1> QED
  BY <1>1, <1>2, <1>3, <1>4 DEF AvailAt

(* The handler takes one from the used ring.                               *)
LEMMA UsedTaken ==
    ASSUME RingTypes, used_idx # used, used_idx' = (used_idx + 1) % IDX,
           UNCHANGED <<used, used_ring>>
    PROVE  /\ ULen \in 1 .. IDX - 1 /\ ULen' = ULen - 1
           /\ used_ring[used_idx % NUM] = UsedAt(0)
           /\ \A k \in Nat : UsedAt(k)' = UsedAt(k + 1)
<1>1. used \in 0 .. IDX - 1 /\ used_idx \in 0 .. IDX - 1 /\ used_idx \in Int /\ used_idx + 0 = used_idx
  BY Moduli DEF RingTypes, Idx
<1>2. ULen \in 1 .. IDX - 1
  BY <1>1, Moduli, Some, Zenon DEF ULen
<1>3. ULen' = ULen - 1
  BY <1>1, Moduli, Shrink, Zenon DEF ULen
<1>4. \A k \in Int : (((used_idx + 1) % IDX) + k) % NUM = (used_idx + (k + 1)) % NUM
  BY <1>1, Moduli, Onward, Zenon
<1> QED
  BY <1>1, <1>2, <1>3, <1>4 DEF UsedAt

(* The entry written at avail->idx is none of the unread ones, ...         *)
LEMMA AvailWritten ==
    ASSUME RingTypes, ALen < NUM, NEW h, avail_ring' = [avail_ring EXCEPT ![avail % NUM] = h],
           UNCHANGED <<avail, last_avail>>
    PROVE  /\ ALen' = ALen /\ avail_ring'[avail % NUM] = h
           /\ \A k \in 0 .. ALen - 1 : AvailAt(k)' = AvailAt(k)
<1>1. avail \in Int /\ last_avail \in Int /\ (avail - last_avail) % IDX < NUM
  BY Moduli DEF RingTypes, Idx, ALen
<1>2. \A k \in 0 .. ALen - 1 : (last_avail + k) % NUM # avail % NUM
  BY <1>1, Moduli, Written, Zenon DEF ALen
<1>3. avail % NUM \in Desc /\ \A k \in 0 .. ALen - 1 : (last_avail + k) % NUM \in Desc
  BY Windows
<1>4. ALen' = ALen
  BY Zenon DEF ALen
<1> QED
  BY <1>2, <1>3, <1>4, Zenon DEF AvailAt, RingTypes

(* ... becomes the last of them when the index moves, ...                  *)
LEMMA AvailMoved ==
    ASSUME RingTypes, ALen < NUM, avail' = (avail + 1) % IDX, UNCHANGED <<avail_ring, last_avail>>
    PROVE  /\ ALen \in Nat /\ ALen' = ALen + 1 /\ AvailAt(ALen) = avail_ring[avail % NUM]
           /\ \A k \in Nat : AvailAt(k)' = AvailAt(k)
<1>1. /\ avail \in 0 .. IDX - 1 /\ last_avail \in 0 .. IDX - 1
      /\ avail \in Int /\ last_avail \in Int
  BY Moduli DEF RingTypes, Idx
<1>2. ALen \in Nat /\ ALen < IDX - 1
  BY Windows, Moduli
<1>3. (last_avail + ALen) % NUM = avail % NUM
  BY <1>1, Moduli, Meet, Zenon DEF ALen
<1>4. ALen' = ALen + 1
  BY <1>1, <1>2, Moduli, Grow, Zenon DEF ALen
<1> QED
  BY <1>2, <1>3, <1>4, Zenon DEF AvailAt

(* ... and both at once in the used ring.                                  *)
LEMMA UsedPut ==
    ASSUME RingTypes, ULen < NUM, NEW h, used_ring' = [used_ring EXCEPT ![used % NUM] = h],
           used' = (used + 1) % IDX, UNCHANGED used_idx
    PROVE  /\ ULen \in Nat /\ ULen' = ULen + 1
           /\ \A k \in 0 .. ULen : UsedAt(k)' = IF k = ULen THEN h ELSE UsedAt(k)
<1>1. /\ used \in 0 .. IDX - 1 /\ used_idx \in 0 .. IDX - 1
      /\ used \in Int /\ used_idx \in Int /\ (used - used_idx) % IDX < NUM
  BY Moduli DEF RingTypes, Idx, ULen
<1>2. ULen \in Nat /\ ULen < IDX - 1
  BY Windows, Moduli
<1>3. ULen' = ULen + 1
  BY <1>1, <1>2, Moduli, Grow, Zenon DEF ULen
<1>4. (used_idx + ULen) % NUM = used % NUM
  BY <1>1, Moduli, Meet, Zenon DEF ULen
<1>5. used % NUM \in Desc /\ \A k \in 0 .. ULen - 1 : (used_idx + k) % NUM \in Desc
  BY Windows
<1>6. \A k \in 0 .. ULen - 1 : (used_idx + k) % NUM # used % NUM
  BY <1>1, Moduli, Written, Zenon DEF ULen
<1>7. \A k : k = ULen => UsedAt(k)' = h
  BY <1>4, <1>5 DEF UsedAt, RingTypes
<1>8. \A k \in 0 .. ULen - 1 : UsedAt(k)' = UsedAt(k)
  BY <1>5, <1>6, Zenon DEF UsedAt, RingTypes
<1> QED
  BY <1>2, <1>3, <1>7, <1>8

(* Initially the rings are empty and nobody is in the driver.              *)
LEMMA InitRInv == Init => RInv
<1> SUFFICES ASSUME Init PROVE RInv
  BY Zenon
<1>1. 0 \in Desc /\ 0 \in Idx
  BY Moduli DEF Desc, Idx
<1>2. RingTypes
  BY <1>1, Zenon DEF Init, RingTypes, NoArg
<1>3. ALen = 0 /\ ULen = 0
  <2>1. 0 % IDX = 0
    BY Moduli, Small
  <2>2. 0 - 0 = 0
    OBVIOUS
  <2> QED
    BY <2>1, <2>2, Zenon DEF Init, ALen, ULen
<1>4. Staged
  BY <1>3 DEF Init, Staged
<1>5. Locked /\ Args /\ Filled /\ Entered /\ Transferred /\ Scarce
  BY Zenon DEF Init, Locked, Args, Filled, Chained, Entered, Transferred, Scarce, NoArg
<1> QED
  BY <1>2, <1>4, <1>5, Zenon DEF RInv

(* A step that leaves the rings, the device and b->disk alone, and the     *)
(* chains of the requests the device may see.                              *)
LEMMA Still ==
    ASSUME RInv,
           UNCHANGED <<ops, status, avail, avail_ring, used, used_ring, used_idx, bdisk,
                       last_avail, inflight, sector>>,
           \A t \in Thread : pc[t] \in Waiting /\ bdisk[arg[t].b] =>
               pc'[t] \in Waiting /\ idx'[t] = idx[t] /\ arg'[t] = arg[t],
           \A t \in Thread : pc'[t] \in Chained =>
               /\ pc[t] \in Chained /\ (pc'[t] = "publish" <=> pc[t] = "publish")
               /\ idx'[t] = idx[t] /\ arg'[t] = arg[t]
               /\ bdata'[arg[t].b] = bdata[arg[t].b]
               /\ \A n \in 1 .. 3 : desc'[idx[t][n]] = desc[idx[t][n]]
               /\ info'[idx[t][1]] = info[idx[t][1]]
    PROVE  Filled' /\ Staged' /\ Entered' /\ Transferred'
<1>1. Filled'
  BY DEF RInv, Filled
<1>2. ALen' = ALen /\ ULen' = ULen
  BY Zenon DEF ALen, ULen
<1>3. \A k : AvailAt(k)' = AvailAt(k) /\ UsedAt(k)' = UsedAt(k)
  BY Zenon DEF AvailAt, UsedAt
<1>4. \A h : Pending(h) => Pending(h)'
  BY DEF Pending
<1>5. \A t \in Thread : pc'[t] \in Waiting => pc[t] \in Waiting /\ pc'[t] \in Chained
  BY Zenon DEF Waiting, Chained
<1>6. \A h : Moved(h) => Moved(h)'
  BY <1>5 DEF Moved
<1>7. Staged'
  BY <1>2, <1>3, <1>4, <1>6, Zenon DEF RInv, Staged
<1>8. Entered'
  BY DEF RInv, Entered, Chained
<1>9. Transferred'
  BY <1>5 DEF RInv, Transferred, Waiting
<1> QED
  BY <1>1, <1>7, <1>8, <1>9, Zenon

(* virtio_disk_rw is called for a buffer that no other call is about.      *)
LEMMA CallRInv ==
    ASSUME IInv, RInv, NEW t \in Thread, NEW b \in Buf, NEW write \in BOOLEAN, NEW v \in Val,
           Call(t, b, write, v)
    PROVE  RInv'
<1>1. /\ pc[t] = "idle" /\ pc' = [pc EXCEPT ![t] = "get"]
      /\ arg' = [arg EXCEPT ![t] = [b |-> b, write |-> write]]
      /\ bdata' = [bdata EXCEPT ![b] = v]
      /\ \A u \in Thread : arg[u].b # b
  BY Zenon DEF Call
<1>2. UNCHANGED <<vdisk_lock, free, desc, ops, info, status, avail, avail_ring, used, used_ring,
                  used_idx, bdisk, ipc, idx, last_avail, inflight, sector>>
  BY Zenon DEF Call, dvars
<1>3. RingTypes'
  BY <1>1, <1>2, Zenon DEF RInv, RingTypes
<1>4. /\ pc'[t] = "get" /\ arg'[t].b = b
      /\ \A u \in Thread \ {t} : pc'[u] = pc[u] /\ arg'[u] = arg[u]
      /\ \A u \in Thread : pc[u] # "idle" => bdata'[arg[u].b] = bdata[arg[u].b]
  <2>1. \A u \in Thread : pc[u] # "idle" => arg[u].b \in Buf
    BY Zenon DEF RInv, Args
  <2>2. bdata \in [Buf -> Val]
    BY Zenon DEF RInv, RingTypes
  <2>3. \A c \in Buf \ {b} : bdata'[c] = bdata[c]
    BY <2>2, <1>1, Zenon
  <2> QED
    BY <1>1, <2>1, <2>3, Zenon DEF IInv, DiskTypes
<1>5. Locked'
  BY <1>2, <1>4, Zenon DEF RInv, Locked
<1>6. Args'
  BY <1>1, <1>4 DEF RInv, Args
<1>7. Scarce'
  BY <1>2, <1>4, Zenon DEF RInv, Scarce
<1>8. Filled' /\ Staged' /\ Entered' /\ Transferred'
  BY <1>1, <1>2, <1>4, Still DEF Waiting, Chained
<1> QED
  BY <1>3, <1>5, <1>6, <1>7, <1>8, Zenon DEF RInv

(* alloc3_desc under vdisk_lock.                                           *)
LEMMA Alloc3RInv == ASSUME IInv, RInv, NEW t \in Thread, Alloc3(t) PROVE RInv'
<1>1. /\ pc[t] = "get" /\ vdisk_lock = None /\ vdisk_lock' = t
      /\ pc' = [pc EXCEPT ![t] = "fill"]
  BY Zenon DEF Alloc3
<1>2. UNCHANGED <<desc, ops, info, status, avail, avail_ring, used, used_ring,
                  used_idx, bdisk, bdata, ipc, arg, last_avail, inflight, sector>>
  BY Zenon DEF Alloc3, dvars
<1>3. RingTypes'
  BY <1>1, <1>2, Zenon DEF RInv, RingTypes
<1>4. /\ pc'[t] = "fill"
      /\ \A u \in Thread \ {t} : pc'[u] = pc[u] /\ idx'[u] = idx[u]
      /\ \A i \in Desc : free'[i] => free[i]
  BY <1>1 DEF Alloc3, IInv, DiskTypes
<1>5. Locked'
  <2>1. None # "intr" /\ \A u \in Thread : u # None
    BY NoneAssumption, IntrAssumption, Zenon
  <2> QED
    BY <2>1, <1>1, <1>2, <1>4, Zenon DEF RInv, Locked
<1>6. Args'
  BY <1>1, <1>2, <1>4, Zenon DEF RInv, Args
<1>7. Scarce'
  BY <1>4 DEF RInv, Scarce
<1>8. Filled' /\ Staged' /\ Entered' /\ Transferred'
  BY <1>1, <1>2, <1>4, Still, Zenon DEF Waiting, Chained
<1> QED
  BY <1>3, <1>5, <1>6, <1>7, <1>8, Zenon DEF RInv

(* sleep(b, &vdisk_lock) and the return from it.                           *)
LEMMA SleepRInv ==
    ASSUME IInv, RInv, NEW t \in Thread, Sleep(t) \/ Relock(t) PROVE RInv'
<1>1. /\ pc[t] \in Waiting /\ pc'[t] \in Waiting /\ pc' = [pc EXCEPT ![t] = pc'[t]]
      /\ \/ pc[t] = "wait" /\ pc'[t] = "asleep" /\ vdisk_lock' = None
         \/ vdisk_lock = None /\ vdisk_lock' = t
  BY Zenon DEF Sleep, Relock, Waiting, IInv, DiskTypes
<1>2. UNCHANGED <<free, desc, ops, info, status, avail, avail_ring, used, used_ring,
                  used_idx, bdisk, bdata, ipc, arg, idx, last_avail, inflight, sector>>
  BY Zenon DEF Sleep, Relock, dvars
<1>3. RingTypes'
  BY <1>1, <1>2, Zenon DEF RInv, RingTypes
<1>4. \A u \in Thread \ {t} : pc'[u] = pc[u]
  BY <1>1, Zenon DEF IInv, DiskTypes
<1>5. Locked'
  <2>1. "intr" \notin Thread /\ None # "intr" /\ None \notin Thread
    BY NoneAssumption, IntrAssumption, Zenon
  <2> QED
    BY <2>1, <1>1, <1>2, <1>4, Zenon DEF RInv, Locked
<1>6. Args'
  BY <1>1, <1>2, <1>4, Zenon DEF RInv, Args, Waiting
<1>7. Scarce'
  BY <1>1, <1>2, <1>4, Zenon DEF RInv, Scarce, Waiting
<1>8. Filled' /\ Staged' /\ Entered' /\ Transferred'
  BY <1>1, <1>2, <1>4, Still DEF Waiting, Chained
<1> QED
  BY <1>3, <1>5, <1>6, <1>7, <1>8, Zenon DEF RInv

(* The handler takes and gives up the lock, the device raises its          *)
(* interrupt.                                                              *)
LEMMA LockRInv ==
    ASSUME IInv, RInv, IntrGet \/ IntrDone \/ DevIntr PROVE RInv'
<1>1. UNCHANGED <<free, desc, ops, info, status, avail, avail_ring, used, used_ring, used_idx,
                  bdisk, bdata, pc, arg, idx, last_avail, inflight, sector>>
  BY Zenon DEF IntrGet, IntrDone, DevIntr, tvars, dvars
<1>2. /\ ipc' \in {"idle", "loop"}
      /\ \/ vdisk_lock = None /\ vdisk_lock' = "intr"
         \/ ipc = "loop" /\ ipc' = "idle" /\ vdisk_lock' = None
         \/ UNCHANGED <<vdisk_lock, ipc>>
  BY Zenon DEF IntrGet, IntrDone, DevIntr, RInv, RingTypes
<1>3. RingTypes'
  BY <1>1, <1>2, Zenon DEF RInv, RingTypes
<1>4. Locked'
  <2>1. "intr" \notin Thread /\ None \notin Thread
    BY NoneAssumption, IntrAssumption, Zenon
  <2> QED
    BY <2>1, <1>1, <1>2, Zenon DEF RInv, Locked
<1>5. Args' /\ Scarce'
  BY <1>1, Zenon DEF RInv, Args, Scarce
<1>6. Filled' /\ Staged' /\ Entered' /\ Transferred'
  BY <1>1, Still
<1> QED
  BY <1>3, <1>4, <1>5, <1>6, Zenon DEF RInv

(* free_chain and the return: the device has no business with the request  *)
(* any more, and whoever waits for descriptors is woken.                   *)
LEMMA FinishRInv == ASSUME IInv, RInv, NEW t \in Thread, Finish(t) PROVE RInv'
<1> DEFINE mine == {idx[t][1], idx[t][2], idx[t][3]}
<1>1. pc[t] = "wait" /\ ~bdisk[arg[t].b] /\ pc[t] \in Chained /\ pc[t] \in Holding
  BY Zenon DEF Finish, Chained, Holding
<1>2. Chain(idx[t][1]) = mine
  BY <1>1, ChainOwned, Zenon
<1>3. /\ desc' = [i \in Desc |-> IF i \in mine THEN NoDesc ELSE desc[i]]
      /\ info' = [info EXCEPT ![idx[t][1]] = None]
      /\ pc' = [WokenFree EXCEPT ![t] = IF \E i \in mine : free[i] THEN "panic" ELSE "idle"]
      /\ arg' = [arg EXCEPT ![t] = NoArg]
      /\ idx' = [idx EXCEPT ![t] = [n \in 1 .. 3 |-> 0]]
      /\ vdisk_lock' = None
  BY <1>2, Zenon DEF Finish, Release
<1>4. UNCHANGED <<ops, status, avail, avail_ring, used, used_ring, used_idx, bdisk, bdata, ipc,
                  last_avail, inflight, sector>>
  BY Zenon DEF Finish, Release, dvars
<1>5. mine \subseteq Desc
  BY Fields, Zenon
<1>6. \A i \in mine : ~free[i]
  BY <1>1, <1>5 DEF IInv, Apart
<1>7. /\ pc'[t] = "idle" /\ arg'[t].b = None
      /\ \A u \in Thread \ {t} : /\ idx'[u] = idx[u] /\ arg'[u] = arg[u]
                                 /\ pc'[u] = IF pc[u] = "nofree" THEN "get" ELSE pc[u]
  BY <1>3, <1>6, Zenon DEF WokenFree, NoArg, IInv, DiskTypes
<1>8. RingTypes'
  BY <1>3, <1>4, Zenon DEF RInv, RingTypes
<1>9. Locked'
  <2>1. None # "intr" /\ "intr" \notin Thread
    BY IntrAssumption, Zenon
  <2> QED
    BY <2>1, <1>1, <1>4, <1>7, Zenon DEF RInv, Locked
<1>10. Args'
  BY <1>7 DEF RInv, Args
<1>11. Scarce'
  BY <1>7 DEF Scarce
<1>12. ASSUME NEW u \in Thread, pc'[u] \in Chained
       PROVE  /\ u # t /\ pc[u] = pc'[u]
              /\ \A n \in 1 .. 3 : desc'[idx[u][n]] = desc[idx[u][n]]
              /\ info'[idx[u][1]] = info[idx[u][1]]
  <2>1. u # t /\ pc[u] = pc'[u] /\ pc[u] \in Holding
    BY <1>7, <1>12, Zenon DEF Chained, Holding
  <2>2. \A n \in 1 .. 3 : idx[u][n] \in Desc \ mine
    <3>1. \A n \in 1 .. 3 : idx[u][n] \notin mine
      BY <2>1, <1>1 DEF IInv, Apart
    <3>2. \A n \in 1 .. 3 : idx[u][n] \in Desc
      BY DEF IInv, DiskTypes
    <3> QED
      BY <3>1, <3>2, Zenon
  <2>3. idx[u][1] \in Desc /\ idx[u][1] # idx[t][1]
    BY <2>2
  <2>4. info'[idx[u][1]] = info[idx[u][1]]
    BY <2>3, <1>3, Zenon DEF RInv, RingTypes
  <2> QED
    BY <2>1, <2>2, <2>4, <1>3, Zenon
<1>13. \A u \in Thread : pc[u] \in Waiting /\ bdisk[arg[u].b] => u # t /\ pc'[u] = pc[u]
  BY <1>1, <1>7, Zenon DEF Waiting
<1>14. Filled' /\ Staged' /\ Entered' /\ Transferred'
  <2> HIDE <1>3
  <2> QED
    BY <1>4, <1>7, <1>12, <1>13, Still
<1> QED
  BY <1>8, <1>9, <1>10, <1>11, <1>14, Zenon DEF RInv

(* The chain, its header and its entry are written where the device does   *)
(* not look yet.                                                           *)
LEMMA FillRInv == ASSUME IInv, RInv, ALen < NUM, NEW t \in Thread, Fill(t) PROVE RInv'
<1> DEFINE h == idx[t][1]
           m == idx[t][2]
           l == idx[t][3]
           b == arg[t].b
<1>1. /\ pc[t] = "fill" /\ pc' = [pc EXCEPT ![t] = "publish"]
      /\ ops' = [ops EXCEPT ![h] = arg[t]]
      /\ desc' = [desc EXCEPT ![h] = [addr |-> h, more |-> TRUE, next |-> m],
                              ![m] = [addr |-> b, more |-> TRUE, next |-> l],
                              ![l] = [addr |-> h, more |-> FALSE, next |-> 0]]
      /\ status' = [status EXCEPT ![h] = FALSE]
      /\ bdisk' = [bdisk EXCEPT ![b] = TRUE]
      /\ info' = [info EXCEPT ![h] = b]
      /\ avail_ring' = [avail_ring EXCEPT ![avail % NUM] = h]
  BY Zenon DEF Fill, FillChain
<1>2. UNCHANGED <<vdisk_lock, free, avail, used, used_ring, used_idx, bdata, ipc, arg, idx,
                  last_avail, inflight, sector>>
  BY Zenon DEF Fill, FillChain, dvars
<1>3. h \in Desc /\ m \in Desc /\ l \in Desc /\ b \in Buf /\ avail % NUM \in Desc
  BY <1>1, Fields, Windows, Zenon DEF RInv, Args
<1>4. h # m /\ h # l /\ m # l
  BY <1>1, Zenon DEF IInv, Apart, Holding
<1>5. arg[t] \in [b : Buf \cup {None}, write : BOOLEAN]
  BY Zenon DEF IInv, DiskTypes
<1>6. RingTypes'
  <2> HIDE DEF h, m, l, b
  <2> QED
    BY <1>1, <1>2, <1>3, <1>5, Zenon DEF RInv, RingTypes
<1>7. pc'[t] = "publish" /\ \A u \in Thread \ {t} : pc'[u] = pc[u]
  BY <1>1, Zenon DEF IInv, DiskTypes
<1>8. Locked' /\ Args' /\ Scarce'
  BY <1>1, <1>2, <1>7, Zenon DEF RInv, Locked, Args, Scarce
<1>9. ASSUME NEW u \in Thread, u # t, pc[u] \in Holding
      PROVE  /\ \A n \in 1 .. 3 : idx[u][n] \in Desc \ {h, m, l}
             /\ arg[u].b \in Buf \ {b}
  <2>1. \A n \in 1 .. 3 : idx[u][n] \in Desc
    BY DEF IInv, DiskTypes
  <2>2. \A n \in 1 .. 3 : idx[u][n] \notin {h, m, l}
    BY <1>1, <1>9 DEF IInv, Apart, Holding
  <2>3. arg[u].b \in Buf /\ arg[u].b # b
    BY <1>1, <1>3, <1>9, NoneAssumption, Zenon DEF RInv, Args, Holding
  <2> QED
    BY <2>1, <2>2, <2>3, Zenon
<1>10. /\ desc'[m].addr = b /\ desc'[l].addr = h /\ ops'[h] = arg[t] /\ info'[h] = b /\ bdisk'[b]
       /\ \A d \in Desc \ {h, m, l} : /\ desc'[d] = desc[d] /\ ops'[d] = ops[d]
                                      /\ info'[d] = info[d] /\ status'[d] = status[d]
       /\ \A c \in Buf \ {b} : bdisk'[c] = bdisk[c]
  <2> HIDE DEF h, m, l, b
  <2>1. desc'[m].addr = b /\ desc'[l].addr = h /\ \A d \in Desc \ {h, m, l} : desc'[d] = desc[d]
    BY <1>1, <1>3, <1>4, Zenon DEF IInv, DiskTypes
  <2>2. /\ ops'[h] = arg[t] /\ info'[h] = b /\ bdisk'[b]
        /\ \A d \in Desc \ {h, m, l} : ops'[d] = ops[d] /\ info'[d] = info[d] /\ status'[d] = status[d]
        /\ \A c \in Buf \ {b} : bdisk'[c] = bdisk[c]
    BY <1>1, <1>3, Zenon DEF RInv, RingTypes
  <2> QED
    BY <2>1, <2>2, Zenon
<1>11. \A u \in Thread : pc'[u] \in Chained /\ u # t => pc[u] \in Holding /\ pc[u] \in Chained
  BY <1>7, Zenon DEF Holding, Chained
<1>12. Filled'
  <2> SUFFICES ASSUME NEW u \in Thread, pc'[u] \in Chained
               PROVE  /\ desc'[idx[u][2]].addr = arg[u].b /\ desc'[idx[u][3]].addr = idx[u][1]
                      /\ ops'[idx[u][1]] = arg[u] /\ info'[idx[u][1]] = arg[u].b
    BY <1>2, Zenon DEF Filled
  <2>1. CASE u = t
    BY <2>1, <1>10, Zenon
  <2>2. CASE u # t
    <3>1. /\ desc'[idx[u][2]] = desc[idx[u][2]] /\ desc'[idx[u][3]] = desc[idx[u][3]]
          /\ ops'[idx[u][1]] = ops[idx[u][1]] /\ info'[idx[u][1]] = info[idx[u][1]]
      <4>1. \A n \in 1 .. 3 : idx[u][n] \in Desc \ {h, m, l}
        BY <2>2, <1>9, <1>11, Zenon
      <4>2. /\ idx[u][1] \in Desc \ {h, m, l} /\ idx[u][2] \in Desc \ {h, m, l}
            /\ idx[u][3] \in Desc \ {h, m, l}
        BY ONLY <4>1
      <4> QED
        BY ONLY <4>2, <1>10, Zenon
    <3> QED
      BY <3>1, <2>2, <1>11, Zenon DEF RInv, Filled
  <2> QED
    BY <2>1, <2>2, Zenon
<1>13. /\ ALen' = ALen /\ avail_ring'[avail % NUM] = h
       /\ \A k \in 0 .. ALen - 1 : AvailAt(k)' = AvailAt(k)
  <2> HIDE DEF h
  <2> QED
    BY <1>1, <1>2, AvailWritten, Zenon DEF RInv
<1>14. ULen' = ULen /\ \A k : UsedAt(k)' = UsedAt(k)
  BY <1>2, Zenon DEF ULen, UsedAt
<1>15. \A u \in Thread : /\ pc'[u] \in Waiting <=> pc[u] \in Waiting
                         /\ pc[u] \in Waiting => u # t /\ pc[u] \in Holding
  BY <1>1, <1>7, Zenon DEF Waiting, Holding
<1>16. \A x : Pending(x) => Pending(x)' /\ x \in Desc \ {h, m, l}
  <2> HIDE DEF h, m, l, b
  <2> QED
    BY <1>2, <1>9, <1>10, <1>15 DEF Pending
<1>17. \A x : Pending(x) /\ Moved(x) => Moved(x)'
  BY <1>2, <1>10, <1>15, <1>16, Zenon DEF Moved
<1>18. Staged'
  BY <1>2, <1>13, <1>14, <1>16, <1>17 DEF RInv, Staged
<1>19. Entered'
  <2>1. \A u \in Thread : pc'[u] = "publish" => u = t
    BY <1>1, <1>7, Zenon DEF RInv, Locked
  <2> QED
    BY <2>1, <1>2, <1>10, <1>13, Zenon DEF Entered
<1>20. Transferred'
  <2>1. \A u \in Thread : pc[u] \in Waiting => bdisk'[arg[u].b] = bdisk[arg[u].b]
    BY <1>9, <1>10, <1>15, Zenon
  <2> QED
    BY <2>1, <1>2, <1>15, Zenon DEF RInv, Transferred, Waiting
<1> QED
  BY <1>6, <1>8, <1>12, <1>18, <1>19, <1>20, Zenon DEF RInv

(* The request becomes visible to the device.                              *)
LEMMA PublishRInv == ASSUME IInv, RInv, ALen < NUM, NEW t \in Thread, Publish(t) PROVE RInv'
<1>h. PICK h \in Desc : h = idx[t][1]
  BY Fields, Zenon
<1>1. pc[t] = "publish" /\ pc' = [pc EXCEPT ![t] = "wait"] /\ avail' = (avail + 1) % IDX
  BY Zenon DEF Publish
<1>2. UNCHANGED <<vdisk_lock, free, desc, ops, info, status, avail_ring, used, used_ring,
                  used_idx, bdisk, bdata, ipc, arg, idx, last_avail, inflight, sector>>
  BY Zenon DEF Publish, dvars
<1>3. pc'[t] = "wait" /\ \A u \in Thread \ {t} : pc'[u] = pc[u]
  BY <1>1, Zenon DEF IInv, DiskTypes
<1>4. avail_ring[avail % NUM] = h /\ bdisk[arg[t].b]
  BY <1>1, <1>h, Zenon DEF RInv, Entered
<1>5. RingTypes'
  <2>1. avail \in Int
    BY Moduli DEF RInv, RingTypes, Idx
  <2>2. avail + 1 \in Int
    BY <2>1
  <2>3. avail' \in Idx
    BY <2>2, <1>1, Moduli, Remainder, Zenon DEF Idx
  <2> QED
    BY <2>3, <1>2, Zenon DEF RInv, RingTypes
<1>6. Locked' /\ Args' /\ Scarce'
  BY <1>1, <1>2, <1>3, Zenon DEF RInv, Locked, Args, Scarce
<1>7. Filled'
  <2>1. \A u \in Thread : pc'[u] \in Chained => pc[u] \in Chained
    BY <1>1, <1>3, Zenon DEF Chained
  <2> QED
    BY <2>1, <1>2, Zenon DEF RInv, Filled
<1>8. ALen < NUM
  BY Zenon
<1>9. PICK n \in Nat : n = ALen
  BY <1>1, <1>2, <1>8, AvailMoved, Zenon DEF RInv
<1>10. /\ ALen' = n + 1 /\ AvailAt(n) = h
       /\ \A k \in Nat : AvailAt(k)' = AvailAt(k)
  BY <1>1, <1>2, <1>4, <1>8, <1>9, AvailMoved, Zenon DEF RInv
<1>11. ULen' = ULen /\ \A k : UsedAt(k)' = UsedAt(k)
  BY <1>2, Zenon DEF ULen, UsedAt
<1>12. ~Pending(h)
  BY <1>1, <1>h, NotPending, Zenon
<1>13. /\ Pending(h)' /\ \A x : Pending(x) => Pending(x)'
       /\ \A x : Pending(x) /\ Moved(x) => Moved(x)'
  <2>1. \A u \in Thread : pc'[u] \in Waiting <=> pc[u] \in Waiting \/ u = t
    BY <1>1, <1>3, Zenon DEF Waiting
  <2>2. Pending(h)' /\ \A x : Pending(x) => Pending(x)'
    BY <2>1, <1>h, <1>2, <1>4, Zenon DEF Pending
  <2>3. \A x : Pending(x) => x # h
    BY <1>12, Zenon
  <2> QED
    BY <2>1, <2>2, <2>3, <1>h, <1>2, Zenon DEF Moved
<1>14. Staged'
  <2>1. ASSUME NEW k \in 0 .. n
        PROVE  /\ Pending(AvailAt(k))' /\ AvailAt(k)' \notin inflight'
               /\ AvailAt(k)' = AvailAt(k) /\ (k = n <=> AvailAt(k) = h)
    <3>1. CASE k = n
      <4>1. h \notin inflight
        BY <1>12, Zenon DEF RInv, Staged
      <4>2. AvailAt(k) = h /\ AvailAt(k)' = AvailAt(k)
        BY <3>1, <1>10, Zenon
      <4> QED
        BY <3>1, <4>1, <4>2, <1>2, <1>13, Zenon
    <3>2. CASE k \in 0 .. n - 1
      <4>1. Pending(AvailAt(k)) /\ AvailAt(k) \notin inflight
        BY <3>2, <1>9, Zenon DEF RInv, Staged
      <4>2. k \in Nat /\ k # n /\ AvailAt(k)' = AvailAt(k)
        BY <3>2, <1>10
      <4> QED
        BY <4>1, <4>2, <1>2, <1>12, <1>13, Zenon
    <3> QED
      BY <3>1, <3>2
  <2>2. \A j, k \in 0 .. n : j # k => AvailAt(j) # AvailAt(k)
    <3>1. \A j, k \in 0 .. n - 1 : j # k => AvailAt(j) # AvailAt(k)
      BY <1>9, Zenon DEF RInv, Staged
    <3> QED
      BY <3>1, <2>1
  <2>3. \A j \in 0 .. n, k \in 0 .. ULen - 1 : AvailAt(j) # UsedAt(k)
    <3>1. \A j \in 0 .. n - 1, k \in 0 .. ULen - 1 : AvailAt(j) # UsedAt(k)
      BY <1>9, Zenon DEF RInv, Staged
    <3>2. \A k \in 0 .. ULen - 1 : UsedAt(k) # h
      BY <1>12, Zenon DEF RInv, Staged
    <3> QED
      BY <3>1, <3>2, <2>1
  <2>4. 0 .. ALen' - 1 = 0 .. n
    BY <1>10
  <2> QED
    BY <2>1, <2>2, <2>3, <2>4, <1>2, <1>11, <1>13, Zenon DEF RInv, Staged
<1>15. Entered'
  BY <1>1, <1>3, Zenon DEF RInv, Locked, Entered
<1>16. Transferred'
  BY <1>2, <1>3, <1>4, Zenon DEF RInv, Transferred
<1> QED
  BY <1>5, <1>6, <1>7, <1>14, <1>15, <1>16, Zenon DEF RInv

(* The device takes the first entry.                                       *)
LEMMA DevTakeRInv == ASSUME IInv, RInv, DevTake PROVE RInv'
<1>1. /\ last_avail # avail /\ last_avail' = (last_avail + 1) % IDX
      /\ inflight' = inflight \cup {avail_ring[last_avail % NUM]}
  BY Zenon DEF DevTake
<1>2. UNCHANGED <<vdisk_lock, free, desc, ops, info, status, avail, avail_ring, used, used_ring,
                  used_idx, bdisk, bdata, ipc, pc, arg, idx, sector>>
  BY Zenon DEF DevTake, tvars
<1>3. PICK n \in Nat : n = ALen - 1
  BY <1>1, <1>2, AvailTaken DEF RInv
<1>4. /\ ALen' = n /\ ALen = n + 1 /\ inflight' = inflight \cup {AvailAt(0)}
      /\ \A k \in Nat : AvailAt(k)' = AvailAt(k + 1)
  <2>1. ALen \in Int
    BY <1>1, <1>2, AvailTaken DEF RInv
  <2> QED
    BY <2>1, <1>1, <1>2, <1>3, AvailTaken DEF RInv
<1>5. RingTypes'
  <2>1. last_avail \in Int
    BY Moduli DEF RInv, RingTypes, Idx
  <2>2. last_avail + 1 \in Int
    BY <2>1
  <2>3. last_avail' \in Idx
    BY <2>2, <1>1, Moduli, Remainder, Zenon DEF Idx
  <2>4. AvailAt(0) \in Desc
    BY Windows DEF RInv
  <2> QED
    BY <2>3, <2>4, <1>2, <1>4, Zenon DEF RInv, RingTypes
<1>6. Locked' /\ Args' /\ Scarce' /\ Filled' /\ Entered' /\ Transferred'
  BY <1>2 DEF RInv, Locked, Args, Scarce, Filled, Entered, Transferred
<1>7. /\ ULen' = ULen /\ \A k : UsedAt(k)' = UsedAt(k)
      /\ \A x : (Pending(x) => Pending(x)') /\ (Moved(x) => Moved(x)')
  BY <1>2, Zenon DEF ULen, UsedAt, Pending, Moved
<1>8. Staged'
  <2>1. \A k \in 0 .. n - 1 : k + 1 \in 0 .. n /\ k + 1 # 0
    OBVIOUS
  <2>2. 0 \in 0 .. n
    OBVIOUS
  <2>3. /\ \A k \in 0 .. n : Pending(AvailAt(k)) /\ AvailAt(k) \notin inflight
        /\ \A j, k \in 0 .. n : j # k => AvailAt(j) # AvailAt(k)
        /\ \A j \in 0 .. n, k \in 0 .. ULen - 1 : AvailAt(j) # UsedAt(k)
    <3>1. 0 .. ALen - 1 = 0 .. n
      BY <1>4
    <3> QED
      BY <3>1, Zenon DEF RInv, Staged
  <2>4. \A k \in 0 .. n - 1 : /\ Pending(AvailAt(k))' /\ AvailAt(k)' \notin inflight'
                              /\ \A i \in 0 .. ULen - 1 : AvailAt(k)' # UsedAt(i)
    BY <2>1, <2>2, <2>3, <1>4, <1>7
  <2>5. \A j, k \in 0 .. n - 1 : j # k => AvailAt(j)' # AvailAt(k)'
    <3>1. \A j, k \in 0 .. n - 1 : j # k => j + 1 # k + 1
      OBVIOUS
    <3> QED
      BY <3>1, <2>1, <2>3, <1>4
  <2>6. \A x \in inflight' : Pending(x)'
    BY <2>2, <2>3, <1>4, <1>7, Zenon DEF RInv, Staged
  <2>7. \A k \in 0 .. ULen - 1 : Pending(UsedAt(k))' /\ Moved(UsedAt(k))' /\ UsedAt(k) \notin inflight'
    BY <2>2, <2>3, <1>4, <1>7, Zenon DEF RInv, Staged
  <2> QED
    BY <2>4, <2>5, <2>6, <2>7, <1>4, <1>7, Zenon DEF RInv, Staged
<1> QED
  BY <1>5, <1>6, <1>8, Zenon DEF RInv

(* The unread positions, counted from the first.                           *)
LEMMA UnreadCounted ==
    ASSUME NEW from \in 0 .. IDX - 1, NEW to \in 0 .. IDX - 1
    PROVE  /\ \A n \in Unread(from, to) :
                  \E k \in 0 .. ((to - from) % IDX) - 1 : n % NUM = (from + k) % NUM
           /\ \A k \in 0 .. ((to - from) % IDX) - 1 :
                  \E n \in Unread(from, to) : n % NUM = (from + k) % NUM
<1>1. PICK c \in 0 .. IDX - 1 : c = (to - from) % IDX
  BY Moduli, Bounded
<1>2. ASSUME NEW n \in Unread(from, to) PROVE \E k \in 0 .. c - 1 : n % NUM = (from + k) % NUM
  <2>1. n \in Int /\ from \in Int /\ (n - from) % IDX < c
    BY <1>1, Moduli DEF Unread, Idx
  <2>2. PICK k \in 0 .. IDX - 1 : k = (n - from) % IDX
    BY <2>1, Moduli, Bounded, Zenon
  <2>3. (from + k) % NUM = n % NUM
    BY <2>1, <2>2, Moduli, Meet, Zenon
  <2>4. k \in 0 .. c - 1
    BY <2>1, <2>2
  <2> QED
    BY <2>3, <2>4, Zenon
<1>3. ASSUME NEW k \in 0 .. c - 1 PROVE \E n \in Unread(from, to) : n % NUM = (from + k) % NUM
  <2>1. k \in Int /\ from \in Int /\ k \in 0 .. IDX - 1 /\ k < c
    BY Moduli
  <2>2. PICK n \in 0 .. IDX - 1 : n = (from + k) % IDX
    BY <2>1, Moduli, Inside, Zenon
  <2>3. (n - from) % IDX = k /\ n % NUM = (from + k) % NUM
    <3>1. (((from + k) % IDX) - from) % IDX = k
      BY <2>1, Moduli, Back, Zenon
    <3>2. ((from + k) % IDX) % NUM = (from + k) % NUM
      <4>1. PICK y \in Int : y = from + k
        BY <2>1
      <4>2. (y % IDX) % NUM = y % NUM
        BY Moduli, Twice, Zenon
      <4> QED
        BY <4>1, <4>2, Zenon
    <3> QED
      BY <2>2, <3>1, <3>2, Zenon
  <2>4. n \in Unread(from, to)
    BY <1>1, <2>1, <2>3, Zenon DEF Unread, Idx
  <2> QED
    BY <2>3, <2>4, Zenon
<1> QED
  BY <1>1, <1>2, <1>3, Zenon

(* The two sets the properties speak of.                                   *)
LEMMA UnreadEntries ==
    ASSUME RingTypes
    PROVE  /\ Published = {AvailAt(k) : k \in 0 .. ALen - 1}
           /\ {used_ring[n % NUM] : n \in Unread(used_idx, used)} = {UsedAt(k) : k \in 0 .. ULen - 1}
<1>1. /\ avail \in 0 .. IDX - 1 /\ last_avail \in 0 .. IDX - 1
      /\ used \in 0 .. IDX - 1 /\ used_idx \in 0 .. IDX - 1
  BY Zenon DEF RingTypes, Idx
<1>2. Published = {AvailAt(k) : k \in 0 .. ALen - 1}
  BY <1>1, UnreadCounted DEF Published, AvailAt, ALen
<1>3. {used_ring[n % NUM] : n \in Unread(used_idx, used)} = {UsedAt(k) : k \in 0 .. ULen - 1}
  BY <1>1, UnreadCounted DEF UsedAt, ULen
<1> QED
  BY <1>2, <1>3, Zenon
=============================================================================
