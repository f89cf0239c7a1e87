-------------------------------- MODULE Disk --------------------------------
(***************************************************************************)
(* The virtio disk driver, kernel/dev/disk.c: virtio_disk_rw, called by    *)
(* threads that hold the sleep lock of the buffer they transfer, and the   *)
(* interrupt handler virtio_disk_intr, with the device on the other side   *)
(* of the descriptor table and the two rings.                              *)
(*                                                                         *)
(* sleep(b, &vdisk_lock) releases the lock and puts the thread to sleep in *)
(* one step, and a wakeup moves the sleepers to where they take the lock   *)
(* again: NoLostWakeup of Sched.  The driver's steps are as large as the   *)
(* device cannot look inside: it sees a descriptor, a request header or a  *)
(* ring entry only once avail->idx covers it.                              *)
(***************************************************************************)
EXTENDS Integers, FiniteSets

CONSTANTS
    Thread,  \* threads that read and write blocks
    Buf,     \* buffers; each stands for its block on the disk
    Val,     \* contents of a block
    NUM,     \* size of the descriptor table and of the rings
    IDX,     \* the ring indices count modulo IDX (2^16)
    None     \* NULL

ASSUME NUMAssumption == NUM \in Nat \ {0}
ASSUME IDXAssumption == IDX \in Nat /\ IDX > NUM /\ IDX % NUM = 0
ASSUME NoneAssumption == None \notin Buf \cup Thread \cup Nat
ASSUME IntrAssumption == "intr" \notin Thread \cup {None}

Desc == 0 .. NUM - 1
Idx == 0 .. IDX - 1

VARIABLES
    vdisk_lock,           \* its holder: a thread, "intr" or None
    free, desc,           \* disk.free[], disk.desc[]
    ops, info, status,    \* disk.ops[], disk.info[].b and .status
    avail, avail_ring,    \* disk.avail->idx, ->ring[]
    used, used_ring,      \* disk.used->idx, ->ring[]
    used_idx,             \* disk.used_idx
    bdisk, bdata,         \* b->disk, b->data
    pc, arg, idx,         \* per thread: place, (b, write), idx[3]
    ipc,                  \* the handler's place
    last_avail, inflight, \* device: what it has seen of the avail ring, chains it works on
    unsent, isr,          \* device: an interrupt it is about to raise, InterruptStatus
    sector                \* device: the blocks

tvars == <<pc, arg, idx>>
dvars == <<last_avail, inflight, unsent, isr, sector>>
vars == <<vdisk_lock, free, desc, ops, info, status, avail, avail_ring, used, used_ring,
          used_idx, bdisk, bdata, ipc, tvars, dvars>>

NoDesc == [addr |-> None, more |-> FALSE, next |-> 0]
NoArg == [b |-> None, write |-> FALSE]

(* After virtio_disk_init.                                                 *)
Init ==
    /\ vdisk_lock = None
    /\ free = [i \in Desc |-> TRUE]
    /\ desc = [i \in Desc |-> NoDesc]
    /\ ops = [i \in Desc |-> NoArg]
    /\ info = [i \in Desc |-> None]
    /\ status = [i \in Desc |-> TRUE]
    /\ avail = 0 /\ used = 0 /\ used_idx = 0 /\ last_avail = 0
    /\ avail_ring = [i \in Desc |-> 0] /\ used_ring = [i \in Desc |-> 0]
    /\ bdisk = [b \in Buf |-> FALSE]
    /\ bdata \in [Buf -> Val] /\ sector \in [Buf -> Val]
    /\ pc = [t \in Thread |-> "idle"]
    /\ arg = [t \in Thread |-> NoArg]
    /\ idx = [t \in Thread |-> [i \in 1 .. 3 |-> 0]]
    /\ ipc = "idle"
    /\ inflight = {} /\ unsent = FALSE /\ isr = FALSE

(* The threads asleep on &disk.free[0], woken.                             *)
WokenFree == [t \in Thread |-> IF pc[t] = "nofree" THEN "get" ELSE pc[t]]
-----------------------------------------------------------------------------
(* bread, bwrite or bzero calls virtio_disk_rw(b, write) and holds b->lock. *)
Call(t, b, write, v) ==
    /\ pc[t] = "idle"
    /\ \A u \in Thread : arg[u].b # b
    /\ write \/ v = bdata[b]
    /\ pc' = [pc EXCEPT ![t] = "get"]
    /\ arg' = [arg EXCEPT ![t] = [b |-> b, write |-> write]]
    /\ bdata' = [bdata EXCEPT ![b] = v]
    /\ UNCHANGED <<vdisk_lock, free, desc, ops, info, status, avail, avail_ring, used, used_ring,
                   used_idx, bdisk, ipc, idx, dvars>>

(* i, j, k are what alloc_desc returns in turn: the lowest free ones.      *)
Lowest3(i, j, k) ==
    /\ i < j /\ j < k /\ free[i] /\ free[j] /\ free[k]
    /\ \A m \in Desc : free[m] /\ m < k => m \in {i, j}

(* spin_get and an alloc3_desc that succeeds, ...                          *)
Alloc3(t) ==
    /\ pc[t] = "get" /\ vdisk_lock = None
    /\ \E i, j, k \in Desc :
         /\ Lowest3(i, j, k)
         /\ free' = [free EXCEPT ![i] = FALSE, ![j] = FALSE, ![k] = FALSE]
         /\ idx' = [idx EXCEPT ![t] = [n \in 1 .. 3 |-> IF n = 1 THEN i ELSE IF n = 2 THEN j ELSE k]]
    /\ vdisk_lock' = t
    /\ pc' = [pc EXCEPT ![t] = "fill"]
    /\ UNCHANGED <<desc, ops, info, status, avail, avail_ring, used, used_ring,
                   used_idx, bdisk, bdata, ipc, arg, dvars>>

(* ... or one that fails: the descriptors it got are freed again, which    *)
(* wakes the other waiters, and the thread sleeps.                         *)
Alloc3Fails(t) ==
    /\ pc[t] = "get" /\ vdisk_lock = None
    /\ \A i, j, k \in Desc : ~Lowest3(i, j, k)
    /\ pc' = [(IF \E i \in Desc : free[i] THEN WokenFree ELSE pc) EXCEPT ![t] = "nofree"]
    /\ UNCHANGED <<vdisk_lock, free, desc, ops, info, status, avail, avail_ring, used, used_ring,
                   used_idx, bdisk, bdata, ipc, arg, idx, dvars>>

(* The three descriptors, the header and the entry of the avail ring.      *)
FillChain(t, slot, waits, b) ==
    /\ pc[t] = "fill"
    /\ LET h == idx[t][1] IN
         /\ ops' = [ops EXCEPT ![h] = arg[t]]
         /\ desc' = [desc EXCEPT ![h] = [addr |-> h, more |-> TRUE, next |-> idx[t][2]],
                                 ![idx[t][2]] = [addr |-> arg[t].b, more |-> TRUE, next |-> idx[t][3]],
                                 ![idx[t][3]] = [addr |-> h, more |-> FALSE, next |-> 0]]
         /\ status' = [status EXCEPT ![h] = FALSE]
         /\ bdisk' = [bdisk EXCEPT ![arg[t].b] = waits]
         /\ info' = [info EXCEPT ![h] = b]
         /\ avail_ring' = [avail_ring EXCEPT ![slot] = h]
    /\ pc' = [pc EXCEPT ![t] = "publish"]
    /\ UNCHANGED <<vdisk_lock, free, avail, used, used_ring, used_idx, bdata, ipc, arg, idx, dvars>>

(* Slips: the entry after the next; b->disk not set.                       *)
FillNextSlot(t) == FillChain(t, (avail + 1) % NUM, TRUE, arg[t].b)
FillNoDisk(t) == FillChain(t, avail % NUM, FALSE, arg[t].b)
Fill(t) == FillChain(t, avail % NUM, TRUE, arg[t].b)

Publish(t) ==
    /\ pc[t] = "publish"
    /\ avail' = (avail + 1) % IDX
    /\ pc' = [pc EXCEPT ![t] = "wait"]
    /\ UNCHANGED <<vdisk_lock, free, desc, ops, info, status, avail_ring, used, used_ring,
                   used_idx, bdisk, bdata, ipc, arg, idx, dvars>>

(* while (b->disk == 1) sleep(b, &disk.vdisk_lock)                         *)
Sleep(t) ==
    /\ pc[t] = "wait" /\ bdisk[arg[t].b]
    /\ vdisk_lock' = None
    /\ pc' = [pc EXCEPT ![t] = "asleep"]
    /\ UNCHANGED <<free, desc, ops, info, status, avail, avail_ring, used, used_ring,
                   used_idx, bdisk, bdata, ipc, arg, idx, dvars>>

Relock(t) ==
    /\ pc[t] = "relock" /\ vdisk_lock = None
    /\ vdisk_lock' = t
    /\ pc' = [pc EXCEPT ![t] = "wait"]
    /\ UNCHANGED <<free, desc, ops, info, status, avail, avail_ring, used, used_ring,
                   used_idx, bdisk, bdata, ipc, arg, idx, dvars>>

(* What free_chain visits from h on: a chain has at most three links.      *)
Chain(h) ==
    LET m == desc[h].next IN
    IF ~desc[h].more THEN {h}
    ELSE IF ~desc[m].more THEN {h, m} ELSE {h, m, desc[m].next}

(* free_chain, which panics on a free descriptor and wakes the threads     *)
(* that wait for one, and the return to the caller, which is done with b.  *)
Release(t, freed, woken) ==
    /\ pc[t] = "wait"
    /\ info' = [info EXCEPT ![idx[t][1]] = None]
    /\ desc' = [i \in Desc |-> IF i \in freed THEN NoDesc ELSE desc[i]]
    /\ free' = [i \in Desc |-> free[i] \/ i \in freed]
    /\ pc' = [woken EXCEPT ![t] = IF \E i \in freed : free[i] THEN "panic" ELSE "idle"]
    /\ vdisk_lock' = None
    /\ arg' = [arg EXCEPT ![t] = NoArg]
    /\ idx' = [idx EXCEPT ![t] = [n \in 1 .. 3 |-> 0]]
    /\ UNCHANGED <<ops, status, avail, avail_ring, used, used_ring, used_idx, bdisk, bdata, ipc, dvars>>

(* Slips: no wait for the device; only the head freed; no wakeup.          *)
FinishEarly(t) == Release(t, Chain(idx[t][1]), WokenFree)
FinishHead(t) == pc[t] = "wait" /\ ~bdisk[arg[t].b] /\ Release(t, {idx[t][1]}, WokenFree)
FinishSilent(t) == pc[t] = "wait" /\ ~bdisk[arg[t].b] /\ Release(t, Chain(idx[t][1]), pc)

Finish(t) == pc[t] = "wait" /\ ~bdisk[arg[t].b] /\ Release(t, Chain(idx[t][1]), WokenFree)
-----------------------------------------------------------------------------
(* virtio_disk_intr: take the lock and acknowledge, ...                    *)
IntrGet ==
    /\ ipc = "idle" /\ isr /\ vdisk_lock = None
    /\ vdisk_lock' = "intr"
    /\ isr' = FALSE
    /\ ipc' = "loop"
    /\ UNCHANGED <<free, desc, ops, info, status, avail, avail_ring, used, used_ring,
                   used_idx, bdisk, bdata, tvars, last_avail, inflight, unsent, sector>>

(* Slip: the thread is not woken.                                          *)
IntrTakeSilent ==
    /\ ipc = "loop" /\ used_idx # used
    /\ bdisk' = [bdisk EXCEPT ![info[used_ring[used_idx % NUM]]] = FALSE]
    /\ used_idx' = (used_idx + 1) % IDX
    /\ UNCHANGED <<vdisk_lock, free, desc, ops, info, status, avail, avail_ring, used, used_ring,
                   bdata, ipc, tvars, dvars>>

(* ... take the completed requests from the used ring, ...                 *)
IntrTake ==
    /\ ipc = "loop" /\ used_idx # used
    /\ LET h == used_ring[used_idx % NUM]
           b == info[h] IN
         IF ~status[h] \/ b = None
           THEN ipc' = "panic" /\ UNCHANGED <<bdisk, pc, used_idx>>
           ELSE /\ bdisk' = [bdisk EXCEPT ![b] = FALSE]
                /\ pc' = [t \in Thread |-> IF pc[t] = "asleep" /\ arg[t].b = b THEN "relock" ELSE pc[t]]
                /\ used_idx' = (used_idx + 1) % IDX
                /\ UNCHANGED ipc
    /\ UNCHANGED <<vdisk_lock, free, desc, ops, info, status, avail, avail_ring, used, used_ring,
                   bdata, arg, idx, dvars>>

(* ... until there are no more.                                            *)
IntrDone ==
    /\ ipc = "loop" /\ used_idx = used
    /\ vdisk_lock' = None
    /\ ipc' = "idle"
    /\ UNCHANGED <<free, desc, ops, info, status, avail, avail_ring, used, used_ring,
                   used_idx, bdisk, bdata, tvars, dvars>>
-----------------------------------------------------------------------------
(* The device takes chains from the avail ring in order, ...               *)
DevTake ==
    /\ last_avail # avail
    /\ inflight' = inflight \cup {avail_ring[last_avail % NUM]}
    /\ last_avail' = (last_avail + 1) % IDX
    /\ UNCHANGED <<vdisk_lock, free, desc, ops, info, status, avail, avail_ring, used, used_ring,
                   used_idx, bdisk, bdata, ipc, tvars, unsent, isr, sector>>

(* ... completes them in any order, ...                                    *)
DevComplete(h) ==
    /\ h \in inflight
    /\ LET m == desc[h].next
           b == desc[m].addr IN
         /\ IF ops[h].write
              THEN sector' = [sector EXCEPT ![ops[h].b] = bdata[b]] /\ UNCHANGED bdata
              ELSE bdata' = [bdata EXCEPT ![b] = sector[ops[h].b]] /\ UNCHANGED sector
         /\ status' = [status EXCEPT ![desc[desc[m].next].addr] = TRUE]
    /\ used_ring' = [used_ring EXCEPT ![used % NUM] = h]
    /\ used' = (used + 1) % IDX
    /\ inflight' = inflight \ {h}
    /\ unsent' = TRUE
    /\ UNCHANGED <<vdisk_lock, free, desc, ops, info, avail, avail_ring, used_idx, bdisk, ipc, tvars,
                   last_avail, isr>>

(* ... and raises its interrupt some time after it has moved used->idx.    *)
DevIntr ==
    /\ unsent
    /\ unsent' = FALSE
    /\ isr' = TRUE
    /\ UNCHANGED <<vdisk_lock, free, desc, ops, info, status, avail, avail_ring, used, used_ring,
                   used_idx, bdisk, bdata, ipc, tvars, last_avail, inflight, sector>>
-----------------------------------------------------------------------------
ThreadStep(t) ==
    \/ Alloc3(t) \/ Alloc3Fails(t) \/ Fill(t) \/ Publish(t)
    \/ Sleep(t) \/ Relock(t) \/ Finish(t)

Intr == IntrGet \/ IntrTake \/ IntrDone

Device == DevTake \/ (\E h \in Desc : DevComplete(h)) \/ DevIntr

Next ==
    \/ \E t \in Thread, b \in Buf, write \in BOOLEAN, v \in Val : Call(t, b, write, v)
    \/ \E t \in Thread : ThreadStep(t)
    \/ Intr
    \/ Device

Spec == Init /\ [][Next]_vars

(* The device serves every chain it has taken; a woken thread gets a CPU;  *)
(* a CPU that spins for vdisk_lock gets it if it is released over and over. *)
FairSpec ==
    /\ Spec
    /\ \A t \in Thread : WF_vars(ThreadStep(t)) /\ SF_vars(Relock(t))
    /\ SF_vars(IntrGet) /\ WF_vars(IntrTake) /\ WF_vars(IntrDone)
    /\ WF_vars(DevTake) /\ WF_vars(DevIntr)
    /\ \A h \in Desc : WF_vars(DevComplete(h))
-----------------------------------------------------------------------------
(* A thread's three descriptors while its request exists.                  *)
Owned(t) == IF pc[t] \in {"fill", "publish", "wait", "asleep", "relock"}
              THEN {idx[t][n] : n \in 1 .. 3} ELSE {}

(* The descriptor table is partitioned: a descriptor is free or belongs to *)
(* the request of exactly one thread, which has three different ones; none *)
(* leaks, and none is handed to two requests.                              *)
DescriptorsPartitioned ==
    /\ \A i \in Desc : free[i] <=> \A t \in Thread : i \notin Owned(t)
    /\ \A t, u \in Thread : t # u => Owned(t) \cap Owned(u) = {}
    /\ \A t \in Thread : Owned(t) # {} =>
         idx[t][1] # idx[t][2] /\ idx[t][1] # idx[t][3] /\ idx[t][2] # idx[t][3]

(* The panics of free_desc and virtio_disk_intr do not fire, and the       *)
(* handler finds the buffer of every completion it takes.                  *)
NoPanic == ipc # "panic" /\ \A t \in Thread : pc[t] # "panic"

(* A chain the device can still reach, in the unread part of the avail     *)
(* ring or in flight, is that of a request whose thread waits for it: the  *)
(* device never works on a descriptor the driver has taken back.           *)
Unread(from, to) == {n \in Idx : (n - from) % IDX < (to - from) % IDX}
Published == {avail_ring[n % NUM] : n \in Unread(last_avail, avail)}

DeviceSeesLive ==
    \A h \in Published \cup inflight :
        \E t \in Thread : /\ pc[t] \in {"wait", "asleep", "relock"}
                          /\ h = idx[t][1] /\ Chain(h) = Owned(t)
                          /\ info[h] = arg[t].b /\ bdisk[arg[t].b]

(* When virtio_disk_rw returns, the transfer has happened: the buffer and  *)
(* the block agree, however completions and interrupts were ordered.       *)
Transferred ==
    \A t \in Thread : pc[t] \in {"wait", "asleep", "relock"} /\ ~bdisk[arg[t].b]
                        => bdata[arg[t].b] = sector[arg[t].b]

(* A ring entry is not overwritten before the other side has read it: the  *)
(* rings hold as many different chains as lie between their indices.       *)
RingsHold ==
    /\ Cardinality(Published) = (avail - last_avail) % IDX
    /\ Cardinality({used_ring[n % NUM] : n \in Unread(used_idx, used)}) = (used - used_idx) % IDX

(* No thread sleeps for descriptors while three are free.                  *)
NoSleeperOnFreeDescriptors ==
    \A t \in Thread : pc[t] = "nofree" => Cardinality({i \in Desc : free[i]}) < 3

(* A request that has its descriptors is served and returns, also while    *)
(* others keep calling.                                                    *)
RequestReturns == \A t \in Thread : (pc[t] = "fill") ~> (pc[t] = "idle")
=============================================================================
