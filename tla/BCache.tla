------------------------------- MODULE BCache -------------------------------
(***************************************************************************)
(* The buffer cache, kernel/fs/bio.c: bread, bwrite, bzero and brelse.     *)
(* The threads that call it are open: a thread may have several buffers at *)
(* once (itrunc, dentry_del), changes what it has, and writes it or not    *)
(* before it releases it (dentry_del does not write a block it empties).   *)
(*                                                                         *)
(* A section of bcache.lock is one step.  A buffer's sleep lock is its     *)
(* holder; taking it is one step that waits until it is free (Sleeplock),  *)
(* and a disk transfer is one step under it (Disk).  The device number is  *)
(* part of the block; a buffer that was never used has block 0 of device   *)
(* 0, which nobody reads: None.                                            *)
(***************************************************************************)
EXTENDS Integers, FiniteSets, Sequences

CONSTANTS
    Thread,  \* threads in the file system
    Buf,     \* bcache.bufs
    Block,   \* (dev, blockno)
    Val,     \* contents of a block
    None     \* NULL

ASSUME NoneAssumption == None \notin Thread \cup Buf \cup Block \cup Val
ASSUME ThreadAssumption == IsFiniteSet(Thread)

VARIABLES
    lru,                   \* the list bcache.head, from head to tail
    blockno, refc, valid,  \* fields of a buffer
    lock,                  \* b->lock: its holder
    data,                  \* b->data
    disk,                  \* the blocks on the disk
    held,                  \* held[t][b]: the block thread t asked for and got in b
    pc, want, buf          \* per thread: place in the call, its block and its b

bvars == <<lru, blockno, refc, valid>>
vars == <<bvars, lock, data, disk, held, pc, want, buf>>

Reads == {"check", "valid"}
Refers == Reads \cup {"lock", "unref", "twice"}

BCacheTypeOK ==
    /\ blockno \in [Buf -> Block \cup {None}]
    /\ refc \in [Buf -> Nat]
    /\ valid \in [Buf -> BOOLEAN]
    /\ lock \in [Buf -> Thread \cup {None}]
    /\ data \in [Buf -> Val]
    /\ disk \in [Block -> Val]
    /\ held \in [Thread -> [Buf -> Block \cup {None}]]
    /\ pc \in [Thread -> Refers \cup {"work", "bget", "panic", "misuse"}]
    /\ want \in [Thread -> Block \cup {None}]
    /\ buf \in [Thread -> Buf \cup {None}]
    /\ \A t \in Thread : /\ pc[t] \in Refers => buf[t] \in Buf
                         /\ pc[t] \in Refers \cup {"bget"} => want[t] \in Block

(* init_bcache, whatever the numbering of the buffers; the disk holds      *)
(* anything.                                                               *)
Init ==
    /\ lru \in {s \in [1 .. Cardinality(Buf) -> Buf] : \A i, j \in DOMAIN s : s[i] = s[j] => i = j}
    /\ blockno = [b \in Buf |-> None]
    /\ refc = [b \in Buf |-> 0]
    /\ valid = [b \in Buf |-> FALSE]
    /\ lock = [b \in Buf |-> None]
    /\ data \in [Buf -> Val]
    /\ disk \in [Block -> Val]
    /\ held = [t \in Thread |-> [b \in Buf |-> None]]
    /\ pc = [t \in Thread |-> "work"]
    /\ want = [t \in Thread |-> None]
    /\ buf = [t \in Thread |-> None]

Goto(t, label) == pc' = [pc EXCEPT ![t] = label]

(* bcache.lock can be had unless a thread has panicked with it.            *)
CacheFree == \A t \in Thread : pc[t] # "panic"
-----------------------------------------------------------------------------
bread(t, k) ==
    /\ pc[t] = "work"
    /\ want' = [want EXCEPT ![t] = k]
    /\ Goto(t, "bget")
    /\ UNCHANGED <<bvars, lock, data, disk, held, buf>>

(* bget: the block is in the cache, ...                                    *)
BgetHit(t, b) ==
    /\ pc[t] = "bget" /\ CacheFree
    /\ blockno[b] = want[t]
    /\ refc' = [refc EXCEPT ![b] = @ + 1]
    /\ buf' = [buf EXCEPT ![t] = b]
    /\ Goto(t, "lock")
    /\ UNCHANGED <<lru, blockno, valid, lock, data, disk, held, want>>

(* ... or it takes the place of the least recently used free buffer, ...   *)
Victim(b) ==
    \E i \in DOMAIN lru : /\ lru[i] = b /\ refc[b] = 0
                          /\ \A j \in DOMAIN lru : j > i => refc[lru[j]] # 0

Recycle(t, b, count) ==
    /\ pc[t] = "bget" /\ CacheFree
    /\ refc' = [refc EXCEPT ![b] = count]
    /\ blockno' = [blockno EXCEPT ![b] = want[t]]
    /\ buf' = [buf EXCEPT ![t] = b]
    /\ Goto(t, "lock")
    /\ UNCHANGED <<lru, lock, data, disk, held, want>>

Miss(t) == \A b \in Buf : blockno[b] # want[t]

(* Slips: the buffer is taken without the scan for a hit; b->valid is      *)
(* kept.                                                                   *)
BgetMissUnsure(t, b) == Victim(b) /\ Recycle(t, b, 1) /\ valid' = [valid EXCEPT ![b] = FALSE]
BgetMissValid(t, b) == Miss(t) /\ Victim(b) /\ Recycle(t, b, 1) /\ UNCHANGED valid
BgetMiss(t, b) == Miss(t) /\ Victim(b) /\ Recycle(t, b, 1) /\ valid' = [valid EXCEPT ![b] = FALSE]

(* ... or every buffer is in use: panic, with bcache.lock held.            *)
BgetExhausted(t) ==
    /\ pc[t] = "bget" /\ CacheFree
    /\ Miss(t)
    /\ \A b \in Buf : refc[b] # 0
    /\ Goto(t, "panic")
    /\ UNCHANGED <<bvars, lock, data, disk, held, want, buf>>

(* Slip: the sleep lock is taken without waiting.                          *)
BgetLockBlind(t) ==
    /\ pc[t] = "lock"
    /\ lock' = [lock EXCEPT ![buf[t]] = t]
    /\ Goto(t, "check")
    /\ UNCHANGED <<bvars, data, disk, held, want, buf>>

(* sleep_get(&b->lock) at the end of bget; a thread that has the buffer    *)
(* already panics there.                                                   *)
BgetLock(t) ==
    /\ pc[t] = "lock" /\ lock[buf[t]] \in {None, t}
    /\ lock' = [lock EXCEPT ![buf[t]] = t]
    /\ Goto(t, IF lock[buf[t]] = t THEN "twice" ELSE "check")
    /\ UNCHANGED <<bvars, data, disk, held, want, buf>>

(* bread returns.                                                          *)
Return(t) ==
    /\ held' = [held EXCEPT ![t][buf[t]] = want[t]]
    /\ Goto(t, "work")

(* The rest of bread: disk_read unless the data is valid, ...              *)
DiskRead(t) ==
    /\ pc[t] = "check"
    /\ IF valid[buf[t]]
         THEN Return(t) /\ UNCHANGED data
         ELSE /\ data' = [data EXCEPT ![buf[t]] = disk[blockno[buf[t]]]]
              /\ Goto(t, "valid")
              /\ UNCHANGED held
    /\ UNCHANGED <<bvars, lock, disk, want, buf>>

(* ... then b->valid = true.                                               *)
SetValid(t) ==
    /\ pc[t] = "valid"
    /\ valid' = [valid EXCEPT ![buf[t]] = TRUE]
    /\ Return(t)
    /\ UNCHANGED <<lru, blockno, refc, lock, data, disk, want, buf>>

Has(t, b) == pc[t] = "work" /\ held[t][b] # None

(* The caller changes the data, or bzero clears it; ...                    *)
Modify(t, b, v) ==
    /\ Has(t, b)
    /\ data' = [data EXCEPT ![b] = v]
    /\ UNCHANGED <<bvars, lock, disk, held, pc, want, buf>>

(* ... bwrite writes it, after the test for the lock.                      *)
bwrite(t, b) ==
    /\ Has(t, b)
    /\ IF lock[b] = t
         THEN disk' = [disk EXCEPT ![blockno[b]] = data[b]] /\ UNCHANGED pc
         ELSE Goto(t, "misuse") /\ UNCHANGED disk
    /\ UNCHANGED <<bvars, lock, data, held, want, buf>>

(* brelse, written or not: the test for the lock and sleep_put, ...        *)
brelse(t, b) ==
    /\ Has(t, b)
    /\ IF lock[b] = t
         THEN /\ lock' = [lock EXCEPT ![b] = None]
              /\ held' = [held EXCEPT ![t][b] = None]
              /\ buf' = [buf EXCEPT ![t] = b]
              /\ want' = [want EXCEPT ![t] = held[t][b]]
              /\ Goto(t, "unref")
         ELSE Goto(t, "misuse") /\ UNCHANGED <<lock, held, want, buf>>
    /\ UNCHANGED <<bvars, data, disk>>

(* ... then the reference is dropped, and a free buffer goes to the head.  *)
Unref(t) ==
    /\ pc[t] = "unref" /\ CacheFree
    /\ refc' = [refc EXCEPT ![buf[t]] = @ - 1]
    /\ lru' = IF refc[buf[t]] = 1
                THEN <<buf[t]>> \o SelectSeq(lru, LAMBDA b : b # buf[t]) ELSE lru
    /\ want' = [want EXCEPT ![t] = None]
    /\ buf' = [buf EXCEPT ![t] = None]
    /\ Goto(t, "work")
    /\ UNCHANGED <<blockno, valid, lock, data, disk, held>>

(* panic never returns.                                                    *)
Panic(t) == pc[t] \in {"panic", "twice", "misuse"} /\ UNCHANGED vars

ThreadStep(t) ==
    \/ \E k \in Block : bread(t, k)
    \/ \E b \in Buf : BgetHit(t, b) \/ BgetMiss(t, b)
    \/ BgetExhausted(t) \/ BgetLock(t) \/ DiskRead(t) \/ SetValid(t)
    \/ \E b \in Buf : (\E v \in Val : Modify(t, b, v)) \/ bwrite(t, b) \/ brelse(t, b)
    \/ Unref(t)
    \/ Panic(t)

Next == \E t \in Thread : ThreadStep(t)

Spec == Init /\ [][Next]_vars
-----------------------------------------------------------------------------
(* A block is in at most one buffer, although bget gives up bcache.lock    *)
(* before it has the buffer's lock.                                        *)
OneBufferPerBlock == \A b, d \in Buf : blockno[b] = blockno[d] /\ blockno[b] # None => b = d

(* The count of a buffer is the number of threads that have it, and of     *)
(* those that are on their way to its lock or from it: a buffer that is    *)
(* waited for is not recycled.                                             *)
Holders(b) == {t \in Thread : held[t][b] # None}
Callers(b) == {t \in Thread : pc[t] \in Refers /\ buf[t] = b}

RefcCounts == \A b \in Buf : refc[b] = Cardinality(Holders(b)) + Cardinality(Callers(b))

(* What a thread has between bread and brelse is the block it asked for,   *)
(* with its lock; nobody else has it.                                      *)
RightBuffer ==
    \A t \in Thread :
        /\ \A b \in Buf : held[t][b] # None => blockno[b] = held[t][b] /\ lock[b] = t
        /\ pc[t] \in Refers => blockno[buf[t]] = want[t]
        /\ pc[t] \in Reads => lock[buf[t]] = t

(* The table that bget and brelse keep is right: no block is in two        *)
(* buffers, refc counts the threads between bread and brelse, and each of  *)
(* them has the buffer of its block. A buffer that is recycled between     *)
(* bget's release of bcache.lock and sleep_get breaks it.                  *)
BufferTable == OneBufferPerBlock /\ RefcCounts /\ RightBuffer

(* The panics of bwrite and brelse do not fire.                            *)
NoMisuse == \A t \in Thread : pc[t] # "misuse"

(* What the next bread of a block returns, or its holder sees.             *)
InCache(b, k) == blockno[b] = k /\ valid[b]
Viewed == [k \in Block |-> IF \E b \in Buf : InCache(b, k)
                             THEN data[CHOOSE b \in Buf : InCache(b, k)] ELSE disk[k]]
Using == [t \in Thread |-> {k \in Block : \E b \in Buf : held[t][b] = k}]

Store == INSTANCE BlockStore WITH content <- disk, view <- Viewed, using <- Using

(* The cache implements BlockStore: a block has one user at a time, who    *)
(* finds what the last one left or what the disk holds, and only bwrite    *)
(* decides what the disk holds. A buffer filled with the wrong block, or   *)
(* valid before it is filled, breaks it.                                   *)
ImplementsBlockStore == Store!Spec
=============================================================================
