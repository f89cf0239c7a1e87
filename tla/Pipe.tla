-------------------------------- MODULE Pipe --------------------------------
(***************************************************************************)
(* One pipe, kernel/fs/pipe.c: piperead and pipewrite by any number of     *)
(* threads.  p->lock is held from spin_get to spin_put or sleep; a step    *)
(* under it is one turn of a copy loop.  sleep(chan, &p->lock) gives up    *)
(* the lock and sleeps in one step, a wakeup sends the sleepers back to    *)
(* where they take the lock (NoLostWakeup of Sched).                       *)
(***************************************************************************)
EXTENDS Integers, Sequences

CONSTANTS
    Reader, Writer,  \* threads
    Byte,            \* contents of a byte
    PIPE_SIZE,       \* capacity
    U32,             \* nread and nwrite count modulo U32 (2^32)
    MaxLen,          \* bound: longest read or write
    None             \* NULL

ASSUME SizeAssumption == PIPE_SIZE \in Nat \ {0} /\ MaxLen \in Nat
ASSUME U32Assumption == U32 \in Nat /\ U32 > PIPE_SIZE /\ U32 % PIPE_SIZE = 0
ASSUME ThreadAssumption == Reader \cap Writer = {} /\ None \notin Reader \cup Writer

Thread == Reader \cup Writer
Message == UNION {[1 .. n -> Byte] : n \in 0 .. MaxLen}

VARIABLES
    lock,           \* p->lock: its holder
    nread, nwrite,  \* p->nread, p->nwrite
    buf,            \* p->buf
    pc,             \* where each thread is
    bytes, start,   \* reader: bytes still to copy, place in buf
    usrc, written,  \* writer: the caller's buffer, total_written
    udst            \* reader: the caller's buffer, as far as filled

rvars == <<bytes, start, udst>>
wvars == <<usrc, written>>
vars == <<lock, nread, nwrite, buf, pc, rvars, wvars>>

pipe_readable_size == (nwrite - nread) % U32
pipe_writable_size == (PIPE_SIZE - (nwrite - nread)) % U32

(* pipealloc, with any old contents.                                       *)
Init ==
    /\ lock = None
    /\ nread = 0 /\ nwrite = 0
    /\ buf \in [0 .. PIPE_SIZE - 1 -> Byte]
    /\ pc = [t \in Thread |-> "idle"]
    /\ bytes = [r \in Reader |-> 0] /\ start = [r \in Reader |-> 0]
    /\ udst = [r \in Reader |-> <<>>]
    /\ usrc = [w \in Writer |-> <<>>] /\ written = [w \in Writer |-> 0]

Least(a, b) == IF a < b THEN a ELSE b

(* wakeup(&p->nread), wakeup(&p->nwrite)                                   *)
Woken(threads) == [t \in Thread |-> IF t \in threads /\ pc[t] = "asleep" THEN "get" ELSE pc[t]]
-----------------------------------------------------------------------------
piperead(r, len) ==
    /\ pc[r] = "idle"
    /\ pc' = [pc EXCEPT ![r] = "get"]
    /\ bytes' = [bytes EXCEPT ![r] = len]
    /\ UNCHANGED <<lock, nread, nwrite, buf, start, udst, wvars>>

(* Take the lock, or take it again after sleep; the pipe is empty ...      *)
ReadSleep(r) ==
    /\ pc[r] = "get" /\ lock = None
    /\ nread = nwrite
    /\ pc' = [pc EXCEPT ![r] = "asleep"]
    /\ UNCHANGED <<lock, nread, nwrite, buf, rvars, wvars>>

(* ... or there is something to read.                                      *)
ReadStart(r) ==
    /\ pc[r] = "get" /\ lock = None
    /\ nread # nwrite
    /\ lock' = r
    /\ bytes' = [bytes EXCEPT ![r] = Least(@, pipe_readable_size)]
    /\ start' = [start EXCEPT ![r] = nread % PIPE_SIZE]
    /\ pc' = [pc EXCEPT ![r] = "copy"]
    /\ UNCHANGED <<nread, nwrite, buf, udst, wvars>>

(* One turn of the copy loop moves count bytes, up to the end of buf.      *)
CopyOut(r, count, next) ==
    /\ pc[r] = "copy" /\ bytes[r] > 0
    /\ udst' = [udst EXCEPT ![r] = @ \o [i \in 1 .. count |-> buf[start[r] + i - 1]]]
    /\ start' = [start EXCEPT ![r] = next]
    /\ bytes' = [bytes EXCEPT ![r] = @ - count]
    /\ nread' = (nread + count) % U32
    /\ UNCHANGED <<lock, nwrite, buf, pc, wvars>>

(* Slip: start is not moved.                                               *)
ReadCopyStay(r) ==
    LET count == Least(bytes[r], PIPE_SIZE - start[r])
    IN  CopyOut(r, count, start[r])

ReadCopy(r) ==
    LET count == Least(bytes[r], PIPE_SIZE - start[r])
    IN  CopyOut(r, count, (start[r] + count) % PIPE_SIZE)

Leave(t, woken) ==
    /\ lock' = None
    /\ pc' = [woken EXCEPT ![t] = "idle"]

(* The read returns; start and udst are cleared because nothing uses them  *)
(* any more.  Slip: no wakeup of the writers.                              *)
ReadDoneSilent(r) ==
    /\ pc[r] = "copy" /\ bytes[r] = 0
    /\ Leave(r, pc)
    /\ start' = [start EXCEPT ![r] = 0]
    /\ udst' = [udst EXCEPT ![r] = <<>>]
    /\ UNCHANGED <<nread, nwrite, buf, bytes, wvars>>

ReadDone(r) ==
    /\ pc[r] = "copy" /\ bytes[r] = 0
    /\ Leave(r, Woken(Writer))
    /\ start' = [start EXCEPT ![r] = 0]
    /\ udst' = [udst EXCEPT ![r] = <<>>]
    /\ UNCHANGED <<nread, nwrite, buf, bytes, wvars>>
-----------------------------------------------------------------------------
pipewrite(w, m) ==
    /\ pc[w] = "idle"
    /\ pc' = [pc EXCEPT ![w] = "get"]
    /\ usrc' = [usrc EXCEPT ![w] = m]
    /\ written' = [written EXCEPT ![w] = 0]
    /\ UNCHANGED <<lock, nread, nwrite, buf, rvars>>

(* Take the lock, or take it again after sleep.                            *)
WriteGet(w) ==
    /\ pc[w] = "get" /\ lock = None
    /\ lock' = w
    /\ pc' = [pc EXCEPT ![w] = "copy"]
    /\ UNCHANGED <<nread, nwrite, buf, rvars, wvars>>

(* No room: wake the readers and sleep, ...                                *)
WriteSleep(w) ==
    /\ pc[w] = "copy" /\ written[w] < Len(usrc[w]) /\ pipe_writable_size = 0
    /\ lock' = None
    /\ pc' = [Woken(Reader) EXCEPT ![w] = "asleep"]
    /\ UNCHANGED <<nread, nwrite, buf, rvars, wvars>>

CopyIn(w, count) ==
    LET from == nwrite % PIPE_SIZE IN
    /\ buf' = [i \in DOMAIN buf |-> IF i \in from .. from + count - 1
                                      THEN usrc[w][written[w] + 1 + i - from] ELSE buf[i]]
    /\ written' = [written EXCEPT ![w] = @ + count]
    /\ nwrite' = (nwrite + count) % U32
    /\ UNCHANGED <<lock, nread, pc, rvars, usrc>>

Room(w) == pc[w] = "copy" /\ written[w] < Len(usrc[w]) /\ pipe_writable_size # 0
Piece(w, limit) == Least(Least(Len(usrc[w]) - written[w], limit), PIPE_SIZE - (nwrite % PIPE_SIZE))

(* ... or copy a piece, up to the end of buf, ...                          *)
WriteCopy(w) == Room(w) /\ CopyIn(w, Piece(w, pipe_writable_size))

(* ... until all is written; wake the readers.                             *)
WriteDone(w) ==
    /\ pc[w] = "copy" /\ written[w] = Len(usrc[w])
    /\ Leave(w, Woken(Reader))
    /\ usrc' = [usrc EXCEPT ![w] = <<>>]
    /\ written' = [written EXCEPT ![w] = 0]
    /\ UNCHANGED <<nread, nwrite, buf, rvars>>
-----------------------------------------------------------------------------
ReaderStep(r) ==
    \/ \E len \in 0 .. MaxLen : piperead(r, len)
    \/ ReadSleep(r) \/ ReadStart(r) \/ ReadCopy(r) \/ ReadDone(r)

WriterStep(w) ==
    \/ \E m \in Message : pipewrite(w, m)
    \/ WriteGet(w) \/ WriteSleep(w) \/ WriteCopy(w) \/ WriteDone(w)

Next == (\E r \in Reader : ReaderStep(r)) \/ (\E w \in Writer : WriterStep(w))

Spec == Init /\ [][Next]_vars
-----------------------------------------------------------------------------
(* No wakeup is lost: readers sleep only on an empty pipe and writers only *)
(* on a full one, unless the thread that has the lock has yet to wake them. *)
SleepersJustified ==
    /\ \A r \in Reader : pc[r] = "asleep" => nread = nwrite \/ lock \in Writer
    /\ \A w \in Writer : pc[w] = "asleep" => pipe_writable_size = 0 \/ lock \in Reader

(* The pipe is a queue: the bytes come out once, in the order in which     *)
(* they went in.                                                           *)
Contents == [i \in 1 .. pipe_readable_size |-> buf[(nread + i - 1) % PIPE_SIZE]]
Rest == [w \in Writer |-> SubSeq(usrc[w], written[w] + 1, Len(usrc[w]))]

Queue == INSTANCE Fifo WITH Size <- PIPE_SIZE, q <- Contents, rest <- Rest, out <- udst

ImplementsFifo == Queue!Spec
=============================================================================
