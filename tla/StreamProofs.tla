---------------------------- MODULE StreamProofs ----------------------------
(* The two byte streams.  The pipe, for any number of readers and writers, *)
(* any capacity and any width of its counters: no wakeup is lost, and the  *)
(* pipe is a queue.  The console, for any number of readers and writers    *)
(* and any buffer sizes: a writer's bytes arrive whole and in order, no    *)
(* reader sleeps beside a finished line, and the ring holds the line.      *)
EXTENDS Pipe, Console, Rings

Place == {"idle", "get", "asleep", "copy"}

PipeTypes ==
    /\ lock \in Thread \cup {None}
    /\ nread \in 0 .. U32 - 1 /\ nwrite \in 0 .. U32 - 1
    /\ buf \in [0 .. PIPE_SIZE - 1 -> Byte]
    /\ pc \in [Thread -> Place]
    /\ bytes \in [Reader -> Nat] /\ start \in [Reader -> 0 .. PIPE_SIZE - 1]
    /\ udst \in [Reader -> Seq(Byte)]
    /\ usrc \in [Writer -> Seq(Byte)]
    /\ written \in [Writer -> Nat]

(* The copy loops run under p->lock.                                       *)
Locked == \A t \in Thread : pc[t] = "copy" <=> lock = t

(* The counters are never further apart than the capacity, and a reader    *)
(* under way copies what is there, from where nread points.                *)
Within ==
    /\ pipe_readable_size <= PIPE_SIZE
    /\ \A r \in Reader : pc[r] = "copy" =>
         bytes[r] <= pipe_readable_size /\ start[r] = nread % PIPE_SIZE

(* A writer is never past the end of its buffer, and has none between      *)
(* calls.                                                                  *)
Sources ==
    \A w \in Writer : /\ written[w] <= Len(usrc[w])
                      /\ pc[w] = "idle" => usrc[w] = <<>>

IInv == PipeTypes /\ Locked /\ Within /\ Sources /\ SleepersJustified

(* What the assumptions say of the two moduli.                             *)
LEMMA Sizes ==
    /\ PIPE_SIZE \in Nat \ {0} /\ U32 \in Nat \ {0}
    /\ PIPE_SIZE < U32 /\ U32 % PIPE_SIZE = 0
  BY SizeAssumption, U32Assumption

(* The sizes that the code computes modulo 2^32 are those of a ring.       *)
LEMMA Gap ==
    ASSUME nread \in 0 .. U32 - 1, nwrite \in 0 .. U32 - 1
    PROVE  /\ pipe_readable_size = IF nread <= nwrite THEN nwrite - nread ELSE nwrite - nread + U32
           /\ pipe_readable_size \in Nat
           /\ pipe_readable_size = 0 <=> nread = nwrite
           /\ pipe_readable_size <= PIPE_SIZE =>
                pipe_writable_size = PIPE_SIZE - pipe_readable_size
<1>1. pipe_readable_size = IF nread <= nwrite THEN nwrite - nread ELSE nwrite - nread + U32
  BY Sizes, Distance, Zenon DEF pipe_readable_size
<1>2. pipe_readable_size \in Nat /\ (pipe_readable_size = 0 <=> nread = nwrite)
  BY <1>1, Sizes
<1>3. ASSUME pipe_readable_size <= PIPE_SIZE
      PROVE  pipe_writable_size = PIPE_SIZE - pipe_readable_size
  <2>1. PIPE_SIZE - pipe_readable_size \in 0 .. U32 - 1
    BY <1>2, <1>3, Sizes
  <2>2. (PIPE_SIZE - pipe_readable_size) % U32 = PIPE_SIZE - pipe_readable_size
    BY <2>1, Sizes, Small, Zenon
  <2>3. CASE nread <= nwrite
    BY <2>2, <2>3, <1>1, Zenon DEF pipe_writable_size
  <2>4. CASE nwrite < nread
    <3>1. PICK x \in Int : x = PIPE_SIZE - (nwrite - nread)
      BY Sizes
    <3>2. (x - U32) % U32 = x % U32
      BY Sizes, FullTurn, Zenon
    <3>3. x - U32 = PIPE_SIZE - pipe_readable_size
      BY <1>1, <2>4, <3>1, Sizes
    <3> QED
      BY <2>2, <3>1, <3>2, <3>3, Zenon DEF pipe_writable_size
  <2> QED
    BY <2>3, <2>4
<1> QED
  BY <1>1, <1>2, <1>3, Zenon

(* A reader that copies c bytes leaves c fewer.                            *)
LEMMA ReadGap ==
    ASSUME nread \in 0 .. U32 - 1, nwrite \in 0 .. U32 - 1,
           NEW c \in Nat, c <= pipe_readable_size,
           nread' = (nread + c) % U32, nwrite' = nwrite
    PROVE  /\ nread' \in 0 .. U32 - 1
           /\ pipe_readable_size' = pipe_readable_size - c
<1>1. pipe_readable_size = IF nread <= nwrite THEN nwrite - nread ELSE nwrite - nread + U32
  BY Gap, Zenon
<1>2. c \in 0 .. U32
  BY <1>1, Sizes
<1>3. nread' = IF nread + c < U32 THEN nread + c ELSE nread + c - U32
  BY <1>2, Sizes, Advance, Zenon
<1>4. nread' \in 0 .. U32 - 1
  BY <1>2, <1>3, Sizes
<1>5. pipe_readable_size' = IF nread' <= nwrite THEN nwrite - nread' ELSE nwrite - nread' + U32
  <2>1. (nwrite - nread') % U32 = IF nread' <= nwrite THEN nwrite - nread' ELSE nwrite - nread' + U32
    BY <1>4, Sizes, Distance, Zenon
  <2> QED
    BY <2>1, Zenon DEF pipe_readable_size
<1> QED
  BY <1>1, <1>2, <1>3, <1>4, <1>5, Sizes

(* A writer that copies c bytes adds c.                                    *)
LEMMA WriteGap ==
    ASSUME nread \in 0 .. U32 - 1, nwrite \in 0 .. U32 - 1,
           NEW c \in Nat, pipe_readable_size + c <= PIPE_SIZE,
           nwrite' = (nwrite + c) % U32, nread' = nread
    PROVE  /\ nwrite' \in 0 .. U32 - 1
           /\ pipe_readable_size' = pipe_readable_size + c
<1>1. /\ pipe_readable_size = IF nread <= nwrite THEN nwrite - nread ELSE nwrite - nread + U32
      /\ pipe_readable_size \in Nat
  BY Gap, Zenon
<1>2. c \in 0 .. U32
  BY <1>1, Sizes
<1>3. nwrite' = IF nwrite + c < U32 THEN nwrite + c ELSE nwrite + c - U32
  BY <1>2, Sizes, Advance, Zenon
<1>4. nwrite' \in 0 .. U32 - 1
  BY <1>2, <1>3, Sizes
<1>5. pipe_readable_size' = IF nread <= nwrite' THEN nwrite' - nread ELSE nwrite' - nread + U32
  <2>1. (nwrite' - nread) % U32 = IF nread <= nwrite' THEN nwrite' - nread ELSE nwrite' - nread + U32
    BY <1>4, Sizes, Distance, Zenon
  <2> QED
    BY <2>1, Zenon DEF pipe_readable_size
<1> QED
  BY <1>1, <1>2, <1>3, <1>4, <1>5, Sizes

(* Messages are sequences.                                                 *)
LEMMA Messages == ASSUME NEW m \in Message PROVE m \in Seq(Byte)
<1>1. PICK n \in 0 .. MaxLen : m \in [1 .. n -> Byte]
  BY Zenon DEF Message
<1> QED
  BY <1>1, SizeAssumption

(* Readers are not writers, and nobody is None.                            *)
LEMMA Threads ==
    /\ \A r \in Reader : r \in Thread /\ r \notin Writer /\ r # None
    /\ \A w \in Writer : w \in Thread /\ w \notin Reader /\ w # None
    /\ \A t \in Thread : t \in Reader \/ t \in Writer
    /\ None \notin Thread /\ None \notin Reader /\ None \notin Writer
  BY ThreadAssumption, Zenon DEF Thread

(* pipealloc makes an empty pipe.                                          *)
LEMMA InitIInv == Init => IInv
<1> SUFFICES ASSUME Init PROVE IInv
  BY Zenon
<1>1. PipeTypes
  BY Sizes DEF Init, PipeTypes, Place
<1>2. Locked
  BY Threads, Zenon DEF Init, Locked
<1>3. Within
  BY Gap, Sizes, Threads, <1>1 DEF Init, Within, PipeTypes
<1>4. Sources /\ SleepersJustified
  BY Threads DEF Init, Sources, SleepersJustified
<1> QED
  BY <1>1, <1>2, <1>3, <1>4, Zenon DEF IInv

(* A thread starts a call.                                                 *)
LEMMA CallIInv ==
    ASSUME IInv, \/ \E r \in Reader, len \in 0 .. MaxLen : piperead(r, len)
                 \/ \E w \in Writer, m \in Message : pipewrite(w, m)
    PROVE  IInv'
<1>1. ASSUME NEW r \in Reader, NEW len \in 0 .. MaxLen, piperead(r, len) PROVE IInv'
  <2>1. r \in Thread /\ len \in Nat
    BY Threads, SizeAssumption
  <2>2. /\ pc[r] = "idle" /\ pc' = [pc EXCEPT ![r] = "get"] /\ bytes' = [bytes EXCEPT ![r] = len]
        /\ UNCHANGED <<lock, nread, nwrite, buf, start, udst, usrc, written>>
    BY <1>1, Zenon DEF piperead, wvars
  <2>3. PipeTypes'
    BY <2>1, <2>2, Zenon DEF IInv, PipeTypes, Place
  <2>4. Locked'
    BY <2>1, <2>2, Zenon DEF IInv, Locked, PipeTypes
  <2>5. Within'
    BY <2>1, <2>2, Threads, Zenon DEF IInv, Within, PipeTypes, pipe_readable_size
  <2>6. Sources'
    BY <2>1, <2>2, Threads, Zenon DEF IInv, Sources, PipeTypes
  <2>7. SleepersJustified'
    BY <2>1, <2>2, Threads, Zenon DEF IInv, SleepersJustified, PipeTypes, pipe_writable_size
  <2> QED
    BY <2>3, <2>4, <2>5, <2>6, <2>7, Zenon DEF IInv
<1>2. ASSUME NEW w \in Writer, NEW m \in Message, pipewrite(w, m) PROVE IInv'
  <2>1. w \in Thread /\ m \in Seq(Byte)
    BY Threads, Messages, Zenon
  <2>2. /\ pc[w] = "idle" /\ pc' = [pc EXCEPT ![w] = "get"]
        /\ usrc' = [usrc EXCEPT ![w] = m] /\ written' = [written EXCEPT ![w] = 0]
        /\ UNCHANGED <<lock, nread, nwrite, buf, bytes, start, udst>>
    BY <1>2, Zenon DEF pipewrite, rvars
  <2>3. PipeTypes'
    BY <2>1, <2>2, Zenon DEF IInv, PipeTypes, Place
  <2>4. Locked'
    BY <2>1, <2>2, Zenon DEF IInv, Locked, PipeTypes
  <2>5. Within'
    BY <2>1, <2>2, Threads, Zenon DEF IInv, Within, PipeTypes, pipe_readable_size
  <2>6. Sources'
    BY <2>1, <2>2, Threads DEF IInv, Sources, PipeTypes
  <2>7. SleepersJustified'
    BY <2>1, <2>2, Threads, Zenon DEF IInv, SleepersJustified, PipeTypes, pipe_writable_size
  <2> QED
    BY <2>3, <2>4, <2>5, <2>6, <2>7, Zenon DEF IInv
<1> QED
  BY <1>1, <1>2, Zenon

(* What a reader may do to the sizes and to the bytes it has to copy.      *)
LEMMA ReaderIInv ==
    ASSUME IInv, NEW r \in Reader, ReadSleep(r) \/ ReadStart(r) \/ ReadDone(r)
    PROVE  IInv'
<1>1. r \in Thread /\ r \notin Writer /\ r # None
  BY Threads, Zenon
<1>2. pipe_readable_size' = pipe_readable_size /\ pipe_writable_size' = pipe_writable_size
  BY Zenon DEF ReadSleep, ReadStart, ReadDone, pipe_readable_size, pipe_writable_size
<1>3. CASE ReadSleep(r)
  <2>1. /\ pc[r] = "get" /\ nread = nwrite /\ lock = None /\ pc' = [pc EXCEPT ![r] = "asleep"]
        /\ UNCHANGED <<lock, nread, nwrite, buf, bytes, start, udst, usrc, written>>
    BY <1>3, Zenon DEF ReadSleep, rvars, wvars
  <2>2. PipeTypes'
    BY <1>1, <2>1, Zenon DEF IInv, PipeTypes, Place
  <2>3. Locked'
    BY <1>1, <2>1, Zenon DEF IInv, Locked, PipeTypes
  <2>4. Within'
    BY <1>1, <1>2, <2>1, Threads, Zenon DEF IInv, Within, PipeTypes
  <2>5. Sources'
    BY <1>1, <2>1, Threads, Zenon DEF IInv, Sources, PipeTypes
  <2>6. SleepersJustified'
    BY <1>1, <1>2, <2>1, Threads, Zenon DEF IInv, SleepersJustified, PipeTypes
  <2> QED
    BY <2>2, <2>3, <2>4, <2>5, <2>6, Zenon DEF IInv
<1>4. CASE ReadStart(r)
  <2>1. /\ pc[r] = "get" /\ lock = None /\ nread # nwrite /\ lock' = r
        /\ bytes' = [bytes EXCEPT ![r] = Least(bytes[r], pipe_readable_size)]
        /\ start' = [start EXCEPT ![r] = nread % PIPE_SIZE]
        /\ pc' = [pc EXCEPT ![r] = "copy"]
        /\ UNCHANGED <<nread, nwrite, buf, udst, usrc, written>>
    BY <1>4, Zenon DEF ReadStart, wvars
  <2>2. /\ Least(bytes[r], pipe_readable_size) \in Nat
        /\ Least(bytes[r], pipe_readable_size) <= pipe_readable_size
        /\ nread % PIPE_SIZE \in 0 .. PIPE_SIZE - 1
    <3>1. bytes[r] \in Nat /\ pipe_readable_size \in Nat /\ nread \in Int
      BY Gap, Sizes DEF IInv, PipeTypes
    <3>2. nread % PIPE_SIZE \in 0 .. PIPE_SIZE - 1
      BY <3>1, Sizes, Remainder, Zenon
    <3> QED
      BY <3>1, <3>2 DEF Least
  <2>3. PipeTypes'
    BY <1>1, <2>1, <2>2, Zenon DEF IInv, PipeTypes, Place
  <2>4. Locked'
    BY <1>1, <2>1, Threads, Zenon DEF IInv, Locked, PipeTypes
  <2>5. \A q \in Reader : q # r => pc'[q] # "copy"
    BY <1>1, <2>1, Threads, Zenon DEF IInv, Locked, PipeTypes
  <2>6. Within'
    BY <1>1, <1>2, <2>1, <2>2, <2>5, Zenon DEF IInv, Within, PipeTypes
  <2>7. Sources'
    BY <1>1, <2>1, Threads, Zenon DEF IInv, Sources, PipeTypes
  <2>8. SleepersJustified'
    BY <1>1, <1>2, <2>1, Threads, Zenon DEF IInv, SleepersJustified, PipeTypes
  <2> QED
    BY <2>3, <2>4, <2>6, <2>7, <2>8, Zenon DEF IInv
<1>5. CASE ReadDone(r)
  <2>1. /\ pc[r] = "copy" /\ lock' = None
        /\ pc' = [Woken(Writer) EXCEPT ![r] = "idle"]
        /\ start' = [start EXCEPT ![r] = 0] /\ udst' = [udst EXCEPT ![r] = <<>>]
        /\ UNCHANGED <<nread, nwrite, buf, bytes, usrc, written>>
    BY <1>5, Zenon DEF ReadDone, Leave, wvars
  <2>2. /\ lock = r /\ \A t \in Thread : t # r => pc[t] # "copy"
    BY <1>1, <2>1, Threads, Zenon DEF IInv, Locked
  <2>3. pc' = [t \in Thread |-> IF t = r THEN "idle"
                                ELSE IF t \in Writer /\ pc[t] = "asleep" THEN "get" ELSE pc[t]]
    BY <1>1, <2>1, Zenon DEF Woken
  <2>4. PipeTypes'
    <3>1. pc' \in [Thread -> Place]
      BY <2>3, Zenon DEF IInv, PipeTypes, Place
    <3> QED
      BY <1>1, <2>1, <3>1, Sizes DEF IInv, PipeTypes
  <2>5. Locked'
    BY <2>1, <2>2, <2>3, Threads, Zenon DEF Locked
  <2>6. Within'
    BY <1>1, <1>2, <2>1, <2>2, <2>3, Threads, Zenon DEF IInv, Within
  <2>7. Sources'
    BY <1>1, <2>1, <2>3, Threads, Zenon DEF IInv, Sources
  <2>8. SleepersJustified'
    BY <1>1, <1>2, <2>1, <2>2, <2>3, Threads, Zenon DEF IInv, SleepersJustified
  <2> QED
    BY <2>4, <2>5, <2>6, <2>7, <2>8, Zenon DEF IInv
<1> QED
  BY <1>3, <1>4, <1>5, Zenon

(* Least is the smaller of its arguments.                                  *)
LEMMA LeastOf ==
    ASSUME NEW a \in Int, NEW b \in Int
    PROVE  Least(a, b) \in {a, b} /\ Least(a, b) <= a /\ Least(a, b) <= b
  BY DEF Least

(* The piece a reader copies in one turn.                                  *)
LEMMA ReadPiece ==
    ASSUME IInv, NEW r \in Reader, pc[r] = "copy", bytes[r] > 0
    PROVE  LET c == Least(bytes[r], PIPE_SIZE - start[r]) IN
             /\ c \in Nat /\ c > 0 /\ c <= bytes[r] /\ c <= pipe_readable_size
             /\ start[r] = nread % PIPE_SIZE /\ (nread % PIPE_SIZE) + c <= PIPE_SIZE
             /\ ((nread + c) % U32) % PIPE_SIZE = (start[r] + c) % PIPE_SIZE
<1> DEFINE c == Least(bytes[r], PIPE_SIZE - start[r])
<1>1. /\ bytes[r] \in Nat /\ start[r] \in 0 .. PIPE_SIZE - 1
      /\ bytes[r] <= pipe_readable_size /\ start[r] = nread % PIPE_SIZE
      /\ nread \in Int /\ pipe_readable_size \in Nat
  BY Gap, Sizes DEF IInv, PipeTypes, Within
<1>2. /\ c \in Nat /\ c > 0 /\ c <= bytes[r] /\ c <= pipe_readable_size
      /\ start[r] + c <= PIPE_SIZE
  <2>1. PICK a \in Int, b \in Int : a = bytes[r] /\ b = PIPE_SIZE - start[r]
    BY <1>1, Sizes
  <2>2. PICK s \in Nat, n \in Nat : s = start[r] /\ n = pipe_readable_size
    BY <1>1
  <2>3. a > 0 /\ b > 0 /\ a <= n /\ b = PIPE_SIZE - s
    BY <1>1, <2>1, <2>2, Sizes
  <2>4. c = Least(a, b)
    BY <2>1, Zenon
  <2>5. c \in {a, b} /\ c <= a /\ c <= b
    BY ONLY <2>4, LeastOf, a \in Int, b \in Int, Zenon
  <2>6. c \in Nat /\ c > 0 /\ c <= a /\ c <= n /\ s + c <= PIPE_SIZE
    BY ONLY <2>1, <2>2, <2>3, <2>5, Sizes
  <2> QED
    BY <2>1, <2>2, <2>6, Zenon
<1> HIDE DEF c
<1>3. PICK x \in Int : x = nread + c
  BY <1>1, <1>2
<1>4. (x % U32) % PIPE_SIZE = x % PIPE_SIZE
  BY Sizes, Twice, Zenon
<1>7. c \in Int
  BY <1>2
<1>8. ((nread % PIPE_SIZE) + c) % PIPE_SIZE = (nread + c) % PIPE_SIZE
  BY <1>1, <1>7, Sizes, Wrap, Zenon
<1>9. ((nread + c) % U32) % PIPE_SIZE = (start[r] + c) % PIPE_SIZE
  BY <1>1, <1>3, <1>4, <1>8, Zenon
<1> QED
  BY <1>1, <1>2, <1>9, Zenon DEF c

(* A turn of the reading loop takes a piece from the pipe.                 *)
LEMMA ReadCopyIInv == ASSUME IInv, NEW r \in Reader, ReadCopy(r) PROVE IInv'
<1> DEFINE c == Least(bytes[r], PIPE_SIZE - start[r])
<1>1. r \in Thread /\ r \notin Writer /\ r # None
  BY Threads, Zenon
<1>2. /\ pc[r] = "copy" /\ bytes[r] > 0
      /\ udst' = [udst EXCEPT ![r] = udst[r] \o [i \in 1 .. c |-> buf[start[r] + i - 1]]]
      /\ start' = [start EXCEPT ![r] = (start[r] + c) % PIPE_SIZE]
      /\ bytes' = [bytes EXCEPT ![r] = bytes[r] - c]
      /\ nread' = (nread + c) % U32
      /\ UNCHANGED <<lock, nwrite, buf, pc, usrc, written>>
  BY Zenon DEF ReadCopy, CopyOut, wvars
<1>3. /\ c \in Nat /\ c > 0 /\ c <= bytes[r] /\ c <= pipe_readable_size
      /\ start[r] = nread % PIPE_SIZE /\ (nread % PIPE_SIZE) + c <= PIPE_SIZE
      /\ ((nread + c) % U32) % PIPE_SIZE = (start[r] + c) % PIPE_SIZE
  BY <1>2, ReadPiece, Zenon
<1> HIDE DEF c
<1>4. /\ start[r] \in 0 .. PIPE_SIZE - 1 /\ bytes[r] \in Nat /\ pipe_readable_size \in Nat
      /\ nread \in 0 .. U32 - 1 /\ nwrite \in 0 .. U32 - 1 /\ bytes[r] <= pipe_readable_size
  BY <1>2, Gap, Zenon DEF IInv, PipeTypes, Within
<1>5. nread' \in 0 .. U32 - 1 /\ pipe_readable_size' = pipe_readable_size - c
  BY <1>2, <1>3, <1>4, ReadGap, Zenon
<1>6. (start[r] + c) % PIPE_SIZE \in 0 .. PIPE_SIZE - 1
  <2>1. start[r] + c \in Int
    BY <1>3, <1>4
  <2> QED
    BY <2>1, Sizes, Remainder, Zenon
<1>7. PipeTypes'
  <2>1. [i \in 1 .. c |-> buf[start[r] + i - 1]] \in Seq(Byte)
    <3>1. \A i \in 1 .. c : start[r] + i - 1 \in 0 .. PIPE_SIZE - 1
      BY <1>3, <1>4, Sizes
    <3>2. [i \in 1 .. c |-> buf[start[r] + i - 1]] \in [1 .. c -> Byte]
      BY <3>1, Zenon DEF IInv, PipeTypes
    <3> QED
      BY <3>2, <1>3
  <2>2. udst[r] \in Seq(Byte)
    BY Zenon DEF IInv, PipeTypes
  <2>3. udst[r] \o [i \in 1 .. c |-> buf[start[r] + i - 1]] \in Seq(Byte)
    BY <2>1, <2>2
  <2>4. udst' \in [Reader -> Seq(Byte)]
    BY <1>2, <2>3, Zenon DEF IInv, PipeTypes
  <2>5. bytes' \in [Reader -> Nat] /\ start' \in [Reader -> 0 .. PIPE_SIZE - 1]
    <3>1. bytes[r] - c \in Nat
      BY <1>3, <1>4
    <3> QED
      BY <1>2, <1>6, <3>1, Zenon DEF IInv, PipeTypes
  <2> QED
    BY Zenon, <1>2, <1>5, <2>4, <2>5 DEF IInv, PipeTypes
<1>8. Locked'
  BY <1>2, Zenon DEF IInv, Locked
<1>9. lock = r /\ \A t \in Thread : t # r => pc[t] # "copy"
  BY <1>1, <1>2, Zenon DEF IInv, Locked
<1>10. Within'
  <2>1. bytes'[r] = bytes[r] - c /\ start'[r] = nread' % PIPE_SIZE
    BY <1>2, <1>3, Zenon DEF IInv, PipeTypes
  <2>2. pipe_readable_size' <= PIPE_SIZE /\ bytes'[r] <= pipe_readable_size'
    BY <1>3, <1>4, <1>5, <2>1, Sizes DEF IInv, Within
  <2>3. \A q \in Reader : q # r => pc'[q] # "copy"
    BY <1>2, <1>9, Threads, Zenon
  <2> QED
    BY <2>1, <2>2, <2>3, Zenon DEF Within
<1>11. Sources'
  BY <1>2, Zenon DEF IInv, Sources
<1>12. SleepersJustified'
  <2>1. nread # nwrite
    BY <1>3, <1>4, Gap
  <2>2. \A q \in Reader : pc[q] # "asleep"
    BY <1>1, <1>9, <2>1, Zenon DEF IInv, SleepersJustified
  <2> QED
    BY <1>2, <1>9, <2>2, Zenon DEF SleepersJustified
<1> QED
  BY <1>7, <1>8, <1>10, <1>11, <1>12, Zenon DEF IInv

(* A writer takes the lock, sleeps on a full pipe, or is done.             *)
LEMMA WriterIInv ==
    ASSUME IInv, NEW w \in Writer, WriteGet(w) \/ WriteSleep(w) \/ WriteDone(w)
    PROVE  IInv'
<1>1. w \in Thread /\ w \notin Reader /\ w # None
  BY Threads, Zenon
<1>2. pipe_readable_size' = pipe_readable_size /\ pipe_writable_size' = pipe_writable_size
  BY Zenon DEF WriteGet, WriteSleep, WriteDone, pipe_readable_size, pipe_writable_size
<1>3. CASE WriteGet(w)
  <2>1. /\ pc[w] = "get" /\ lock = None /\ lock' = w /\ pc' = [pc EXCEPT ![w] = "copy"]
        /\ UNCHANGED <<nread, nwrite, buf, bytes, start, udst, usrc, written>>
    BY <1>3, Zenon DEF WriteGet, rvars, wvars
  <2>2. PipeTypes'
    BY <1>1, <2>1, Zenon DEF IInv, PipeTypes, Place
  <2>3. Locked'
    BY <1>1, <2>1, Threads, Zenon DEF IInv, Locked, PipeTypes
  <2>4. Within'
    BY <1>1, <1>2, <2>1, Threads, Zenon DEF IInv, Within, PipeTypes
  <2>5. Sources'
    BY <1>1, <2>1, Threads, Zenon DEF IInv, Sources, PipeTypes
  <2>6. SleepersJustified'
    BY <1>1, <1>2, <2>1, Threads, Zenon DEF IInv, SleepersJustified, PipeTypes
  <2> QED
    BY <2>2, <2>3, <2>4, <2>5, <2>6, Zenon DEF IInv
<1>4. CASE WriteSleep(w) \/ WriteDone(w)
  <2>1. PICK place \in {"asleep", "idle"} :
          /\ pc[w] = "copy" /\ lock' = None /\ pc' = [Woken(Reader) EXCEPT ![w] = place]
          /\ place = "asleep" => pipe_writable_size = 0 /\ UNCHANGED <<usrc, written>>
          /\ place = "idle" => /\ usrc' = [usrc EXCEPT ![w] = <<>>]
                               /\ written' = [written EXCEPT ![w] = 0]
          /\ UNCHANGED <<nread, nwrite, buf, bytes, start, udst>>
    BY <1>4, Zenon DEF WriteSleep, WriteDone, Leave, rvars, wvars
  <2>2. lock = w /\ \A t \in Thread : t # w => pc[t] # "copy"
    BY <1>1, <2>1, Zenon DEF IInv, Locked
  <2>3. pc' = [t \in Thread |-> IF t = w THEN place
                                ELSE IF t \in Reader /\ pc[t] = "asleep" THEN "get" ELSE pc[t]]
    BY <1>1, <2>1, Zenon DEF Woken
  <2>4. PipeTypes'
    <3>1. pc' \in [Thread -> Place]
      BY <2>1, <2>3, Zenon DEF IInv, PipeTypes, Place
    <3>2. usrc' \in [Writer -> Seq(Byte)] /\ written' \in [Writer -> Nat]
      <4>1. CASE place = "asleep"
        BY <2>1, <4>1, Zenon DEF IInv, PipeTypes
      <4>2. CASE place = "idle"
        <5>1. <<>> \in Seq(Byte) /\ 0 \in Nat
          OBVIOUS
        <5>2. usrc \in [Writer -> Seq(Byte)] /\ written \in [Writer -> Nat]
          BY Zenon DEF IInv, PipeTypes
        <5>3. usrc' = [usrc EXCEPT ![w] = <<>>] /\ written' = [written EXCEPT ![w] = 0]
          BY <2>1, <4>2, Zenon
        <5> QED
          BY ONLY <5>1, <5>2, <5>3, w \in Writer, Zenon
      <4> QED
        BY <2>1, <4>1, <4>2, Zenon
    <3> QED
      BY <2>1, <3>1, <3>2, Zenon DEF IInv, PipeTypes
  <2>5. Locked'
    BY <2>1, <2>2, <2>3, Threads, Zenon DEF Locked
  <2>6. Within'
    <3>1. \A r \in Reader : pc'[r] # "copy"
      BY <1>1, <2>2, <2>3, Threads, Zenon
    <3> QED
      BY <1>2, <3>1, Sizes, Zenon DEF IInv, Within
  <2>7. Sources'
    <3>1. \A x \in Writer : x # w => pc'[x] = pc[x] /\ usrc'[x] = usrc[x] /\ written'[x] = written[x]
      BY <2>1, <2>3, Threads DEF IInv, PipeTypes
    <3>2. pc'[w] = place
      BY <1>1, <2>3, Zenon
    <3>3. CASE place = "idle"
      <4>1. usrc'[w] = <<>> /\ written'[w] = 0
        BY <2>1, <3>3, Zenon DEF IInv, PipeTypes
      <4> QED
        BY <3>1, <4>1 DEF IInv, Sources
    <3>4. CASE place = "asleep"
      BY <2>1, <3>1, <3>2, <3>4, Zenon DEF IInv, Sources
    <3> QED
      BY <2>1, <3>3, <3>4, Zenon
  <2>8. SleepersJustified'
    <3>1. \A r \in Reader : pc'[r] # "asleep"
      BY <1>1, <2>3, Threads, Zenon
    <3>2. \A x \in Writer : pc'[x] = "asleep" => pipe_writable_size = 0
      BY <1>1, <2>1, <2>2, <2>3, Threads, Zenon DEF IInv, SleepersJustified
    <3> QED
      BY <1>2, <3>1, <3>2, Zenon DEF SleepersJustified
  <2> QED
    BY <2>4, <2>5, <2>6, <2>7, <2>8, Zenon DEF IInv
<1> QED
  BY <1>3, <1>4, Zenon

(* The piece a writer copies in one turn fits in the pipe and before the   *)
(* end of buf.                                                             *)
LEMMA WritePiece ==
    ASSUME IInv, NEW w \in Writer, Room(w)
    PROVE  LET c == Piece(w, pipe_writable_size) IN
             /\ c \in Nat /\ c > 0 /\ written[w] + c <= Len(usrc[w])
             /\ pipe_readable_size + c <= PIPE_SIZE
             /\ (nwrite % PIPE_SIZE) + c <= PIPE_SIZE
<1>1. /\ pipe_readable_size \in Nat /\ pipe_readable_size <= PIPE_SIZE
      /\ pipe_writable_size = PIPE_SIZE - pipe_readable_size
  BY Gap, Zenon DEF IInv, PipeTypes, Within
<1>2. /\ pipe_writable_size # 0 /\ written[w] < Len(usrc[w])
      /\ written[w] \in Nat /\ usrc[w] \in Seq(Byte) /\ nwrite \in Int
  BY Sizes DEF Room, IInv, PipeTypes
<1>3. Len(usrc[w]) \in Nat
  BY <1>2
<1>4. nwrite % PIPE_SIZE \in 0 .. PIPE_SIZE - 1
  BY <1>2, Sizes, Remainder, Zenon
<1>5. PICK x \in Int, n \in Int, y \in Int :
        x = written[w] /\ n = Len(usrc[w]) /\ y = nwrite % PIPE_SIZE
  BY <1>2, <1>3, <1>4, Sizes
<1>6. PICK g \in Int, l \in Int : g = pipe_readable_size /\ l = pipe_writable_size
  BY <1>1, Sizes
<1>7. PICK a \in Int, b \in Int : a = n - x /\ b = PIPE_SIZE - y
  BY ONLY <1>5, Sizes
<1>8. PIPE_SIZE \in Int /\ a > 0 /\ b > 0 /\ l > 0 /\ l = PIPE_SIZE - g
  BY <1>1, <1>2, <1>4, <1>5, <1>6, <1>7, Sizes
<1>9. PICK d \in Int : d = Least(a, l) /\ d \in {a, l} /\ d <= a /\ d <= l
  BY ONLY LeastOf, a \in Int, l \in Int
<1>10. PICK c \in Int : c = Least(d, b) /\ c \in {d, b} /\ c <= d /\ c <= b
  BY ONLY LeastOf, d \in Int, b \in Int
<1>11. c \in Nat /\ c > 0 /\ x + c <= n /\ g + c <= PIPE_SIZE /\ y + c <= PIPE_SIZE
  BY ONLY <1>7, <1>8, <1>9, <1>10,
          x \in Int, n \in Int, y \in Int, g \in Int, l \in Int
<1>12. c = Piece(w, pipe_writable_size)
  BY Zenon, <1>5, <1>6, <1>7, <1>9, <1>10 DEF Piece
<1> QED
  BY <1>5, <1>6, <1>11, <1>12, Zenon

(* A turn of the writing loop adds a piece to the pipe.                    *)
LEMMA WriteCopyIInv == ASSUME IInv, NEW w \in Writer, WriteCopy(w) PROVE IInv'
<1> DEFINE c == Piece(w, pipe_writable_size)
           from == nwrite % PIPE_SIZE
<1>1. w \in Thread /\ w \notin Reader /\ w # None
  BY Threads, Zenon
<1>2. /\ Room(w)
      /\ buf' = [i \in DOMAIN buf |-> IF i \in from .. from + c - 1
                                        THEN usrc[w][written[w] + 1 + i - from] ELSE buf[i]]
      /\ written' = [written EXCEPT ![w] = written[w] + c]
      /\ nwrite' = (nwrite + c) % U32
      /\ UNCHANGED <<lock, nread, pc, bytes, start, udst, usrc>>
  BY Zenon DEF WriteCopy, CopyIn, rvars
<1>3. /\ c \in Nat /\ c > 0 /\ written[w] + c <= Len(usrc[w])
      /\ pipe_readable_size + c <= PIPE_SIZE /\ from + c <= PIPE_SIZE
  BY <1>2, WritePiece, Zenon
<1>4. /\ nread \in 0 .. U32 - 1 /\ nwrite \in 0 .. U32 - 1 /\ pipe_readable_size \in Nat
      /\ written[w] \in Nat /\ usrc[w] \in Seq(Byte) /\ from \in 0 .. PIPE_SIZE - 1
  <2>1. nwrite \in Int
    BY Sizes DEF IInv, PipeTypes
  <2>2. from \in 0 .. PIPE_SIZE - 1
    BY <2>1, Sizes, Remainder, Zenon
  <2> QED
    BY <2>2, Gap, Zenon DEF IInv, PipeTypes
<1> HIDE DEF c, from
<1>5. nwrite' \in 0 .. U32 - 1 /\ pipe_readable_size' = pipe_readable_size + c
  BY <1>2, <1>3, <1>4, WriteGap, Zenon
<1>6. PipeTypes'
  <2>1. buf' \in [0 .. PIPE_SIZE - 1 -> Byte]
    <3>1. DOMAIN buf = 0 .. PIPE_SIZE - 1 /\ \A i \in 0 .. PIPE_SIZE - 1 : buf[i] \in Byte
      BY Zenon DEF IInv, PipeTypes
    <3>2. \A i \in from .. from + c - 1 : written[w] + 1 + i - from \in 1 .. Len(usrc[w])
      <4>1. PICK x \in Nat, n \in Nat : x = written[w] /\ n = Len(usrc[w])
        BY <1>4
      <4>2. from \in Nat /\ c \in Nat /\ x + c <= n
        BY <1>3, <1>4, <4>1, Sizes
      <4>3. ASSUME NEW i \in from .. from + c - 1 PROVE x + 1 + i - from \in 1 .. n
        <5>1. i \in Int /\ from <= i /\ i < from + c
          BY <4>2
        <5> QED
          BY ONLY x \in Nat, n \in Nat, <4>2, <5>1
      <4> QED
        BY <4>1, <4>3, Zenon
    <3>3. \A k \in 1 .. Len(usrc[w]) : usrc[w][k] \in Byte
      BY <1>4
    <3> QED
      BY <1>2, <3>1, <3>2, <3>3, Zenon
  <2>2. written' \in [Writer -> Nat]
    <3>1. written[w] + c \in Nat
      <4>1. written[w] \in Nat /\ c \in Nat
        BY <1>3, <1>4, Zenon
      <4> QED
        BY ONLY <4>1
    <3> QED
      BY <1>2, <3>1, Zenon DEF IInv, PipeTypes
  <2> QED
    BY <1>2, <1>5, <2>1, <2>2, Zenon DEF IInv, PipeTypes
<1>7. pc[w] = "copy" /\ pipe_writable_size # 0 /\ lock = w
      /\ \A t \in Thread : t # w => pc[t] # "copy"
  BY <1>1, <1>2, Zenon DEF Room, IInv, Locked
<1>8. Locked'
  BY <1>2, Zenon DEF IInv, Locked
<1>9. Within'
  <2>1. \A r \in Reader : pc'[r] # "copy"
    BY <1>1, <1>2, <1>7, Threads, Zenon
  <2> QED
    BY <1>3, <1>5, <2>1, Zenon DEF Within
<1>10. Sources'
  <2>1. \A x \in Writer : written'[x] = IF x = w THEN written[w] + c ELSE written[x]
    BY <1>2, Zenon DEF IInv, PipeTypes
  <2> QED
    BY <1>2, <1>3, <2>1, Zenon DEF IInv, Sources
<1>11. SleepersJustified'
  <2>1. \A x \in Writer : pc[x] # "asleep"
    BY <1>1, <1>7, Zenon DEF IInv, SleepersJustified
  <2> QED
    BY <1>2, <1>7, <2>1, Zenon DEF SleepersJustified
<1> QED
  BY <1>6, <1>8, <1>9, <1>10, <1>11, Zenon DEF IInv

(* The invariant is inductive.                                             *)
LEMMA NextIInv == IInv /\ [Next]_vars => IInv'
<1> SUFFICES ASSUME IInv, [Next]_vars PROVE IInv'
  BY Zenon
<1>1. CASE UNCHANGED vars
  BY <1>1, Zenon DEF vars, rvars, wvars, IInv, PipeTypes, Locked, Within, Sources, SleepersJustified,
              pipe_readable_size, pipe_writable_size
<1>2. ASSUME NEW r \in Reader, ReaderStep(r) PROVE IInv'
  BY <1>2, CallIInv, ReaderIInv, ReadCopyIInv, Zenon DEF ReaderStep
<1>3. ASSUME NEW w \in Writer, WriterStep(w) PROVE IInv'
  BY <1>3, CallIInv, WriterIInv, WriteCopyIInv, Zenon DEF WriterStep
<1> QED
  BY <1>1, <1>2, <1>3, Zenon DEF Next

(* Every reachable state of the pipe satisfies the invariant.              *)
THEOREM Invariance == Spec => []IInv
  BY InitIInv, NextIInv, PTL DEF Spec

(* No wakeup of piperead and pipewrite is lost, although a write gives up  *)
(* the lock half-way and nread and nwrite wrap.                            *)
THEOREM NoLostWakeup == Spec => []SleepersJustified
<1>1. IInv => SleepersJustified
  BY Zenon DEF IInv
<1> QED
  BY <1>1, Invariance, PTL
-----------------------------------------------------------------------------
(* A part of a sequence, place by place.                                   *)
LEMMA Slice ==
    ASSUME NEW s, NEW m \in Int, NEW n \in Int
    PROVE  SubSeq(s, m, n) = [i \in 1 .. n - m + 1 |-> s[m + i - 1]]
  OBVIOUS

(* A sequence after another, place by place.                               *)
LEMMA Glue ==
    ASSUME NEW s \in Seq(Byte), NEW t \in Seq(Byte)
    PROVE  s \o t = [i \in 1 .. Len(s) + Len(t)
                       |-> IF i <= Len(s) THEN s[i] ELSE t[i - Len(s)]]
<1>1. PICK m \in Nat, n \in Nat : m = Len(s) /\ n = Len(t)
  OBVIOUS
<1>2. s \o t \in Seq(Byte) /\ Len(s \o t) = m + n
  BY <1>1
<1>3. \A i \in 1 .. m + n : (s \o t)[i] = IF i <= m THEN s[i] ELSE t[i - m]
  BY <1>1
<1>4. s \o t = [i \in 1 .. m + n |-> (s \o t)[i]]
  <2>1. PICK u \in Seq(Byte) : u = s \o t
    BY <1>2, Zenon
  <2>2. u = [i \in 1 .. Len(u) |-> u[i]]
    BY ONLY u \in Seq(Byte)
  <2> QED
    BY <1>2, <2>1, <2>2, Zenon
<1>5. s \o t = [i \in 1 .. m + n |-> IF i <= m THEN s[i] ELSE t[i - m]]
  BY ONLY <1>3, <1>4, Zenon
<1> QED
  BY ONLY <1>1, <1>5, Zenon

(* What is left of a message after k bytes, and after c more.              *)
LEMMA Remains ==
    ASSUME NEW s \in Seq(Byte), NEW k \in Nat, NEW c \in Nat, k + c <= Len(s)
    PROVE  LET t == SubSeq(s, k + 1, Len(s)) IN
             /\ t \in Seq(Byte) /\ Len(t) = Len(s) - k
             /\ SubSeq(t, 1, c) = [i \in 1 .. c |-> s[k + i]]
             /\ SubSeq(t, c + 1, Len(t)) = SubSeq(s, k + c + 1, Len(s))
<1> DEFINE t == SubSeq(s, k + 1, Len(s))
<1>1. PICK n \in Nat : n = Len(s)
  OBVIOUS
<1>2. t = [i \in 1 .. n - k |-> s[k + i]]
  <2>1. t = [i \in 1 .. n - (k + 1) + 1 |-> s[(k + 1) + i - 1]]
    BY <1>1, Slice
  <2>2. n - (k + 1) + 1 = n - k /\ \A i \in Int : (k + 1) + i - 1 = k + i
    BY <1>1
  <2> QED
    BY <2>1, <2>2
<1>3. t \in Seq(Byte) /\ Len(t) = n - k
  <2>1. \A i \in 1 .. n - k : s[k + i] \in Byte
    BY <1>1
  <2>2. n - k \in Nat
    BY <1>1
  <2> QED
    BY <1>2, <2>1, <2>2
<1> HIDE DEF t
<1>4. SubSeq(t, 1, c) = [i \in 1 .. c |-> s[k + i]]
  <2>1. SubSeq(t, 1, c) = [i \in 1 .. c |-> t[i]]
    BY Slice
  <2>2. \A i \in 1 .. c : t[i] = s[k + i]
    BY <1>1, <1>2
  <2> QED
    BY <2>1, <2>2, Zenon
<1>5. SubSeq(t, c + 1, Len(t)) = SubSeq(s, k + c + 1, Len(s))
  <2>1. SubSeq(t, c + 1, n - k) = [i \in 1 .. n - k - c |-> t[c + i]]
    BY <1>1, Slice
  <2>2. SubSeq(s, k + c + 1, n) = [i \in 1 .. n - k - c |-> s[k + c + i]]
    BY <1>1, Slice
  <2>3. \A i \in 1 .. n - k - c : t[c + i] = s[k + c + i]
    BY <1>1, <1>2
  <2> QED
    BY <1>1, <1>3, <2>1, <2>2, <2>3, Zenon
<1> QED
  BY <1>1, <1>3, <1>4, <1>5, Zenon DEF t

(* The write counter is what there is to read ahead of the read counter.   *)
LEMMA Ahead ==
    ASSUME nread \in 0 .. U32 - 1, nwrite \in 0 .. U32 - 1
    PROVE  (nread + pipe_readable_size) % U32 = nwrite
<1>1. PICK g \in Nat : /\ g = pipe_readable_size
                       /\ g = IF nread <= nwrite THEN nwrite - nread ELSE nwrite - nread + U32
  BY Gap, Zenon
<1>2. U32 \in Nat \ {0} /\ nwrite % U32 = nwrite
  BY Sizes, Small, Zenon
<1>3. CASE nread <= nwrite
  <2>1. nread + g = nwrite
    BY ONLY <1>1, <1>2, <1>3, nread \in 0 .. U32 - 1, nwrite \in 0 .. U32 - 1
  <2> QED
    BY <1>1, <1>2, <2>1, Zenon
<1>4. CASE nwrite < nread
  <2>1. PICK x \in Int : x = nread + g
    OBVIOUS
  <2>2. (x - U32) % U32 = x % U32
    BY <1>2, FullTurn, Zenon
  <2>3. x - U32 = nwrite
    BY ONLY <1>1, <1>2, <1>4, <2>1, nread \in 0 .. U32 - 1, nwrite \in 0 .. U32 - 1
  <2> QED
    BY <1>1, <1>2, <2>1, <2>2, <2>3, Zenon
<1> QED
  BY <1>3, <1>4

(* A piece that fits is put where no byte of the pipe is, right behind the *)
(* last one.                                                               *)
LEMMA Behind ==
    ASSUME nread \in 0 .. U32 - 1, nwrite \in 0 .. U32 - 1, NEW g \in Nat,
           g = pipe_readable_size, NEW c \in Nat, g + c <= PIPE_SIZE,
           (nwrite % PIPE_SIZE) + c <= PIPE_SIZE
    PROVE  /\ \A i \in 1 .. g : (nread + i - 1) % PIPE_SIZE
                \notin (nwrite % PIPE_SIZE) .. (nwrite % PIPE_SIZE) + c - 1
           /\ \A j \in 1 .. c : (nread + (g + j) - 1) % PIPE_SIZE = (nwrite % PIPE_SIZE) + j - 1
<1>1. PICK m \in Nat \ {0}, n \in Nat \ {0}, a \in Int, b \in Int :
        m = PIPE_SIZE /\ n = U32 /\ a = nread /\ b = nwrite
  BY Sizes
<1>2. n % m = 0 /\ (a + g) % n = b /\ g + c <= m /\ (b % m) + c <= m
  <2>1. (nread + g) % U32 = nwrite
    BY Ahead, Zenon
  <2> QED
    BY <1>1, <2>1, Sizes, Zenon
<1>3. \A j \in Int : (b + j) % m = (a + g + j) % m
  <2>1. PICK x \in Int : x = a + g
    OBVIOUS
  <2>2. \A j \in Int : ((x % n) + j) % m = (x + j) % m
    <3>1. n % m = 0
      BY <1>2, Zenon
    <3> QED
      BY ONLY <3>1, Nested, m \in Nat \ {0}, n \in Nat \ {0}, x \in Int, Zenon
  <2>3. x % n = b
    BY ONLY <1>2, <2>1, Zenon
  <2> QED
    BY Zenon, <2>1, <2>2, <2>3
<1>4. b % m \in 0 .. m - 1
  BY Remainder, Zenon
<1>5. \A j \in 0 .. c - 1 : (a + g + j) % m = (b % m) + j
  <2> SUFFICES ASSUME NEW j \in 0 .. c - 1 PROVE (a + g + j) % m = (b % m) + j
    BY Zenon
  <2>1. j \in Nat /\ j \in Int /\ (b % m) + j < m
    BY <1>2, <1>4
  <2>2. (b + j) % m = (b % m) + j
    BY <1>4, <2>1, Carry, Zenon
  <2>3. (b + j) % m = (a + g + j) % m
    BY Zenon, <1>3, <2>1
  <2> QED
    BY <2>2, <2>3, Zenon
<1>6. ASSUME NEW i \in 1 .. g, (a + i - 1) % m \in (b % m) .. (b % m) + c - 1 PROVE FALSE
  <2>1. PICK y \in Int : y = b % m
    BY <1>4
  <2>2. PICK z \in Int : z = (a + i - 1) % m
    BY <1>6, <2>1
  <2>3. PICK j \in 0 .. c - 1 : z = y + j
    <3>1. z - y \in 0 .. c - 1 /\ z = y + (z - y)
      BY <1>6, <2>1, <2>2
    <3> QED
      BY <3>1, Zenon
  <2>4. PICK x \in Int : x = a + i - 1
    OBVIOUS
  <2>5. PICK d \in 1 .. m - 1 : d = g + j - i + 1
    BY <1>2
  <2>6. (x + d) % m # x % m
    BY Distinct, Zenon
  <2>7. x + d = a + g + j
    BY <2>4, <2>5
  <2> QED
    BY <1>5, <2>1, <2>2, <2>3, <2>4, <2>6, <2>7, Zenon
<1>7. ASSUME NEW j \in 1 .. c PROVE (a + (g + j) - 1) % m = (b % m) + j - 1
  <2>1. PICK k \in 0 .. c - 1 : k = j - 1
    OBVIOUS
  <2>2. a + (g + j) - 1 = a + g + k /\ (b % m) + j - 1 = (b % m) + k
    BY <1>4, <2>1
  <2> QED
    BY <1>5, <2>2, Zenon
<1> QED
  BY <1>1, <1>6, <1>7, Zenon
-----------------------------------------------------------------------------
(* The contents of the pipe as a sequence.                                 *)
LEMMA Held ==
    ASSUME IInv
    PROVE  /\ pipe_readable_size \in Nat /\ Len(Contents) = pipe_readable_size
           /\ Contents \in Seq(Byte)
           /\ \A i \in 1 .. pipe_readable_size : Contents[i] = buf[(nread + i - 1) % PIPE_SIZE]
<1>1. pipe_readable_size \in Nat /\ nread \in Int
  BY Gap, Sizes DEF IInv, PipeTypes
<1>2. \A i \in 1 .. pipe_readable_size : buf[(nread + i - 1) % PIPE_SIZE] \in Byte
  <2> TAKE i \in 1 .. pipe_readable_size
  <2>1. nread + i - 1 \in Int
    BY <1>1
  <2>2. (nread + i - 1) % PIPE_SIZE \in 0 .. PIPE_SIZE - 1
    BY <2>1, Sizes, Remainder, Zenon
  <2> QED
    BY <2>2, Zenon DEF IInv, PipeTypes
<1> HIDE DEF pipe_readable_size
<1> QED
  BY <1>1, <1>2 DEF Contents

(* A step that moves no bytes is no step of the queue.                     *)
LEMMA Stutter ==
    ASSUME UNCHANGED <<nread, nwrite, buf, usrc, written, udst>>
    PROVE  UNCHANGED Queue!vars
  BY Zenon DEF Queue!vars, Contents, Rest, pipe_readable_size

(* pipealloc makes an empty queue.                                         *)
LEMMA InitQueue == Init => Queue!Init
<1> SUFFICES ASSUME Init PROVE Queue!Init
  BY Zenon
<1>1. pipe_readable_size = 0
  BY InitIInv, Gap, Zenon DEF Init, IInv, PipeTypes
<1>2. Contents = <<>>
  BY <1>1 DEF Contents
<1>3. Rest = [w \in Writer |-> <<>>]
  <2>1. \A w \in Writer : SubSeq(usrc[w], written[w] + 1, Len(usrc[w])) = <<>>
    BY DEF Init
  <2> QED
    BY <2>1, Zenon DEF Rest
<1> QED
  BY <1>2, <1>3, Zenon DEF Init, Queue!Init

(* A turn of the reading loop takes bytes from the front.                  *)
LEMMA ReadCopyQueue ==
    ASSUME IInv, NEW r \in Reader, ReadCopy(r)
    PROVE  Queue!Next
<1> DEFINE c == Least(bytes[r], PIPE_SIZE - start[r])
<1>1. /\ pc[r] = "copy" /\ bytes[r] > 0
      /\ udst' = [udst EXCEPT ![r] = udst[r] \o [i \in 1 .. c |-> buf[start[r] + i - 1]]]
      /\ nread' = (nread + c) % U32
      /\ UNCHANGED <<nwrite, buf, usrc, written>>
  BY Zenon DEF ReadCopy, CopyOut, wvars
<1>2. /\ c \in Nat /\ c > 0 /\ c <= pipe_readable_size
      /\ start[r] = nread % PIPE_SIZE /\ (nread % PIPE_SIZE) + c <= PIPE_SIZE
  BY <1>1, ReadPiece, Zenon
<1> HIDE DEF c
<1>3. nread \in 0 .. U32 - 1 /\ nwrite \in 0 .. U32 - 1 /\ nread \in Int
  BY Sizes DEF IInv, PipeTypes
<1>4. PICK g \in Nat : g = pipe_readable_size
  BY Held, Zenon
<1>5. pipe_readable_size' = g - c
  BY <1>1, <1>2, <1>3, <1>4, ReadGap, Zenon
<1>6. SubSeq(Contents, 1, c) = [i \in 1 .. c |-> buf[start[r] + i - 1]]
  <2>1. \A i \in 1 .. c : Contents[i] = buf[start[r] + i - 1]
    <3> TAKE i \in 1 .. c
    <3>1. PICK j \in Nat : j = i - 1 /\ (nread % PIPE_SIZE) + j < PIPE_SIZE
      <4>1. nread % PIPE_SIZE \in Int
        BY <1>3, Sizes, Remainder
      <4> QED
        BY <1>2, <4>1, Sizes
    <3>2. (nread + j) % PIPE_SIZE = (nread % PIPE_SIZE) + j
      BY <1>3, <3>1, Sizes, Carry, Zenon
    <3>3. nread + j = nread + i - 1 /\ start[r] + j = start[r] + i - 1
      <4>1. start[r] \in Int
        BY <1>2, <1>3, Sizes, Remainder
      <4> QED
        BY <1>3, <3>1, <4>1, Zenon
    <3>4. Contents[i] = buf[(nread + i - 1) % PIPE_SIZE]
      BY <1>2, <1>4, Held
    <3> QED
      BY <1>2, <3>2, <3>3, <3>4, Zenon
  <2>2. SubSeq(Contents, 1, c) = [i \in 1 .. c |-> Contents[i]]
    BY <1>2, Slice
  <2> QED
    BY <2>1, <2>2, Zenon
<1>7. Contents' = SubSeq(Contents, c + 1, g)
  <2>1. SubSeq(Contents, c + 1, g) = [i \in 1 .. g - c |-> Contents[c + i]]
    BY <1>2, Slice
  <2>2. Contents' = [i \in 1 .. g - c |-> buf[(nread' + i - 1) % PIPE_SIZE]]
    BY <1>1, <1>5, Zenon DEF Contents
  <2>3. \A i \in 1 .. g - c : Contents[c + i] = buf[(nread' + i - 1) % PIPE_SIZE]
    <3> TAKE i \in 1 .. g - c
    <3>1. PICK x \in Int, j \in Int : x = nread + c /\ j = i - 1
      BY <1>2, <1>3
    <3>2. ((x % U32) + j) % PIPE_SIZE = (x + j) % PIPE_SIZE
      BY ONLY Sizes, Nested, x \in Int, j \in Int, Zenon
    <3>3. x % U32 \in Int
      BY Sizes, Remainder
    <3>4. nread' + i - 1 = (x % U32) + j /\ nread + (c + i) - 1 = x + j
      BY <1>1, <1>2, <1>3, <3>1, <3>3
    <3>5. c + i \in 1 .. pipe_readable_size
      BY <1>2, <1>4
    <3>6. Contents[c + i] = buf[(nread + (c + i) - 1) % PIPE_SIZE]
      BY <3>5, Held, Zenon
    <3> QED
      BY <3>2, <3>4, <3>6, Zenon
  <2> QED
    BY <2>1, <2>2, <2>3, Zenon
<1>8. Rest' = Rest
  BY <1>1, Zenon DEF Rest
<1>9. Len(Contents) = g /\ c \in 1 .. g
  BY <1>2, <1>4, Held
<1>10. Queue!Receive(r, c)
  BY <1>1, <1>6, <1>7, <1>8, <1>9, Zenon DEF Queue!Receive
<1> QED
  BY <1>9, <1>10, Zenon DEF Queue!Next

(* A turn of the writing loop appends the next bytes of the message.       *)
LEMMA WriteCopyQueue ==
    ASSUME IInv, NEW w \in Writer, WriteCopy(w)
    PROVE  Queue!Next
<1> DEFINE c == Piece(w, pipe_writable_size)
           from == nwrite % PIPE_SIZE
           s == usrc[w]
           k == written[w]
<1>1. /\ Room(w)
      /\ buf' = [i \in DOMAIN buf |-> IF i \in from .. from + c - 1
                                        THEN s[k + 1 + i - from] ELSE buf[i]]
      /\ written' = [written EXCEPT ![w] = k + c]
      /\ nwrite' = (nwrite + c) % U32
      /\ UNCHANGED <<nread, udst, usrc>>
  BY Zenon DEF WriteCopy, CopyIn, rvars
<1>2. /\ c \in Nat /\ c > 0 /\ k + c <= Len(s)
      /\ pipe_readable_size + c <= PIPE_SIZE /\ from + c <= PIPE_SIZE
  BY <1>1, WritePiece, Zenon
<1>3. /\ nread \in 0 .. U32 - 1 /\ nwrite \in 0 .. U32 - 1
      /\ nread \in Int /\ nwrite \in Int /\ k \in Nat /\ s \in Seq(Byte)
      /\ DOMAIN buf = 0 .. PIPE_SIZE - 1
  BY Sizes DEF IInv, PipeTypes
<1>4. PICK g \in Nat : g = pipe_readable_size /\ (nread + g) % U32 = nwrite
  <2>1. pipe_readable_size \in Nat
    BY Held, Zenon
  <2>2. (nread + pipe_readable_size) % U32 = nwrite
    BY <1>3, Ahead, Zenon
  <2> QED
    BY <2>1, <2>2, Zenon
<1> HIDE DEF c, s, k
<1>5. pipe_readable_size' = g + c
  BY <1>1, <1>2, <1>3, <1>4, WriteGap, Zenon
<1>6. /\ \A i \in 1 .. g : (nread + i - 1) % PIPE_SIZE \notin from .. from + c - 1
      /\ \A j \in 1 .. c : (nread + (g + j) - 1) % PIPE_SIZE = from + j - 1
  <2>1. PIPE_SIZE \in Nat \ {0} /\ U32 \in Nat \ {0} /\ U32 % PIPE_SIZE = 0
    BY Sizes, Zenon
  <2>2. g + c <= PIPE_SIZE
    BY <1>2, <1>4, Zenon
  <2>3. g + c <= PIPE_SIZE /\ (nwrite % PIPE_SIZE) + c <= PIPE_SIZE /\ c \in Nat /\ g \in Nat
    BY <1>2, <2>2, Zenon
  <2>4. nread \in Int /\ nwrite \in Int /\ (nread + g) % U32 = nwrite
    BY <1>3, <1>4, Zenon
  <2>5. /\ \A i \in 1 .. g : (nread + i - 1) % PIPE_SIZE
            \notin (nwrite % PIPE_SIZE) .. (nwrite % PIPE_SIZE) + c - 1
        /\ \A j \in 1 .. c : (nread + (g + j) - 1) % PIPE_SIZE = (nwrite % PIPE_SIZE) + j - 1
    BY <1>3, <1>4, <2>3, Behind, Zenon
  <2> QED
    BY <2>5, Zenon
<1>7. from \in 0 .. PIPE_SIZE - 1
  BY <1>3, Sizes, Remainder, Zenon
<1> HIDE DEF from
<1>8. \A i \in 1 .. g : buf'[(nread + i - 1) % PIPE_SIZE] = Contents[i]
  <2> TAKE i \in 1 .. g
  <2>1. nread + i - 1 \in Int
    BY <1>3
  <2>2. (nread + i - 1) % PIPE_SIZE \in DOMAIN buf
    BY <1>3, <2>1, Sizes, Remainder, Zenon
  <2>3. Contents[i] = buf[(nread + i - 1) % PIPE_SIZE]
    BY <1>4, Held, Zenon
  <2> QED
    BY <1>1, <1>6, <2>2, <2>3, Zenon
<1>9. \A j \in 1 .. c : buf'[(nread + (g + j) - 1) % PIPE_SIZE] = s[k + j]
  <2> TAKE j \in 1 .. c
  <2>1. from + j - 1 \in DOMAIN buf /\ from + j - 1 \in from .. from + c - 1
    BY <1>2, <1>3, <1>7, Sizes
  <2>2. k + 1 + (from + j - 1) - from = k + j
    BY <1>3, <1>7
  <2> QED
    BY <1>1, <1>6, <2>1, <2>2, Zenon
<1>10. LET t == SubSeq(s, k + 1, Len(s)) IN
         /\ t \in Seq(Byte) /\ Len(t) = Len(s) - k
         /\ SubSeq(t, 1, c) = [i \in 1 .. c |-> s[k + i]]
         /\ SubSeq(t, c + 1, Len(t)) = SubSeq(s, k + c + 1, Len(s))
  <2>1. s \in Seq(Byte) /\ k \in Nat /\ c \in Nat /\ k + c <= Len(s)
    BY <1>2, <1>3
  <2> QED
    BY <2>1, Remains, Zenon
<1>11. Rest[w] = SubSeq(s, k + 1, Len(s))
  BY Zenon DEF Rest, s, k
<1>12. Contents' = Contents \o SubSeq(Rest[w], 1, c)
  <2> DEFINE p == [i \in 1 .. c |-> s[k + i]]
  <2>1. Contents' = [i \in 1 .. g + c |-> buf'[(nread + i - 1) % PIPE_SIZE]]
    BY <1>1, <1>5 DEF Contents
  <2>2. Contents \in Seq(Byte) /\ Len(Contents) = g
    BY <1>4, Held, Zenon
  <2>3. p \in Seq(Byte) /\ Len(p) = c
    <3>1. \A i \in 1 .. c : s[k + i] \in Byte
      BY <1>2, <1>3
    <3> QED
      BY <1>2, <3>1
  <2>4. \A j \in 1 .. c : p[j] = s[k + j]
    BY Zenon
  <2> HIDE DEF p
  <2>5. \A i \in 1 .. g + c : buf'[(nread + i - 1) % PIPE_SIZE]
                                = IF i <= g THEN Contents[i] ELSE p[i - g]
    <3> TAKE i \in 1 .. g + c
    <3>1. CASE i <= g
      BY <1>8, <3>1
    <3>2. CASE i > g
      <4>1. PICK j \in 1 .. c : j = i - g
        BY <1>2, <3>2
      <4>2. i = g + j
        BY <4>1
      <4> QED
        BY <1>9, <2>4, <3>2, <4>1, <4>2
    <3> QED
      BY <3>1, <3>2
  <2>6. Contents \o p = [i \in 1 .. g + c |-> IF i <= g THEN Contents[i] ELSE p[i - g]]
    <3>1. PICK u \in Seq(Byte), v \in Seq(Byte) : u = Contents /\ v = p
      BY <2>2, <2>3, Zenon
    <3>2. Len(u) = g /\ Len(v) = c /\ c \in Nat /\ g \in Nat
      BY <1>2, <2>2, <2>3, <3>1, Zenon
    <3>3. u \o v = [i \in 1 .. Len(u) + Len(v) |-> IF i <= Len(u) THEN u[i] ELSE v[i - Len(u)]]
      BY Glue, Zenon
    <3>4. u \o v = [i \in 1 .. g + c |-> IF i <= g THEN u[i] ELSE v[i - g]]
      BY ONLY <3>2, <3>3, Zenon
    <3> QED
      BY ONLY <3>1, <3>4, Zenon
  <2>7. Contents' = Contents \o p
    BY <2>1, <2>5, <2>6, Zenon
  <2> QED
    BY <1>10, <1>11, <2>7, Zenon DEF p
<1>13. Rest' = [Rest EXCEPT ![w] = SubSeq(Rest[w], c + 1, Len(Rest[w]))]
  <2>1. Rest' = [x \in Writer |-> SubSeq(usrc[x], written'[x] + 1, Len(usrc[x]))]
    BY <1>1 DEF Rest
  <2>2. \A x \in Writer : written'[x] = IF x = w THEN k + c ELSE written[x]
    BY <1>1, Zenon DEF IInv, PipeTypes
  <2>3. SubSeq(Rest[w], c + 1, Len(Rest[w])) = SubSeq(s, k + c + 1, Len(s))
    BY <1>10, <1>11, Zenon
  <2> QED
    BY <2>1, <2>2, <2>3, Zenon DEF Rest, s
<1>14. Len(Contents) + c <= PIPE_SIZE /\ c \in 1 .. Len(Rest[w])
  <2>1. Len(Rest[w]) = Len(s) - k /\ Len(s) \in Nat
    BY <1>3, <1>10, <1>11
  <2>2. PICK n \in Nat : n = Len(s)
    BY <2>1, Zenon
  <2>3. c \in 1 .. n - k
    BY <1>2, <1>3, <2>2
  <2>4. Len(Contents) + c <= PIPE_SIZE
    BY <1>2, Held, Zenon
  <2> QED
    BY <2>1, <2>2, <2>3, <2>4, Zenon
<1>15. Queue!Send(w, c)
  BY <1>1, <1>12, <1>13, <1>14, Zenon DEF Queue!Send
<1> QED
  BY <1>14, <1>15, Zenon DEF Queue!Next

(* A call of pipewrite hands its message over, and what else the writers   *)
(* do moves no byte.                                                       *)
LEMMA WriterQueue ==
    ASSUME IInv, NEW w \in Writer, WriterStep(w)
    PROVE  [Queue!Next]_(Queue!vars)
<1>1. ASSUME NEW m \in Message, pipewrite(w, m) PROVE Queue!Next
  <2>1. /\ usrc' = [usrc EXCEPT ![w] = m] /\ written' = [written EXCEPT ![w] = 0]
        /\ pc[w] = "idle" /\ UNCHANGED <<nread, nwrite, buf, udst>>
    BY <1>1, Zenon DEF pipewrite, rvars
  <2>2. usrc[w] = <<>> /\ written[w] \in Nat
    BY <2>1, Zenon DEF IInv, PipeTypes, Sources
  <2>3. Rest[w] = <<>>
    BY <2>2 DEF Rest
  <2>4. SubSeq(m, 0 + 1, Len(m)) = m
    BY Messages
  <2>5. Rest' = [Rest EXCEPT ![w] = m]
    <3>1. \A x \in Writer : /\ usrc'[x] = IF x = w THEN m ELSE usrc[x]
                            /\ written'[x] = IF x = w THEN 0 ELSE written[x]
      BY <2>1, Zenon DEF IInv, PipeTypes
    <3>2. \A x \in Writer : SubSeq(usrc'[x], written'[x] + 1, Len(usrc'[x]))
            = IF x = w THEN m ELSE SubSeq(usrc[x], written[x] + 1, Len(usrc[x]))
      BY ONLY <2>4, <3>1, Zenon
    <3> QED
      BY ONLY <3>2, Zenon DEF Rest
  <2>6. Contents' = Contents
    BY <2>1, Zenon DEF Contents, pipe_readable_size
  <2>7. Queue!Write(w, m)
    BY <2>1, <2>3, <2>5, <2>6, Zenon DEF Queue!Write
  <2>8. m \in Queue!Message
    BY Zenon DEF Message, Queue!Message
  <2> QED
    BY <2>7, <2>8, Zenon DEF Queue!Next
<1>2. CASE WriteGet(w) \/ WriteSleep(w)
  BY <1>2, Stutter, Zenon DEF WriteGet, WriteSleep, rvars, wvars
<1>3. ASSUME WriteDone(w) PROVE UNCHANGED Queue!vars
  <2>1. /\ usrc' = [usrc EXCEPT ![w] = <<>>] /\ written' = [written EXCEPT ![w] = 0]
        /\ written[w] = Len(usrc[w]) /\ UNCHANGED <<nread, nwrite, buf, udst>>
    BY <1>3, Zenon DEF WriteDone, rvars
  <2>2. \A x \in Writer : /\ usrc'[x] = IF x = w THEN <<>> ELSE usrc[x]
                          /\ written'[x] = IF x = w THEN 0 ELSE written[x]
    BY <2>1, Zenon DEF IInv, PipeTypes
  <2>3. Len(usrc[w]) \in Nat
    BY DEF IInv, PipeTypes
  <2>4. SubSeq(usrc[w], Len(usrc[w]) + 1, Len(usrc[w])) = <<>> /\ SubSeq(<<>>, 0 + 1, 0) = <<>>
    BY <2>3
  <2>5. Rest' = Rest
    <3>1. \A x \in Writer : SubSeq(usrc'[x], written'[x] + 1, Len(usrc'[x]))
                              = SubSeq(usrc[x], written[x] + 1, Len(usrc[x]))
      <4> SUFFICES ASSUME NEW x \in Writer
                   PROVE  SubSeq(usrc'[x], written'[x] + 1, Len(usrc'[x]))
                            = SubSeq(usrc[x], written[x] + 1, Len(usrc[x]))
        BY Zenon
      <4>1. CASE x = w
        <5>1. usrc'[x] = <<>> /\ written'[x] = 0 /\ Len(<<>>) = 0
          BY <2>2, <4>1, Zenon
        <5> QED
          BY ONLY <2>1, <2>4, <4>1, <5>1, Zenon
      <4>2. CASE x # w
        BY ONLY <2>2, <4>2, x \in Writer, Zenon
      <4> QED
        BY <4>1, <4>2, Zenon
    <3> QED
      BY ONLY <3>1, Zenon DEF Rest
  <2>6. Contents' = Contents
    BY <2>1, Zenon DEF Contents, pipe_readable_size
  <2> QED
    BY <2>1, <2>5, <2>6, Zenon DEF Queue!vars
<1> QED
  BY <1>1, <1>2, <1>3, WriteCopyQueue, Zenon DEF WriterStep

(* The end of a read empties the reader's buffer, and what else the        *)
(* readers do moves no byte.                                               *)
LEMMA ReaderQueue ==
    ASSUME IInv, NEW r \in Reader, ReaderStep(r)
    PROVE  [Queue!Next]_(Queue!vars)
<1>1. CASE (\E len \in 0 .. MaxLen : piperead(r, len)) \/ ReadSleep(r) \/ ReadStart(r)
  BY <1>1, Stutter, Zenon DEF piperead, ReadSleep, ReadStart, rvars, wvars
<1>2. ASSUME ReadDone(r) PROVE Queue!Next
  <2>1. udst' = [udst EXCEPT ![r] = <<>>] /\ UNCHANGED <<nread, nwrite, buf, usrc, written>>
    BY <1>2, Zenon DEF ReadDone, wvars
  <2>2. Contents' = Contents /\ Rest' = Rest
    BY <2>1, Zenon DEF Contents, Rest, pipe_readable_size
  <2>3. Queue!Read(r)
    BY <2>1, <2>2, Zenon DEF Queue!Read
  <2> QED
    BY <2>3, Zenon DEF Queue!Next
<1> QED
  BY <1>1, <1>2, ReadCopyQueue, Zenon DEF ReaderStep

(* The pipe is a queue: the bytes of a write come out once, in order, and  *)
(* never more than PIPE_SIZE are in the pipe, although the copies go       *)
(* around the end of buf and the counters around 2^32.                     *)
THEOREM Refinement == Spec => ImplementsFifo
<1>1. IInv /\ [Next]_vars => [Queue!Next]_(Queue!vars)
  <2> SUFFICES ASSUME IInv, [Next]_vars PROVE [Queue!Next]_(Queue!vars)
    BY Zenon
  <2>1. CASE UNCHANGED vars
    BY <2>1, Stutter, Zenon DEF vars, rvars, wvars
  <2>2. CASE Next
    BY <2>2, ReaderQueue, WriterQueue, Zenon DEF Next
  <2> QED
    BY <2>1, <2>2, Zenon
<1> QED
  BY <1>1, InitQueue, Invariance, PTL DEF Spec, ImplementsFifo, Queue!Spec
-----------------------------------------------------------------------------
(* The console. Its writers first.                                         *)

WPlace == {"idle", "start", "send", "asleep", "get"}
WCall == [pc : WPlace, lines : Int, len : Nat, size : 0 .. TX, i : Nat]
TxByte == (CWriter \X Int) \cup {Nul}
Text == TX + 1

OutTypes ==
    /\ txbuf \in [0 .. TX - 1 -> TxByte]
    /\ wr \in [CWriter -> WCall]
    /\ out \in [CWriter -> Seq(TxByte)]
    /\ \A t \in CWriter : wr[t].pc = "send" => tx = t

(* How much of its text a writer has sent, and that its turn's piece is in *)
(* txbuf from where the pieces before it end.                              *)
OutOf(t) ==
    LET x == wr[t]
        from == Text - x.len - x.size
    IN /\ \A n \in 1 .. Len(out[t]) : out[t][n] = <<t, (n - 1) % Text>>
       /\ x.pc = "idle" => Len(out[t]) % Text = 0
       /\ x.pc # "idle" => /\ x.len + x.size <= Text /\ x.i <= x.size
                           /\ Len(out[t]) % Text = (from + x.i) % Text
       /\ x.pc = "start" => x.size = 0 /\ x.i = 0
       /\ x.pc \in {"send", "asleep", "get"} => \A n \in 0 .. x.size - 1 : txbuf[n] = <<t, from + n>>

OutInv == OutTypes /\ (CUses({"shared"}) \/ \A t \in CWriter : OutOf(t))

(* The text has a length.                                                  *)
LEMMA TextSize == TX \in Nat /\ Text \in Nat \ {0} /\ Text = TX + 1
  BY ConsoleSizes DEF Text

(* The fields of a writer.                                                 *)
LEMMA CallFields ==
    ASSUME NEW x \in WCall
    PROVE  x.pc \in WPlace /\ x.len \in Nat /\ x.size \in Nat /\ x.size <= TX /\ x.i \in Nat
  BY TextSize DEF WCall

(* A sequence is the function of its elements.                             *)
LEMMA Listed == ASSUME NEW S, NEW s \in Seq(S) PROVE s = [n \in 1 .. Len(s) |-> s[n]]
  OBVIOUS

(* A whole turn is none.                                                   *)
LEMMA Whole == ASSUME NEW m \in Nat \ {0} PROVE m % m = 0
<1>1. (0 + m) % m = 0 % m /\ 0 % m = 0
  BY FullTurn, Small
<1> QED
  BY <1>1

(* The distance from one place to another leads there.                     *)
LEMMA Reach ==
    ASSUME NEW m \in Nat \ {0}, NEW a \in 0 .. m - 1, NEW b \in 0 .. m - 1
    PROVE  (a + ((b - a + m) % m)) % m = b
<1>1. PICK k \in Int : k = b - a
  OBVIOUS
<1>2. (k + m) % m = k % m
  BY FullTurn, Zenon
<1>3. m % m = 0 /\ b % m = b
  BY Whole, Small, Zenon
<1>4. b \in Int /\ a \in Int
  OBVIOUS
<1>5. (a + ((b - a) % m)) % m = b % m
  <2>1. \A n \in Nat \ {0} : n % m = 0 => (a + ((b - a) % n)) % m = b % m
    BY ONLY <1>4, Meet, m \in Nat \ {0}, Zenon
  <2> QED
    BY ONLY <1>3, <2>1, m \in Nat \ {0}, Zenon
<1> QED
  BY ONLY <1>1, <1>2, <1>3, <1>5, Zenon

(* An empty console has sent nothing of any text.                          *)
LEMMA InitOut == ASSUME CInit PROVE OutInv
<1>1. PICK s \in Session : wr = [t \in CWriter |-> WIdle(s.writes)]
  BY Zenon DEF CInit
<1>2. OutTypes
  BY <1>1, TextSize, SessionAssumption DEF CInit, OutTypes, WPlace, WCall, TxByte, WIdle
<1>3. \A t \in CWriter : OutOf(t)
  <2> TAKE t \in CWriter
  <2>1. out[t] = <<>> /\ wr[t].pc = "idle"
    BY <1>1, Zenon DEF CInit, WIdle
  <2>2. Len(out[t]) = 0 /\ 0 % Text = 0
    BY <2>1, TextSize, Small
  <2> QED
    BY <2>1, <2>2 DEF OutOf
<1> QED
  BY <1>2, <1>3, Zenon DEF OutInv

(* A step that leaves the writers alone.                                   *)
LEMMA StillOut ==
    ASSUME OutInv, UNCHANGED writers, codd \subseteq codd'
    PROVE  OutInv'
<1>1. OutTypes'
  BY Zenon DEF OutInv, OutTypes, writers
<1>2. ASSUME NEW t \in CWriter, OutOf(t) PROVE OutOf(t)'
  BY <1>2, Zenon DEF OutOf, writers
<1> QED
  BY <1>1, <1>2, Zenon DEF OutInv, CUses

(* A writer that a step does not concern, and whose piece it leaves alone. *)
LEMMA OtherOut ==
    ASSUME NEW u \in CWriter, OutOf(u), wr'[u] = wr[u], out'[u] = out[u],
           wr[u].pc \in {"send", "asleep", "get"} => txbuf' = txbuf
    PROVE  OutOf(u)'
  BY Zenon DEF OutOf

(* The UART's interrupt sends the sleeping writers for tx.                 *)
LEMMA WakeOut ==
    ASSUME OutInv, wr' = WakeWriters, UNCHANGED <<tx, txbuf, out, codd>>
    PROVE  OutInv'
<1>1. OutTypes'
  BY Zenon DEF OutInv, OutTypes, WakeWriters, WPlace, WCall
<1>2. ASSUME NEW t \in CWriter, OutOf(t) PROVE OutOf(t)'
  <2>1. CASE wr[t].pc = "asleep"
    <3>1. wr'[t] = [wr[t] EXCEPT !.pc = "get"] /\ wr[t] \in WCall
      BY <2>1, Zenon DEF WakeWriters, OutInv, OutTypes
    <3>2. /\ wr'[t].len = wr[t].len /\ wr'[t].size = wr[t].size /\ wr'[t].i = wr[t].i
          /\ wr'[t].pc = "get"
      BY <3>1
    <3> QED
      BY <1>2, <2>1, <3>2, Zenon DEF OutOf
  <2>2. CASE wr[t].pc # "asleep"
    BY <1>2, <2>2, OtherOut, Zenon DEF WakeWriters
  <2> QED
    BY <2>1, <2>2, Zenon
<1> QED
  BY <1>1, <1>2, Zenon DEF OutInv, CUses

(* A call of console_write begins its text.                                *)
LEMMA WriteOut ==
    ASSUME OutInv, NEW t \in CWriter, console_write(t)
    PROVE  OutInv'
<1>1. /\ wr[t].pc = "idle" /\ UNCHANGED <<tx, txbuf, out, codd>>
      /\ wr' = [wr EXCEPT ![t] = [pc |-> "start", lines |-> wr[t].lines - 1, len |-> TX + 1,
                                  size |-> 0, i |-> 0]]
  BY Zenon DEF console_write
<1>2. OutTypes'
  <2>1. PICK y \in WCall : wr' = [wr EXCEPT ![t] = y] /\ y.pc = "start"
    <3>1. wr[t].lines \in Int
      BY Zenon DEF OutInv, OutTypes, WCall
    <3>2. wr[t].lines - 1 \in Int /\ TX + 1 \in Nat /\ 0 \in Nat /\ 0 \in 0 .. TX
      BY <3>1, TextSize
    <3>3. PICK y : y = [pc |-> "start", lines |-> wr[t].lines - 1, len |-> TX + 1, size |-> 0, i |-> 0]
      BY Zenon
    <3>4. y \in WCall /\ y.pc = "start"
      BY ONLY <3>2, <3>3 DEF WCall, WPlace
    <3> QED
      BY <1>1, <3>3, <3>4, Zenon
  <2> QED
    BY <1>1, <2>1, Zenon DEF OutInv, OutTypes
<1>3. ASSUME NEW u \in CWriter, OutOf(u) PROVE OutOf(u)'
  <2>1. CASE u # t
    BY <1>1, <1>3, <2>1, OtherOut, Zenon DEF OutInv, OutTypes
  <2>2. CASE u = t
    <3>1. /\ wr'[u].pc = "start" /\ wr'[u].len = Text /\ wr'[u].size = 0 /\ wr'[u].i = 0
          /\ out'[u] = out[u]
      BY <1>1, <2>2, Zenon DEF OutInv, OutTypes, Text
    <3>2. Len(out[u]) % Text = 0 /\ 0 % Text = 0
      <4>1. Len(out[u]) % Text = 0
        BY <1>1, <1>3, <2>2, Zenon DEF OutOf
      <4>2. 0 \in 0 .. Text - 1
        BY ONLY TextSize
      <4>3. 0 % Text = 0
        BY <4>2, TextSize, Small, Zenon
      <4> QED
        BY <4>1, <4>3, Zenon
    <3>3. Text - Text - 0 + 0 = 0 /\ Text + 0 <= Text /\ 0 <= 0
      BY TextSize
    <3>4. /\ wr'[u].len + wr'[u].size <= Text /\ wr'[u].i <= wr'[u].size
          /\ Len(out'[u]) % Text = (Text - wr'[u].len - wr'[u].size + wr'[u].i) % Text
      BY ONLY <3>1, <3>2, <3>3, Zenon
    <3>5. wr'[u].pc \notin {"idle", "send", "asleep", "get"}
      BY ONLY <3>1, Zenon
    <3> QED
      BY <1>3, <3>1, <3>4, <3>5, Zenon DEF OutOf
  <2> QED
    BY <2>1, <2>2, Zenon
<1> QED
  BY <1>1, <1>2, <1>3, Zenon DEF OutInv, CUses

(* The next piece of a text goes to txbuf. The writers whose piece it      *)
(* overwrites sleep or wait for tx, and then the buffer is shared.         *)
LEMMA TurnOut ==
    ASSUME OutInv, NEW t \in CWriter, Turn(t)
    PROVE  OutInv'
<1>1. PICK x \in WCall : x = wr[t]
  BY Zenon DEF OutInv, OutTypes
<1>0. x.len \in Nat /\ x.size \in Nat /\ x.i \in Nat
  BY CallFields, Zenon
<1>2. PICK size \in Nat : size = IF x.len < TX THEN x.len ELSE TX
  BY <1>0, TextSize, Zenon
<1>3. size <= TX /\ size <= x.len
  BY <1>0, <1>2, TextSize
<1>4. /\ \/ x.pc = "start" /\ tx = Nobody
         \/ x.pc = "send" /\ x.i = x.size /\ x.len > 0
      /\ tx' = t
      /\ txbuf' = [n \in DOMAIN txbuf |-> IF n < size THEN <<t, TX + 1 - x.len + n>> ELSE txbuf[n]]
      /\ wr' = [wr EXCEPT ![t].pc = "send", ![t].size = size, ![t].i = 0, ![t].len = @ - size]
      /\ codd' = IF {u \in CWriter \ {t} : wr[u].pc \in {"asleep", "get"}} # {}
                   THEN codd \cup {"shared"} ELSE codd
      /\ out' = out
  BY <1>1, <1>2, Zenon DEF Turn
<1>5. PICK y \in WCall : /\ wr' = [wr EXCEPT ![t] = y]
                         /\ y.pc = "send" /\ y.len = x.len - size /\ y.size = size /\ y.i = 0
  <2>1. PICK y : y = [x EXCEPT !.pc = "send", !.size = size, !.i = 0, !.len = @ - size]
    BY Zenon
  <2>2. x.len - size \in Nat /\ size \in 0 .. TX /\ x.lines \in Int
    BY <1>0, <1>3, TextSize DEF WCall
  <2>3. y \in WCall /\ y.pc = "send" /\ y.len = x.len - size /\ y.size = size /\ y.i = 0
    BY <2>1, <2>2, Zenon DEF WCall, WPlace
  <2>4. wr' = [wr EXCEPT ![t] = y]
    BY <1>1, <1>4, <2>1, Zenon DEF OutInv, OutTypes
  <2> QED
    BY <2>3, <2>4, Zenon
<1>6. \A u \in CWriter \ {t} : wr[u].pc # "send"
  BY <1>1, <1>4, ConsoleTasks, Zenon DEF OutInv, OutTypes, Nobody
<1>7. OutTypes'
  <2>1. txbuf' \in [0 .. TX - 1 -> TxByte]
    <3>1. txbuf \in [0 .. TX - 1 -> TxByte]
      BY Zenon DEF OutInv, OutTypes
    <3>2. \A n \in 0 .. TX - 1 : <<t, TX + 1 - x.len + n>> \in TxByte
      BY <1>0, TextSize DEF TxByte
    <3> QED
      BY <1>4, <3>1, <3>2, Zenon
  <2>2. wr' \in [CWriter -> WCall]
    BY <1>5, Zenon DEF OutInv, OutTypes
  <2>3. \A u \in CWriter : wr'[u].pc = "send" => tx' = u
    BY <1>4, <1>5, <1>6, Zenon DEF OutInv, OutTypes
  <2> QED
    BY <1>4, <2>1, <2>2, <2>3, Zenon DEF OutInv, OutTypes
<1>8. ASSUME NEW u \in CWriter, OutOf(u), "shared" \notin codd' PROVE OutOf(u)'
  <2>1. CASE u # t
    <3>1. wr[u].pc \notin {"send", "asleep", "get"}
      BY <1>4, <1>6, <1>8, <2>1, Zenon
    <3> QED
      BY <1>4, <1>5, <1>8, <2>1, <3>1, OtherOut, Zenon DEF OutInv, OutTypes
  <2>2. CASE u = t
    <3>1. /\ wr'[u].pc = "send" /\ wr'[u].len = x.len - size /\ wr'[u].size = size /\ wr'[u].i = 0
          /\ out'[u] = out[u]
      BY <1>4, <1>5, <2>2, Zenon DEF OutInv, OutTypes
    <3>2. /\ x.len + x.size <= Text /\ x.i = x.size
          /\ Len(out[u]) % Text = (Text - x.len - x.size + x.i) % Text
          /\ \A n \in 1 .. Len(out[u]) : out[u][n] = <<u, (n - 1) % Text>>
      BY <1>1, <1>4, <1>8, <2>2, Zenon DEF OutOf
    <3>3. Text - x.len - x.size + x.i = Text - x.len
      <4>1. PICK a \in Nat, b \in Nat : a = x.len /\ b = x.size
        BY <1>0, Zenon
      <4>2. Text - a - b + b = Text - a
        BY ONLY <4>1, TextSize
      <4> QED
        BY <3>2, <4>1, <4>2, Zenon
    <3>4. Text - (x.len - size) - size = Text - x.len
      BY <1>0, <1>1, TextSize
    <3>5. Text - (x.len - size) - size + 0 = Text - x.len
      BY <1>0, <1>1, TextSize
    <3>6. \A n \in 0 .. size - 1 : txbuf'[n] = <<u, Text - x.len + n>>
      <4>1. \A n \in 0 .. size - 1 : n \in 0 .. TX - 1 /\ n < size /\ TX + 1 - x.len + n = Text - x.len + n
        BY ONLY <1>0, <1>3, TextSize
      <4>2. DOMAIN txbuf = 0 .. TX - 1
        BY Zenon DEF OutInv, OutTypes
      <4> QED
        BY <1>4, <2>2, <4>1, <4>2, Zenon
    <3>7. (x.len - size) + size <= Text /\ 0 <= size
      BY <1>0, <1>1, <3>2, TextSize
    <3> QED
      BY <1>3, <3>1, <3>2, <3>3, <3>4, <3>5, <3>6, <3>7, Zenon DEF OutOf
  <2> QED
    BY <2>1, <2>2, Zenon
<1>9. codd \subseteq codd'
  BY <1>4, Zenon
<1> QED
  BY <1>7, <1>8, <1>9, Zenon DEF OutInv, CUses


(* A byte goes down the line: the one the text has next.                   *)
LEMMA SendOut ==
    ASSUME OutInv, NEW t \in CWriter, Send(t)
    PROVE  OutInv'
<1>1. PICK x \in WCall : x = wr[t]
  BY Zenon DEF OutInv, OutTypes
<1>2. /\ x.pc = "send" /\ x.i < x.size
      /\ out' = [out EXCEPT ![t] = Append(out[t], txbuf[x.i])]
      /\ wr' = [wr EXCEPT ![t].i = @ + 1]
      /\ UNCHANGED <<tx, txbuf, codd>>
  BY <1>1, Zenon DEF Send
<1>3. x.len \in Nat /\ x.size \in Nat /\ x.size <= TX /\ x.i \in Nat
  BY CallFields, Zenon
<1>4. PICK y \in WCall : /\ wr' = [wr EXCEPT ![t] = y]
                         /\ y.pc = "send" /\ y.len = x.len /\ y.size = x.size /\ y.i = x.i + 1
  <2>1. PICK y : y = [x EXCEPT !.i = @ + 1]
    BY Zenon
  <2>2. y \in WCall /\ y.pc = "send" /\ y.len = x.len /\ y.size = x.size /\ y.i = x.i + 1
    BY <1>2, <1>3, <2>1 DEF WCall
  <2>3. wr' = [wr EXCEPT ![t] = y]
    BY <1>1, <1>2, <2>1, Zenon DEF OutInv, OutTypes
  <2> QED
    BY <2>2, <2>3, Zenon
<1>5. x.i \in 0 .. TX - 1
  BY <1>2, <1>3, TextSize
<1>6. PICK o \in Seq(TxByte) : o = out[t]
  BY Zenon DEF OutInv, OutTypes
<1>7. txbuf[x.i] \in TxByte
  BY <1>5, Zenon DEF OutInv, OutTypes
<1>8. /\ Append(o, txbuf[x.i]) \in Seq(TxByte) /\ Len(Append(o, txbuf[x.i])) = Len(o) + 1
      /\ Append(o, txbuf[x.i])[Len(o) + 1] = txbuf[x.i]
      /\ \A n \in 1 .. Len(o) : Append(o, txbuf[x.i])[n] = o[n]
  BY <1>7
<1>9. OutTypes'
  <2>1. wr' \in [CWriter -> WCall]
    BY <1>4, Zenon DEF OutInv, OutTypes
  <2>2. \A u \in CWriter : wr'[u].pc = wr[u].pc
    BY <1>1, <1>2, <1>4, Zenon DEF OutInv, OutTypes
  <2>3. out' \in [CWriter -> Seq(TxByte)]
    BY <1>2, <1>6, <1>8, Zenon DEF OutInv, OutTypes
  <2> QED
    BY <1>2, <2>1, <2>2, <2>3, Zenon DEF OutInv, OutTypes
<1>10. ASSUME NEW u \in CWriter, OutOf(u) PROVE OutOf(u)'
  <2>1. CASE u # t
    BY <1>2, <1>4, <1>10, <2>1, OtherOut, Zenon DEF OutInv, OutTypes
  <2>2. CASE u = t
    <3>1. wr'[t] = y /\ out'[t] = Append(o, txbuf[x.i])
      BY <1>2, <1>4, <1>6, Zenon DEF OutInv, OutTypes
    <3>2. PICK at \in Nat : at = Text - x.len - x.size + x.i /\ at < Text
      <4>1. x.len + x.size <= Text
        BY <1>1, <1>2, <1>10, <2>2, Zenon DEF OutOf
      <4> QED
        <5>1. x.i < x.size
          BY <1>2, Zenon
        <5> QED
          BY ONLY <1>3, <4>1, <5>1, TextSize
    <3>3. /\ x.len + x.size <= Text /\ Len(o) % Text = at % Text
          /\ \A n \in 1 .. Len(o) : o[n] = <<t, (n - 1) % Text>>
          /\ \A n \in 0 .. x.size - 1 : txbuf[n] = <<t, Text - x.len - x.size + n>>
      BY <1>1, <1>2, <1>6, <1>10, <2>2, <3>2, Zenon DEF OutOf
    <3>4. at % Text = at
      BY <3>2, TextSize, Small
    <3>5. txbuf[x.i] = <<t, Len(o) % Text>>
      BY <1>2, <1>3, <3>2, <3>3, <3>4
    <3>6. PICK len \in Nat : len = Len(o)
      BY <1>6
    <3>7. (len + 1) % Text = (at + 1) % Text
      <4>1. len \in Int /\ at \in Int /\ 1 \in Int /\ len % Text = at
        BY <3>2, <3>3, <3>4, <3>6
      <4>2. ((len % Text) + 1) % Text = (len + 1) % Text
        BY <4>1, TextSize, Wrap, Zenon
      <4> QED
        BY <4>1, <4>2, Zenon
    <3>8. \A n \in 1 .. len + 1 : Append(o, txbuf[x.i])[n] = <<t, (n - 1) % Text>>
      <4> SUFFICES ASSUME NEW n \in 1 .. len + 1
                   PROVE  Append(o, txbuf[x.i])[n] = <<t, (n - 1) % Text>>
        BY Zenon
      <4>1. CASE n = len + 1
        <5>1. n - 1 = len
          BY <4>1
        <5> QED
          BY <1>8, <3>5, <3>6, <4>1, <5>1, Zenon
      <4>2. CASE n \in 1 .. len
        BY <1>8, <3>3, <3>6, <4>2, Zenon
      <4>3. n = len + 1 \/ n \in 1 .. len
        OBVIOUS
      <4> QED
        BY <4>1, <4>2, <4>3, Zenon
    <3>9. Text - x.len - x.size + (x.i + 1) = at + 1 /\ x.i + 1 <= x.size
      <4>1. x.i < x.size
        BY <1>2, Zenon
      <4> QED
        <5>1. PICK l \in Nat, s \in Nat, i \in Nat, z \in Nat, b \in Nat :
                l = x.len /\ s = x.size /\ i = x.i /\ z = Text /\ b = at
          BY <1>3, TextSize, Zenon
        <5>2. i < s /\ b = z - l - s + i
          BY <3>2, <4>1, <5>1, Zenon
        <5>3. z - l - s + (i + 1) = b + 1 /\ i + 1 <= s
          BY ONLY <5>2
        <5> QED
          BY ONLY <5>1, <5>3, Zenon
    <3> QED
      <4>1. Len(out'[t]) = len + 1 /\ txbuf' = txbuf
        BY <1>2, <1>8, <3>1, <3>6, Zenon
      <4>2. wr'[t].pc = "send" /\ wr'[t].len = x.len /\ wr'[t].size = x.size /\ wr'[t].i = x.i + 1
        BY <1>4, <3>1, Zenon
      <4>3. (len + 1) % Text = (Text - x.len - x.size + (x.i + 1)) % Text
        BY <3>7, <3>9, Zenon
      <4>4. \A n \in 1 .. len + 1 : out'[t][n] = <<t, (n - 1) % Text>>
        BY <3>1, <3>8, Zenon
      <4> QED
        BY ONLY <2>2, <3>3, <3>9, <4>1, <4>2, <4>3, <4>4, Zenon DEF OutOf
  <2> QED
    BY <2>1, <2>2, Zenon
<1> QED
  BY <1>2, <1>9, <1>10, Zenon DEF OutInv, CUses


(* The steps that only move a writer between sleep and tx.                 *)
LEMMA MoveOut ==
    ASSUME OutInv, NEW t \in CWriter, NEW p \in {"send", "asleep"},
           wr[t].pc \in {"send", "get"}, wr' = [wr EXCEPT ![t].pc = p],
           \A u \in CWriter \ {t} : wr[u].pc # "send",
           p = "send" => tx' = t,
           UNCHANGED <<txbuf, out, codd>>
    PROVE  OutInv'
<1>1. PICK x \in WCall : x = wr[t]
  BY Zenon DEF OutInv, OutTypes
<1>2. PICK y \in WCall : /\ wr' = [wr EXCEPT ![t] = y]
                         /\ y.pc = p /\ y.len = x.len /\ y.size = x.size /\ y.i = x.i
  <2>1. PICK y : y = [x EXCEPT !.pc = p]
    BY Zenon
  <2>2. y \in WCall /\ y.pc = p /\ y.len = x.len /\ y.size = x.size /\ y.i = x.i
    BY <2>1, Zenon DEF WCall, WPlace
  <2>3. wr' = [wr EXCEPT ![t] = y]
    BY <1>1, <2>1, Zenon DEF OutInv, OutTypes
  <2> QED
    BY <2>2, <2>3, Zenon
<1>3. OutTypes'
  BY <1>2, Zenon DEF OutInv, OutTypes
<1>4. ASSUME NEW u \in CWriter, OutOf(u) PROVE OutOf(u)'
  <2>1. CASE u # t
    BY <1>2, <1>4, <2>1, OtherOut, Zenon DEF OutInv, OutTypes
  <2>2. CASE u = t
    <3>1. wr'[t].pc = p /\ wr'[t].len = x.len /\ wr'[t].size = x.size /\ wr'[t].i = x.i
      BY <1>2, Zenon DEF OutInv, OutTypes
    <3> QED
      BY <1>1, <1>4, <2>2, <3>1 DEF OutOf
  <2> QED
    BY <2>1, <2>2, Zenon
<1> QED
  BY <1>3, <1>4, Zenon DEF OutInv, CUses

(* The last byte of a text has gone.                                       *)
LEMMA DoneOut ==
    ASSUME OutInv, NEW t \in CWriter, SendDone(t)
    PROVE  OutInv'
<1>1. PICK x \in WCall : x = wr[t]
  BY Zenon DEF OutInv, OutTypes
<1>2. /\ x.pc = "send" /\ x.i = x.size /\ x.len = 0
      /\ wr' = [wr EXCEPT ![t].pc = "idle"] /\ tx' = Nobody
      /\ UNCHANGED <<txbuf, out, codd>>
  BY <1>1, Zenon DEF SendDone
<1>3. PICK y \in WCall : wr' = [wr EXCEPT ![t] = y] /\ y.pc = "idle"
  <2>1. PICK y : y = [x EXCEPT !.pc = "idle"]
    BY Zenon
  <2>2. y \in WCall /\ y.pc = "idle"
    BY <2>1, Zenon DEF WCall, WPlace
  <2>3. wr' = [wr EXCEPT ![t] = y]
    BY <1>1, <1>2, <2>1, Zenon DEF OutInv, OutTypes
  <2> QED
    BY <2>2, <2>3, Zenon
<1>4. \A u \in CWriter \ {t} : wr[u].pc # "send"
  BY <1>1, <1>2, Zenon DEF OutInv, OutTypes
<1>5. OutTypes'
  BY <1>2, <1>3, <1>4, Zenon DEF OutInv, OutTypes
<1>6. ASSUME NEW u \in CWriter, OutOf(u) PROVE OutOf(u)'
  <2>1. CASE u # t
    BY <1>2, <1>3, <1>6, <2>1, OtherOut, Zenon DEF OutInv, OutTypes
  <2>2. CASE u = t
    <3>1. wr'[t].pc = "idle"
      BY <1>3, Zenon DEF OutInv, OutTypes
    <3>2. Text - x.len - x.size + x.i = Text
      BY <1>2, TextSize, CallFields
    <3>3. Text % Text = 0
      BY TextSize, Whole, Zenon
    <3>4. /\ Len(out[t]) % Text = 0
          /\ \A n \in 1 .. Len(out[t]) : out[t][n] = <<t, (n - 1) % Text>>
      BY <1>1, <1>2, <1>6, <2>2, <3>2, <3>3, Zenon DEF OutOf
    <3> QED
      BY <1>2, <2>2, <3>1, <3>4, Zenon DEF OutOf
  <2> QED
    BY <2>1, <2>2, Zenon
<1> QED
  BY <1>2, <1>5, <1>6, Zenon DEF OutInv, CUses

(* The writers' invariant survives every step.                             *)
LEMMA NextOut == ASSUME OutInv, [CNext]_cvars PROVE OutInv'
<1>1. CASE do_uart_irq
  BY <1>1, WakeOut, Zenon DEF do_uart_irq
<1>2. CASE HandlerPut \/ HandlerClean \/ HandlerWake \/ Sent \/ UNCHANGED cvars
  <2>1. UNCHANGED writers /\ codd \subseteq codd'
    BY <1>2, Zenon DEF HandlerPut, HandlerClean, HandlerWake, Sent, cvars, console_putc, clean_console
  <2> QED
    BY <2>1, StillOut, Zenon
<1>3. ASSUME NEW c \in CReader, ConRead(c) PROVE OutInv'
  <2>1. UNCHANGED writers /\ codd \subseteq codd'
    BY <1>3, Zenon DEF ConRead, console_read, ConTest, ConCopy, ConDone
  <2> QED
    BY <2>1, StillOut, Zenon
<1>4. ASSUME NEW t \in CWriter, SendSleep(t) \/ SendAgain(t) PROVE OutInv'
  <2>1. \A u \in CWriter \ {t} : wr[u].pc # "send"
    BY <1>4, ConsoleTasks, Zenon DEF SendSleep, SendAgain, OutInv, OutTypes, Nobody
  <2>2. CASE SendSleep(t)
    BY <2>1, <2>2, MoveOut, Zenon DEF SendSleep
  <2>3. CASE SendAgain(t)
    BY <2>1, <2>3, MoveOut, Zenon DEF SendAgain
  <2> QED
    BY <1>4, <2>2, <2>3, Zenon
<1> QED
  BY <1>1, <1>2, <1>3, <1>4, WriteOut, TurnOut, SendOut, DoneOut, Zenon DEF CNext, ConWrite

(* The bytes a task wrote reach the line in order, each once (OutputIntact *)
(* of Console), for any number of readers and writers.                     *)
THEOREM Output == CSpec => []OutputIntact
<1>1. OutInv => OutputIntact
  <2> SUFFICES ASSUME OutInv, NEW t \in CWriter, OutOf(t)
               PROVE  /\ out[t] = [n \in 1 .. Len(out[t]) |-> <<t, (n - 1) % (TX + 1)>>]
                      /\ wr[t].pc = "idle" => Len(out[t]) % (TX + 1) = 0
    BY Zenon DEF OutInv, OutputIntact
  <2>1. out[t] \in Seq(TxByte)
    BY Zenon DEF OutInv, OutTypes
  <2>2. \A n \in 1 .. Len(out[t]) : out[t][n] = <<t, (n - 1) % (TX + 1)>>
    BY Zenon DEF OutOf, Text
  <2>3. out[t] = [n \in 1 .. Len(out[t]) |-> <<t, (n - 1) % (TX + 1)>>]
    <3>1. out[t] = [n \in 1 .. Len(out[t]) |-> out[t][n]]
      BY ONLY <2>1, Listed, Zenon
    <3>2. [n \in 1 .. Len(out[t]) |-> out[t][n]] = [n \in 1 .. Len(out[t]) |-> <<t, (n - 1) % (TX + 1)>>]
      BY ONLY <2>2, Zenon
    <3> QED
      BY ONLY <3>1, <3>2, Zenon
  <2> QED
    BY <2>3, Zenon DEF OutOf, Text
<1> QED
  BY <1>1, InitOut, NextOut, PTL DEF CSpec


-----------------------------------------------------------------------------
(* The console's readers and its line.                                     *)

CPlace == {"idle", "get", "asleep", "copy", "done"}
Char == Key \cup {Nul, "BS", " ", "NL", "CTRL_D", "clean", "wakeup"}
Flag == BOOLEAN
Con == [r : 0 .. SIZE - 1, w : 0 .. SIZE - 1, buf : [0 .. SIZE - 1 -> Char], i : Int,
        tflag : Flag, lock : CReader \cup {Nobody}]
RCall == [pc : CPlace, reads : Int, len : Nat, got : Seq(Char)]

(* Types, and that a reader that copies holds con.lock.                    *)
ReadTypes ==
    /\ con \in Con /\ todo \in Seq(Char) /\ line \in Seq(Char)
    /\ rd \in [CReader -> RCall]
    /\ \A c \in CReader : rd[c].pc \in {"copy", "done"} => con.lock = c

(* The number of bytes in a ring of m places from a to b.                  *)
LEMMA Between ==
    ASSUME NEW m \in Nat \ {0}, NEW a \in 0 .. m - 1, NEW b \in 0 .. m - 1
    PROVE  (b - a + m) % m = IF a <= b THEN b - a ELSE b - a + m
<1>1. PICK x \in Int : x = b - a
  OBVIOUS
<1>2. (x + m) % m = x % m
  BY FullTurn, Zenon
<1>3. (b - a) % m = IF a <= b THEN b - a ELSE b - a + m
  BY Distance, Zenon
<1> QED
  BY <1>1, <1>2, <1>3, Zenon

(* A put adds one, unless the ring is full.                                *)
LEMMA PutLen ==
    ASSUME NEW m \in Nat \ {0}, NEW a \in 0 .. m - 1, NEW b \in 0 .. m - 1, (b + 1) % m # a
    PROVE  /\ (b + 1) % m \in 0 .. m - 1
           /\ (((b + 1) % m) - a + m) % m = ((b - a + m) % m) + 1
<1>1. (b + 1) % m = IF b + 1 < m THEN b + 1 ELSE b + 1 - m
  <2>1. 1 \in 0 .. m
    OBVIOUS
  <2> QED
    BY <2>1, Advance, Zenon
<1>2. PICK y \in 0 .. m - 1 : y = (b + 1) % m /\ y = IF b + 1 < m THEN b + 1 ELSE b + 1 - m
  BY <1>1
<1>3. (y - a + m) % m = IF a <= y THEN y - a ELSE y - a + m
  BY Between, Zenon
<1>4. (b - a + m) % m = IF a <= b THEN b - a ELSE b - a + m
  BY Between, Zenon
<1>5. (y - a + m) % m = ((b - a + m) % m) + 1
  BY ONLY <1>2, <1>3, <1>4, (b + 1) % m # a, m \in Nat \ {0}, a \in 0 .. m - 1, b \in 0 .. m - 1
<1> QED
  BY <1>2, <1>5, Zenon

(* An erase takes one, ...                                                 *)
LEMMA EraseLen ==
    ASSUME NEW m \in Nat \ {0}, NEW a \in 0 .. m - 1, NEW b \in 0 .. m - 1, a # b
    PROVE  /\ (b - 1 + m) % m = IF b = 0 THEN m - 1 ELSE b - 1
           /\ (((b - 1 + m) % m) - a + m) % m = ((b - a + m) % m) - 1
<1>1. (b - 1 + m) % m = IF b = 0 THEN m - 1 ELSE b - 1
  <2>1. CASE b = 0
    <3>1. m - 1 \in 0 .. m - 1 /\ b - 1 + m = m - 1
      BY <2>1
    <3> QED
      BY <2>1, <3>1, Small, Zenon
  <2>2. CASE b # 0
    <3>1. b - 1 \in 0 .. m - 1
      BY <2>2
    <3>2. PICK x \in Int : x = b - 1
      OBVIOUS
    <3> QED
      BY <2>2, <3>1, <3>2, Small, FullTurn, Zenon
  <2> QED
    BY <2>1, <2>2, Zenon
<1>2. PICK y \in 0 .. m - 1 : y = (b - 1 + m) % m /\ y = IF b = 0 THEN m - 1 ELSE b - 1
  BY <1>1
<1>3. (y - a + m) % m = IF a <= y THEN y - a ELSE y - a + m
  BY Between, Zenon
<1>4. (b - a + m) % m = IF a <= b THEN b - a ELSE b - a + m
  BY Between, Zenon
<1>5. (y - a + m) % m = ((b - a + m) % m) - 1
  BY <1>2, <1>3, <1>4
<1> QED
  BY <1>1, <1>2, <1>5, Zenon

(* ... and a read as many as it copies.                                    *)
LEMMA ReadLen ==
    ASSUME NEW m \in Nat \ {0}, NEW a \in 0 .. m - 1, NEW b \in 0 .. m - 1,
           NEW n \in 0 .. ((b - a + m) % m)
    PROVE  (b - ((a + n) % m) + m) % m = ((b - a + m) % m) - n
<1>1. (b - a + m) % m = IF a <= b THEN b - a ELSE b - a + m
  BY Between, Zenon
<1>2. n \in 0 .. m - 1
  BY <1>1
<1>3. (a + n) % m = IF a + n < m THEN a + n ELSE a + n - m
  <2>1. n \in 0 .. m
    BY <1>2
  <2> QED
    BY <2>1, Advance, Zenon
<1>4. PICK y \in 0 .. m - 1 : y = (a + n) % m /\ y = IF a + n < m THEN a + n ELSE a + n - m
  BY <1>2, <1>3
<1>5. (b - y + m) % m = IF y <= b THEN b - y ELSE b - y + m
  BY Between, Zenon
<1>6. (b - y + m) % m = ((b - a + m) % m) - n
  BY <1>1, <1>2, <1>4, <1>5
<1> QED
  BY <1>4, <1>6, Zenon


(* The console has a ring.                                                 *)
LEMMA ConSize == SIZE \in Nat \ {0} /\ TB \in Nat
  BY ConsoleSizes, Zenon DEF SIZE

(* The fields of the console and of a reader.                              *)
LEMMA ConFields ==
    ASSUME NEW y \in Con
    PROVE  /\ y.r \in 0 .. SIZE - 1 /\ y.w \in 0 .. SIZE - 1 /\ y.r \in Int /\ y.w \in Int
           /\ y.buf \in [0 .. SIZE - 1 -> Char] /\ y.i \in Int
  BY ConSize DEF Con

(* What the types say of the reader's variables.                           *)
LEMMA ReadFields ==
    ASSUME NEW x \in RCall
    PROVE  x.pc \in CPlace /\ x.reads \in Int /\ x.len \in Nat /\ x.got \in Seq(Char)
  BY Zenon DEF RCall

(* A console whose line is the same.                                       *)
Alike(x, y) == y.r = x.r /\ y.w = x.w /\ y.buf = x.buf /\ y.lock = x.lock

(* A console from which the last byte was erased.                          *)
Erased(x, y) == y.r = x.r /\ y.w = (x.w - 1 + SIZE) % SIZE /\ y.buf = x.buf /\ y.lock = x.lock

(* A console to which ch was added.                                        *)
Added(x, y, ch) ==
    /\ y.r = x.r /\ y.w = (x.w + 1) % SIZE /\ y.lock = x.lock
    /\ y.buf = [x.buf EXCEPT ![x.w] = ch]

(* What console_putc does to the console, apart from the escape sequences. *)
LEMMA PutShape ==
    ASSUME con \in Con, NEW ch \in Char, console_putc(ch)
    PROVE  /\ con.lock = Nobody /\ con' \in Con /\ codd \subseteq codd' /\ line' = Edited(ch)
           /\ \/ Alike(con, con') /\ (con.tflag \/ ch = "ESC")
              \/ Alike(con, con') /\ ~con.tflag /\ ch = "BS" /\ ~Erases
              \/ Alike(con, con') /\ ~con.tflag /\ ch \notin {"BS", "ESC"} /\ console_isfull
              \/ /\ Erased(con, con') /\ ~con.tflag /\ ch = "BS" /\ Erases
                 /\ Edge => "edge" \in codd'
              \/ Added(con, con', ch) /\ ~con.tflag /\ ch \notin {"BS", "ESC"} /\ ~console_isfull
<1>1. PICK x \in Con : x = con
  BY Zenon
<1>2. x.r \in 0 .. SIZE - 1 /\ x.w \in 0 .. SIZE - 1 /\ x.buf \in [0 .. SIZE - 1 -> Char] /\ x.i \in Int
  BY ConFields, Zenon
<1>3. con.lock = Nobody /\ line' = Edited(ch) /\ codd \subseteq codd'
  BY Zenon DEF console_putc
<1>4. CASE con.tflag
  <2>1. \/ UNCHANGED con
        \/ con' = try_transfer([con EXCEPT !.i = @ + 1], ch)
    BY <1>4, Zenon DEF console_putc
  <2>2. PICK y : y = [x EXCEPT !.i = @ + 1]
    BY Zenon
  <2>3. y \in Con /\ y.r = x.r /\ y.w = x.w /\ y.buf = x.buf /\ y.lock = x.lock
    BY <1>2, <2>2 DEF Con
  <2>a. PICK f \in Flag : f = FALSE
    BY Zenon DEF Flag
  <2>b. PICK k \in Int : k = 0
    OBVIOUS
  <2>4. PICK z : z = [y EXCEPT !.i = k, !.tflag = f]
    BY Zenon
  <2>5. z \in Con /\ z.r = x.r /\ z.w = x.w /\ z.buf = x.buf /\ z.lock = x.lock
    BY <2>3, <2>4, Zenon DEF Con
  <2>6. con' \in {x, y, z}
    BY <1>1, <2>1, <2>2, <2>a, <2>b, <2>4, Zenon DEF try_transfer, reset_tb
  <2>7. con' \in Con /\ Alike(con, con')
    BY <1>1, <2>3, <2>5, <2>6, Zenon DEF Alike
  <2> QED
    BY <1>3, <1>4, <2>7, Zenon
<1>5. CASE ~con.tflag /\ ch = "ESC"
  <2>a. PICK f \in Flag : f = TRUE
    BY Zenon DEF Flag
  <2>b. PICK k \in Int : k = con.i + 1
    BY <1>1, <1>2
  <2>1. con' = [con EXCEPT !.i = k, !.tflag = f]
    BY <1>5, <2>a, <2>b, Zenon DEF console_putc
  <2>2. con' \in Con /\ Alike(con, con')
    BY <1>1, <1>2, <2>1, Zenon DEF Con, Alike
  <2> QED
    BY <1>3, <1>5, <2>2, Zenon
<1>6. CASE ~con.tflag /\ ch = "BS"
  <2>1. /\ IF Erases THEN con' = [con EXCEPT !.w = (con.w - 1 + SIZE) % SIZE] ELSE UNCHANGED con
        /\ Erases /\ Edge => "edge" \in codd'
    BY <1>6, Zenon DEF console_putc, uart_put_syn
  <2>2. CASE Erases
    <3>1. PICK v \in 0 .. SIZE - 1 : v = (con.w - 1 + SIZE) % SIZE
      <4>1. PICK k \in Int : k = con.w - 1 + SIZE
        BY <1>1, <1>2, ConSize
      <4> QED
        BY <4>1, ConSize, Remainder, Zenon
    <3>2. con' = [x EXCEPT !.w = v]
      BY <1>1, <2>1, <2>2, <3>1, Zenon
    <3>3. con' \in Con /\ Erased(con, con')
      BY <1>1, <3>1, <3>2, Zenon DEF Con, Erased
    <3> QED
      BY <1>3, <1>6, <2>1, <2>2, <3>3, Zenon
  <2>3. CASE ~Erases
    BY <1>3, <1>6, <2>1, <2>3, Zenon DEF Alike
  <2> QED
    BY <2>2, <2>3, Zenon
<1>7. CASE ~con.tflag /\ ch \notin {"BS", "ESC"}
  <2>1. con' = IF console_isfull THEN con ELSE [con EXCEPT !.buf[con.w] = ch, !.w = (@ + 1) % SIZE]
    BY <1>7, Zenon DEF console_putc
  <2>2. CASE console_isfull
    BY <1>3, <1>7, <2>1, <2>2 DEF Alike
  <2>3. CASE ~console_isfull
    <3>1. PICK v \in 0 .. SIZE - 1 : v = (con.w + 1) % SIZE
      BY <1>1, <1>2, ConSize, Inside
    <3>2. PICK b : b = [x.buf EXCEPT ![x.w] = ch]
      BY Zenon
    <3>3. b \in [0 .. SIZE - 1 -> Char]
      BY <1>2, <3>2, Zenon
    <3>4. con' = [x EXCEPT !.buf = b, !.w = v]
      BY <1>1, <2>1, <2>3, <3>1, <3>2, Zenon DEF Con
    <3>5. con' \in Con /\ Added(con, con', ch)
      BY <1>1, <3>1, <3>2, <3>3, <3>4, Zenon DEF Con, Added
    <3> QED
      BY <1>3, <1>7, <2>3, <3>5, Zenon
  <2> QED
    BY <2>2, <2>3, Zenon
<1> QED
  BY <1>4, <1>5, <1>6, <1>7, Zenon


Ends == {"NL", "CTRL_D"}
Coming(s) == \E k \in DOMAIN s : s[k] = "wakeup"

(* Behind the end of a line the handler has a wakeup to do.                *)
Rouses(s) == \A k \in 1 .. Len(s) : s[k] \in Ends => \E j \in 1 .. Len(s) : j > k /\ s[j] = "wakeup"

(* do_console_irq wakes the readers at the end of a line.                  *)
LEMMA KeyTodo ==
    ASSUME NEW ch \in Key
    PROVE  do_console_irq(ch) \in Seq(Char) /\ Rouses(do_console_irq(ch))
<1>0. \A a, b, c \in Char : /\ <<a>> \in Seq(Char) /\ <<a, b>> \in Seq(Char) /\ <<a, b, c>> \in Seq(Char)
                          /\ Len(<<a>>) = 1 /\ Len(<<a, b>>) = 2 /\ Len(<<a, b, c>>) = 3
  OBVIOUS
<1>1. CASE ch = "BACKSPACE"
  <2>1. PICK s : s = <<"BS", " ", "BS">>
    BY Zenon
  <2>2. do_console_irq(ch) = s
    BY <1>1, <2>1, Zenon DEF do_console_irq
  <2>3. PICK a \in Char, b \in Char : a = "BS" /\ b = " "
    BY Zenon DEF Char
  <2>4. a \notin Ends /\ b \notin Ends
    BY <2>3, Zenon DEF Ends
  <2>5. s = <<a, b, a>>
    BY <2>1, <2>3, Zenon
  <2>6. \A k \in 1 .. 3 : s[k] \notin Ends
    BY ONLY <2>4, <2>5
  <2> QED
    <3>1. s \in Seq(Char) /\ Len(s) = 3
      BY <1>0, <2>5, Zenon
    <3> QED
      BY <2>2, <2>6, <3>1, Zenon DEF Rouses
<1>2. CASE ch \in Ends
  <2>1. PICK s : s = <<ch, "wakeup">>
    BY Zenon
  <2>2. do_console_irq(ch) = s
    BY <1>2, <2>1, Zenon DEF do_console_irq, Ends
  <2>3. s \in Seq(Char) /\ Len(s) = 2 /\ s[1] = ch /\ s[2] = "wakeup"
    BY <1>0, <2>1, Zenon DEF Char
  <2>4. "wakeup" \notin Ends
    BY Zenon DEF Ends
  <2>5. \A k \in 1 .. 2 : s[k] \in Ends => 2 > k
    BY <2>3, <2>4
  <2>6. 2 \in 1 .. 2
    OBVIOUS
  <2> QED
    BY <2>2, <2>3, <2>5, <2>6, Zenon DEF Rouses
<1>3. CASE ch \notin Ends /\ ch # "BACKSPACE"
  <2>1. PICK a \in Char : a \notin Ends /\ do_console_irq(ch) = <<a>>
    <3>1. CASE ch = "CTRL_N"
      BY <3>1, Zenon DEF do_console_irq, Ends, Char
    <3>2. CASE ch # "CTRL_N"
      BY <1>3, <3>2, Zenon DEF do_console_irq, Ends, Char
    <3> QED
      BY <3>1, <3>2, Zenon
  <2>2. PICK s : s = <<a>>
    BY Zenon
  <2>3. s \in Seq(Char) /\ Len(s) = 1 /\ s[1] = a
    BY <1>0, <2>2, Zenon
  <2>4. \A k \in 1 .. 1 : s[k] \notin Ends
    BY <2>1, <2>3
  <2> QED
    BY <2>1, <2>2, <2>3, <2>4, Zenon DEF Rouses
<1> QED
  BY <1>1, <1>2, <1>3, Zenon

(* The handler does the first of what it has to do.                        *)
LEMMA TailTodo ==
    ASSUME NEW s \in Seq(Char), s # <<>>, Rouses(s)
    PROVE  /\ Head(s) \in Char /\ Tail(s) \in Seq(Char) /\ Rouses(Tail(s))
           /\ Head(s) \in Ends => Coming(Tail(s))
           /\ Head(s) # "wakeup" /\ Coming(s) => Coming(Tail(s))
<1>1. /\ Head(s) \in Char /\ Head(s) = s[1] /\ Tail(s) \in Seq(Char) /\ Len(s) \in Nat /\ Len(s) > 0
      /\ Len(Tail(s)) = Len(s) - 1
  OBVIOUS
<1>a. \A k \in 1 .. Len(s) - 1 : Tail(s)[k] = s[k + 1]
  OBVIOUS
<1>2. PICK u \in Seq(Char) : u = Tail(s)
  BY <1>1, Zenon
<1>3. PICK n \in Nat : n = Len(s) - 1
  <2>1. PICK k \in Nat : k = Len(s) /\ k > 0
    BY <1>1, Zenon
  <2>2. k - 1 \in Nat
    BY ONLY <2>1
  <2> QED
    BY <2>1, <2>2, Zenon
<1>4. Len(s) = n + 1 /\ Len(u) = n /\ DOMAIN u = 1 .. n /\ DOMAIN s = 1 .. n + 1
  <2>1. Len(s) = n + 1 /\ Len(u) = n
    BY ONLY <1>1, <1>2, <1>3
  <2>2. DOMAIN u = 1 .. Len(u) /\ DOMAIN s = 1 .. Len(s)
    OBVIOUS
  <2> QED
    BY <2>1, <2>2, Zenon
<1>5. \A k \in 1 .. n : u[k] = s[k + 1]
  BY <1>a, <1>2, <1>3, Zenon
<1>6. \A j \in 1 .. n + 1 : j > 1 => \E i \in 1 .. n : i = j - 1 /\ s[j] = u[i]
  <2> SUFFICES ASSUME NEW j \in 1 .. n + 1, j > 1
               PROVE  \E i \in 1 .. n : i = j - 1 /\ s[j] = u[i]
    BY Zenon
  <2>1. PICK i \in 1 .. n : i = j - 1
    OBVIOUS
  <2>2. i + 1 = j
    BY <2>1
  <2> QED
    BY <1>5, <2>1, <2>2, Zenon
<1>7. Rouses(u)
  <2> SUFFICES ASSUME NEW k \in 1 .. n, u[k] \in Ends
               PROVE  \E i \in 1 .. n : i > k /\ u[i] = "wakeup"
    BY <1>4, Zenon DEF Rouses
  <2>1. k + 1 \in 1 .. n + 1 /\ s[k + 1] \in Ends
    BY <1>5
  <2>2. PICK j \in 1 .. n + 1 : j > k + 1 /\ s[j] = "wakeup"
    BY <1>4, <2>1, Zenon DEF Rouses
  <2>3. PICK i \in 1 .. n : i = j - 1 /\ s[j] = u[i]
    BY <1>6, <2>2
  <2> QED
    BY <2>2, <2>3
<1>8. ASSUME Head(s) \in Ends PROVE Coming(u)
  <2>1. 1 \in 1 .. n + 1 /\ s[1] \in Ends
    BY <1>1, <1>8
  <2>2. PICK j \in 1 .. n + 1 : j > 1 /\ s[j] = "wakeup"
    BY <1>4, <2>1, Zenon DEF Rouses
  <2> QED
    BY <1>4, <1>6, <2>2, Zenon DEF Coming
<1>9. ASSUME Head(s) # "wakeup", Coming(s) PROVE Coming(u)
  <2>1. PICK j \in 1 .. n + 1 : s[j] = "wakeup"
    BY <1>4, <1>9, Zenon DEF Coming
  <2>2. j > 1
    BY <1>1, <1>9, <2>1
  <2> QED
    BY <1>4, <1>6, <2>1, <2>2, Zenon DEF Coming
<1> QED
  BY <1>1, <1>2, <1>7, <1>8, <1>9, Zenon


(* The bytes of a console's line: how many, and the n-th of them.          *)
RLen(x) == (x.w - x.r + SIZE) % SIZE
Open(x) == \A n \in 0 .. RLen(x) - 1 : x.buf[(x.r + n) % SIZE] \notin Ends

(* An empty line has no bytes, a full one all but one of the ring's.       *)
LEMMA LineLen ==
    ASSUME NEW x \in Con
    PROVE  /\ RLen(x) \in 0 .. SIZE - 1
           /\ RLen(x) = 0 <=> x.w = x.r
           /\ RLen(x) = SIZE - 1 <=> (x.w + 1) % SIZE = x.r
<1>1. PICK m \in Nat \ {0} : m = SIZE
  BY ConSize, Zenon
<1>2. PICK a \in 0 .. m - 1, b \in 0 .. m - 1 : a = x.r /\ b = x.w
  BY <1>1, ConFields, Zenon
<1>3. (b - a + m) % m = IF a <= b THEN b - a ELSE b - a + m
  BY Between, Zenon
<1>4. (b + 1) % m = IF b + 1 < m THEN b + 1 ELSE b + 1 - m
  <2>1. 1 \in 0 .. m
    OBVIOUS
  <2> QED
    BY <2>1, Advance, Zenon
<1>5. /\ (b - a + m) % m \in 0 .. m - 1
      /\ (b - a + m) % m = 0 <=> b = a
      /\ (b - a + m) % m = m - 1 <=> (b + 1) % m = a
  BY <1>3, <1>4
<1> QED
  BY ONLY <1>1, <1>2, <1>5, Zenon DEF RLen

(* An added byte is the last of the line, and leaves the others alone.     *)
LEMMA AddedLine ==
    ASSUME NEW x \in Con, NEW y \in Con, NEW ch \in Char, Added(x, y, ch), (x.w + 1) % SIZE # x.r
    PROVE  /\ RLen(y) = RLen(x) + 1
           /\ y.buf[(y.r + RLen(x)) % SIZE] = ch
           /\ \A n \in 0 .. RLen(x) - 1 : y.buf[(y.r + n) % SIZE] = x.buf[(x.r + n) % SIZE]
<1>1. PICK m \in Nat \ {0} : m = SIZE
  BY ConSize, Zenon
<1>2. PICK a \in 0 .. m - 1, b \in 0 .. m - 1 : a = x.r /\ b = x.w
  BY <1>1, ConFields, Zenon
<1>3. PICK f \in [0 .. m - 1 -> Char] : f = x.buf
  BY <1>1, ConFields, Zenon
<1>4. y.r = a /\ y.w = (b + 1) % m /\ y.buf = [f EXCEPT ![b] = ch] /\ (b + 1) % m # a
  BY <1>1, <1>2, <1>3, Zenon DEF Added
<1>5. (((b + 1) % m) - a + m) % m = ((b - a + m) % m) + 1
  BY <1>4, PutLen, Zenon
<1>6. PICK d \in 0 .. m - 1 : d = RLen(x) /\ d = (b - a) % m /\ d = (b - a + m) % m
  <2>1. PICK k \in Int : k = b - a
    OBVIOUS
  <2>2. (k + m) % m = k % m
    BY FullTurn, Zenon
  <2>3. RLen(x) \in 0 .. m - 1 /\ RLen(x) = (k + m) % m
    BY <1>1, <1>2, <2>1, LineLen, Zenon DEF RLen
  <2> QED
    BY <2>1, <2>2, <2>3, Zenon
<1>7. a \in Int /\ b \in Int /\ m % m = 0 /\ b % m = b /\ d < m
  BY Whole, Small
<1>8. (a + d) % m = b
  BY <1>6, Reach, Zenon
<1>9. \A n \in 0 .. d - 1 : (a + n) % m # b /\ (a + n) % m \in 0 .. m - 1
  <2> SUFFICES ASSUME NEW n \in 0 .. d - 1
               PROVE  (a + n) % m # b /\ (a + n) % m \in 0 .. m - 1
    BY Zenon
  <2>1. n \in 0 .. m - 1 /\ n # d /\ n \in Int
    BY <1>6
  <2>2. (a + n) % m # (a + d) % m
    BY <1>7, <2>1, Places, Zenon
  <2>3. (a + n) % m \in 0 .. m - 1
    BY <1>7, <2>1, Inside, Zenon
  <2> QED
    BY <1>8, <2>2, <2>3, Zenon
<1>10. RLen(y) = RLen(x) + 1
  BY <1>1, <1>4, <1>5, <1>6, Zenon DEF RLen
<1>11. y.buf[(y.r + RLen(x)) % SIZE] = ch
  BY <1>1, <1>3, <1>4, <1>6, <1>8, Zenon
<1>12. \A n \in 0 .. d - 1 : y.buf[(a + n) % m] = f[(a + n) % m]
  <2> SUFFICES ASSUME NEW n \in 0 .. d - 1 PROVE y.buf[(a + n) % m] = f[(a + n) % m]
    BY Zenon
  <2>1. PICK k \in 0 .. m - 1 : k = (a + n) % m /\ k # b
    BY <1>9, Zenon
  <2> QED
    BY <1>4, <2>1, Zenon
<1> QED
  BY <1>1, <1>2, <1>3, <1>4, <1>6, <1>10, <1>11, <1>12, Zenon

(* An erase takes the last byte.                                           *)
LEMMA ErasedLine ==
    ASSUME NEW x \in Con, NEW y \in Con, Erased(x, y), x.w # x.r
    PROVE  /\ RLen(y) = RLen(x) - 1 /\ y.r = x.r /\ y.buf = x.buf
           /\ (x.r + RLen(y)) % SIZE = IF x.w = 0 THEN SIZE - 1 ELSE x.w - 1
<1>1. PICK m \in Nat \ {0} : m = SIZE
  BY ConSize, Zenon
<1>2. PICK a \in 0 .. m - 1, b \in 0 .. m - 1 : a = x.r /\ b = x.w
  BY <1>1, ConFields, Zenon
<1>a. a # b
  BY <1>2, Zenon
<1>3. PICK e \in 0 .. m - 1 : e = (b - 1 + m) % m /\ e = IF b = 0 THEN m - 1 ELSE b - 1
  BY <1>a, EraseLen
<1>4. y.r = a /\ y.w = e /\ y.buf = x.buf
  BY <1>1, <1>2, <1>3, Zenon DEF Erased
<1>5. (e - a + m) % m = ((b - a + m) % m) - 1
  <2>1. (((b - 1 + m) % m) - a + m) % m = ((b - a + m) % m) - 1
    BY <1>a, EraseLen, Zenon
  <2> QED
    BY <1>3, <2>1, Zenon
<1>6. (a + ((e - a + m) % m)) % m = e
  BY Reach, Zenon
<1> QED
  BY <1>1, <1>2, <1>3, <1>4, <1>5, <1>6, Zenon DEF RLen

(* A read takes bytes from the front.                                      *)
LEMMA ReadLine ==
    ASSUME NEW x \in Con, NEW y \in Con, NEW len \in 0 .. RLen(x),
           y.r = (x.r + len) % SIZE, y.w = x.w
    PROVE  /\ RLen(y) = RLen(x) - len
           /\ \A n \in Nat : (y.r + n) % SIZE = (x.r + (len + n)) % SIZE
<1>1. PICK m \in Nat \ {0} : m = SIZE
  BY ConSize, Zenon
<1>2. PICK a \in 0 .. m - 1, b \in 0 .. m - 1 : a = x.r /\ b = x.w
  BY <1>1, ConFields, Zenon
<1>3. RLen(x) = (b - a + m) % m
  BY <1>1, <1>2, Zenon DEF RLen
<1>4. len \in 0 .. ((b - a + m) % m)
  BY <1>3, Zenon
<1>5. (b - ((a + len) % m) + m) % m = ((b - a + m) % m) - len
  BY <1>4, ReadLen, Zenon
<1>6. \A n \in Nat : (((a + len) % m) + n) % m = (a + (len + n)) % m
  <2> SUFFICES ASSUME NEW n \in Nat PROVE (((a + len) % m) + n) % m = (a + (len + n)) % m
    BY Zenon
  <2>1. len \in Int /\ n \in Int
    BY <1>4
  <2>2. PICK k \in Int : k = a + len
    BY <2>1
  <2>3. ((k % m) + n) % m = (k + n) % m
    BY <2>1, Wrap, Zenon
  <2>4. k + n = a + (len + n)
    BY <2>1, <2>2
  <2> QED
    BY <2>2, <2>3, <2>4, Zenon
<1> QED
  BY <1>1, <1>2, <1>3, <1>5, <1>6, Zenon DEF RLen


(* A reader asleep has no whole line before it, or a wakeup on its way. A  *)
(* reader about to move r has copied no more than there is, unless the     *)
(* ring was cleaned under it: then there is nothing but zeroes in it.      *)
WakeInv ==
    /\ ReadTypes
    /\ Rouses(todo)
    /\ \A c \in CReader : rd[c].pc = "asleep" => Coming(todo) \/ Open(con)
    /\ \A c \in CReader : rd[c].pc = "done" =>
          rd[c].len <= RLen(con) \/ \A n \in 0 .. SIZE - 1 : con.buf[n] = Nul

(* The line is in the ring, a reader that copies has something to copy,    *)
(* and what it has copied is the front of the line.                        *)
LineHeld ==
    /\ Len(line) = RLen(con)
    /\ \A n \in 1 .. RLen(con) : line[n] = con.buf[(con.r + n - 1) % SIZE]
    /\ \A c \in CReader : rd[c].pc = "copy" => RLen(con) > 0
    /\ \A c \in CReader : rd[c].pc = "done" =>
          /\ rd[c].len \in 1 .. RLen(con) /\ Len(rd[c].got) = rd[c].len
          /\ \A n \in 1 .. rd[c].len : rd[c].got[n] = line[n]

LineInv ==
    /\ \A c \in CReader : rd[c].pc \in {"get", "asleep", "copy"} => rd[c].len > 0
    /\ CUses({"edge", "race", "wild"}) \/ LineHeld


(* An empty console, with nobody asleep.                                   *)
LEMMA InitRead == ASSUME CInit PROVE WakeInv /\ LineInv
<1>1. PICK s \in Session : rd = [c \in CReader |-> CIdle(s.reads)]
  BY Zenon DEF CInit
<1>2. s.reads \in Int
  BY SessionAssumption
<1>3. \A c \in CReader : rd[c] \in RCall /\ rd[c].pc = "idle"
  <2> TAKE c \in CReader
  <2>1. PICK p \in CPlace, n \in Int, l \in Nat, g \in Seq(Char) :
          p = "idle" /\ n = s.reads /\ l = 0 /\ g = <<>>
    <3>1. <<>> \in Seq(Char) /\ 0 \in Nat /\ "idle" \in CPlace
      BY DEF CPlace
    <3> QED
      BY <1>2, <3>1, Zenon
  <2>2. rd[c] = [pc |-> p, reads |-> n, len |-> l, got |-> g]
    BY <1>1, <2>1, Zenon DEF CIdle
  <2>3. rd[c] \in RCall /\ rd[c].pc = p
    BY ONLY <2>2 DEF RCall
  <2> QED
    BY <2>1, <2>3, Zenon
<1>4. con \in Con /\ con.r = 0 /\ con.w = 0
  <2>1. PICK z \in 0 .. SIZE - 1, b \in [0 .. SIZE - 1 -> Char], f \in Flag, k \in Int, n \in CReader \cup {Nobody} :
          z = 0 /\ b = [j \in 0 .. SIZE - 1 |-> Nul] /\ f = FALSE /\ k = 0 /\ n = Nobody
    <3>1. FALSE \in Flag /\ Nul \in Char
      BY Zenon DEF Flag, Char
    <3>2. 0 \in 0 .. SIZE - 1 /\ 0 \in Int
      BY ConSize
    <3> QED
      BY <3>1, <3>2, Zenon
  <2>2. con = [r |-> z, w |-> z, buf |-> b, i |-> k, tflag |-> f, lock |-> n]
    BY <2>1, Zenon DEF CInit
  <2>3. con \in Con /\ con.r = z /\ con.w = z
    BY ONLY <2>2, Zenon DEF Con
  <2> QED
    BY <2>1, <2>3, Zenon
<1>5. todo = <<>> /\ line = <<>> /\ <<>> \in Seq(Char) /\ Len(<<>>) = 0
  BY DEF CInit
<1>6. RLen(con) = 0
  BY <1>4, LineLen, Zenon
<1>7. 1 .. 0 = {} /\ 0 .. -1 = {}
  OBVIOUS
<1>8. ReadTypes
  BY <1>1, <1>3, <1>4, <1>5, Zenon DEF ReadTypes
<1>9. Rouses(todo)
  BY <1>5, <1>7, Zenon DEF Rouses
<1>10. WakeInv
  BY <1>3, <1>8, <1>9, Zenon DEF WakeInv
<1>11. LineInv
  BY <1>3, <1>5, <1>6, <1>7 DEF LineInv, LineHeld
<1> QED
  BY <1>10, <1>11, Zenon

(* A step that leaves the readers and the line alone.                      *)
LEMMA StillRead ==
    ASSUME WakeInv, LineInv, UNCHANGED <<con, rd, todo, line>>, codd \subseteq codd'
    PROVE  WakeInv' /\ LineInv'
<1>1. WakeInv'
  BY Zenon DEF WakeInv, ReadTypes, RLen, Open
<1>2. CUses({"edge", "race", "wild"}) => CUses({"edge", "race", "wild"})'
  BY Zenon DEF CUses
<1>3. LineHeld => LineHeld'
  BY Zenon DEF LineHeld, RLen
<1> QED
  BY <1>1, <1>2, <1>3, Zenon DEF LineInv

(* A key arrives.                                                          *)
LEMMA KeyRead ==
    ASSUME WakeInv, LineInv, do_uart_irq
    PROVE  WakeInv' /\ LineInv'
<1>1. UNCHANGED <<con, rd, line, codd>>
  BY Zenon DEF do_uart_irq
<1>2. CASE UNCHANGED todo
  BY <1>1, <1>2, StillRead, Zenon
<1>3. ASSUME NEW ch \in Key, todo = <<>>, todo' = do_console_irq(ch)
      PROVE  WakeInv' /\ LineInv'
  <2>1. todo' \in Seq(Char) /\ Rouses(todo')
    BY <1>3, KeyTodo, Zenon
  <2>2. ~Coming(todo)
    BY <1>3 DEF Coming
  <2>3. WakeInv'
    BY <1>1, <2>1, <2>2, Zenon DEF WakeInv, ReadTypes, RLen, Open
  <2>4. LineInv'
    BY <1>1, Zenon DEF LineInv, LineHeld, RLen, CUses
  <2> QED
    BY <2>3, <2>4, Zenon
<1> QED
  BY <1>2, <1>3, Zenon DEF do_uart_irq

(* The handler wakes the readers that sleep.                               *)
LEMMA WakeRead ==
    ASSUME WakeInv, LineInv, HandlerWake
    PROVE  WakeInv' /\ LineInv'
<1>1. /\ UNCHANGED <<con, line, codd>> /\ todo # <<>> /\ todo' = Tail(todo)
      /\ rd' = [c \in CReader |-> IF rd[c].pc = "asleep" THEN [rd[c] EXCEPT !.pc = "get"] ELSE rd[c]]
  BY Zenon DEF HandlerWake
<1>2. todo' \in Seq(Char) /\ Rouses(todo')
  BY <1>1, TailTodo DEF WakeInv, ReadTypes
<1>3. \A c \in CReader : /\ rd'[c] \in RCall /\ rd'[c].len = rd[c].len /\ rd'[c].got = rd[c].got
                         /\ rd'[c].pc = IF rd[c].pc = "asleep" THEN "get" ELSE rd[c].pc
  <2> SUFFICES ASSUME NEW c \in CReader
               PROVE  /\ rd'[c] \in RCall /\ rd'[c].len = rd[c].len /\ rd'[c].got = rd[c].got
                      /\ rd'[c].pc = IF rd[c].pc = "asleep" THEN "get" ELSE rd[c].pc
    BY Zenon
  <2>1. PICK x \in RCall : x = rd[c]
    BY Zenon DEF WakeInv, ReadTypes
  <2>2. CASE x.pc = "asleep"
    <3>1. PICK p \in CPlace : p = "get"
      BY Zenon DEF CPlace
    <3>2. rd'[c] = [x EXCEPT !.pc = p]
      BY <1>1, <2>1, <2>2, <3>1, Zenon
    <3>3. rd'[c] \in RCall /\ rd'[c].len = x.len /\ rd'[c].got = x.got /\ rd'[c].pc = p
      BY ONLY <3>2, Zenon DEF RCall
    <3> QED
      BY <2>1, <2>2, <3>1, <3>3, Zenon
  <2>3. CASE x.pc # "asleep"
    BY <1>1, <2>1, <2>3, Zenon
  <2> QED
    BY <2>2, <2>3, Zenon
<1>4. rd' \in [CReader -> RCall]
  BY <1>1, <1>3, Zenon
<1>5. ReadTypes'
  BY <1>1, <1>2, <1>3, <1>4 DEF WakeInv, ReadTypes
<1>6. WakeInv'
  BY <1>1, <1>2, <1>3, <1>5 DEF WakeInv, RLen
<1>7. LineHeld => LineHeld'
  BY <1>1, <1>3 DEF LineHeld, RLen
<1>8. LineInv'
  BY <1>1, <1>3, <1>7, Zenon DEF LineInv, CUses
<1> QED
  BY <1>6, <1>8, Zenon


(* A reader calls console_read.                                            *)
LEMMA CallRead ==
    ASSUME WakeInv, LineInv, NEW c \in CReader, NEW len \in Ask, console_read(c, len)
    PROVE  WakeInv' /\ LineInv'
<1>1. /\ UNCHANGED <<con, todo, line, codd>>
      /\ rd' = [rd EXCEPT ![c] = [pc |-> "get", reads |-> rd[c].reads - 1, len |-> len, got |-> <<>>]]
  BY Zenon DEF console_read
<1>2. PICK y \in RCall : rd' = [rd EXCEPT ![c] = y] /\ y.pc = "get" /\ y.len = len
  <2>1. PICK p \in CPlace, n \in Int, l \in Nat, g \in Seq(Char) :
          p = "get" /\ n = rd[c].reads - 1 /\ l = len /\ g = <<>>
    <3>1. <<>> \in Seq(Char) /\ len \in Nat /\ "get" \in CPlace
      BY AskAssumption DEF CPlace
    <3>2. rd[c] \in RCall
      BY Zenon DEF WakeInv, ReadTypes
    <3>3. rd[c].reads - 1 \in Int
      BY <3>2, ReadFields
    <3> QED
      BY <3>1, <3>3, Zenon
  <2>2. PICK y : y = [pc |-> p, reads |-> n, len |-> l, got |-> g]
    BY Zenon
  <2>3. y \in RCall /\ y.pc = p /\ y.len = l
    BY ONLY <2>2, Zenon DEF RCall
  <2> QED
    BY <1>1, <2>1, <2>2, <2>3, Zenon
<1>3. len > 0
  BY AskAssumption
<1>4. rd' \in [CReader -> RCall] /\ rd'[c] = y /\ \A d \in CReader \ {c} : rd'[d] = rd[d]
  BY <1>2, Zenon DEF WakeInv, ReadTypes
<1>5. \A d \in CReader : rd'[d].pc \in {"copy", "done", "asleep"} => rd'[d] = rd[d]
  BY <1>2, <1>4, Zenon
<1>6. ReadTypes'
  BY <1>1, <1>4, <1>5, Zenon DEF WakeInv, ReadTypes
<1>7. WakeInv'
  BY <1>1, <1>5, <1>6, Zenon DEF WakeInv, RLen, Open
<1>8. LineHeld => LineHeld'
  <2> SUFFICES ASSUME LineHeld PROVE LineHeld'
    BY Zenon
  <2>1. con' = con /\ line' = line /\ RLen(con)' = RLen(con)
    BY <1>1, Zenon DEF RLen
  <2>2. \A d \in CReader : rd'[d].pc = "copy" => RLen(con') > 0
    BY <1>5, <2>1, Zenon DEF LineHeld
  <2>3. \A d \in CReader : rd'[d].pc = "done" => rd'[d] = rd[d]
    BY <1>5, Zenon
  <2> QED
    <3>1. \A d \in CReader : rd'[d].pc = "done" =>
             /\ rd'[d].len \in 1 .. RLen(con) /\ Len(rd'[d].got) = rd'[d].len
             /\ \A n \in 1 .. rd'[d].len : rd'[d].got[n] = line[n]
      <4> SUFFICES ASSUME NEW d \in CReader, rd'[d].pc = "done"
                   PROVE  /\ rd'[d].len \in 1 .. RLen(con) /\ Len(rd'[d].got) = rd'[d].len
                          /\ \A n \in 1 .. rd'[d].len : rd'[d].got[n] = line[n]
        BY Zenon
      <4>1. rd'[d] = rd[d] /\ rd[d].pc = "done"
        BY <2>3, Zenon
      <4>2. /\ rd[d].len \in 1 .. RLen(con) /\ Len(rd[d].got) = rd[d].len
            /\ \A n \in 1 .. rd[d].len : rd[d].got[n] = line[n]
        BY <4>1, Zenon DEF LineHeld
      <4> QED
        BY <4>1, <4>2, Zenon
    <3> QED
      BY <2>1, <2>2, <3>1, Zenon DEF LineHeld
<1>9. LineInv'
  BY <1>1, <1>2, <1>3, <1>4, <1>8, Zenon DEF LineInv, CUses
<1> QED
  BY <1>7, <1>9, Zenon

(* While nobody holds con.lock nobody copies.                              *)
LEMMA NoCopier ==
    ASSUME ReadTypes, con.lock = Nobody, NEW d \in CReader
    PROVE  rd[d].pc \notin {"copy", "done"}
  BY ConsoleTasks, Zenon DEF ReadTypes, Nobody

(* The holder of con.lock is the only one that copies.                     *)
LEMMA OneCopier ==
    ASSUME ReadTypes, NEW c \in CReader, rd[c].pc \in {"copy", "done"},
           NEW d \in CReader, rd[d].pc \in {"copy", "done"}
    PROVE  d = c
  BY Zenon DEF ReadTypes

(* A reader finds the line empty, and sleeps, or has something to copy.    *)
LEMMA TestRead ==
    ASSUME WakeInv, LineInv, NEW c \in CReader, ConTest(c)
    PROVE  WakeInv' /\ LineInv'
<1>1. /\ rd[c].pc = "get" /\ con.lock = Nobody /\ UNCHANGED <<todo, line, codd>>
      /\ IF console_isempty THEN rd' = [rd EXCEPT ![c].pc = "asleep"] /\ UNCHANGED con
         ELSE rd' = [rd EXCEPT ![c].pc = "copy"] /\ con' = [con EXCEPT !.lock = c]
  BY Zenon DEF ConTest
<1>2. PICK p \in CPlace : p = IF console_isempty THEN "asleep" ELSE "copy"
  BY Zenon DEF CPlace
<1>3. PICK x \in RCall : x = rd[c]
  BY Zenon DEF WakeInv, ReadTypes
<1>4. PICK y \in RCall : rd' = [rd EXCEPT ![c] = y] /\ y.pc = p /\ y.len = x.len
  <2>1. PICK y : y = [x EXCEPT !.pc = p]
    BY Zenon
  <2>2. y \in RCall /\ y.pc = p /\ y.len = x.len
    BY ONLY <2>1, Zenon DEF RCall
  <2>3. rd' = [rd EXCEPT ![c] = y]
    BY <1>1, <1>2, <1>3, <2>1, Zenon
  <2> QED
    BY <2>2, <2>3, Zenon
<1>5. con' \in Con /\ con'.r = con.r /\ con'.w = con.w /\ con'.buf = con.buf
  <2>1. PICK v \in Con : v = con
    BY Zenon DEF WakeInv, ReadTypes
  <2>2. PICK k \in CReader \cup {Nobody} : k = c
    BY Zenon
  <2>3. con' = v \/ con' = [v EXCEPT !.lock = k]
    BY <1>1, <2>1, <2>2, Zenon
  <2>4. con' \in Con /\ con'.r = v.r /\ con'.w = v.w /\ con'.buf = v.buf
    BY ONLY <2>3, Zenon DEF Con
  <2> QED
    BY <2>1, <2>4, Zenon
<1>6. RLen(con') = RLen(con) /\ (Open(con') <=> Open(con))
  BY <1>5, Zenon DEF RLen, Open
<1>7. p = "copy" => con'.lock = c
  <2>1. ASSUME ~console_isempty PROVE con'.lock = c
    BY <1>1, <2>1, Zenon DEF WakeInv, ReadTypes, Con
  <2> QED
    BY <1>2, <2>1, Zenon
<1>8. rd' \in [CReader -> RCall] /\ rd'[c] = y /\ \A d \in CReader \ {c} : rd'[d] = rd[d]
  BY <1>4, Zenon DEF WakeInv, ReadTypes
<1>9. \A d \in CReader : rd[d].pc \notin {"copy", "done"}
  BY <1>1, NoCopier, Zenon DEF WakeInv
<1>10. /\ \A d \in CReader : rd'[d].pc # "done"
       /\ \A d \in CReader : rd'[d].pc = "copy" => d = c /\ p = "copy"
       /\ \A d \in CReader : rd'[d].pc = "asleep" => rd[d].pc = "asleep" \/ console_isempty
  BY <1>2, <1>4, <1>8, <1>9, Zenon
<1>11. ReadTypes'
  BY <1>1, <1>5, <1>7, <1>8, <1>10, Zenon DEF WakeInv, ReadTypes
<1>12. con.w = con.r <=> RLen(con) = 0
  BY LineLen, Zenon DEF WakeInv, ReadTypes
<1>13. console_isempty => Open(con')
  BY ONLY <1>6, <1>12 DEF console_isempty, Open
<1>14. WakeInv'
  BY <1>1, <1>6, <1>10, <1>11, <1>13, Zenon DEF WakeInv
<1>15. p = "copy" => RLen(con') > 0
  <2>1. RLen(con) \in 0 .. SIZE - 1
    BY LineLen, Zenon DEF WakeInv, ReadTypes
  <2> QED
    BY <1>2, <1>6, <1>12, <2>1 DEF console_isempty
<1>16. LineHeld => LineHeld'
  BY <1>1, <1>5, <1>6, <1>10, <1>15, Zenon DEF LineHeld
<1>17. LineInv'
  BY <1>1, <1>3, <1>4, <1>8, <1>16 DEF LineInv, CUses
<1> QED
  BY <1>14, <1>17, Zenon


(* A reader copies the front of the line.                                  *)
LEMMA CopyRead ==
    ASSUME WakeInv, LineInv, NEW c \in CReader, ConCopy(c)
    PROVE  WakeInv' /\ LineInv'
<1>1. PICK x \in RCall, v \in Con : x = rd[c] /\ v = con
  BY Zenon DEF WakeInv, ReadTypes
<1>2. PICK m \in Nat \ {0} : m = SIZE
  BY ConSize, Zenon
<1>3. /\ v.r \in 0 .. m - 1 /\ v.r \in Int /\ v.buf \in [0 .. m - 1 -> Char]
      /\ RLen(v) \in 0 .. m - 1 /\ x.len \in Nat
  BY <1>2, ConFields, ReadFields, LineLen
<1>4. PICK len \in Nat : /\ len = IF x.len < console_readable_len THEN x.len ELSE console_readable_len
                         /\ len <= RLen(v) /\ (x.len > 0 /\ RLen(v) > 0 => len > 0)
  <2>1. console_readable_len = RLen(v)
    BY <1>1, Zenon DEF console_readable_len, RLen
  <2> QED
    BY <1>3, <2>1
<1>5. PICK over \in BOOLEAN : over = (~(con.r < con.w) /\ len < SIZE - con.r)
  BY Zenon
<1>6. PICK k \in Nat : k = IF over THEN m - v.r ELSE len
  <2>1. m - v.r \in Nat
    BY <1>3
  <2> QED
    BY <2>1, Zenon
<1>7. PICK g : g = [n \in 1 .. k |-> v.buf[(v.r + n - 1) % m]]
  BY Zenon
<1>8. /\ x.pc = "copy" /\ UNCHANGED <<con, todo, line>>
      /\ rd' = [rd EXCEPT ![c].pc = "done", ![c].len = len, ![c].got = g]
      /\ codd' = IF over THEN codd \cup {"wild"} ELSE codd
  BY <1>1, <1>2, <1>4, <1>5, <1>6, <1>7, Zenon DEF ConCopy
<1>9. g \in Seq(Char) /\ Len(g) = k
  <2>1. \A n \in 1 .. k : v.buf[(v.r + n - 1) % m] \in Char
    <3> TAKE n \in 1 .. k
    <3>1. PICK j \in Int : j = v.r + n - 1
      BY <1>3
    <3>2. j % m \in 0 .. m - 1
      BY Remainder, Zenon
    <3> QED
      BY <1>3, <3>1, <3>2, Zenon
  <2> QED
    BY ONLY <1>7, <2>1
<1>10. PICK y \in RCall : rd' = [rd EXCEPT ![c] = y] /\ y.pc = "done" /\ y.len = len /\ y.got = g
  <2>1. PICK p \in CPlace, h \in Seq(Char) : p = "done" /\ h = g
    BY <1>9, Zenon DEF CPlace
  <2>2. PICK y : y = [x EXCEPT !.pc = p, !.len = len, !.got = h]
    BY Zenon
  <2>3. y \in RCall /\ y.pc = p /\ y.len = len /\ y.got = h
    BY ONLY <2>2, Zenon DEF RCall
  <2>4. rd' = [rd EXCEPT ![c] = y]
    BY <1>1, <1>8, <2>1, <2>2, Zenon
  <2> QED
    BY <2>1, <2>3, <2>4, Zenon
<1>11. rd' \in [CReader -> RCall] /\ rd'[c] = y /\ \A d \in CReader \ {c} : rd'[d] = rd[d]
  BY <1>10, Zenon DEF WakeInv, ReadTypes
<1>12. \A d \in CReader \ {c} : rd[d].pc \notin {"copy", "done"}
  BY <1>1, <1>8, OneCopier, Zenon DEF WakeInv
<1>13. ReadTypes'
  BY <1>1, <1>8, <1>10, <1>11 DEF WakeInv, ReadTypes
<1>14. WakeInv'
  <2>1. ASSUME NEW d \in CReader, rd'[d].pc = "asleep" PROVE Coming(todo') \/ Open(con')
    BY <1>1, <1>4, <1>8, <1>10, <1>11, <1>12, <2>1, Zenon DEF WakeInv, RLen, Open
  <2>2. ASSUME NEW d \in CReader, rd'[d].pc = "done"
        PROVE  rd'[d].len <= RLen(con') \/ \A n \in 0 .. SIZE - 1 : con'.buf[n] = Nul
    BY <1>1, <1>4, <1>8, <1>10, <1>11, <1>12, <2>2 DEF WakeInv, RLen
  <2>3. Rouses(todo')
    BY <1>8, Zenon DEF WakeInv
  <2> QED
    BY <1>13, <2>1, <2>2, <2>3, Zenon DEF WakeInv
<1>15. ASSUME LineHeld, ~over PROVE LineHeld'
  <2>1. k = len /\ len \in 1 .. RLen(v)
    <3>1. x.len > 0 /\ RLen(v) > 0
      BY <1>1, <1>8, <1>15, Zenon DEF LineInv, LineHeld
    <3> QED
      BY <1>3, <1>4, <1>6, <1>15, <3>1
  <2>2. \A n \in 1 .. len : g[n] = line[n]
    <3>1. \A n \in 1 .. len : n \in 1 .. RLen(v)
      BY <1>3, <2>1
    <3>2. \A n \in 1 .. RLen(v) : line[n] = v.buf[(v.r + n - 1) % m]
      BY <1>1, <1>2, <1>15, Zenon DEF LineHeld
    <3> QED
      BY <1>7, <2>1, <3>1, <3>2, Zenon
  <2>3. y.len \in 1 .. RLen(con') /\ Len(y.got) = y.len /\ \A n \in 1 .. y.len : y.got[n] = line'[n]
    BY <1>1, <1>8, <1>9, <1>10, <2>1, <2>2, Zenon
  <2>4. \A d \in CReader : rd'[d].pc \in {"copy", "done"} => d = c /\ rd'[d].pc = "done"
    BY <1>10, <1>11, <1>12, Zenon
  <2> QED
    <3>1. Len(line') = RLen(con') /\ \A n \in 1 .. RLen(con') : line'[n] = con'.buf[(con'.r + n - 1) % SIZE]
      BY <1>8, <1>15, Zenon DEF LineHeld
    <3> QED
      BY <1>11, <2>3, <2>4, <3>1, Zenon DEF LineHeld
<1>16. over => CUses({"edge", "race", "wild"})'
  BY <1>8, Zenon DEF CUses
<1>17. codd \subseteq codd'
  BY <1>8, Zenon
<1>18. \A d \in CReader : rd'[d].pc \in {"get", "asleep", "copy"} => rd'[d].len > 0
  BY <1>10, <1>11, Zenon DEF LineInv
<1>19. LineInv'
  BY <1>15, <1>16, <1>17, <1>18, Zenon DEF LineInv, CUses
<1> QED
  BY <1>14, <1>19, Zenon


(* A reader moves r over what it has copied.                               *)
LEMMA DoneRead ==
    ASSUME WakeInv, LineInv, NEW c \in CReader, ConDone(c)
    PROVE  WakeInv' /\ LineInv'
<1>1. PICK x \in RCall, v \in Con : x = rd[c] /\ v = con
  BY Zenon DEF WakeInv, ReadTypes
<1>2. PICK len \in Nat : len = x.len
  BY ReadFields, Zenon
<1>3. /\ x.pc = "done" /\ UNCHANGED <<todo, codd>>
      /\ con' = [con EXCEPT !.r = (con.r + len) % SIZE, !.lock = Nobody]
      /\ line' = IF len <= Len(line) THEN SubSeq(line, len + 1, Len(line)) ELSE <<>>
      /\ rd' = [rd EXCEPT ![c] = CIdle(x.reads)]
  BY <1>1, <1>2, Zenon DEF ConDone
<1>4. PICK w \in Con : /\ w = con' /\ w.r = (v.r + len) % SIZE /\ w.w = v.w /\ w.buf = v.buf
                       /\ w.lock = Nobody
  <2>1. PICK a \in 0 .. SIZE - 1 : a = (v.r + len) % SIZE
    <3>1. v.r \in Int /\ len \in Int
      BY ConFields
    <3> QED
      BY <3>1, ConSize, Inside, Zenon
  <2>2. PICK n \in CReader \cup {Nobody} : n = Nobody
    BY Zenon
  <2>3. con' = [v EXCEPT !.r = a, !.lock = n]
    BY <1>1, <1>3, <2>1, <2>2, Zenon
  <2>4. con' \in Con /\ con'.r = a /\ con'.w = v.w /\ con'.buf = v.buf /\ con'.lock = n
    BY ONLY <2>3, Zenon DEF Con
  <2> QED
    BY <2>1, <2>2, <2>4, Zenon
<1>5. PICK y \in RCall : rd' = [rd EXCEPT ![c] = y] /\ y.pc = "idle"
  <2>1. PICK p \in CPlace, n \in Int, l \in Nat, g \in Seq(Char) :
          p = "idle" /\ n = x.reads /\ l = 0 /\ g = <<>>
    <3>1. <<>> \in Seq(Char) /\ 0 \in Nat /\ "idle" \in CPlace
      BY DEF CPlace
    <3> QED
      BY <3>1, ReadFields, Zenon
  <2>2. PICK y : y = [pc |-> p, reads |-> n, len |-> l, got |-> g]
    BY Zenon
  <2>3. y \in RCall /\ y.pc = p
    BY ONLY <2>2, Zenon DEF RCall
  <2> QED
    BY <1>3, <2>1, <2>2, <2>3, Zenon DEF CIdle
<1>6. rd' \in [CReader -> RCall] /\ rd'[c] = y /\ \A d \in CReader \ {c} : rd'[d] = rd[d]
  BY <1>5, Zenon DEF WakeInv, ReadTypes
<1>7. \A d \in CReader \ {c} : rd[d].pc \notin {"copy", "done"}
  BY <1>1, <1>3, OneCopier, Zenon DEF WakeInv
<1>8. /\ \A d \in CReader : rd'[d].pc \notin {"copy", "done"}
      /\ \A d \in CReader : rd'[d].pc \in {"get", "asleep"} => rd'[d] = rd[d]
  BY <1>5, <1>6, <1>7
<1>9. line' \in Seq(Char)
  <2>1. line \in Seq(Char) /\ Len(line) \in Nat
    BY DEF WakeInv, ReadTypes
  <2>2. len + 1 \in 1 .. Len(line) + 1 => SubSeq(line, len + 1, Len(line)) \in Seq(Char)
    BY <2>1
  <2>3. <<>> \in Seq(Char)
    OBVIOUS
  <2>4. len <= Len(line) => len + 1 \in 1 .. Len(line) + 1
    BY <2>1
  <2> QED
    BY <1>3, <2>2, <2>3, <2>4, Zenon
<1>10. ReadTypes'
  BY <1>3, <1>4, <1>6, <1>8, <1>9 DEF WakeInv, ReadTypes
<1>11. RLen(v) \in 0 .. SIZE - 1 /\ RLen(w) \in 0 .. SIZE - 1
  BY LineLen, Zenon
<1>12. ASSUME len <= RLen(v)
       PROVE  /\ RLen(w) = RLen(v) - len
              /\ \A n \in Nat : (w.r + n) % SIZE = (v.r + (len + n)) % SIZE
  <2>1. len \in 0 .. RLen(v)
    BY <1>11, <1>12, ConSize
  <2> QED
    BY <1>4, <2>1, ReadLine, Zenon
<1>13. Open(v) => Open(w)
  <2> SUFFICES ASSUME Open(v), NEW n \in 0 .. RLen(w) - 1
               PROVE  w.buf[(w.r + n) % SIZE] \notin Ends
    BY Zenon DEF Open
  <2>1. CASE len <= RLen(v)
    <3>1. n \in Nat /\ len + n \in 0 .. RLen(v) - 1
      BY <1>11, <1>12, <2>1, ConSize
    <3>2. (w.r + n) % SIZE = (v.r + (len + n)) % SIZE
      BY <1>12, <2>1, <3>1, Zenon
    <3> QED
      BY <1>4, <3>1, <3>2, Zenon DEF Open
  <2>2. CASE ~(len <= RLen(v))
    <3>1. \A k \in 0 .. SIZE - 1 : v.buf[k] = Nul
      BY <1>1, <1>2, <1>3, <2>2, Zenon DEF WakeInv
    <3>2. n \in Int /\ w.r \in Int
      BY <1>11, ConSize, ConFields
    <3>3. (w.r + n) % SIZE \in 0 .. SIZE - 1
      BY <3>2, ConSize, Inside, Zenon
    <3>4. Nul \notin Ends
      BY Zenon DEF Nul, Ends
    <3> QED
      BY <1>4, <3>1, <3>3, <3>4, Zenon
  <2> QED
    BY <2>1, <2>2, Zenon
<1>14. WakeInv'
  BY <1>1, <1>3, <1>4, <1>8, <1>10, <1>13, Zenon DEF WakeInv
<1>15. ASSUME LineHeld PROVE LineHeld'
  <2>1. PICK l \in Nat : l = Len(line) /\ l = RLen(v) /\ len <= l /\ line \in Seq(Char)
    BY <1>1, <1>2, <1>3, <1>11, <1>15, ConSize DEF LineHeld, WakeInv, ReadTypes
  <2>2. PICK u \in Seq(Char) : u = line' /\ u = SubSeq(line, len + 1, l)
    BY <1>3, <1>9, <2>1, Zenon
  <2>3. Len(u) = l - len /\ \A n \in 1 .. l - len : u[n] = line[len + n]
    <3>1. PICK s \in Seq(Char) : s = line
      BY <2>1, Zenon
    <3>2. Len(s) = l
      BY <2>1, <3>1, Zenon
    <3>3. Len(SubSeq(s, len + 1, l)) = l - len
      BY ONLY <2>1, <3>2
    <3>4. \A n \in 1 .. l - len : SubSeq(s, len + 1, l)[n] = s[len + n]
      BY ONLY <2>1, <3>2
    <3> QED
      BY <2>2, <3>1, <3>3, <3>4, Zenon
  <2>4. RLen(w) = l - len
    BY <1>12, <2>1, Zenon
  <2>5. \A n \in 1 .. l - len : u[n] = w.buf[(w.r + n - 1) % SIZE]
    <3> TAKE n \in 1 .. l - len
    <3>1. PICK j \in Nat : j = n - 1
      BY <2>1
    <3>2. /\ len + n \in 1 .. l /\ v.r + (len + n) - 1 = v.r + (len + j)
          /\ w.r + n - 1 = w.r + j
      BY <2>1, <3>1, ConFields
    <3>3. line[len + n] = v.buf[(v.r + (len + n) - 1) % SIZE]
      BY <1>1, <1>15, <2>1, <3>2, Zenon DEF LineHeld
    <3>4. (w.r + j) % SIZE = (v.r + (len + j)) % SIZE
      BY <1>12, <2>1, Zenon
    <3> QED
      BY <1>4, <2>3, <3>2, <3>3, <3>4, Zenon
  <2> QED
    BY <1>4, <1>8, <2>2, <2>3, <2>4, <2>5, Zenon DEF LineHeld
<1>16. LineInv'
  BY <1>3, <1>8, <1>15, Zenon DEF LineInv, CUses
<1> QED
  BY <1>14, <1>16, Zenon


(* The handler cleans the console, whoever holds con.lock.                 *)
LEMMA CleanRead ==
    ASSUME WakeInv, LineInv, HandlerClean
    PROVE  WakeInv' /\ LineInv'
<1>1. /\ todo # <<>> /\ todo' = Tail(todo) /\ UNCHANGED rd /\ line' = <<>>
      /\ con' = [reset_tb(con) EXCEPT !.r = 0, !.w = 0, !.buf = [n \in DOMAIN @ |-> Nul]]
      /\ codd' = IF con.lock = Nobody THEN codd ELSE codd \cup {"race"}
  BY Zenon DEF HandlerClean, clean_console
<1>2. PICK v \in Con : v = con
  BY Zenon DEF WakeInv, ReadTypes
<1>3. PICK w \in Con : /\ w = con' /\ w.r = w.w /\ w.lock = v.lock
                       /\ \A n \in 0 .. SIZE - 1 : w.buf[n] = Nul
  <2>1. PICK z \in 0 .. SIZE - 1, b \in [0 .. SIZE - 1 -> Char], f \in Flag, k \in Int :
          z = 0 /\ b = [j \in 0 .. SIZE - 1 |-> Nul] /\ f = FALSE /\ k = 0
    <3>1. FALSE \in Flag /\ Nul \in Char
      BY Zenon DEF Flag, Char
    <3>2. 0 \in 0 .. SIZE - 1 /\ 0 \in Int
      BY ConSize
    <3> QED
      BY <3>1, <3>2, Zenon
  <2>2. PICK u : u = [v EXCEPT !.i = k, !.tflag = f]
    BY Zenon
  <2>3. u \in Con /\ u.lock = v.lock
    BY ONLY <2>2, Zenon DEF Con
  <2>4. DOMAIN u.buf = 0 .. SIZE - 1
    BY <2>3, ConFields, Zenon
  <2>5. con' = [u EXCEPT !.r = z, !.w = z, !.buf = b]
    <3>1. con' = [u EXCEPT !.r = 0, !.w = 0, !.buf = [n \in DOMAIN @ |-> Nul]]
      BY <1>1, <1>2, <2>1, <2>2, Zenon DEF reset_tb
    <3>2. [u EXCEPT !.r = 0, !.w = 0, !.buf = [n \in DOMAIN @ |-> Nul]]
            = [u EXCEPT !.r = 0, !.w = 0, !.buf = [n \in DOMAIN u.buf |-> Nul]]
      BY <2>3, Zenon DEF Con
    <3> QED
      BY <2>1, <2>4, <3>1, <3>2, Zenon
  <2>6. con' \in Con /\ con'.r = z /\ con'.w = z /\ con'.buf = b /\ con'.lock = u.lock
    BY ONLY <2>3, <2>5, Zenon DEF Con
  <2> QED
    BY <2>1, <2>3, <2>6, Zenon
<1>4. todo' \in Seq(Char) /\ Rouses(todo')
  BY <1>1, TailTodo, Zenon DEF WakeInv, ReadTypes
<1>5. line' \in Seq(Char) /\ Len(line') = 0 /\ RLen(w) = 0
  <2>1. <<>> \in Seq(Char) /\ Len(<<>>) = 0
    OBVIOUS
  <2>2. RLen(w) = 0
    BY ONLY <1>3, LineLen, Zenon
  <2> QED
    BY <1>1, <2>1, <2>2, Zenon
<1>6. ReadTypes'
  BY <1>1, <1>2, <1>3, <1>4, <1>5, Zenon DEF WakeInv, ReadTypes
<1>7. 1 .. 0 = {} /\ 0 .. 0 - 1 = {}
  OBVIOUS
<1>8. Open(w)
  BY <1>5, <1>7, Zenon DEF Open
<1>9. WakeInv'
  BY <1>1, <1>3, <1>4, <1>6, <1>8, Zenon DEF WakeInv
<1>10. CASE con.lock = Nobody
  <2>1. \A d \in CReader : rd'[d].pc \notin {"copy", "done"}
    BY <1>1, <1>10, NoCopier, Zenon DEF WakeInv
  <2>2. LineHeld'
    BY <1>3, <1>5, <1>7, <2>1, Zenon DEF LineHeld
  <2> QED
    BY <1>1, <1>9, <2>2 DEF LineInv
<1>11. CASE con.lock # Nobody
  <2>1. CUses({"edge", "race", "wild"})'
    BY <1>1, <1>11 DEF CUses
  <2> QED
    BY <1>1, <1>9, <2>1, Zenon DEF LineInv
<1> QED
  BY <1>10, <1>11, Zenon

(* The last byte of the line is the one before w.                          *)
LEMMA LastByte ==
    ASSUME WakeInv, LineHeld, con.w # con.r
    PROVE  /\ Len(line) \in Nat /\ Len(line) > 0 /\ line # <<>>
           /\ line[Len(line)] = con.buf[IF con.w = 0 THEN SIZE - 1 ELSE con.w - 1]
<1>1. PICK v \in Con : v = con
  BY Zenon DEF WakeInv, ReadTypes
<1>2. PICK l \in Nat : l = Len(line) /\ l = RLen(v) /\ l > 0
  BY <1>1, LineLen, ConSize DEF LineHeld
<1>3. PICK w : w = [v EXCEPT !.w = (v.w - 1 + SIZE) % SIZE]
  BY Zenon
<1>4. w \in Con /\ Erased(v, w)
  <2>1. PICK a \in 0 .. SIZE - 1 : a = (v.w - 1 + SIZE) % SIZE
    <3>1. PICK j \in Int : j = v.w - 1 + SIZE
      BY ConFields, ConSize
    <3> QED
      BY <3>1, ConSize, Remainder, Zenon
  <2>2. w = [v EXCEPT !.w = a]
    BY <1>3, <2>1, Zenon
  <2>3. w \in Con /\ w.r = v.r /\ w.w = a /\ w.buf = v.buf /\ w.lock = v.lock
    BY ONLY <2>2, Zenon DEF Con
  <2> QED
    BY <2>1, <2>3, Zenon DEF Erased
<1>5. RLen(w) = l - 1 /\ (v.r + RLen(w)) % SIZE = IF v.w = 0 THEN SIZE - 1 ELSE v.w - 1
  BY <1>1, <1>2, <1>4, ErasedLine, Zenon
<1>6. v.r + l - 1 = v.r + (l - 1) /\ l \in 1 .. l
  BY <1>2, ConFields
<1>7. line[l] = v.buf[(v.r + l - 1) % SIZE]
  BY <1>1, <1>2, <1>6, Zenon DEF LineHeld
<1>8. line # <<>>
  <2>1. l # 0
    BY ONLY <1>2
  <2>2. Len(<<>>) = 0
    BY Zenon
  <2> QED
    BY <1>2, <2>1, <2>2, Zenon
<1> QED
  BY <1>1, <1>2, <1>5, <1>6, <1>7, <1>8, Zenon


(* The handler adds a byte, erases one or leaves the line alone.           *)
LEMMA PutRead ==
    ASSUME WakeInv, LineInv, HandlerPut
    PROVE  WakeInv' /\ LineInv'
<1> DEFINE ch == Head(todo)
<1>1. /\ todo # <<>> /\ ch # "wakeup" /\ console_putc(ch) /\ todo' = Tail(todo) /\ UNCHANGED rd
  BY Zenon DEF HandlerPut
<1>2. /\ ch \in Char /\ todo' \in Seq(Char) /\ Rouses(todo')
      /\ (ch \in Ends => Coming(todo')) /\ (Coming(todo) => Coming(todo'))
  BY <1>1, TailTodo, Zenon DEF WakeInv, ReadTypes
<1> HIDE DEF ch
<1>3. PICK v \in Con, l \in Nat : v = con /\ l = Len(line) /\ line \in Seq(Char)
  BY DEF WakeInv, ReadTypes
<1>4. /\ con.lock = Nobody /\ con' \in Con /\ codd \subseteq codd' /\ line' = Edited(ch)
      /\ \/ Alike(con, con') /\ (con.tflag \/ ch = "ESC")
         \/ Alike(con, con') /\ ~con.tflag /\ ch = "BS" /\ ~Erases
         \/ Alike(con, con') /\ ~con.tflag /\ ch \notin {"BS", "ESC"} /\ console_isfull
         \/ /\ Erased(con, con') /\ ~con.tflag /\ ch = "BS" /\ Erases
            /\ Edge => "edge" \in codd'
         \/ Added(con, con', ch) /\ ~con.tflag /\ ch \notin {"BS", "ESC"} /\ ~console_isfull
  BY <1>1, <1>2, <1>3, PutShape, Zenon
<1>5. PICK w \in Con : w = con'
  BY <1>4, Zenon
<1>6. \A d \in CReader : rd'[d].pc \notin {"copy", "done"}
  BY <1>1, <1>4, NoCopier, Zenon DEF WakeInv
<1>7. RLen(v) \in 0 .. SIZE - 1 /\ (RLen(v) = SIZE - 1 <=> console_isfull)
  BY <1>3, LineLen, Zenon DEF console_isfull
<1>8. line' \in Seq(Char)
  <2>1. Append(line, ch) \in Seq(Char)
    BY <1>2, <1>3
  <2>2. line # <<>> => SubSeq(line, 1, Len(line) - 1) \in Seq(Char)
    BY <1>3
  <2> QED
    BY <1>3, <1>4, <2>1, <2>2, Zenon DEF Edited
<1>9. ReadTypes'
  BY <1>1, <1>2, <1>5, <1>6, <1>8, Zenon DEF WakeInv, ReadTypes
<1>10. ASSUME Open(w) \/ Coming(todo') \/ ~Open(v) PROVE WakeInv'
  BY <1>1, <1>2, <1>3, <1>5, <1>6, <1>9, <1>10, Zenon DEF WakeInv
<1>11. ASSUME LineHeld => \/ CUses({"edge", "race", "wild"})'
                          \/ /\ Len(line') = RLen(w)
                             /\ \A n \in 1 .. RLen(w) : line'[n] = w.buf[(w.r + n - 1) % SIZE]
       PROVE  LineInv'
  <2>1. CUses({"edge", "race", "wild"}) => CUses({"edge", "race", "wild"})'
    BY <1>4, Zenon DEF CUses
  <2>2. LineHeld => CUses({"edge", "race", "wild"})' \/ LineHeld'
    BY <1>5, <1>6, <1>11, Zenon DEF LineHeld
  <2> QED
    BY <1>1, <2>1, <2>2, Zenon DEF LineInv
<1>12. CASE Alike(con, con')
  <2>1. RLen(w) = RLen(v) /\ w.r = v.r /\ w.buf = v.buf
    BY <1>3, <1>5, <1>12, Zenon DEF Alike, RLen
  <2>2. Open(v) => Open(w)
    BY <2>1, Zenon DEF Open
  <2>3. LineHeld => line' = line
    <3>1. CASE con.tflag \/ ch = "ESC"
      BY <1>4, <3>1, Zenon DEF Edited
    <3>2. CASE ~con.tflag /\ ch = "BS" /\ ~Erases
      <4> SUFFICES ASSUME LineHeld, line # <<>>, line[Len(line)] # "NL" PROVE FALSE
        BY <1>4, <3>2, Zenon DEF Edited
      <4>1. CASE con.w = con.r
        <5>1. Len(line) = 0 /\ line \in Seq(Char)
          BY <1>3, <4>1, LineLen, Zenon DEF LineHeld
        <5> QED
          BY <5>1
      <4>2. CASE con.w # con.r
        <5>1. con.w # 0 /\ con.buf[con.w - 1] = "NL"
          BY <3>2, <4>2, Zenon DEF Erases
        <5> QED
          BY <4>2, <5>1, LastByte, Zenon
      <4> QED
        BY <4>1, <4>2
    <3>3. CASE ~con.tflag /\ ch \notin {"BS", "ESC"} /\ console_isfull
      BY <1>3, <1>4, <1>7, <3>3, Zenon DEF Edited, LineHeld
    <3>4. ~Erased(con, con') \/ ~Erases
      <4> SUFFICES ASSUME Erased(con, con'), Erases PROVE FALSE
        BY Zenon
      <4>1. RLen(w) = RLen(v) - 1
        BY <1>3, <1>5, ErasedLine, Zenon DEF Erases
      <4> QED
        BY <1>7, <2>1, <4>1, ConSize
    <3>5. ~Added(con, con', ch) \/ console_isfull
      <4> SUFFICES ASSUME Added(con, con', ch), ~console_isfull PROVE FALSE
        BY Zenon
      <4>1. RLen(w) = RLen(v) + 1
        BY <1>2, <1>3, <1>5, AddedLine, Zenon DEF console_isfull
      <4> QED
        BY <1>7, <2>1, <4>1, ConSize
    <3> QED
      BY <1>4, <3>1, <3>2, <3>3, <3>4, <3>5, Zenon
  <2>4. LineHeld => /\ Len(line') = RLen(w)
                    /\ \A n \in 1 .. RLen(w) : line'[n] = w.buf[(w.r + n - 1) % SIZE]
    BY <1>3, <2>1, <2>3, Zenon DEF LineHeld
  <2> QED
    BY <1>10, <1>11, <2>2, <2>4, Zenon
<1>13. CASE Erased(con, con') /\ ~con.tflag /\ ch = "BS" /\ Erases /\ (Edge => "edge" \in codd')
  <2>1. /\ RLen(w) = RLen(v) - 1 /\ w.r = v.r /\ w.buf = v.buf
        /\ v.w # v.r
    BY <1>3, <1>5, <1>13, ErasedLine DEF Erases
  <2>2. \A n \in 0 .. RLen(w) - 1 : n \in 0 .. RLen(v) - 1
    BY <1>7, <2>1, ConSize
  <2>3. Open(v) => Open(w)
    BY <2>1, <2>2, Zenon DEF Open
  <2>4. ASSUME LineHeld, "edge" \notin codd'
        PROVE  /\ Len(line') = RLen(w)
               /\ \A n \in 1 .. RLen(w) : line'[n] = w.buf[(w.r + n - 1) % SIZE]
    <3>1. l > 0 /\ line # <<>> /\ line[l] = v.buf[IF v.w = 0 THEN SIZE - 1 ELSE v.w - 1]
      BY <1>3, <2>1, <2>4, LastByte, Zenon
    <3>2. line[l] # "NL"
      BY <1>3, <1>13, <2>4, <3>1, Zenon DEF Erases, Edge
    <3>3. line' = SubSeq(line, 1, l - 1)
      BY <1>3, <1>4, <1>13, <3>1, <3>2, Zenon DEF Edited
    <3>4. PICK s \in Seq(Char) : s = line /\ Len(s) = l
      BY <1>3, Zenon
    <3>5. Len(SubSeq(s, 1, l - 1)) = l - 1 /\ \A n \in 1 .. l - 1 : SubSeq(s, 1, l - 1)[n] = s[n]
      BY ONLY <3>1, <3>4
    <3>6. RLen(w) = l - 1 /\ \A n \in 1 .. l - 1 : n \in 1 .. RLen(v)
      <4>1. l = RLen(v)
        BY <1>3, <2>4, Zenon DEF LineHeld
      <4> QED
        BY ONLY <1>7, <2>1, <4>1, ConSize
    <3>7. \A n \in 1 .. RLen(v) : line[n] = v.buf[(v.r + n - 1) % SIZE]
      BY <1>3, <2>4, Zenon DEF LineHeld
    <3> QED
      <4>1. Len(line') = l - 1 /\ \A n \in 1 .. l - 1 : line'[n] = line[n]
        BY <3>3, <3>4, <3>5, Zenon
      <4> QED
        BY <2>1, <3>6, <3>7, <4>1, Zenon
  <2>5. "edge" \in codd' => CUses({"edge", "race", "wild"})'
    BY Zenon DEF CUses
  <2> QED
    BY <1>10, <1>11, <2>3, <2>4, <2>5, Zenon
<1>14. CASE Added(con, con', ch) /\ ~con.tflag /\ ch \notin {"BS", "ESC"} /\ ~console_isfull
  <2>1. /\ RLen(w) = RLen(v) + 1
        /\ w.buf[(w.r + RLen(v)) % SIZE] = ch
        /\ \A n \in 0 .. RLen(v) - 1 : w.buf[(w.r + n) % SIZE] = v.buf[(v.r + n) % SIZE]
    <3>1. Added(v, w, ch) /\ (v.w + 1) % SIZE # v.r
      BY <1>3, <1>5, <1>14, Zenon DEF console_isfull
    <3> QED
      BY ONLY <1>2, <3>1, AddedLine, Zenon
  <2>2. \A n \in 0 .. RLen(w) - 1 : n \in 0 .. RLen(v) - 1 \/ n = RLen(v)
    BY <1>7, <2>1, ConSize
  <2>3. Open(v) => Open(w) \/ Coming(todo')
    BY <1>2, <2>1, <2>2, Zenon DEF Open
  <2>4. ASSUME LineHeld
        PROVE  /\ Len(line') = RLen(w)
               /\ \A n \in 1 .. RLen(w) : line'[n] = w.buf[(w.r + n - 1) % SIZE]
    <3>1. l = RLen(v) /\ l # SIZE - 1
      BY <1>3, <1>7, <1>14, <2>4, Zenon DEF LineHeld
    <3>2. line' = Append(line, ch)
      BY <1>3, <1>4, <1>14, <3>1, Zenon DEF Edited
    <3>3. PICK s \in Seq(Char) : s = line /\ Len(s) = l
      BY <1>3, Zenon
    <3>4. /\ Len(Append(s, ch)) = l + 1 /\ Append(s, ch)[l + 1] = ch
          /\ \A n \in 1 .. l : Append(s, ch)[n] = s[n]
      BY ONLY <1>2, <3>3
    <3>5. \A n \in 1 .. l + 1 : line'[n] = w.buf[(w.r + n - 1) % SIZE]
      <4> TAKE n \in 1 .. l + 1
      <4>1. PICK j \in 0 .. l : j = n - 1
        OBVIOUS
      <4>2. w.r + n - 1 = w.r + j /\ v.r + n - 1 = v.r + j
        BY <4>1, ConFields, Zenon
      <4>3. CASE n = l + 1
        <5>1. j = l
          BY <4>1, <4>3
        <5> QED
          <6>1. line'[n] = ch
            BY <3>2, <3>3, <3>4, <4>3, Zenon
          <6>2. w.buf[(w.r + j) % SIZE] = ch
            BY <2>1, <3>1, <5>1, Zenon
          <6> QED
            BY <4>2, <6>1, <6>2, Zenon
      <4>4. CASE n \in 1 .. l
        <5>1. j \in 0 .. l - 1
          BY <4>1, <4>4
        <5>2. line[n] = v.buf[(v.r + n - 1) % SIZE]
          BY <1>3, <2>4, <3>1, <4>4, Zenon DEF LineHeld
        <5> QED
          <6>1. line'[n] = line[n]
            BY <3>2, <3>3, <3>4, <4>4, Zenon
          <6>2. w.buf[(w.r + j) % SIZE] = v.buf[(v.r + j) % SIZE]
            BY <2>1, <3>1, <5>1, Zenon
          <6> QED
            BY <4>2, <5>2, <6>1, <6>2, Zenon
      <4>5. n = l + 1 \/ n \in 1 .. l
        OBVIOUS
      <4> QED
        BY <4>3, <4>4, <4>5, Zenon
    <3> QED
      BY <2>1, <3>1, <3>2, <3>3, <3>4, <3>5, Zenon
  <2> QED
    BY <1>10, <1>11, <2>3, <2>4, Zenon
<1> QED
  BY <1>4, <1>12, <1>13, <1>14, Zenon

(* The readers' invariant survives every step.                             *)
LEMMA NextRead ==
    ASSUME WakeInv, LineInv, [CNext]_cvars
    PROVE  WakeInv' /\ LineInv'
<1>1. CASE Sent \/ UNCHANGED cvars
  <2>1. UNCHANGED <<con, rd, todo, line>> /\ codd \subseteq codd'
    BY <1>1, Zenon DEF Sent, cvars, readers
  <2> QED
    BY <2>1, StillRead, Zenon
<1>2. ASSUME NEW t \in CWriter, ConWrite(t) PROVE WakeInv' /\ LineInv'
  <2>1. UNCHANGED readers /\ codd \subseteq codd'
    BY <1>2, Zenon DEF ConWrite, console_write, Turn, Send, SendSleep, SendAgain, SendDone
  <2> QED
    BY <2>1, StillRead, Zenon DEF readers
<1>3. ASSUME NEW c \in CReader, ConRead(c) PROVE WakeInv' /\ LineInv'
  BY <1>3, CallRead, TestRead, CopyRead, DoneRead, Zenon DEF ConRead
<1> QED
  BY <1>1, <1>2, <1>3, KeyRead, PutRead, CleanRead, WakeRead, Zenon DEF CNext

(* The invariant of the readers and the line holds in every state.         *)
LEMMA ReadInvariance == CSpec => [](WakeInv /\ LineInv)
  BY InitRead, NextRead, PTL DEF CSpec

(* No reader of the console sleeps on a whole line (ReadersWoken of        *)
(* Console), for any number of readers and any size of the buffer.         *)
THEOREM LineWakes == CSpec => []ReadersWoken
<1>1. WakeInv => ReadersWoken
  BY Zenon DEF WakeInv, ReadersWoken, Coming, Open, Ends, RLen, console_readable_len
<1> QED
  BY <1>1, ReadInvariance, PTL

(* The ring of the console holds the line as it was edited and a read      *)
(* copies the front of it (LineKept of Console), for any number of readers *)
(* and any size of the buffer.                                             *)
THEOREM LineIntact == CSpec => []LineKept
<1>1. ASSUME WakeInv, LineInv PROVE LineKept
  <2> SUFFICES ASSUME LineHeld
               PROVE  /\ line = [n \in 1 .. console_readable_len |-> con.buf[(con.r + n - 1) % SIZE]]
                      /\ \A c \in CReader : rd[c].pc = "done" =>
                            /\ Len(rd[c].got) \in 1 .. Len(line)
                            /\ rd[c].got = SubSeq(line, 1, Len(rd[c].got))
    BY <1>1, Zenon DEF LineInv, LineKept
  <2>1. PICK l \in Nat : l = Len(line) /\ l = console_readable_len /\ l = RLen(con) /\ line \in Seq(Char)
    <3>1. console_readable_len = RLen(con) /\ Len(line) = RLen(con) /\ line \in Seq(Char)
      BY <1>1, Zenon DEF WakeInv, ReadTypes, LineHeld, RLen, console_readable_len
    <3> QED
      BY ONLY <3>1
  <2>2. line = [n \in 1 .. l |-> line[n]]
    BY <2>1, Listed, Zenon
  <2>3. line = [n \in 1 .. l |-> con.buf[(con.r + n - 1) % SIZE]]
    BY <2>1, <2>2, Zenon DEF LineHeld
  <2>4. ASSUME NEW c \in CReader, rd[c].pc = "done"
        PROVE  Len(rd[c].got) \in 1 .. l /\ rd[c].got = SubSeq(line, 1, Len(rd[c].got))
    <3>1. PICK g \in Seq(Char), s \in Seq(Char), k \in Nat :
            g = rd[c].got /\ s = line /\ k = rd[c].len
      BY <1>1, <2>1, ReadFields, Zenon DEF WakeInv, ReadTypes
    <3>2. k \in 1 .. l /\ Len(g) = k /\ \A n \in 1 .. k : g[n] = s[n]
      BY <2>1, <2>4, <3>1, Zenon DEF LineHeld
    <3>3. Len(s) = l
      BY <2>1, <3>1, Zenon
    <3>4. SubSeq(s, 1, k) = [n \in 1 .. k |-> s[n]]
      BY ONLY <3>2, <3>3
    <3>5. g = [n \in 1 .. k |-> g[n]]
      BY ONLY <3>2, Listed, Zenon
    <3> QED
      BY <3>1, <3>2, <3>4, <3>5, Zenon
  <2> QED
    BY <2>1, <2>3, <2>4, Zenon
<1> QED
  BY <1>1, ReadInvariance, PTL

=============================================================================
