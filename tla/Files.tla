-------------------------------- MODULE Files -------------------------------
(* Open files, the descriptors of a task and the reference counts of pipes *)
(* (fs/file.c, fs/pipe.c, the fs_struct of task/task.c). What a pipe       *)
(* carries is in Pipe.                                                     *)
EXTENDS Dirs

CONSTANTS
    Task,   \* task slots, numbers from 1; task 1 is init
    NFILE,  \* descriptors of a task
    NOPEN,  \* bound: slots for open files
    NPIPE,  \* pipes
    I8      \* values of an i8

Slot == 1..NOPEN
Fd == 0..(NFILE - 1)
NoFile == [refc |-> 0, type |-> "NONE", mode |-> {}, off |-> 0, in |-> 0, of |-> -1]
NoTask == [live |-> FALSE, fd |-> [i \in Fd |-> 0], fdx |-> 0, cwd |-> 0]

InUse(k, s) == k.file[s].refc > 0

falloc(k) ==
    IF \A s \in Slot : InUse(k, s) THEN Stop(k, "bound")
    ELSE LET s == Min({x \in Slot : ~InUse(k, x)})
         IN [k EXCEPT !.file[s] = [NoFile EXCEPT !.refc = 1], !.r = s]

(* Slip in fdup: the new descriptor is not counted.                        *)
fdup_uncounted(k, s) == IF k.file[s].refc < 1 THEN Stop(k, "panic") ELSE k

fdup(k, s) == IF k.file[s].refc < 1 THEN Stop(k, "panic") ELSE [k EXCEPT !.file[s].refc = @ + 1]

(* The count of a pipe is an i8.                                           *)
ToI8(n) == ((n + I8 \div 2) % I8) - I8 \div 2

(* The open files on a pipe.                                               *)
OnPipe(k, p) == {s \in Slot : InUse(k, s) /\ k.file[s].type = "PIPE" /\ k.file[s].in = p}

(* A pipe is free when its count is 0, as it also is after I8 of pipeget.  *)
pipealloc(k) ==
    LET idle == {p \in 1..NPIPE : k.pipe[p] = 0}
        Take(p) == [k EXCEPT !.pipe[p] = 2, !.r = p,
                             !.odd = IF OnPipe(k, p) = {} THEN @ ELSE @ \cup {"wrapped"}]
    IN IF idle = {} THEN Stop(k, "panic") ELSE Take(Min(idle))

pipeget(k, p) == [k EXCEPT !.pipe[p] = ToI8(@ + 1)]
pipeclose(k, p) == IF k.pipe[p] = 0 THEN Stop(k, "panic") ELSE [k EXCEPT !.pipe[p] = ToI8(@ - 1)]

(* The last reference gives up the inode or the pipe, and the slot.        *)
fclose(k, s) ==
    LET f == k.file[s]
        less == [k EXCEPT !.file[s].refc = @ - 1]
        free(x) == [x EXCEPT !.file[s] = NoFile]
    IN IF Stopped(k) THEN k
       ELSE IF f.refc = 0 THEN Stop(k, "panic")
       ELSE IF f.refc > 1 THEN less
       ELSE IF f.type \in {"INODE", "DEVICE"} THEN free(iput(less, f.in))
       ELSE IF f.type = "PIPE" THEN free(pipeclose(less, f.in))
       ELSE free(less)
-----------------------------------------------------------------------------
(* lseek only ever asks for SEEK_CUR.                                      *)
fseek(k, s, off) ==
    LET f == k.file[s]
        size == k.icache[f.in].di.fsize
    IN [k EXCEPT !.file[s].off = IF off > 0 THEN Min({f.off + off, size})
                                 ELSE f.off - Min({f.off, -off})]

(* The block of a byte; -1 when the place computed in the index block is   *)
(* before its start, which is far outside it in unsigned arithmetic.       *)
blockno_of_data(k, di, off) ==
    LET i == (off - BSIZE * NDIRECT) \div IDX
        place == (off \div BSIZE) - NDIRECT - i * IDX
    IN IF off < BSIZE * NDIRECT THEN di.iblock[off \div BSIZE]
       ELSE IF place < 0 \/ i >= NINDIRECT THEN -1
       ELSE k.data[di.iblock[NDIRECT + i]].idx[place]

(* The loops of fread and fwrite go from block to block and ask for the    *)
(* block of the first byte they move in it.                                *)
ChunkStart(off, at) == Max({off, at - (at % BSIZE)})

(* Bytes off..off+n-1 as the loop of fread fetches them.                   *)
Fetch(k, di, off, n) ==
    [i \in 1..n |-> LET at == off + i - 1
                        b == blockno_of_data(k, di, ChunkStart(off, at))
                    IN IF b = -1 THEN -1 ELSE k.data[b].bytes[at % BSIZE]]

(* fsize - off is unsigned: past the end it is more than any request.      *)
fread(k, s, bytes) ==
    LET f == k.file[s]
        di == k.icache[f.in].di
        n == IF f.off <= di.fsize THEN Min({bytes, di.fsize - f.off}) ELSE bytes
    IN IF \E i \in 1..n : Fetch(k, di, f.off, n)[i] = -1 THEN Stop(k, "wild")
       ELSE [k EXCEPT !.file[s].off = @ + n]

(* Room for the bytes, all of it asked for while fsize is still the old.   *)
Grow(k, s, bytes) ==
    LET f == k.file[s]
        size == k.icache[f.in].di.fsize
        More(new) ==
            FoldLeft(LAMBDA x, i : data_block_alloc(x, f.in),
                     IF new > 1 THEN Mark(k, "long") ELSE k, [i \in 1..new |-> i])
        Need(lack) == IF lack <= 0 THEN k ELSE More((lack + BSIZE - 1) \div BSIZE)
    IN Need(IF f.off <= size THEN bytes - (size - f.off) ELSE 0)

(* Slip in PutByte: the place in the block is not used.                    *)
PutByte_start(k, e, off, at, byte) ==
    LET b == blockno_of_data(k, k.icache[e].di, ChunkStart(off, at))
    IN IF Stopped(k) THEN k
       ELSE IF b = -1 THEN Stop(k, "wild")
       ELSE bwrite(k, b, [k.data[b] EXCEPT !.bytes[0] = byte])

PutByte(k, e, off, at, byte) ==
    LET b == blockno_of_data(k, k.icache[e].di, ChunkStart(off, at))
    IN IF Stopped(k) THEN k
       ELSE IF b = -1 THEN Stop(k, "wild")
       ELSE bwrite(k, b, [k.data[b] EXCEPT !.bytes[at % BSIZE] = byte])

(* What the bytes at off make of a text.                                   *)
Overlay(text, off, bytes) ==
    [i \in 1..Max({Len(text), off + Len(bytes)}) |->
        IF i \in (off + 1)..(off + Len(bytes)) THEN bytes[i - off]
        ELSE IF i <= Len(text) THEN text[i] ELSE 0]

fwrite(k, s, bytes) ==
    LET f == k.file[s]
        n == Len(bytes)
        Put(x, i) == PutByte(x, f.in, f.off, f.off + i - 1, bytes[i])
        Save(x) == iupdate([x EXCEPT !.file[s].off = @ + n, !.icache[f.in].di.fsize = @ + n,
                                     !.text[k.icache[f.in].inum] = Overlay(@, f.off, bytes)], f.in)
        over == IF f.off < k.icache[f.in].di.fsize THEN Mark(k, "overwrite") ELSE k
    IN Then(FoldLeft(Put, Grow(over, s, n), [i \in 1..n |-> i]), Save)
-----------------------------------------------------------------------------
(* Slip in CopyFd: the child's file does not count on the inode.           *)
CopyFd_unshared(k, c, i) ==
    IF Stopped(k) \/ k.task[c].fd[i] = 0 THEN k
    ELSE Then(falloc(k), LAMBDA x :
              [x EXCEPT !.file[x.r] = [k.file[k.task[c].fd[i]] EXCEPT !.refc = 1, !.off = 0],
                        !.task[c].fd[i] = x.r])

(* A child gets an open file of its own for every descriptor, at offset 0. *)
CopyFd(k, c, i) ==
    LET pf == k.file[k.task[c].fd[i]]
        Own(x) == [x EXCEPT !.file[x.r] = [pf EXCEPT !.refc = 1, !.off = 0], !.task[c].fd[i] = x.r]
        Share(x) == CASE pf.type \in {"INODE", "DEVICE"} -> iref(x, pf.in)
                      [] pf.type = "PIPE" -> pipeget(x, pf.in)
                      [] OTHER -> x
    IN IF Stopped(k) \/ k.task[c].fd[i] = 0 THEN k
       ELSE Then(falloc(k), LAMBDA new : Share(Own(new)))

EachFd == [i \in 1..NFILE |-> i - 1]

copy_fs(k, c, p) ==
    FoldLeft(LAMBDA x, i : CopyFd(x, c, i),
             [iref(k, k.task[p].cwd) EXCEPT !.task[c] = k.task[p]], EachFd)

clean_fs_source(k, t) ==
    LET close(x, i) == IF x.task[t].fd[i] = 0 THEN x ELSE fclose(x, x.task[t].fd[i])
    IN Then(FoldLeft(close, iput(k, k.task[t].cwd), EachFd),
            LAMBDA closed : [closed EXCEPT !.task[t] = NoTask])
=============================================================================
