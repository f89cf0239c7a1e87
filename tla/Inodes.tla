------------------------------- MODULE Inodes -------------------------------
(* The block and inode bitmaps, the inode cache and the block index of a   *)
(* file (fs/fs.c, fs/inode.c, fs/inode.h).                                 *)
(*                                                                         *)
(* The file system is one record k, and every function of the code is an   *)
(* operator from k to k that leaves its result in k.r:                     *)
(*   imap, bmap, dinode, disk   what is on the disk                        *)
(*   data                       the data blocks of the disk as a read      *)
(*                              finds them, in a buffer or on the disk     *)
(*   icache                     the inode cache; inum is -1 in an entry    *)
(*                              that was never used                        *)
(*   file, pipe, task           see Files                                  *)
(*   halt, odd                  see Halt                                   *)
(*   text                       history: the bytes the calls asked each    *)
(*                              file to hold                               *)
(* A data block is seen in three ways at once, as directory entries, as    *)
(* block numbers and as bytes. Reads and writes go through the buffer      *)
(* cache, which BCache shows to be the disk but for blocks that a caller   *)
(* changes and does not write.                                             *)
EXTENDS Halt, SequencesExt

CONSTANTS
    BSIZE,      \* bytes in a block
    U32,        \* bytes of a block number
    DENT,       \* entries in a directory block, its header not counted
    NDIRECT,    \* direct blocks of an inode
    NINDIRECT,  \* index blocks of an inode
    NINODE,     \* entries of the inode cache
    NDINODE,    \* inodes on the disk
    NBLOCK,     \* data blocks on the disk
    SECTION,    \* bits of a section of a bitmap
    U64         \* bytes of a section

IDX == BSIZE \div U32
FILE_MAX == NDIRECT + NINDIRECT * U32
ROOTINUM == 0

Inum == 0..(NDINODE - 1)
Blk == 1..NBLOCK
Entry == 1..NINODE

NoName == ""
ZeroBlock ==
    [cnt |-> 0, ents |-> [j \in 1..DENT |-> [inum |-> 0, name |-> NoName]],
     idx |-> [j \in 0..(IDX - 1) |-> 0], bytes |-> [j \in 0..(BSIZE - 1) |-> 0]]
ZeroDinode ==
    [type |-> "UNUSE", nlink |-> 0, fsize |-> 0,
     iblock |-> [i \in 0..(NDIRECT + NINDIRECT - 1) |-> 0]]

(* What follows a stop in the model still finds an inode or a block in r.  *)
Stop(k, why) == [Halt(k, why) EXCEPT !.r = 1]

(* A block's buffer is changed and written, or blocks are zeroed.          *)
bwrite(k, b, blk) == [k EXCEPT !.data[b] = blk, !.disk[b] = blk]
bzero(k, blocks) ==
    LET Zeroed(f) == [b \in DOMAIN f |-> IF b \in blocks THEN ZeroBlock ELSE f[b]]
    IN [k EXCEPT !.data = Zeroed(@), !.disk = Zeroed(@)]

NoInode == [inum |-> -1, refc |-> 0, di |-> ZeroDinode]
init_icache == [e \in Entry |-> NoInode]
-----------------------------------------------------------------------------
balloc(k) ==
    IF Blk \subseteq k.bmap THEN Stop(k, "panic")
    ELSE LET b == Min(Blk \ k.bmap) IN [k EXCEPT !.bmap = @ \cup {b}, !.r = b]

bfree(k, b) ==
    IF b \notin k.bmap THEN Stop(k, "panic") ELSE [k EXCEPT !.bmap = @ \ {b}]

(* The first clear bit, and the number made of its section and its place   *)
(* in the section.                                                         *)
ialloc(k) ==
    IF Inum \subseteq k.imap THEN Stop(k, "panic")
    ELSE LET bit == Min(Inum \ k.imap)
             n == (bit \div SECTION) * U64 + (bit % SECTION)
             found == [k EXCEPT !.imap = @ \cup {bit}, !.r = n]
         IN IF n = bit THEN found ELSE Mark(found, "misnumbered")

iexist(k, inum) == inum \in k.imap

iupdate(k, e) ==
    IF Stopped(k) THEN k
    ELSE [k EXCEPT !.dinode[k.icache[e].inum] = k.icache[e].di]

iread(k, e, inum) == [k EXCEPT !.icache[e].di = k.dinode[inum]]

(* Slip in iget: a cached inode is found only while it is in use.          *)
iget_busy(k, inum) ==
    LET busy == {e \in Entry : k.icache[e].inum = inum /\ k.icache[e].refc > 0}
        idle == {e \in Entry : k.icache[e].refc = 0}
    IN IF Stopped(k) THEN k
       ELSE IF busy # {} THEN [k EXCEPT !.icache[Min(busy)].refc = @ + 1, !.r = Min(busy)]
       ELSE IF ~iexist(k, inum) THEN [k EXCEPT !.r = 0]
       ELSE IF idle = {} THEN Stop(k, "panic")
       ELSE iread([k EXCEPT !.icache[Min(idle)].inum = inum,
                            !.icache[Min(idle)].refc = 1, !.r = Min(idle)], Min(idle), inum)

(* A cached inode is found by number whether or not it is in use.          *)
iget(k, inum) ==
    LET cached == {e \in Entry : k.icache[e].inum = inum}
        idle == {e \in Entry : k.icache[e].refc = 0}
    IN IF Stopped(k) THEN k
       ELSE IF cached # {} THEN [k EXCEPT !.icache[Min(cached)].refc = @ + 1, !.r = Min(cached)]
       ELSE IF ~iexist(k, inum) THEN [k EXCEPT !.r = 0]
       ELSE IF idle = {} THEN Stop(k, "panic")
       ELSE iread([k EXCEPT !.icache[Min(idle)].inum = inum,
                            !.icache[Min(idle)].refc = 1, !.r = Min(idle)], Min(idle), inum)

iput(k, e) == IF Stopped(k) THEN k ELSE [k EXCEPT !.icache[e].refc = @ - 1]

iref(k, e) == [k EXCEPT !.icache[e].refc = @ + 1]
-----------------------------------------------------------------------------
(* How many entries of an index array come before its first zero.          *)
Lead(f, n) == IF \E i \in 0..(n - 1) : f[i] = 0 THEN Min({i \in 0..(n - 1) : f[i] = 0}) ELSE n

(* The blocks of a file in the order itrunc frees them.                    *)
Walk(k, di) ==
    FlattenSeq([i \in 1..Lead(di.iblock, NDIRECT + NINDIRECT) |->
        LET b == di.iblock[i - 1]
            idx == k.data[b].idx
        IN IF i <= NDIRECT THEN <<b>>
           ELSE [j \in 1..Lead(idx, IDX) |-> idx[j - 1]] \o <<b>>])

(* Some open file stands on this inode.                                    *)
OpenAt(k, e, off) ==
    \E f \in DOMAIN k.file :
        k.file[f].refc > 0 /\ k.file[f].type = "INODE" /\ k.file[f].in = e /\ k.file[f].off >= off

(* Slip in itrunc: the index blocks and what they name stay allocated.     *)
itrunc_direct(k, e) ==
    LET di == k.icache[e].di
        gone == {di.iblock[i] : i \in 0..(Min({NDIRECT, Lead(di.iblock, NDIRECT)}) - 1)}
    IN [k EXCEPT !.bmap = @ \ gone, !.icache[e].di.fsize = 0, !.text[k.icache[e].inum] = <<>>,
                 !.icache[e].di.iblock = [i \in DOMAIN @ |-> 0]]

itrunc(k, e) ==
    LET di == k.icache[e].di
        walk == Walk(k, di)
        twice == {n \in DOMAIN walk : walk[n] \notin k.bmap \/ \E m \in 1..(n - 1) : walk[m] = walk[n]}
        Freed(gone, zeroed) == [bzero(k, Range(zeroed)) EXCEPT
            !.bmap = @ \ Range(gone),
            !.icache[e].di.fsize = 0,
            !.icache[e].di.iblock =
                [i \in DOMAIN @ |-> IF i < Lead(di.iblock, NDIRECT + NINDIRECT) THEN 0 ELSE @[i]],
            !.text[k.icache[e].inum] = <<>>]
        Upto(n) == SubSeq(walk, 1, n)
    IN IF Stopped(k) THEN k
       ELSE IF twice # {} THEN Stop(Freed(Upto(Min(twice) - 1), Upto(Min(twice))), "panic")
       ELSE IF OpenAt(k, e, 1) THEN Mark(Freed(walk, walk), "shrunk") ELSE Freed(walk, walk)

ifree(k, e) ==
    LET Clear(x) == [x EXCEPT !.imap = @ \ {x.icache[e].inum},
                              !.odd = IF OpenAt(k, e, 0) THEN @ \cup {"freed"} ELSE @]
    IN Then(itrunc(k, e), LAMBDA x : Clear(iupdate([x EXCEPT !.icache[e].di.type = "UNUSE"], e)))
-----------------------------------------------------------------------------
iblock_cnt(di) == (di.fsize \div BSIZE) - (IF di.fsize % BSIZE = 0 THEN 0 ELSE 1)

(* The number of the i-th data block.                                      *)
data_block_get(k, di, i) ==
    IF i < NDIRECT THEN di.iblock[i]
    ELSE k.data[di.iblock[NDIRECT + (i - NDIRECT) \div IDX]].idx[(i - NDIRECT) % IDX]

(* A new block at the end of the index. A file whose only block is partly  *)
(* filled has -1 blocks, an index far outside iblock.                      *)
data_block_alloc(k, e) ==
    LET di == k.icache[e].di
        curn == iblock_cnt(di)
        at == NDIRECT + (curn - NDIRECT) \div IDX
        place == (curn - NDIRECT) % IDX
        Put(new) ==
            IF curn < 0 \/ at \notin DOMAIN di.iblock THEN Stop(new, "wild")
            ELSE IF curn < NDIRECT THEN [new EXCEPT !.icache[e].di.iblock[curn] = new.r]
            ELSE IF place # 0
                 THEN bwrite(new, di.iblock[at], [new.data[di.iblock[at]] EXCEPT !.idx[place] = new.r])
            ELSE Then(balloc(new), LAMBDA more :
                   [bwrite(more, more.r, [more.data[more.r] EXCEPT !.idx[0] = new.r])
                       EXCEPT !.icache[e].di.iblock[at] = more.r, !.r = new.r])
    IN IF Stopped(k) \/ curn = FILE_MAX THEN Stop(k, "panic")
       ELSE Then(balloc(IF di.fsize % BSIZE = 0 THEN k ELSE Mark(k, "partial")), Put)

(* The index of a directory loses its i-th block, whose buffer the caller  *)
(* holds: the branches for a direct block read that block, which panics in *)
(* sleep_get. The branch for the others clears the index blocks it shifts. *)
idx_remove(k, e, i) ==
    LET di == k.icache[e].di
        from == NDIRECT + (i - NDIRECT) \div IDX
        lost == {di.iblock[j] : j \in from..(Lead(di.iblock, NDIRECT + NINDIRECT) - 1)}
    IN IF i < NDIRECT THEN Stop(k, "panic")
       ELSE Mark(bzero(k, lost), "shifted")
=============================================================================
