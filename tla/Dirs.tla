-------------------------------- MODULE Dirs --------------------------------
(* Paths and directories (fs/dir.c). A path is the sequence of its names   *)
(* and whether it starts with a slash; no name of a path is empty.         *)
EXTENDS Inodes

CwdInum(k, t) == k.icache[k.task[t].cwd].inum

(* The entries a scan of a block looks at: it stops after as many names as *)
(* the header counts.                                                      *)
Scanned(blk) ==
    {j \in 1..DENT : Cardinality({i \in 1..(j - 1) : blk.ents[i].name # NoName}) < blk.cnt}

(* Where a scan of the directory finds the name: block i, entry j, as the  *)
(* one number i * (DENT + 1) + j.                                          *)
Places(k, di, name) ==
    UNION {LET blk == k.data[data_block_get(k, di, i)]
           IN {i * (DENT + 1) + j : j \in {j \in Scanned(blk) : blk.ents[j].name = name}}
           : i \in 0..(iblock_cnt(di) - 1)}
BlockAt(at) == at \div (DENT + 1)
EntryAt(at) == at % (DENT + 1)

(* One round of the loop of dentry_find: the current inode gives way to    *)
(* the one its entry names. r is -1 once a name is missing.                *)
StepInto(k, name) ==
    LET di == k.icache[k.r].di
        Enter(at) == k.data[data_block_get(k, di, BlockAt(at))].ents[EntryAt(at)].inum
        Go(places) == IF places = {} THEN [iput(k, k.r) EXCEPT !.r = -1]
                      ELSE iget(iput(k, k.r), Enter(Min(places)))
    IN IF Stopped(k) \/ k.r = -1 THEN k
       ELSE IF k.r = 0 THEN Stop(k, "null")
       ELSE Go(Places(k, di, name))

(* The inode of a path, with one more reference to it, or 0.               *)
dentry_find(k, t, path) ==
    LET Found(x) == IF x.r = -1 THEN [x EXCEPT !.r = 0] ELSE x
    IN Found(FoldLeft(StepInto, iget(k, IF path.abs THEN ROOTINUM ELSE CwdInum(k, t)), path.names))

(* "/x" leaves an empty parent, which dentry_find takes for the working    *)
(* directory.                                                              *)
path_split(path) ==
    [parent |-> IF Len(path.names) > 1 THEN [path EXCEPT !.names = Front(@)]
                ELSE [abs |-> FALSE, names |-> IF path.abs THEN <<>> ELSE <<".">>],
     name |-> Last(path.names)]

(* The parent of a path, for a call that changes it.                       *)
ParentOf(k, t, path) ==
    Then(dentry_find(k, t, path_split(path).parent), LAMBDA p :
        IF path.abs /\ Len(path.names) = 1 /\ CwdInum(k, t) # ROOTINUM THEN Mark(p, "stray") ELSE p)

dentry_add(k, e, inum, name) ==
    LET di == k.icache[e].di
        ent == [inum |-> inum, name |-> name]
        Full(blk) == blk.cnt = DENT \/ \A j \in 1..DENT : blk.ents[j].name # NoName
        room == {i \in 0..(iblock_cnt(di) - 1) : ~Full(k.data[data_block_get(k, di, i)])}
        Use(x, b) ==
            LET j == Min({i \in 1..DENT : x.data[b].ents[i].name = NoName})
            IN bwrite(x, b, [x.data[b] EXCEPT !.ents[j] = ent, !.cnt = @ + 1])
        Extend(x) ==
            iupdate([bwrite(x, x.r, [x.data[x.r] EXCEPT !.cnt = 1, !.ents[1] = ent])
                        EXCEPT !.icache[e].di.fsize = @ + BSIZE], e)
        Add(x, free) == IF free # {} THEN Use(x, data_block_get(k, di, Min(free)))
                        ELSE Then(data_block_alloc(x, e), Extend)
    IN IF Stopped(k) THEN k
       ELSE Add(IF di.type = "DIRECTORY" THEN k ELSE Mark(k, "notdir"), room)

(* Slip in dentry_del: the header still counts the name.                   *)
dentry_del_uncounted(k, e, name) ==
    LET di == k.icache[e].di
        Clear(at) == LET b == data_block_get(k, di, BlockAt(at))
                     IN bwrite(k, b, [k.data[b] EXCEPT !.ents[EntryAt(at)].name = NoName])
        Try(places) == IF places = {} THEN k ELSE Clear(Min(places))
    IN IF Stopped(k) THEN k ELSE Try(Places(k, di, name))

(* The last entry of a block takes the block with it, and is cleared in    *)
(* the buffer only: the disk keeps the name and the count in a free block. *)
dentry_del(k, e, name) ==
    LET di == k.icache[e].di
        Shrink(x, i, b) ==
            LET Free(y) == bfree(iupdate([y EXCEPT !.icache[e].di.fsize = @ - BSIZE], e), b)
            IN Then(idx_remove(x, e, i), Free)
        Clear(i, b, blk) == IF blk.cnt > 0 THEN bwrite(k, b, blk) ELSE Shrink([k EXCEPT !.data[b] = blk], i, b)
        At(i, b, j) == Clear(i, b, [k.data[b] EXCEPT !.ents[j].name = NoName, !.cnt = @ - 1])
        Del(at) == At(BlockAt(at), data_block_get(k, di, BlockAt(at)), EntryAt(at))
        Try(places) == IF places = {} THEN k ELSE Del(Min(places))
    IN IF Stopped(k) THEN k ELSE Try(Places(k, di, name))
=============================================================================
