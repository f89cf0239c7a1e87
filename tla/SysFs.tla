-------------------------------- MODULE SysFs -------------------------------
(* The file system calls (syscall/sysfs.c) as the tasks make them, with    *)
(* the part of fork, exit and start-up that touches the file system. One   *)
(* call is one step. A call that stops the kernel leaves on the disk what  *)
(* it had written; restarting the machine goes on from there.              *)
EXTENDS Files

CONSTANTS
    Load,       \* names of workloads; see MCCalls
    Image(_),   \* the disk a workload starts from, made by mkfs
    Asked(_)    \* the calls of a workload, their arguments and their number

VARIABLES
    fs,     \* the file system, the record of Inodes
    load,   \* the name of the workload of this behaviour
    calls   \* calls made that changed something, at most Work.max

vars == <<fs, load, calls>>
Work == Asked(load)

(* The memory of the kernel as it starts, before fsinit: what was only in  *)
(* buffers is gone.                                                        *)
Cold(k) ==
    [k EXCEPT !.icache = init_icache, !.file = [s \in Slot |-> NoFile],
              !.pipe = [p \in 1..NPIPE |-> 0],
              !.task = [t \in Task |-> NoTask], !.data = k.disk, !.r = 0]

(* init starts in the root directory.                                      *)
fsinit(k) ==
    LET root == iget(k, ROOTINUM)
    IN [root EXCEPT !.task[1] = [NoTask EXCEPT !.live = TRUE, !.cwd = root.r], !.r = 0]

Init ==
    /\ load \in Load
    /\ fs = fsinit(Cold(Image(load)))
    /\ calls = 0

(* The end of a call.                                                      *)
Done(k) ==
    /\ k.halt # "bound"
    /\ fs' = IF Stopped(k) THEN Cold(k) ELSE [k EXCEPT !.r = 0]
    /\ calls' = IF fs' = fs THEN calls ELSE calls + 1
    /\ UNCHANGED load

(* A task may make the call now.                                           *)
Asks(t, call) ==
    /\ calls < Work.max /\ call \in Work.calls
    /\ ~Stopped(fs) /\ fs.task[t].live

Fails(k) == [k EXCEPT !.r = -1]
-----------------------------------------------------------------------------
create(k, t, path, type, valid) ==
    LET Enter(made, p, n) ==
            iput(dentry_add(iput(iupdate(made, n), n), p, made.icache[n].inum, Last(path.names)), p)
        Dots(x, p, n) ==
            [dentry_add(dentry_add(x, n, x.icache[n].inum, "."), n, x.icache[p].inum, "..")
                EXCEPT !.icache[p].di.nlink = @ + 1]
        Fill(x, p, n) ==
            IF type = "CHAR" /\ ~valid THEN x
            ELSE LET typed == [x EXCEPT !.icache[n].di.type = type]
                 IN Enter(IF type = "DIRECTORY" THEN Dots(typed, p, n) ELSE typed, p, n)
        New(x, p) ==
            IF x.r = 0 THEN Stop(x, "null")
            ELSE Fill([x EXCEPT !.icache[x.r].di.nlink = 1, !.text[x.icache[x.r].inum] = <<>>], p, x.r)
        Make(par) ==
            IF par.r = 0 THEN Fails(par)
            ELSE Then(Then(ialloc(par), LAMBDA x : iget(x, x.r)), LAMBDA x :
                      [New(x, par.r) EXCEPT !.r = 0])
        Look(found) ==
            IF found.r # 0 THEN Fails(iput(found, found.r)) ELSE Then(ParentOf(found, t, path), Make)
    IN Then(dentry_find(k, t, path), Look)

move_fdi(k, t) ==
    LET from == {i \in Fd : i >= k.task[t].fdx /\ k.task[t].fd[i] = 0}
    IN IF from = {} THEN k ELSE [k EXCEPT !.task[t].fdx = Min(from)]

(* The file becomes descriptor fdx, which is in use when none is free.     *)
Install(k, t, s) ==
    LET i == k.task[t].fdx
        put == move_fdi([k EXCEPT !.task[t].fd[i] = s], t)
    IN IF k.task[t].fd[i] # 0 THEN Mark(put, "full") ELSE put

sys_open(t, path, mode) ==
    LET File(x, e) ==
            [NoFile EXCEPT !.refc = 1, !.mode = mode, !.in = e, !.of = x.icache[e].inum,
                           !.type = IF x.icache[e].di.type = "CHAR" THEN "DEVICE" ELSE "INODE",
                           !.off = IF "APPEND" \in mode THEN x.icache[e].di.fsize ELSE 0]
        Give(x, e) ==
            Then(falloc(x), LAMBDA new : Install([new EXCEPT !.file[new.r] = File(new, e)], t, new.r))
        Cut(x) == IF "APPEND" \notin mode /\ mode \cap {"W", "RW"} # {}
                  THEN iupdate(itrunc(x, x.r), x.r) ELSE x
        Open(x) ==
            IF x.r \in {0, -1} THEN x
            ELSE IF x.icache[x.r].di.type = "DIRECTORY" THEN iput(x, x.r)
            ELSE Then(Cut(x), LAMBDA y : Give(y, x.r))
        Again(x) ==
            IF x.r = -1 THEN x
            ELSE Then(dentry_find(x, t, path), LAMBDA y : IF y.r = 0 THEN Stop(y, "null") ELSE y)
        Find(x) == IF x.r # 0 \/ "CREAT" \notin mode THEN x
                   ELSE Then(create(x, t, path, "REGULAR", TRUE), Again)
    IN /\ Asks(t, "open")
       /\ ~({"R", "W"} \subseteq mode /\ "RW" \notin mode)
       /\ Done(Then(Then(dentry_find(fs, t, path), Find), Open))

sys_dup(t, i) ==
    /\ Asks(t, "dup") /\ fs.task[t].fd[i] # 0
    /\ LET more == fdup(fs, fs.task[t].fd[i])
       IN Done(IF Stopped(more) THEN more ELSE Install(more, t, fs.task[t].fd[i]))

sys_close(t, i) ==
    /\ Asks(t, "close") /\ fs.task[t].fd[i] # 0
    /\ LET less == fclose(fs, fs.task[t].fd[i])
       IN Done(IF Stopped(less) THEN less
               ELSE [less EXCEPT !.task[t].fd[i] = 0, !.task[t].fdx = Min({i, @})])

(* The reads and writes of a device or a pipe are in Console and Pipe.     *)
sys_read(t, i, n) ==
    /\ Asks(t, "read") /\ fs.task[t].fd[i] # 0
    /\ LET s == fs.task[t].fd[i]
       IN /\ fs.file[s].mode \cap {"R", "RW"} # {} /\ fs.file[s].type = "INODE"
          /\ Done(fread(fs, s, n))

sys_write(t, i, bytes) ==
    /\ Asks(t, "write") /\ fs.task[t].fd[i] # 0
    /\ LET s == fs.task[t].fd[i]
       IN /\ fs.file[s].mode \cap {"W", "RW"} # {} /\ fs.file[s].type = "INODE"
          /\ Done(fwrite(fs, s, bytes))

sys_lseek(t, i, off) ==
    /\ Asks(t, "lseek") /\ fs.task[t].fd[i] # 0
    /\ LET s == fs.task[t].fd[i]
       IN fs.file[s].type = "INODE" /\ Done(fseek(fs, s, off))

(* Both descriptors get the reading end.                                   *)
sys_pipe(t) ==
    LET end(p, mode) == [NoFile EXCEPT !.refc = 1, !.type = "PIPE", !.mode = mode, !.in = p]
        Both(x, rf) == Mark(Install(Install(x, t, rf), t, rf), "pipe")
        Ends(x, p, rf) ==
            Then(falloc(x), LAMBDA wf :
                 Both([wf EXCEPT !.file[rf] = end(p, {"R"}), !.file[wf.r] = end(p, {"W"})], rf))
    IN /\ Asks(t, "pipe")
       /\ Done(Then(pipealloc(fs), LAMBDA p : Then(falloc(p), LAMBDA rf : Ends(rf, p.r, rf.r))))
-----------------------------------------------------------------------------
sys_mknod(t, path, valid) ==
    Asks(t, "mknod") /\ Done(create(fs, t, path, "CHAR", valid))

sys_mkdir(t, path) ==
    Asks(t, "mkdir") /\ Done(create(fs, t, path, "DIRECTORY", TRUE))

(* The new name's directory is looked up, and not checked, after the count *)
(* is written.                                                             *)
sys_link(t, old, path) ==
    LET Enter(par, inum) ==
            IF par.r = 0 THEN Stop(par, "null")
            ELSE iput(dentry_add(par, par.r, inum, Last(path.names)), par.r)
        Count(x, e) == iput(iupdate([x EXCEPT !.icache[e].di.nlink = @ + 1], e), e)
        Link(x) ==
            IF x.r = 0 THEN x
            ELSE IF x.icache[x.r].di.type # "REGULAR" THEN iput(x, x.r)
            ELSE Then(ParentOf(Count(x, x.r), t, path), LAMBDA par : Enter(par, x.icache[x.r].inum))
        Look(there) == IF there.r # 0 THEN iput(there, there.r)
                       ELSE Then(dentry_find(there, t, old), Link)
    IN Asks(t, "link") /\ Done(Then(dentry_find(fs, t, path), Look))

sys_unlink(t, path) ==
    LET Erase(par) ==
            IF par.r = 0 THEN Stop(par, "null")
            ELSE iput(iupdate(dentry_del(par, par.r, Last(path.names)), par.r), par.r)
        Drop(x, e) == iput(IF x.icache[e].di.nlink = 0 THEN ifree(x, e) ELSE iupdate(x, e), e)
        Unlink(x) ==
            IF x.r = 0 THEN x
            ELSE IF x.icache[x.r].di.type # "REGULAR" THEN iput(x, x.r)
            ELSE Then(ParentOf(Drop([x EXCEPT !.icache[x.r].di.nlink = @ - 1], x.r), t, path), Erase)
    IN Asks(t, "unlink") /\ Done(Then(dentry_find(fs, t, path), Unlink))

(* A path that is no empty directory keeps the reference it was given.     *)
sys_rmdir(t, path) ==
    LET Save(x, p) == iput(iupdate([x EXCEPT !.icache[p].di.nlink = @ - 1], p), p)
        Erase(par) ==
            IF par.r = 0 THEN Stop(par, "null")
            ELSE Then(dentry_del(par, par.r, Last(path.names)), LAMBDA x : Save(x, par.r))
        Rmdir(c) ==
            IF c.r = 0 \/ c.icache[c.r].di.type # "DIRECTORY" THEN c
            ELSE IF c.data[c.icache[c.r].di.iblock[0]].cnt # 2 THEN c
            ELSE Then(ParentOf(iput(c, c.r), t, path), Erase)
    IN Asks(t, "rmdir") /\ Done(Then(dentry_find(fs, t, path), Rmdir))

sys_chdir(t, path) ==
    LET Enter(x) == IF x.r = 0 THEN x ELSE [iput(x, fs.task[t].cwd) EXCEPT !.task[t].cwd = x.r]
    IN Asks(t, "chdir") /\ Done(Then(dentry_find(fs, t, path), Enter))
-----------------------------------------------------------------------------
fork_files(t) ==
    /\ Asks(t, "fork")
    /\ \E c \in Task : ~fs.task[c].live
    /\ Done(copy_fs(fs, Min({c \in Task : ~fs.task[c].live}), t))

exit_files(t) ==
    Asks(t, "exit") /\ t # 1 /\ Done(clean_fs_source(fs, t))

(* The machine is started again.                                           *)
Restart ==
    /\ calls < Work.max /\ "restart" \in Work.calls
    /\ fs' = fsinit(Cold([fs EXCEPT !.halt = "no",
                                    !.odd = IF Stopped(fs) THEN @ \cup {"crash"} ELSE @]))
    /\ calls' = IF fs' = fs THEN calls ELSE calls + 1
    /\ UNCHANGED load

(* Reads of other blocks take the buffer of one that was not written.      *)
Evict ==
    /\ ~Stopped(fs)
    /\ \E b \in Blk : fs.data[b] # fs.disk[b] /\ fs' = [fs EXCEPT !.data[b] = fs.disk[b]]
    /\ UNCHANGED <<load, calls>>

FileCall(t) ==
    \/ \E p \in Work.paths, m \in Work.modes : sys_open(t, p, m)
    \/ \E i \in Fd : sys_dup(t, i) \/ sys_close(t, i)
    \/ \E i \in Fd, n \in Work.reads : sys_read(t, i, n)
    \/ \E i \in Fd, bytes \in Work.writes : sys_write(t, i, bytes)
    \/ \E i \in Fd, off \in Work.seeks : sys_lseek(t, i, off)
    \/ sys_pipe(t)

NameCall(t) ==
    \/ \E p \in Work.paths, valid \in BOOLEAN : sys_mknod(t, p, valid)
    \/ \E p \in Work.paths : sys_mkdir(t, p) \/ sys_unlink(t, p) \/ sys_rmdir(t, p) \/ sys_chdir(t, p)
    \/ \E p, q \in Work.paths : sys_link(t, p, q)

Next ==
    \/ \E t \in Task : FileCall(t) \/ NameCall(t) \/ fork_files(t) \/ exit_files(t)
    \/ Restart \/ Evict

Spec == Init /\ [][Next]_vars
-----------------------------------------------------------------------------
Used(uses) == fs.odd \cap uses # {}

(* Every block number in the index of an inode is allocated in the bitmap  *)
(* and in no other place of any index; and but for what a stopped call had *)
(* taken, every allocated block is in an index. balloc, bfree, itrunc,     *)
(* data_block_alloc and idx_remove each keep one side of this; it is lost  *)
(* only by growing a file whose last block is not full, by more than one   *)
(* block at a time or after writing before its end, by shrinking a         *)
(* directory and by a wrong inode number.                                  *)
BlocksAccounted ==
    ~Used({"partial", "long", "overwrite", "shifted", "misnumbered"}) =>
        LET owned == [i \in Inum |-> Walk(fs, fs.dinode[i])]
            all == UNION {Range(owned[i]) : i \in Inum}
        IN /\ \A i \in Inum : IsInjective(owned[i])
           /\ \A i, j \in Inum : i # j => Range(owned[i]) \cap Range(owned[j]) = {}
           /\ all \subseteq fs.bmap
           /\ ~Stopped(fs) /\ "crash" \notin fs.odd => all = fs.bmap

(* The names in the directories on the disk, each with its place.          *)
DirOf(i) == i \in fs.imap /\ fs.dinode[i].type = "DIRECTORY"
NamesIn(i) ==
    UNION {{[dir |-> i, block |-> b, ent |-> fs.data[b].ents[j]] :
                j \in {j \in 1..DENT : fs.data[b].ents[j].name # NoName}}
           : b \in {data_block_get(fs, fs.dinode[i], n) : n \in 0..(iblock_cnt(fs.dinode[i]) - 1)}}
Names == UNION {NamesIn(i) : i \in {i \in Inum : DirOf(i)}}

(* A name in a directory leads to an inode that is in use, no directory    *)
(* has a name twice, a block's header counts its names, and nlink of a     *)
(* regular file is the number of its names: what create, link, unlink,     *)
(* mkdir and rmdir have to agree on. It is lost by a path like "/x" in a   *)
(* task whose directory is not the root (stray), by making a name under a  *)
(* file that is no directory (notdir), by shrinking a directory past its   *)
(* direct blocks (shifted), by a wrong inode number (misnumbered), by a    *)
(* restart after a call that stopped half way (crash), and it never holds  *)
(* of an image whose directory was too small for its names (dropped).      *)
NamesLive ==
    ~Used({"stray", "notdir", "shifted", "misnumbered", "crash", "dropped"}) /\ ~Stopped(fs) =>
        /\ \A x \in Names : x.ent.inum \in fs.imap /\ fs.dinode[x.ent.inum].type # "UNUSE"
        /\ \A x, y \in Names : x.dir = y.dir /\ x.ent.name = y.ent.name => x = y
        /\ \A x \in Names :
             fs.data[x.block].cnt = Cardinality({y \in Names : y.block = x.block})
        /\ \A i \in fs.imap : fs.dinode[i].type = "REGULAR" =>
             fs.dinode[i].nlink = Cardinality({x \in Names : x.ent.inum = i})

(* The open files and working directories that stand on a cached inode.    *)
Holders(e) ==
    {s \in Slot : InUse(fs, s) /\ fs.file[s].type \in {"INODE", "DEVICE"} /\ fs.file[s].in = e}
Homes(e) == {t \in Task : fs.task[t].live /\ fs.task[t].cwd = e}

(* No cached inode is given to another file while an open file or a        *)
(* working directory stands on it: its count covers them all and it still  *)
(* is the inode that was opened, through every early return of the calls,  *)
(* fork and exit.                                                          *)
RefsHeld ==
    \A e \in Entry :
        /\ fs.icache[e].refc >= Cardinality(Holders(e)) + Cardinality(Homes(e))
        /\ \A s \in Holders(e) : fs.icache[e].inum = fs.file[s].of

(* A pipe counts its open files modulo the values of its i8, whatever was  *)
(* shared by dup and fork and closed since; so it is handed out again      *)
(* while files are open on it only when a multiple of I8 of them is. Once  *)
(* it was, it counts no more. An open file counts the descriptors that     *)
(* name it, and fdx is the lowest free descriptor; this is lost by pipe,   *)
(* which installs one file twice, and once every descriptor of a task was  *)
(* in use.                                                                 *)
FilesCounted ==
    /\ ~Used({"wrapped"}) => \A p \in 1..NPIPE : fs.pipe[p] = ToI8(Cardinality(OnPipe(fs, p)))
    /\ ~Used({"pipe", "full"}) =>
         /\ \A s \in Slot : fs.file[s].refc =
              Cardinality({x \in Task \X Fd : fs.task[x[1]].fd[x[2]] = s})
         /\ \A t \in Task : LET free == {i \in Fd : fs.task[t].fd[i] = 0}
                            IN free # {} => fs.task[t].fdx = Min(free)

(* An inode is cached once, and what the cache holds is what a restart     *)
(* would find on the disk: no call returns with an inode it changed and    *)
(* did not write, except the link count of a directory and of the inode a  *)
(* failed mknod leaves. It is lost by making a file in a file.             *)
CacheIsDisk ==
    ~Used({"notdir"}) /\ ~Stopped(fs) =>
        /\ \A e, d \in Entry : fs.icache[e].inum = fs.icache[d].inum /\ e # d => fs.icache[e].inum = -1
        /\ \A e \in Entry : fs.icache[e].inum # -1 =>
             LET di == fs.icache[e].di
             IN fs.dinode[fs.icache[e].inum] =
                  IF di.type \in {"DIRECTORY", "UNUSE"}
                  THEN [di EXCEPT !.nlink = fs.dinode[fs.icache[e].inum].nlink] ELSE di

(* The bytes of a file whose place blockno_of_data computes right, block   *)
(* by block from the start: the direct blocks and the one after them.      *)
Reach == BSIZE * (NDIRECT + 1)

(* A regular file reads as the bytes the writes to it put there. It is     *)
(* lost by the writes that lose BlocksAccounted, by cutting or freeing a   *)
(* file that another descriptor stands on, and by using it as a directory. *)
TextRight ==
    ~Used({"partial", "long", "overwrite", "shrunk", "freed", "notdir", "shifted", "misnumbered",
           "crash"}) /\ ~Stopped(fs) =>
        \A i \in fs.imap : fs.dinode[i].type = "REGULAR" =>
            /\ fs.dinode[i].fsize = Len(fs.text[i])
            /\ LET n == Min({Len(fs.text[i]), Reach})
               IN Fetch(fs, fs.dinode[i], 0, n) = SubSeq(fs.text[i], 1, n)
=============================================================================
