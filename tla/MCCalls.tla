------------------------------- MODULE MCCalls ------------------------------
(* The system calls on the file system and the ones on memory, each by     *)
(* themselves, in workloads: a workload is one way of using the calls,     *)
(* with the arguments it needs and as many calls as TLC explores in        *)
(* minutes. The file systems start from images made by mkfs.               *)
EXTENDS SysFs, Mkfs, TaskMem

VARIABLE part

File(name, text) == [name |-> name, dir |-> FALSE, text |-> text]
Dir(name, kids) == [name |-> name, dir |-> TRUE, kids |-> kids]

Abs(names) == [abs |-> TRUE, names |-> names]
Rel(names) == [abs |-> FALSE, names |-> names]

Home == Dir("", <<File("a", <<1, 2, 3, 4>>), Dir("d", <<File("c", <<5>>)>>)>>)
Long == Dir("", <<File("a", [i \in 1..11 |-> i])>>)
Wide == Dir("", [i \in 1..6 |-> File(<<"a", "b", "e", "f", "g", "h">>[i], <<>>)] \o <<Dir("d", <<>>)>>)
Lossy == Dir("", <<Dir("d", <<>>)>> \o [i \in 1..4 |-> File(<<"a", "b", "e", "f">>[i], <<>>)])

Quiet ==
    [calls |-> {}, paths |-> {}, modes |-> {}, reads |-> {}, writes |-> {}, seeks |-> {}, max |-> 1]

MCLoad == {"names", "bytes", "descriptors", "devices", "long", "wide", "lossy"}

TreeOf(l) ==
    CASE l \in {"names", "bytes", "descriptors", "devices"} -> Home
      [] l = "long" -> Long
      [] l = "wide" -> Wide
      [] l = "lossy" -> Lossy
MCImage(l) == main(TreeOf(l))

MCAsked(l) ==
    CASE l = "names" -> [Quiet EXCEPT
        !.calls = {"open", "link", "unlink", "mkdir", "rmdir", "chdir", "restart"},
        !.paths = {Abs(<<"a">>), Abs(<<"d">>), Abs(<<"d", "b">>), Rel(<<"b">>)},
        !.modes = {{"CREAT", "R"}}, !.max = 4]
      [] l = "bytes" -> [Quiet EXCEPT
        !.calls = {"open", "close", "write", "read", "lseek", "unlink"},
        !.paths = {Abs(<<"a">>), Abs(<<"b">>)},
        !.modes = {{"CREAT", "RW"}, {"RW", "APPEND"}, {"R"}},
        !.writes = {<<7>>, <<7, 8, 7, 8>>, <<9, 9, 9, 9, 9>>}, !.reads = {3}, !.seeks = {-2, 2},
        !.max = 4]
      [] l = "descriptors" -> [Quiet EXCEPT
        !.calls = {"open", "dup", "close", "fork", "exit", "pipe"},
        !.paths = {Abs(<<"a">>), Abs(<<"d", "c">>)}, !.modes = {{"R"}}, !.max = 5]
      [] l = "devices" -> [Quiet EXCEPT
        !.calls = {"open", "mknod", "close", "rmdir", "unlink", "restart"},
        !.paths = {Abs(<<"a">>), Abs(<<"t">>)}, !.modes = {{"R"}}, !.max = 4]
      [] l = "long" -> [Quiet EXCEPT
        !.calls = {"open", "write", "read", "unlink", "restart"}, !.paths = {Abs(<<"a">>), Abs(<<"b">>)},
        !.modes = {{"RW", "APPEND"}, {"CREAT", "W"}, {"R"}},
        !.writes = {<<7>>, <<7, 8, 7, 8>>}, !.reads = {4}, !.max = 5]
      [] l = "wide" -> [Quiet EXCEPT
        !.calls = {"open", "unlink", "rmdir", "restart"}, !.paths = {Abs(<<x>>) : x \in {"a", "f", "h", "n"}},
        !.modes = {{"CREAT", "R"}}, !.max = 4]
      [] l = "lossy" -> Quiet

(* Every file and directory of a tree under its path.                      *)
RECURSIVE Tree(_, _)
Tree(node, path) ==
    {[path |-> path, node |-> node]} \cup
        (IF node.dir THEN UNION {Tree(node.kids[i], Append(path, node.kids[i].name)) : i \in DOMAIN node.kids}
         ELSE {})

(* The entries of a directory and one header for each block fit in the     *)
(* blocks, whose number counts one header.                                 *)
Fits(node) == node.dir => Len(node.kids) + 2 <= Ceil(Len(node.kids) + 3, DENT + 1) * DENT

(* What mkfs wrote, the kernel finds: every file and directory of the tree *)
(* is where its path leads dentry_find, with its type, its size and its    *)
(* bytes, and the bitmaps name nothing else. directory_copy and            *)
(* dentry_find agree as long as no directory has just one entry too many   *)
(* for the headers of its blocks.                                          *)
ImageComplete ==
    calls = 0 /\ (\A x \in Tree(TreeOf(load), <<>>) : Fits(x.node)) =>
        LET all == Tree(TreeOf(load), <<>>)
            found(x) == dentry_find(fs, 1, Abs(x.path))
            inum(x) == found(x).icache[found(x).r].inum
            di(x) == fs.dinode[inum(x)]
        IN /\ ~Stopped(fs)
           /\ \A x \in all : found(x).r # 0
           /\ fs.imap = {inum(x) : x \in all}
           /\ \A x \in all :
                IF x.node.dir THEN di(x).type = "DIRECTORY"
                ELSE di(x).type = "REGULAR" /\ di(x).fsize = Len(x.node.text)
                     /\ LET n == Min({di(x).fsize, Reach})
                        IN Fetch(fs, di(x), 0, n) = SubSeq(x.node.text, 1, n)
-----------------------------------------------------------------------------
(* Four tasks, a memory of 56 pages and page tables of eight entries. "ed" *)
(* has two segments; "top" is linked two pages below the stack, so that    *)
(* its heap meets the stack; "none" is no executable.                      *)
MemRoom(kind) == IF kind = "vma" THEN 6 ELSE 2
Text(va) == [va |-> va, attr |-> {"R", "X"}]
Data(va) == [va |-> va, attr |-> {"R", "W"}]
MemProgram(file) ==
    CASE file = "ed" -> <<Text(1), Data(2)>>
      [] file = "top" -> <<Text(507)>>
      [] file = "none" -> <<>>
      [] OTHER -> <<Text(1)>>

MemMade(l) ==
    CASE l = "tasks" -> {"fork", "exit", "kill", "wait"}
      [] l = "heap" -> {"alloc", "free", "exec"}
      [] l = "heirs" -> {"alloc", "exec", "fork", "exit"}
MemMaxCalls(l) == CASE l = "tasks" -> 7 [] l = "heap" -> 5 [] l = "heirs" -> 4

(* Each behaviour is about one part; the other has stopped, and its        *)
(* properties have nothing to say of it.                                   *)
CallsInit ==
    \/ /\ part = "files" /\ Init
       /\ mem = Halt(Boot, "exhausted") /\ mix = "tasks" /\ mcalls = 0
    \/ /\ part = "memory" /\ MemInit
       /\ fs = [Stop(Cold(Image("lossy")), "panic") EXCEPT
                   !.odd = {"partial", "stray", "notdir", "pipe", "crash"}]
       /\ load = "lossy" /\ calls = 1
CallsNext ==
    \/ part = "files" /\ Next /\ UNCHANGED <<part, mvars>>
    \/ part = "memory" /\ MemNext /\ UNCHANGED <<part, vars>>
CallsSpec == CallsInit /\ [][CallsNext]_<<part, vars, mvars>>

(* The part that makes no calls is left out.                               *)
View == <<part, IF part = "files" THEN vars ELSE mvars>>
=============================================================================
