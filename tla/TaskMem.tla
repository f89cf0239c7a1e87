------------------------------- MODULE TaskMem -------------------------------
(* The memory of tasks: how task_init, exec, the heap calls and exit use   *)
(* the page allocator, the slots and the page tables (task/task.c,         *)
(* task/elf.c, syscall/systask.c, syscall/sysmem.c).                       *)
(*                                                                         *)
(* A call is one step. The allocators serialise calls of different tasks   *)
(* by their locks, and a call touches nothing else that another task owns. *)
EXTENDS Vm, FiniteSets

CONSTANTS
    NPROC,          \* tasks
    BITS, WORD,     \* bits and bytes of a word of tidmap
    STACK,          \* what fits in a page of stack, in options of exec
    Program(_),     \* the loaded segments of each file that is an executable
    Exe,            \* the files given to exec
    Mix,            \* which calls are made together,
    Made(_),        \* which calls a mix makes,
    MaxCalls(_)     \* and, a bound, how many that change something

VARIABLES mem, mix, mcalls
mvars == <<mem, mix, mcalls>>

Proc == 1..NPROC
NWORD == 1 + (NPROC \div WORD) \div (BITS \div WORD)

FreeTask ==
    [state |-> "FREE", childs |-> {}, tid |-> 0, pages |-> {}, vmas |-> <<>>,
     pagetable |-> 0, kstack |-> 0, trapframe |-> 0, next_heap |-> 0, ustack |-> STACK,
     mm |-> 0, fs |-> 0]

Boot ==
    [free |-> init_memory, tab |-> [p \in Page |-> <<>>], slot |-> init_slot, kernel_pgt |-> 0,
     task |-> [t \in Proc |-> FreeTask], tidmap |-> [w \in 0..(NWORD - 1) |-> {}],
     first |-> TRUE, halt |-> "no", odd |-> {}, r |-> 0]
-----------------------------------------------------------------------------
(* A word of the map has BITS bits, the number of a task counts WORD of    *)
(* them.                                                                   *)
alloc_tid(x) ==
    LET Take(i, j) == [x EXCEPT !.tidmap[i] = @ \cup {j}, !.r = i * WORD + j + 1]
        Word(i) == Take(i, Min(0..(BITS - 1) \ x.tidmap[i]))
        Find(room) == IF room = {} THEN Halt(x, "wild") ELSE Word(Min(room))
    IN Find({w \in 0..(NWORD - 1) : x.tidmap[w] # 0..(BITS - 1)})

(* Slip in free_tid: the number is taken for the bit.                      *)
free_tid_of_next(x, tid) == [x EXCEPT !.tidmap[0] = @ \ {tid}]

free_tid(x, tid) ==
    LET i == (tid - 1) \div WORD
        j == (tid - 1) % WORD
        used == IF tid > WORD THEN Mark(x, "tid") ELSE x
    IN IF i < NWORD THEN [used EXCEPT !.tidmap[i] = @ \ {j}] ELSE Halt(used, "wild")

task_info_init(x, t) ==
    Then(alloc_tid(x), LAMBDA got : [got EXCEPT !.task[t].tid = got.r, !.task[t].childs = {}])

(* The trampoline is mapped for no task: the tables on its way are there   *)
(* since the trap frame, next to it, has been mapped.                      *)
task_mm_init(x, t, p) ==
    LET Fresh(y) == [y EXCEPT !.task[t].mm = y.r, !.task[t].pages = {}, !.task[t].vmas = <<>>,
                              !.task[t].ustack = STACK,
                              !.task[t].next_heap = IF p = NoProc THEN 0 ELSE y.task[p].next_heap]
        Table(y) == [y EXCEPT !.task[t].pagetable = y.r]
        Stack(y) == task_vmmap(y, t, USTACK, y.r, {"R", "W", "U"}, "STACK")
        User(y) == IF p # NoProc THEN copy_pagetable(y, t, p) ELSE Stack(alloc_page_for_task(y, t))
        Kstack(y) == [y EXCEPT !.task[t].kstack = y.r]
        Frame(y) == svmmap([y EXCEPT !.task[t].trapframe = y.r], y.task[t].pagetable, TRAPFRAME, y.r,
                           1, {"R"}, t)
        Enter(y) == svmmap(y, y.task[t].pagetable, TRAMPOLINE, trampoline, 1, {"R", "X"}, NoProc)
        More(y) == alloc_page_for_task(y, t)
    IN Then(Then(alloc_slot(x, "mm_struct"), LAMBDA y : More(Fresh(y))), LAMBDA y :
            Enter(Frame(More(Kstack(More(User(Table(y))))))))

task_fs_init(x, t) == Then(alloc_slot(x, "fs_struct"), LAMBDA got : [got EXCEPT !.task[t].fs = got.r])

task_init(x, t, p) ==
    Then(Then(task_info_init(x, t), LAMBDA y : task_mm_init(y, t, p)), LAMBDA y : task_fs_init(y, t))

alloc_task(x, p) ==
    LET idle == {t \in Proc : x.task[t].state = "FREE"}
        Give(t) == Then(task_init([x EXCEPT !.task[t].state = "READY"], t, p), LAMBDA y : [y EXCEPT !.r = t])
    IN IF idle = {} THEN Halt(x, "exhausted") ELSE Give(Min(idle))

(* Slip in clean_mm_source: the pages of the vmas and the tables go, not   *)
(* the ones that exec left behind.                                         *)
clean_mm_source_mapped(x, t) ==
    LET kept == {v.pa : v \in Range(x.task[t].vmas)} \cup {x.task[t].kstack, x.task[t].trapframe}
                \cup {p \in x.task[t].pages : x.tab[p] # <<>>}
        paged == FoldSet(LAMBDA p, y : free_page_for_task(y, t, p), x, kept)
        bare == FoldLeft(LAMBDA y, v : free_slot(y, "vma", v.slot), paged, x.task[t].vmas)
    IN free_slot([bare EXCEPT !.task[t].vmas = <<>>], "mm_struct", x.task[t].mm)

clean_mm_source(x, t) ==
    LET paged == FoldSet(LAMBDA p, y : free_page_for_task(y, t, p), x, x.task[t].pages)
        bare == FoldLeft(LAMBDA y, v : free_slot(y, "vma", v.slot), paged, x.task[t].vmas)
    IN free_slot([bare EXCEPT !.task[t].vmas = <<>>], "mm_struct", x.task[t].mm)

clean_source(x, t) ==
    free_tid(clean_mm_source(free_slot(x, "fs_struct", x.task[t].fs), t), x.task[t].tid)

(* Slip in reset_vma: the vmas are unlinked and not freed.                 *)
reset_vma_unlink(x, t) ==
    [x EXCEPT !.task[t].vmas = SelectSeq(@, LAMBDA v : v.type = "STACK")]

(* The vmas go, the pages and their entries in the page table stay.        *)
reset_vma(x, t) ==
    LET gone == SelectSeq(x.task[t].vmas, LAMBDA v : v.type # "STACK")
        bare == FoldLeft(LAMBDA y, v : free_slot(y, "vma", v.slot), x, gone)
    IN [bare EXCEPT !.task[t].vmas = SelectSeq(@, LAMBDA v : v.type = "STACK")]

(* A segment is at most a page and starts on one, as user.ld asserts; the  *)
(* code checks neither its address nor its size.                           *)
load_segment(x, t, segments) ==
    LET Put(y, s) == task_vmmap(y, t, s.va, y.r, s.attr \cup {"U"},
                                IF "X" \in s.attr THEN "TEXT" ELSE "DATA")
    IN FoldLeft(LAMBDA y, s : [Put(alloc_page_for_task(y, t), s) EXCEPT !.task[t].next_heap = s.va + 1],
                x, segments)

MemInit ==
    /\ mem = init_page(Boot)
    /\ mix \in Mix
    /\ mcalls = 0
-----------------------------------------------------------------------------
Runs(t, call) ==
    /\ ~Stopped(mem) /\ ~mem.first
    /\ mem.task[t].state = "READY"
    /\ call \in Made(mix)
    /\ mcalls < MaxCalls(mix)
Ends(x) == mem' = x /\ mcalls' = (IF x = mem THEN mcalls ELSE mcalls + 1) /\ UNCHANGED mix

(* The first task is made at boot, and loads its program when it is first  *)
(* scheduled.                                                              *)
init_proc1 ==
    mem.first /\ mem.task[1].state = "FREE" /\ mem' = alloc_task(mem, NoProc) /\ UNCHANGED <<mix, mcalls>>
first_sched ==
    /\ mem.first /\ mem.task[1].state = "READY"
    /\ mem' = [load_segment(mem, 1, Program("init")) EXCEPT !.first = FALSE]
    /\ UNCHANGED <<mix, mcalls>>

sys_fork(t) ==
    /\ Runs(t, "fork")
    /\ Ends(Then(alloc_task(mem, t), LAMBDA x : [x EXCEPT !.task[t].childs = @ \cup {x.r}]))

(* An option is pushed on the stack below the ones of earlier calls.       *)
sys_exec(t, file, option) ==
    LET top == mem.task[t].ustack - (IF option THEN 1 ELSE 0)
        at == IF top >= 0 THEN USTACK ELSE USTACK - 1
        pushed == [mem EXCEPT !.task[t].ustack = top]
        odd == IF top < 0 THEN Mark(pushed, "options") ELSE pushed
    IN /\ Runs(t, "exec")
       /\ Ends(IF Program(file) = <<>> THEN mem
               ELSE IF option /\ va_to_pa(mem, mem.task[t].pagetable, at) = 0 THEN Halt(odd, "wild")
               ELSE load_segment(reset_vma(odd, t), t, Program(file)))

sys_alloc(t) ==
    LET va == mem.task[t].next_heap
        Put(x) == [task_vmmap(x, t, va, x.r, {"R", "W", "U"}, "HEAP") EXCEPT !.task[t].next_heap = va + 1]
    IN Runs(t, "alloc") /\ Ends(IF va = USTACK THEN mem ELSE Put(alloc_page_for_task(mem, t)))

(* The address is compared with the physical address of the vma.           *)
sys_free(t, a) ==
    LET Hit(v) == v.type = "HEAP" /\ v.pa = a
        gone == SelectSeq(mem.task[t].vmas, Hit)
        bare == FoldLeft(LAMBDA y, v : free_slot(y, "vma", v.slot), mem, gone)
    IN /\ Runs(t, "free")
       /\ Ends([bare EXCEPT !.task[t].vmas = SelectSeq(@, LAMBDA v : ~Hit(v))])

(* The children of a task that calls exit go to the first task.            *)
sys_exit(t) ==
    LET adopted == [mem EXCEPT !.task[1].childs = @ \cup mem.task[t].childs, !.task[t].childs = {}]
    IN /\ Runs(t, "exit")
       /\ t # 1
       /\ Ends([clean_source(adopted, t) EXCEPT !.task[t].state = "EXIT"])

(* A call was given an address that is not the task's. Its children stay   *)
(* on its list, which goes with the next task_info_init.                   *)
BadAddress(t) ==
    \E va \in {0, TRAPFRAME, TRAMPOLINE} : copy_to_user(mem, t, va) = 0 \/ copy_from_user(mem, t, va) = 0

Killed(x, t) == [clean_source(x, t) EXCEPT !.task[t].state = "EXIT"]

kill(t) ==
    /\ Runs(t, "kill")
    /\ t # 1 /\ BadAddress(t)
    /\ Ends(Killed(mem, t))

(* A reaped task keeps what its next task_init overwrites. If the address  *)
(* for the exit code is bad, the caller is killed: the child is off the    *)
(* list by then and keeps its slot.                                        *)
sys_wait(t) ==
    \E c \in mem.task[t].childs :
        LET found == [mem EXCEPT !.task[t].childs = @ \ {c}]
        IN /\ Runs(t, "wait")
           /\ mem.task[c].state = "EXIT"
           /\ \/ Ends([found EXCEPT !.task[c] = FreeTask])
              \/ t # 1 /\ BadAddress(t) /\ Ends(Killed(found, t))

TaskCall(t) == sys_fork(t) \/ sys_exit(t) \/ kill(t) \/ sys_wait(t)
HeapCall(t) ==
    \/ sys_alloc(t)
    \/ \E a \in {v.va : v \in Range(mem.task[t].vmas)} \cup {v.pa : v \in Range(mem.task[t].vmas)} :
           sys_free(t, a)

MemNext ==
    \/ init_proc1 \/ first_sched
    \/ \E t \in Proc : \/ TaskCall(t)
                       \/ HeapCall(t)
                       \/ \E file \in Exe, option \in BOOLEAN : sys_exec(t, file, option)

MemSpec == MemInit /\ [][MemNext]_mvars
-----------------------------------------------------------------------------
Live == {t \in Proc : mem.task[t].state = "READY"}
Uses(used) == mem.odd \cap used # {}

(* The tables a walk of a page table passes, and its leaves.               *)
Tables(root) ==
    LET Under(ps) == {e.to : e \in {x \in UNION {Range(mem.tab[p]) : p \in ps} : ~x.leaf}}
    IN {root} \cup Under({root}) \cup Under(Under({root}))
Leaves(root) == {e \in UNION {Range(mem.tab[p]) : p \in Tables(root)} : e.leaf}

(* Every page after the kernel's image is in exactly one place: on the     *)
(* free list, on the list of one task, under one slot, or in the kernel's  *)
(* page table. Nothing is lost whatever is mapped by task_vmmap, dropped   *)
(* by exec or freed by exit, and free_page never meets a free page.        *)
PagesPartitioned ==
    LET Places(p) ==
            {<<"task", t>> : t \in {t \in Live : p \in mem.task[t].pages}}
            \cup {<<kind, i>> : <<kind, i>> \in
                   {x \in Kind \X (1..NSLOT) : mem.slot[x[1]][x[2]].page = p}}
            \cup {<<"free", 0>> : x \in {p} \cap mem.free}
            \cup {<<"kernel", 0>> : x \in {p} \cap Tables(mem.kernel_pgt)}
    IN \/ mem.halt = "exhausted"
       \/ mem.halt = "wild" /\ Uses({"tid", "options"})
       \/ mem.halt = "no" /\ \A p \in init_memory : Cardinality(Places(p)) = 1

(* What a task can reach is its own. Each vma of a live task is mapped to  *)
(* its page; the trap frame and the trampoline are where the entry code    *)
(* expects them; the tables, every page a user access or a copy by the     *)
(* kernel can reach, the kernel stack and the trap frame are on the task's *)
(* own list, and the last two are out of the user's reach. The kernel sees *)
(* every page of memory at its physical address.                           *)
AddressSpaces ==
    \/ Stopped(mem)
    \/ /\ \A p \in Page : Translate(mem, mem.kernel_pgt, p) = p
       /\ \A t \in Live :
             LET k == mem.task[t]
                 user == {e.to : e \in {e \in Leaves(k.pagetable) : "U" \in e.attr}}
             IN /\ \A v \in Range(k.vmas) : va_to_pa(mem, k.pagetable, v.va) = v.pa
                /\ va_to_pa(mem, k.pagetable, TRAPFRAME) = k.trapframe
                /\ va_to_pa(mem, k.pagetable, TRAMPOLINE) = va_to_pa(mem, mem.kernel_pgt, TRAMPOLINE)
                /\ user \cup Tables(k.pagetable) \cup {k.kstack, k.trapframe} \subseteq k.pages
                /\ user \cap (Tables(k.pagetable) \cup {k.kstack, k.trapframe}) = {}

(* A slot counts the objects that live tasks hold in it, and has a page as *)
(* long as it has an object.                                               *)
SlotsCounted ==
    \/ Stopped(mem)
    \/ \A kind \in Kind, i \in 1..NSLOT :
          LET n == CASE kind = "vma" -> Cardinality({<<t, j>> \in Live \X (1..16) :
                                           j \in DOMAIN mem.task[t].vmas /\ mem.task[t].vmas[j].slot = i})
                     [] kind = "mm_struct" -> Cardinality({t \in Live : mem.task[t].mm = i})
                     [] kind = "fs_struct" -> Cardinality({t \in Live : mem.task[t].fs = i})
          IN mem.slot[kind][i].refc = n /\ (n > 0 <=> mem.slot[kind][i].page # 0)

(* Live tasks have different numbers, and the map holds exactly those, as  *)
(* long as no task numbered above WORD has ended: free_tid then clears the *)
(* bit of another word.                                                    *)
TidsDistinct ==
    \/ Stopped(mem) \/ Uses({"tid"})
    \/ /\ \A t, u \in Live : mem.task[t].tid = mem.task[u].tid => t = u
       /\ mem.tidmap[0] = {mem.task[t].tid - 1 : t \in Live}
=============================================================================
