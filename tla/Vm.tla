---------------------------------- MODULE Vm ----------------------------------
(* Page tables (mem/vm.c): three levels of FAN entries, built with pages   *)
(* of Pages. An entry is [to, leaf, attr]: a page, whether the entry is a  *)
(* leaf, and its attributes.                                               *)
EXTENDS Pages

CONSTANTS
    FAN,            \* entries of a page table
    trampoline      \* the page of the kernel's image that switches modes

MPGSIZE == FAN
GPGSIZE == FAN * FAN
VA_TOP == FAN * GPGSIZE
TRAMPOLINE == VA_TOP - 1
TRAPFRAME == TRAMPOLINE - 1
USTACK == TRAPFRAME - 1

S_PAGE == 0
M_PAGE == 1

NoProc == 0

Span(level) == CASE level = 0 -> 1 [] level = 1 -> MPGSIZE [] level = 2 -> GPGSIZE
va_level(va, level) == (va \div Span(level)) % FAN

(* The table below entry vpn of table cur, made when it is missing; only a *)
(* table made for a task is put on a task's list of pages.                 *)
Below(m, cur, vpn, ut) ==
    LET Hang(x) == [x EXCEPT !.tab[cur] = (vpn :> [to |-> x.r, leaf |-> FALSE, attr |-> {}]) @@ @]
    IN IF Stopped(m) THEN m
       ELSE IF vpn \in DOMAIN m.tab[cur] THEN [m EXCEPT !.r = m.tab[cur][vpn].to]
       ELSE Then(IF ut = NoProc THEN alloc_page(m) ELSE alloc_page_for_task(m, ut), Hang)

(* One step of the loop: the walk from the root to the level of the leaf.  *)
MapOne(m, ptb, va, pa, attr, gra, ut) ==
    LET Leaf(x) ==
            [x EXCEPT !.tab[x.r] =
                (va_level(va, gra) :> [to |-> pa, leaf |-> TRUE, attr |-> attr]) @@ @]
        Down(x) == IF gra = M_PAGE THEN x ELSE Below(x, x.r, va_level(va, 1), ut)
    IN Then(Then(Below(m, ptb, va_level(va, 2), ut), Down), Leaf)

(* size is the number of pages of the granularity.                         *)
do_vmmap(m, ptb, va, pa, size, attr, gra, ut) ==
    IF Stopped(m) THEN m
    ELSE IF va + size * Span(gra) > VA_TOP \/ pa + size * Span(gra) > PHY_TOP THEN Halt(m, "panic")
    ELSE FoldLeft(LAMBDA x, i : MapOne(x, ptb, va + i * Span(gra), pa + i * Span(gra), attr, gra, ut),
                  m, [i \in 1..size |-> i - 1])

svmmap(m, ptb, va, pa, size, attr, ut) == do_vmmap(m, ptb, va, pa, size, attr, S_PAGE, ut)
mvmmap(m, ptb, va, pa, size, attr) == do_vmmap(m, ptb, va, pa, size, attr, M_PAGE, NoProc)

task_vmmap(m, t, va, pa, attr, type) ==
    LET Link(x) ==
            [x EXCEPT !.task[t].vmas = Append(@, [va |-> va, pa |-> pa, attr |-> attr,
                                                  type |-> type, slot |-> x.r])]
    IN Then(alloc_slot(m, "vma"), LAMBDA got :
            svmmap(Link(got), got.task[t].pagetable, va, pa, 1, attr, t))

(* Slip in copy_pagetable: the child is given the parent's page.           *)
copy_pagetable_shared(m, c, p) ==
    FoldLeft(LAMBDA x, v : task_vmmap(x, c, v.va, v.pa, v.attr, v.type), m, m.task[p].vmas)

copy_pagetable(m, c, p) ==
    LET Copy(x, v) == task_vmmap(x, c, v.va, x.r, v.attr, v.type)
    IN FoldLeft(LAMBDA x, v : Copy(alloc_page_for_task(x, c), v), m, m.task[p].vmas)
-----------------------------------------------------------------------------
NoPte == [to |-> 0, leaf |-> FALSE, attr |-> {}]
Pte(m, cur, vpn) == IF vpn \in DOMAIN m.tab[cur] THEN m.tab[cur][vpn] ELSE NoPte

(* The leaf for va, or NoPte.                                              *)
get_pte(m, ptb, va) ==
    LET two == Pte(m, ptb, va_level(va, 2))
        one == Pte(m, two.to, va_level(va, 1))
        zero == Pte(m, one.to, va_level(va, 0))
    IN IF two = NoPte \/ two.leaf THEN two
       ELSE IF one = NoPte \/ one.leaf THEN one ELSE zero

va_to_pa(m, ptb, va) == get_pte(m, ptb, va).to

(* What the hardware makes of va: a large page covers the entries below.   *)
Translate(m, ptb, va) ==
    LET one == Pte(m, Pte(m, ptb, va_level(va, 2)).to, va_level(va, 1))
    IN IF one.leaf THEN one.to + (va % MPGSIZE) ELSE Pte(m, one.to, va_level(va, 0)).to

(* The page a copy to or from user memory reaches, 0 when it kills.        *)
copy_to_user(m, t, va) ==
    LET pte == get_pte(m, m.task[t].pagetable, va)
    IN IF {"W", "U"} \subseteq pte.attr THEN pte.to ELSE 0
copy_from_user(m, t, va) ==
    LET pte == get_pte(m, m.task[t].pagetable, va)
    IN IF {"R", "U"} \subseteq pte.attr THEN pte.to ELSE 0
-----------------------------------------------------------------------------
(* Small pages up to a multiple of MPGSIZE, large ones up to a multiple of *)
(* GPGSIZE, small ones for the rest. The devices are left out.             *)
RoundUp(n, d) == ((n + d - 1) \div d) * d
init_page(m) ==
    LET rw == {"R", "W"}
        a == RoundUp(KEND, MPGSIZE)
        low == IF a < PHY_TOP THEN a ELSE PHY_TOP
        b == RoundUp(low, GPGSIZE)
        c == RoundUp(PHY_TOP, MPGSIZE)
        high == IF low % GPGSIZE = 0 THEN low ELSE IF b < c THEN b ELSE c
        Same(x, from, to, attr) ==
            svmmap(x, x.kernel_pgt, from, from, IF from < to THEN to - from ELSE 0, attr, NoProc)
        Code(x) == Same(Same(x, PHY_MEMORY, trampoline, {"R", "X"}), trampoline, trampoline + 1, {"R", "X"})
        High(x) == svmmap(x, x.kernel_pgt, TRAMPOLINE, trampoline, 1, {"R", "X"}, NoProc)
        Data(x) == Same(Same(x, trampoline + 1, KEND, rw), KEND, low, rw)
        Large(x) == mvmmap(x, x.kernel_pgt, low, low, (high - low) \div MPGSIZE, rw)
        Root(x) == [x EXCEPT !.kernel_pgt = x.r]
    IN Same(Large(Data(High(Code(Root(alloc_page(m)))))), high, PHY_TOP, rw)
=============================================================================
