-------------------------------- MODULE Pages --------------------------------
(* The page allocator and the slots of kernel objects (mem/alloc.c,        *)
(* mem/slot.c).                                                            *)
(*                                                                         *)
(* Memory is one record m, and every function of the code is an operator   *)
(* from m to m that leaves its result in m.r:                              *)
(*   free         the pages on pages_head; inuse is false for these only   *)
(*   tab          what a page holds when it is read as a page table: a     *)
(*                function from the valid entries                          *)
(*   slot         the pages of each kind of object, with their counts      *)
(*   task, tidmap, kernel_pgt   see Vm and TaskMem                         *)
(*   halt, odd    see Halt                                                 *)
(* Addresses are page numbers. The order of pages_head is left out: what   *)
(* was just freed is given out again as soon as it is the lowest, and not  *)
(* after all others, so that a stale reference to a page is met early.     *)
EXTENDS Halt, SequencesExt

CONSTANTS
    PHY_MEMORY, PHY_TOP,    \* the first page of memory and the one after it
    KEND,                   \* the first page after the kernel's image
    NSLOT,                  \* pages of each kind of object
    Room(_)                 \* objects of a kind that fit in a page

Page == PHY_MEMORY..(PHY_TOP - 1)
Kind == {"vma", "mm_struct", "fs_struct"}

init_memory == KEND..(PHY_TOP - 1)

(* The new page is zeroed: no entry of it is valid.                        *)
alloc_page(m) ==
    LET Take(p) == [m EXCEPT !.free = @ \ {p}, !.tab[p] = <<>>, !.r = p]
    IN IF Stopped(m) THEN m ELSE IF m.free = {} THEN Halt(m, "exhausted") ELSE Take(Min(m.free))

alloc_page_for_task(m, t) ==
    Then(alloc_page(m), LAMBDA got : [got EXCEPT !.task[t].pages = @ \cup {got.r}])

free_page(m, p) == IF p \in m.free THEN Halt(m, "panic") ELSE [m EXCEPT !.free = @ \cup {p}]

free_page_for_task(m, t, p) == free_page([m EXCEPT !.task[t].pages = @ \ {p}], p)
-----------------------------------------------------------------------------
init_slot == [kind \in Kind |-> [i \in 1..NSLOT |-> [refc |-> 0, page |-> 0]]]

(* The result is the page the object is in, its "belong".                  *)
alloc_slot(m, kind) ==
    LET Place(i) ==
            IF m.slot[kind][i].refc > 0 THEN [m EXCEPT !.slot[kind][i].refc = @ + 1, !.r = i]
            ELSE Then(alloc_page(m), LAMBDA x :
                      [x EXCEPT !.slot[kind][i] = [refc |-> 1, page |-> x.r], !.r = i])
        Find(open) == IF open = {} THEN Halt(m, "exhausted") ELSE Place(Min(open))
    IN IF Stopped(m) THEN m ELSE Find({i \in 1..NSLOT : m.slot[kind][i].refc < Room(kind)})

free_slot(m, kind, i) ==
    IF m.slot[kind][i].refc > 1 THEN [m EXCEPT !.slot[kind][i].refc = @ - 1]
    ELSE free_page([m EXCEPT !.slot[kind][i] = [refc |-> 0, page |-> 0]], m.slot[kind][i].page)
=============================================================================
