------------------------------- MODULE Mutex --------------------------------
(***************************************************************************)
(* What a spinlock promises its users: a CPU takes a lock nobody holds,    *)
(* and only the CPU that holds a lock gives it back.  Spinlock implements  *)
(* this specification; the modules above it (Sched and its clients) use    *)
(* locks at this level, one atomic step for spin_get and one for spin_put. *)
(***************************************************************************)
CONSTANTS Cpu, Lock, None

VARIABLE owner

Init == owner = [l \in Lock |-> None]

Get(c, l) == owner[l] = None /\ owner' = [owner EXCEPT ![l] = c]

Put(c, l) == owner[l] = c /\ owner' = [owner EXCEPT ![l] = None]

Next == \E c \in Cpu, l \in Lock : Get(c, l) \/ Put(c, l)

Spec == Init /\ [][Next]_owner
=============================================================================
