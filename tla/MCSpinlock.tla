----------------------------- MODULE MCSpinlock -----------------------------
(* Two harts and two nesting locks: enough for contention on a lock, for   *)
(* nesting, and for a handler that takes the lock the interrupted flow is  *)
(* about to take.                                                          *)
EXTENDS Spinlock
=============================================================================
