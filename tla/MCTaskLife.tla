----------------------------- MODULE MCTaskLife -----------------------------
(* Instances of TaskLife.  Three slots are enough for a task to exit, be   *)
(* reaped and have its slot reused while its parent runs, and for a task   *)
(* to be handed to init; an orphan whose grandparent is not init takes     *)
(* four.                                                                   *)
EXTENDS TaskLife
=============================================================================
