------------------------------ MODULE MCBCache ------------------------------
(* Three threads, two buffers and three blocks: buffers are shared, waited *)
(* for and recycled, and the cache can be exhausted.                       *)
EXTENDS BCache, TLC

Symmetry == Permutations(Thread) \cup Permutations(Buf) \cup Permutations(Block)
=============================================================================
