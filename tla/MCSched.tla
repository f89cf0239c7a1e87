------------------------------ MODULE MCSched -------------------------------
EXTENDS Sched, TLC

Symmetry == Permutations(Cpu)
=============================================================================
