------------------------------ MODULE MCStreams ------------------------------
(* The two byte streams of the kernel, each by itself. A pipe of two       *)
(* bytes, reads and writes of up to three: writes block half-way, copies   *)
(* wrap, and so do the counters, after two turns. A console with a line of *)
(* two bytes, in three sessions: four keys and two readers, a key typed    *)
(* while two tasks write, and two writes of each of them. The view leaves  *)
(* out bytes that have been read from buf or written from usrc: nobody     *)
(* looks at them again.                                                    *)
EXTENDS Pipe, Console, SequencesExt

VARIABLE which

MCSession ==
    {[keys |-> 4, reads |-> 1, writes |-> 0],
     [keys |-> 1, reads |-> 0, writes |-> 1],
     [keys |-> 0, reads |-> 0, writes |-> 2]}

(* A console that has been overrun goes no further.                        *)
Overrun == which = "console" /\ Wild /\ UNCHANGED <<which, vars, cvars>>

StreamsInit == which \in {"pipe", "console"} /\ Init /\ CInit /\ (which = "pipe" => keys = 0)
StreamsNext ==
    \/ which = "pipe" /\ Next /\ UNCHANGED <<which, cvars>>
    \/ which = "console" /\ CNext /\ UNCHANGED <<which, vars>>
    \/ Overrun
StreamsSpec == StreamsInit /\ [][StreamsNext]_<<which, vars, cvars>>

Symmetry == Permutations(Reader) \cup Permutations(Writer)
View == <<which, lock, nread, nwrite, Contents, pc, rvars, Rest, cvars>>
=============================================================================
