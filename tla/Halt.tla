-------------------------------- MODULE Halt --------------------------------
(* How the models of the system calls record that the kernel stopped: the  *)
(* call ends there, and nothing after it is done. halt is "no", or         *)
(*   "panic"      a call of panic or of the assertions                     *)
(*   "null"       a null pointer is used                                   *)
(*   "wild"       an index outside its array, or an unmapped address       *)
(*   "exhausted"  no page, slot or task is left                            *)
(* Then(k, Rest) goes on with the rest of a call after k.                  *)
(* odd is history: the uses of the code outside what it is written for.    *)
EXTENDS Integers

Halt(k, why) == [k EXCEPT !.halt = IF @ = "no" THEN why ELSE @]
Stopped(k) == k.halt # "no"
Then(k, Rest(_)) == IF Stopped(k) THEN k ELSE Rest(k)
Mark(k, use) == [k EXCEPT !.odd = @ \cup {use}]
=============================================================================
