----------------------------- MODULE BlockStore -----------------------------
(* What the buffer cache promises its callers: between bread and brelse a  *)
(* thread has a block to itself, and finds in it what the last thread left *)
(* there. What is written with bwrite stays; a change that is not written  *)
(* may be forgotten whenever nobody uses the block, and the block is again *)
(* what the disk holds.                                                    *)
CONSTANTS Thread, Block, Val

VARIABLES
    content,  \* of each block, on the disk
    view,     \* what a user of the block sees
    using     \* the blocks each thread has

vars == <<content, view, using>>

Init ==
    /\ content \in [Block -> Val]
    /\ view = content
    /\ using = [t \in Thread |-> {}]

Free(k) == \A t \in Thread : k \notin using[t]

Get(t, k) ==
    /\ Free(k)
    /\ using' = [using EXCEPT ![t] = @ \cup {k}]
    /\ UNCHANGED <<content, view>>

Change(t, k, v) ==
    /\ k \in using[t]
    /\ view' = [view EXCEPT ![k] = v]
    /\ UNCHANGED <<content, using>>

Save(t, k) ==
    /\ k \in using[t]
    /\ content' = [content EXCEPT ![k] = view[k]]
    /\ UNCHANGED <<view, using>>

Put(t, k) ==
    /\ k \in using[t]
    /\ using' = [using EXCEPT ![t] = @ \ {k}]
    /\ UNCHANGED <<content, view>>

Forget(k) ==
    /\ Free(k)
    /\ view' = [view EXCEPT ![k] = content[k]]
    /\ UNCHANGED <<content, using>>

Next ==
    \E k \in Block :
        \/ Forget(k)
        \/ \E t \in Thread :
              \/ Get(t, k) \/ Save(t, k) \/ Put(t, k)
              \/ \E v \in Val : Change(t, k, v)

Spec == Init /\ [][Next]_vars
=============================================================================
