-------------------------------- MODULE Fifo --------------------------------
(* What a pipe promises: a queue of at most Size bytes.  A write hands its *)
(* bytes over in order, a piece at a time when the queue fills up; a read  *)
(* takes bytes from the front.                                             *)
EXTENDS Integers, Sequences

CONSTANTS Reader, Writer, Byte, Size, MaxLen

VARIABLES
    q,    \* the bytes in the pipe
    rest, \* of each writer: the bytes of its write not yet handed over
    out   \* of each reader: the bytes its read has got so far

vars == <<q, rest, out>>

Message == UNION {[1 .. n -> Byte] : n \in 0 .. MaxLen}

Init ==
    /\ q = <<>>
    /\ rest = [w \in Writer |-> <<>>]
    /\ out = [r \in Reader |-> <<>>]

Write(w, m) ==
    /\ rest[w] = <<>>
    /\ rest' = [rest EXCEPT ![w] = m]
    /\ UNCHANGED <<q, out>>

Send(w, n) ==
    /\ Len(q) + n <= Size
    /\ q' = q \o SubSeq(rest[w], 1, n)
    /\ rest' = [rest EXCEPT ![w] = SubSeq(@, n + 1, Len(@))]
    /\ UNCHANGED out

Read(r) ==
    /\ out' = [out EXCEPT ![r] = <<>>]
    /\ UNCHANGED <<q, rest>>

Receive(r, n) ==
    /\ out' = [out EXCEPT ![r] = @ \o SubSeq(q, 1, n)]
    /\ q' = SubSeq(q, n + 1, Len(q))
    /\ UNCHANGED rest

Next ==
    \/ \E w \in Writer : \/ \E m \in Message : Write(w, m)
                         \/ \E n \in 1 .. Len(rest[w]) : Send(w, n)
    \/ \E r \in Reader : \/ Read(r)
                         \/ \E n \in 1 .. Len(q) : Receive(r, n)

Spec == Init /\ [][Next]_vars
=============================================================================
