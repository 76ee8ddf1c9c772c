-------------------------------- MODULE Fifo --------------------------------
(***************************************************************************)
(* What queue.h promises of a queue: a linearizable FIFO.  Every value is  *)
(* delivered once and in the order it was pushed, and one call of pop_bulk *)
(* takes the oldest values, all of them unless the caller's buffer is      *)
(* smaller.  The n-th value pushed is n.                                   *)
(***************************************************************************)
EXTENDS Naturals, Sequences

CONSTANTS
    Room,     \* values the queue can hold
    Lens      \* sizes of a caller's buffer

VARIABLES
    q,        \* what is in the queue, oldest first
    out       \* what has been taken out

Init == q = <<>> /\ out = <<>>

Push ==
    /\ Len(q) < Room
    /\ q' = Append(q, Len(out) + Len(q) + 1)
    /\ UNCHANGED out

Pop(len) ==
    LET n == IF Len(q) > len THEN len ELSE Len(q) IN
    /\ out' = out \o SubSeq(q, 1, n)
    /\ q' = SubSeq(q, n + 1, Len(q))

Next == Push \/ \E len \in Lens : Pop(len)

Spec == Init /\ [][Next]_<<q, out>>

=============================================================================
