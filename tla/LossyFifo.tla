----------------------------- MODULE LossyFifo -----------------------------
(***************************************************************************)
(* What a packet pipeline promises: packets are numbered as they arrive,   *)
(* some of them may be lost on the way, none is duplicated, invented or    *)
(* overtaken.                                                              *)
(***************************************************************************)
EXTENDS Naturals, Sequences, Functions

CONSTANT MaxBurst     \* most packets one receive call can return

VARIABLES accepted,   \* number of packets taken from the wire so far
          inside,     \* packets in the pipeline, oldest first
          delivered   \* packets handed back to the wire, oldest first

vars == <<accepted, inside, delivered>>

Init == /\ accepted = 0
        /\ inside = <<>>
        /\ delivered = <<>>

Ascending(s) == \A j, k \in DOMAIN s : j < k => s[j] < s[k]

\* A burst of new packets enters at the back.
Accept == \E n \in 1..MaxBurst :
            /\ accepted' = accepted + n
            /\ inside' = inside \o [i \in 1..n |-> accepted + i]
            /\ UNCHANGED delivered

\* A front segment reaches the wire in order, and of the packets behind it
\* some may be lost; the others keep their order.
Advance == \E n \in 0..Len(inside) :
             /\ delivered' = delivered \o SubSeq(inside, 1, n)
             /\ Range(inside') \subseteq Range(SubSeq(inside, n + 1, Len(inside)))
             /\ Ascending(inside')
             /\ UNCHANGED accepted

Next == Accept \/ Advance

Spec == Init /\ [][Next]_vars
=============================================================================
