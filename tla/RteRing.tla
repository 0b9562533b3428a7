------------------------------ MODULE RteRing ------------------------------
(***************************************************************************)
(* The rte_ring library as the sample applications use it.  The library is *)
(* not part of the repository, so these operators are read off the calls:  *)
(* a ring is a bounded FIFO of pointers, a ring created with a given size  *)
(* stores size - 1 of them, the single-object enqueue fails on a full ring *)
(* and leaves it alone, and the burst calls move as many objects as fit.   *)
(* Every call is linearizable (SP/SC flags are used with one producer and  *)
(* one consumer), so a call is a function of the ring's contents.          *)
(***************************************************************************)
EXTENDS Naturals, Sequences

\* Number of objects a ring created with `size` can hold.
Usable(size) == size - 1

\* Free slots of ring r.
Room(r, size) == Usable(size) - Len(r)

\* rte_ring_enqueue fails exactly when this holds.
Full(r, size) == Len(r) >= Usable(size)

Least(a, b) == IF a <= b THEN a ELSE b

\* The first n objects of s, and what is left of s without them.
Taken(s, n) == SubSeq(s, 1, n)
Rest(s, n)  == SubSeq(s, n + 1, Len(s))

\* How many objects rte_ring_dequeue_burst / rte_ring_enqueue_burst move.
DequeueCount(r, burst)    == Least(burst, Len(r))
EnqueueCount(r, n, size)  == Least(n, Room(r, size))

=============================================================================
