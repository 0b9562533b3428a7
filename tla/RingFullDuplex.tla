--------------------------- MODULE RingFullDuplex ---------------------------
(***************************************************************************)
(* inter_process_comm/ring_full_duplex: a primary process creates the rings*)
(* a_to_b and b_to_a, sends Requests numbers through the first, waits for  *)
(* each answer on the second, and finally sends -1; a secondary process    *)
(* polls for both rings, answers every number v with 10 * v and leaves     *)
(* when it meets -1.  Messages live in memory shared by both processes:    *)
(* rte_malloc in one, rte_free in the other.                               *)
(*                                                                         *)
(* A step is one ring call with the private work around it.  A poll that   *)
(* finds nothing, or an enqueue that is retried, changes nothing and is a  *)
(* stuttering step.                                                        *)
(***************************************************************************)
EXTENDS RteRing, Integers

CONSTANTS Requests,   \* numbers the primary sends (10)
          RING_SIZE   \* size of both rings (1024)

ASSUME DuplexAssumption == /\ Requests \in Nat
                           /\ RING_SIZE \in Nat \ {0, 1}

VARIABLES
  p_pc, i,            \* primary: where it is, its loop counter
  s_pc, reply,        \* secondary: where it is, the reply it holds
  ring1, ring2,       \* contents of a_to_b and b_to_a
  named,              \* names rte_ring_lookup can find
  live,               \* blocks allocated and not yet freed
  received,           \* what the primary printed as received
  handled             \* what the secondary printed as received

primaryVars   == <<p_pc, i, received>>
secondaryVars == <<s_pc, reply, handled>>
vars == <<primaryVars, secondaryVars, ring1, ring2, named, live>>

STOP == -1

Init ==
  /\ p_pc = "create1" /\ i = 0 /\ received = <<>>
  /\ s_pc = "init" /\ reply = 0 /\ handled = <<>>
  /\ ring1 = <<>> /\ ring2 = <<>>
  /\ named = {}
  /\ live = 0

-----------------------------------------------------------------------------
(* primary.c *)

PrimaryCreateRing1 ==
  /\ p_pc = "create1"
  /\ p_pc' = "create2"
  /\ named' = named \union {"a_to_b"}
  /\ UNCHANGED <<i, received, secondaryVars, ring1, ring2, live>>

PrimaryCreateRing2 ==
  /\ p_pc = "create2"
  /\ p_pc' = "next"
  /\ named' = named \union {"b_to_a"}
  /\ UNCHANGED <<i, received, secondaryVars, ring1, ring2, live>>

\* rte_eal_init failed or rte_ring_create returned NULL: rte_exit.
PrimaryCreateFails ==
  /\ p_pc \in {"create1", "create2"}
  /\ p_pc' = "failed"
  /\ UNCHANGED <<i, received, secondaryVars, ring1, ring2, named, live>>

\* rte_malloc of the next number's block.
PrimaryAlloc ==
  /\ p_pc = "next"
  /\ i < Requests
  /\ live' = live + 1
  /\ p_pc' = "send"
  /\ UNCHANGED <<i, received, secondaryVars, ring1, ring2, named>>

\* The loop has ended: rte_malloc of the stop message's block.
PrimaryAllocStop ==
  /\ p_pc = "next"
  /\ i >= Requests
  /\ live' = live + 1
  /\ p_pc' = "stop"
  /\ UNCHANGED <<i, received, secondaryVars, ring1, ring2, named>>

\* The primary goes on to the next number without waiting for the answer.
PrimarySend_WithoutWaiting ==
  /\ p_pc = "send"
  /\ ~Full(ring1, RING_SIZE)
  /\ ring1' = Append(ring1, i)
  /\ i' = i + 1
  /\ p_pc' = "next"
  /\ UNCHANGED <<received, secondaryVars, ring2, named, live>>

\* The enqueue that succeeds; failed ones are retried.
PrimarySend ==
  /\ p_pc = "send"
  /\ ~Full(ring1, RING_SIZE)
  /\ ring1' = Append(ring1, i)
  /\ p_pc' = "await"
  /\ UNCHANGED <<i, received, secondaryVars, ring2, named, live>>

PrimaryReceive ==
  /\ p_pc = "await"
  /\ ring2 # <<>>
  /\ ring2' = Tail(ring2)
  /\ received' = Append(received, Head(ring2))
  /\ p_pc' = "free"
  /\ UNCHANGED <<i, secondaryVars, ring1, named, live>>

PrimaryFree ==
  /\ p_pc = "free"
  /\ live' = live - 1
  /\ i' = i + 1
  /\ p_pc' = "next"
  /\ UNCHANGED <<received, secondaryVars, ring1, ring2, named>>

\* The primary leaves without sending the stop message.
PrimaryStop_Silently ==
  /\ p_pc = "stop"
  /\ p_pc' = "done"
  /\ UNCHANGED <<i, received, secondaryVars, ring1, ring2, named, live>>

\* The stop message is enqueued once and the result ignored: on a full ring
\* it would be lost.
PrimaryStop ==
  /\ p_pc = "stop"
  /\ ring1' = IF Full(ring1, RING_SIZE) THEN ring1 ELSE Append(ring1, STOP)
  /\ p_pc' = "done"
  /\ UNCHANGED <<i, received, secondaryVars, ring2, named, live>>

-----------------------------------------------------------------------------
(* secondary.c *)

\* rte_eal_init; when it fails the process leaves.
SecondaryInit ==
  /\ s_pc = "init"
  /\ s_pc' \in {"lookup1", "failed"}
  /\ UNCHANGED <<primaryVars, reply, handled, ring1, ring2, named, live>>

SecondaryLookup ==
  /\ \/ s_pc = "lookup1" /\ "a_to_b" \in named /\ s_pc' = "lookup2"
     \/ s_pc = "lookup2" /\ "b_to_a" \in named /\ s_pc' = "poll"
  /\ UNCHANGED <<primaryVars, reply, handled, ring1, ring2, named, live>>

\* Any message but the stop message is a request.
SecondaryRequest ==
  /\ s_pc = "poll"
  /\ ring1 # <<>>
  /\ Head(ring1) # STOP
  /\ ring1' = Tail(ring1)
  /\ handled' = Append(handled, Head(ring1))
  /\ s_pc' = "compute"
  /\ UNCHANGED <<primaryVars, reply, ring2, named, live>>

\* The number itself is sent back.
SecondaryCompute_Echo ==
  /\ s_pc = "compute"
  /\ reply' = handled[Len(handled)]
  /\ s_pc' = "reply"
  /\ UNCHANGED <<primaryVars, handled, ring1, ring2, named, live>>

\* The request's block is freed, the reply's allocated and filled.
SecondaryCompute ==
  /\ s_pc = "compute"
  /\ reply' = handled[Len(handled)] * 10
  /\ s_pc' = "reply"
  /\ UNCHANGED <<primaryVars, handled, ring1, ring2, named, live>>

SecondaryReply ==
  /\ s_pc = "reply"
  /\ ~Full(ring2, RING_SIZE)
  /\ ring2' = Append(ring2, reply)
  /\ s_pc' = "poll"
  /\ UNCHANGED <<primaryVars, reply, handled, ring1, named, live>>

SecondaryStop ==
  /\ s_pc = "poll"
  /\ ring1 # <<>>
  /\ Head(ring1) = STOP
  /\ ring1' = Tail(ring1)
  /\ live' = live - 1
  /\ s_pc' = "exited"
  /\ UNCHANGED <<primaryVars, reply, handled, ring2, named>>

-----------------------------------------------------------------------------
Primary   == PrimaryCreateRing1 \/ PrimaryCreateRing2 \/ PrimaryCreateFails
               \/ PrimaryAlloc \/ PrimarySend \/ PrimaryReceive \/ PrimaryFree
               \/ PrimaryAllocStop \/ PrimaryStop
Secondary == SecondaryInit \/ SecondaryLookup \/ SecondaryRequest \/ SecondaryCompute
               \/ SecondaryReply \/ SecondaryStop

\* Both processes have returned, or one failed at its start and the other
\* polls for a ring, or for an answer, that will never come.
Over  == (p_pc = "done" /\ s_pc = "exited") \/ p_pc = "failed" \/ s_pc = "failed"
Ended == Over /\ UNCHANGED vars

Next == Primary \/ Secondary \/ Ended

Spec == Init /\ [][Next]_vars

\* Both processes poll in loops that never block.
FairSpec == Spec /\ WF_vars(Primary) /\ WF_vars(Secondary)

-----------------------------------------------------------------------------
(* Properties *)

\* Types and loop bounds.
TypeOK ==
  /\ p_pc \in {"create1", "create2", "next", "send", "await", "free", "stop", "done", "failed"}
  /\ s_pc \in {"init", "lookup1", "lookup2", "poll", "compute", "reply", "exited", "failed"}
  /\ i \in Nat /\ i <= Requests
  /\ reply \in Nat
  /\ ring1 \in Seq(Nat \union {STOP}) /\ ring2 \in Seq(Nat)
  /\ received \in Seq(Nat) /\ handled \in Seq(Nat)
  /\ named \subseteq {"a_to_b", "b_to_a"}
  /\ live \in Nat

HeldByPrimary   == IF p_pc \in {"send", "free", "stop"} THEN 1 ELSE 0
HeldBySecondary == IF s_pc \in {"compute", "reply"} THEN 1 ELSE 0
Messages == Len(ring1) + Len(ring2) + HeldByPrimary + HeldBySecondary

\* The conversation is a ping-pong: at most one message exists at a time, in
\* a ring or in the hands of a process.  That is why no enqueue ever meets a
\* full ring, and why the stop message, enqueued once without looking at the
\* result, is never lost.  Its block, allocated by one process and freed by
\* the other, is the only one in use: none leaks and none is freed twice, and
\* when both processes have left none is in use.
PingPong == /\ Messages <= 1
            /\ live = Messages
            /\ p_pc = "done" /\ s_pc = "exited" => live = 0

\* The run ends: neither process waits for the other for ever, unless that
\* one left at its start (no EAL, or a ring that could not be created).
BothFinish == <>Over

Abstract == INSTANCE RequestReply WITH
              asked   <- IF p_pc \in {"await", "free"} THEN i + 1 ELSE i,
              served  <- handled,
              answers <- received,
              left    <- (s_pc = "exited")

\* The two processes implement the request-reply specification: each number
\* is handled once, answered by ten times its value, in order, and the
\* secondary leaves only after the last answer was received.
ImplementsRequestReply == Abstract!Spec
=============================================================================
