-------------------------- MODULE SingleRingDuplex --------------------------
(***************************************************************************)
(* inter_process_comm/single_ring_full_duplex: the request-reply exchange  *)
(* over one ring that carries both directions.  A message names its        *)
(* destination; a process that dequeues a message for the other one puts   *)
(* it back.  Dequeue and put-back are two ring calls, so in between the    *)
(* message is in the hands of the process it is not meant for.  (src_id is *)
(* never read and is left out.)                                            *)
(***************************************************************************)
EXTENDS RteRing

CONSTANTS Requests,   \* requests the primary sends (10)
          RING_SIZE   \* size of the ring (1024)

ASSUME SingleRingAssumption == /\ Requests \in Nat
                               /\ RING_SIZE \in Nat \ {0, 1}

PROC_A == 1
PROC_B == 2

Message == [dst_id : {PROC_A, PROC_B}, type : {"REQ", "RESP", "EXIT"}, value : Nat]
NoMessage == [dst_id |-> 0, type |-> "NONE", value |-> 0]
Request(v) == [dst_id |-> PROC_B, type |-> "REQ", value |-> v]
Response(v) == [dst_id |-> PROC_A, type |-> "RESP", value |-> v]
ExitMessage == [dst_id |-> PROC_B, type |-> "EXIT", value |-> 0]

VARIABLES
  p_pc, i, r,         \* primary: where it is, loop counter, message in hand
  s_pc, m, resp,      \* secondary: where it is, message in hand, response it makes
  ring,
  created,            \* rte_ring_lookup finds the ring
  live,               \* blocks allocated and not yet freed
  received, handled   \* values printed as received by each process

primaryVars   == <<p_pc, i, r, received>>
secondaryVars == <<s_pc, m, resp, handled>>
vars == <<primaryVars, secondaryVars, ring, created, live>>

Init ==
  /\ p_pc = "create" /\ i = 0 /\ r = NoMessage /\ received = <<>>
  /\ s_pc = "lookup" /\ m = NoMessage /\ resp = NoMessage /\ handled = <<>>
  /\ ring = <<>>
  /\ created = FALSE
  /\ live = 0

\* The put-back and the exit message are enqueued without looking at the
\* result: on a full ring the message would be lost.
EnqueueOnce(msg) == ring' = IF Full(ring, RING_SIZE) THEN ring ELSE Append(ring, msg)

-----------------------------------------------------------------------------
(* primary.c *)

PrimaryCreate ==
  /\ p_pc = "create"
  /\ \/ p_pc' = "next" /\ created' = TRUE
     \/ p_pc' = "failed" /\ UNCHANGED created
  /\ UNCHANGED <<i, r, received, secondaryVars, ring, live>>

PrimaryAlloc ==
  /\ p_pc = "next"
  /\ i < Requests
  /\ live' = live + 1
  /\ r' = Request(i)
  /\ p_pc' = "send"
  /\ UNCHANGED <<i, received, secondaryVars, ring, created>>

PrimaryAllocExit ==
  /\ p_pc = "next"
  /\ i >= Requests
  /\ live' = live + 1
  /\ r' = ExitMessage
  /\ p_pc' = "exit"
  /\ UNCHANGED <<i, received, secondaryVars, ring, created>>

\* The primary goes on to the next request without waiting for the response.
PrimarySend_WithoutWaiting ==
  /\ p_pc = "send"
  /\ ~Full(ring, RING_SIZE)
  /\ ring' = Append(ring, r)
  /\ r' = NoMessage
  /\ i' = i + 1
  /\ p_pc' = "next"
  /\ UNCHANGED <<received, secondaryVars, created, live>>

PrimarySend ==
  /\ p_pc = "send"
  /\ ~Full(ring, RING_SIZE)
  /\ ring' = Append(ring, r)
  /\ r' = NoMessage
  /\ p_pc' = "await"
  /\ UNCHANGED <<i, received, secondaryVars, created, live>>

PrimaryDequeue ==
  /\ p_pc = "await"
  /\ ring # <<>>
  /\ r' = Head(ring)
  /\ ring' = Tail(ring)
  /\ p_pc' = "got"
  /\ UNCHANGED <<i, received, secondaryVars, created, live>>

\* A message for the other process is thrown away.
PrimaryPutBack_Discards ==
  /\ p_pc = "got"
  /\ r.dst_id # PROC_A
  /\ r' = NoMessage
  /\ live' = live - 1
  /\ p_pc' = "await"
  /\ UNCHANGED <<i, received, secondaryVars, ring, created>>

PrimaryPutBack ==
  /\ p_pc = "got"
  /\ r.dst_id # PROC_A
  /\ EnqueueOnce(r)
  /\ r' = NoMessage
  /\ p_pc' = "await"
  /\ UNCHANGED <<i, received, secondaryVars, created, live>>

\* The destination is not looked at: any message ends the wait.
PrimaryTake_IgnoresDestination ==
  /\ p_pc = "got"
  /\ received' = Append(received, r.value)
  /\ live' = live - 1
  /\ i' = i + 1
  /\ p_pc' = "next"
  /\ r' = NoMessage
  /\ UNCHANGED <<secondaryVars, ring, created>>

\* A response is printed and freed and ends the wait; a message for A of any
\* other type would be forgotten.
PrimaryTake ==
  /\ p_pc = "got"
  /\ r.dst_id = PROC_A
  /\ IF r.type = "RESP"
     THEN /\ received' = Append(received, r.value)
          /\ live' = live - 1
          /\ i' = i + 1
          /\ p_pc' = "next"
     ELSE p_pc' = "await" /\ UNCHANGED <<received, live, i>>
  /\ r' = NoMessage
  /\ UNCHANGED <<secondaryVars, ring, created>>

PrimaryExit ==
  /\ p_pc = "exit"
  /\ EnqueueOnce(r)
  /\ r' = NoMessage
  /\ p_pc' = "done"
  /\ UNCHANGED <<i, received, secondaryVars, created, live>>

-----------------------------------------------------------------------------
(* secondary.c *)

SecondaryLookup ==
  /\ s_pc = "lookup"
  /\ created
  /\ s_pc' = "poll"
  /\ UNCHANGED <<primaryVars, m, resp, handled, ring, created, live>>

SecondaryDequeue ==
  /\ s_pc = "poll"
  /\ ring # <<>>
  /\ m' = Head(ring)
  /\ ring' = Tail(ring)
  /\ s_pc' = "got"
  /\ UNCHANGED <<primaryVars, resp, handled, created, live>>

SecondaryPutBack ==
  /\ s_pc = "got"
  /\ m.dst_id # PROC_B
  /\ EnqueueOnce(m)
  /\ m' = NoMessage
  /\ s_pc' = "poll"
  /\ UNCHANGED <<primaryVars, resp, handled, created, live>>

SecondaryExit ==
  /\ s_pc = "got"
  /\ m.dst_id = PROC_B
  /\ m.type = "EXIT"
  /\ live' = live - 1
  /\ m' = NoMessage
  /\ s_pc' = "exited"
  /\ UNCHANGED <<primaryVars, resp, handled, ring, created>>

\* The response's block is allocated and filled while the request's is still
\* in use.
SecondaryServe ==
  /\ s_pc = "got"
  /\ m.dst_id = PROC_B
  /\ m.type = "REQ"
  /\ handled' = Append(handled, m.value)
  /\ live' = live + 1
  /\ resp' = Response(m.value * 10)
  /\ s_pc' = "free"
  /\ UNCHANGED <<primaryVars, m, ring, created>>

SecondaryFree ==
  /\ s_pc = "free"
  /\ live' = live - 1
  /\ m' = NoMessage
  /\ s_pc' = "reply"
  /\ UNCHANGED <<primaryVars, resp, handled, ring, created>>

SecondaryReply ==
  /\ s_pc = "reply"
  /\ ~Full(ring, RING_SIZE)
  /\ ring' = Append(ring, resp)
  /\ resp' = NoMessage
  /\ s_pc' = "poll"
  /\ UNCHANGED <<primaryVars, m, handled, created, live>>

-----------------------------------------------------------------------------
Primary   == PrimaryCreate \/ PrimaryAlloc \/ PrimarySend \/ PrimaryDequeue
               \/ PrimaryPutBack \/ PrimaryTake \/ PrimaryAllocExit \/ PrimaryExit
Secondary == SecondaryLookup \/ SecondaryDequeue \/ SecondaryPutBack
               \/ SecondaryExit \/ SecondaryServe \/ SecondaryFree \/ SecondaryReply

\* Both have returned, or the secondary polls for a ring nobody creates.
Over  == (p_pc = "done" /\ s_pc = "exited") \/ p_pc = "failed"
Ended == Over /\ UNCHANGED vars

Next == Primary \/ Secondary \/ Ended

Spec == Init /\ [][Next]_vars

\* Both processes keep running.  Nothing makes the right one find the message
\* in the ring while the other one takes it and puts it back again and again.
FairSpec == Spec /\ WF_vars(Primary) /\ WF_vars(Secondary)

-----------------------------------------------------------------------------
(* Properties *)

\* Types and loop bounds.
TypeOK ==
  /\ p_pc \in {"create", "next", "send", "await", "got", "exit", "done", "failed"}
  /\ s_pc \in {"lookup", "poll", "got", "free", "reply", "exited"}
  /\ i \in Nat
  /\ {r, m, resp} \subseteq Message \union {NoMessage}
  /\ ring \in Seq(Message)
  /\ created \in BOOLEAN
  /\ live \in Nat
  /\ received \in Seq(Nat) /\ handled \in Seq(Nat)

InHand(x) == IF x = NoMessage THEN 0 ELSE 1
Messages == Len(ring) + InHand(r) + InHand(m) + InHand(resp)

\* One message at most exists, in the ring or in one process's hands, except
\* that the secondary makes the response before it frees the request.  So a
\* put-back, whose result neither process checks, never meets a full ring
\* and never loses the other process's message; nor does the exit message.
\* The blocks in use are exactly the messages, put-backs included; at the end
\* none is in use.
OneMessage == /\ Messages <= IF m # NoMessage /\ resp # NoMessage THEN 2 ELSE 1
              /\ live = Messages
              /\ p_pc = "done" /\ s_pc = "exited" => live = 0

\* Whatever does not end is an endless series of put-backs (primary.c:46,
\* secondary.c:29): one process dequeues the other's message again and again
\* and returns it, and the other one finds the ring empty each time it looks.
\* The code does not exclude that; in every other case all requests are
\* answered and both processes return.
OnlyPutBacksDelay == \/ <>Over
                     \/ []<><<PrimaryPutBack>>_vars
                     \/ []<><<SecondaryPutBack>>_vars

Abstract == INSTANCE RequestReply WITH
              asked   <- IF p_pc \in {"await", "got"} THEN i + 1 ELSE i,
              served  <- handled,
              answers <- received,
              left    <- (s_pc = "exited")

\* The shared ring changes nothing for the users: this program implements
\* the same request-reply specification as the one with two rings.
ImplementsRequestReply == Abstract!Spec
=============================================================================
