--------------------------- MODULE ReadyHandshake ---------------------------
(***************************************************************************)
(* inter_process_comm/Multi_Process_Messaging.  The primary creates        *)
(* DATA_RING and sends "ready_check" messages until a "ready_reply" has    *)
(* come back; then it enqueues the numbers 0 .. Numbers - 1 once each and  *)
(* returns.  The secondary registers a callback that answers every check,  *)
(* polls for the ring and consumes it for ever.                            *)
(*                                                                         *)
(* Callbacks run in the message thread of each process.  The message       *)
(* service (not in the repository) drops a message for which the receiver  *)
(* has no handler yet, or whose receiver is not there; a send to a full    *)
(* socket fails.  Nobody checks the result of a send, nor whether the      *)
(* registration of a callback succeeded.                                   *)
(***************************************************************************)
EXTENDS RteRing

CONSTANTS Numbers,      \* numbers sent through the ring (5)
          RING_SIZE,    \* size of DATA_RING (32)
          SocketDepth   \* bound: messages a socket holds

ASSUME HandshakeAssumption == /\ Numbers \in Nat
                              /\ RING_SIZE \in Nat \ {0}
                              /\ SocketDepth \in Nat \ {0}

VARIABLES
  p_pc, i, secondary_ready, ready_reply_registered,
  s_pc, ready_check_registered,
  created,             \* DATA_RING exists
  ring,
  checks, replies,     \* messages on their way to the secondary, the primary
  received,            \* numbers the secondary printed
  lost                 \* numbers whose enqueue failed

primaryVars   == <<p_pc, i, secondary_ready, ready_reply_registered, created>>
secondaryVars == <<s_pc, ready_check_registered, received>>
messages      == <<checks, replies>>
vars == <<primaryVars, secondaryVars, messages, ring, lost>>

Init ==
  /\ p_pc = "init" /\ i = 0 /\ created = FALSE
  /\ secondary_ready = FALSE /\ ready_reply_registered = FALSE
  /\ s_pc = "absent" /\ ready_check_registered = FALSE /\ received = <<>>
  /\ checks = 0 /\ replies = 0
  /\ ring = <<>>
  /\ lost = <<>>

-----------------------------------------------------------------------------
(* primary.c *)

\* Ring created, callback registered if that succeeds; the primary has a
\* message socket from rte_eal_init on, and no check has been sent yet, so no
\* reply is early.
PrimarySetup ==
  /\ p_pc = "init"
  /\ \/ p_pc' = "check" /\ created' = TRUE /\ ready_reply_registered' \in BOOLEAN
     \/ p_pc' = "failed" /\ UNCHANGED <<created, ready_reply_registered>>
  /\ UNCHANGED <<i, secondary_ready, secondaryVars, messages, ring, lost>>

\* A check reaches the socket of a secondary that is there and has room.
Delivered == IF s_pc \notin {"absent", "exited"} /\ checks < SocketDepth THEN checks + 1 ELSE checks

\* A single check is sent, as if none could be lost.
PrimarySendCheck_Once ==
  /\ p_pc = "check"
  /\ ~secondary_ready
  /\ checks' = Delivered
  /\ p_pc' = "wait"
  /\ UNCHANGED <<i, secondary_ready, ready_reply_registered, created, secondaryVars, replies, ring, lost>>

PrimarySendCheck ==
  /\ p_pc = "check"
  /\ ~secondary_ready
  /\ checks' = Delivered
  /\ UNCHANGED <<primaryVars, secondaryVars, replies, ring, lost>>

\* Both waiting loops end on the flag; the second finds it set already.
PrimaryIsReady ==
  /\ p_pc \in {"check", "wait"}
  /\ secondary_ready
  /\ p_pc' = IF p_pc = "check" THEN "wait" ELSE "send"
  /\ UNCHANGED <<i, secondary_ready, ready_reply_registered, created, secondaryVars, messages, ring, lost>>

\* A reply without a registered callback is dropped.
PrimaryReadyCallback ==
  /\ replies > 0
  /\ p_pc # "done"
  /\ replies' = replies - 1
  /\ secondary_ready' = (secondary_ready \/ ready_reply_registered)
  /\ UNCHANGED <<p_pc, i, ready_reply_registered, created, secondaryVars, checks, ring, lost>>

\* A number is enqueued; whether the ring took it is not looked at.
PrimarySendNumber ==
  /\ p_pc = "send"
  /\ i < Numbers
  /\ IF Full(ring, RING_SIZE)
     THEN lost' = Append(lost, i) /\ UNCHANGED ring
     ELSE ring' = Append(ring, i) /\ UNCHANGED lost
  /\ i' = i + 1
  /\ UNCHANGED <<p_pc, secondary_ready, ready_reply_registered, created, secondaryVars, messages>>

\* main returns: replies still on their way reach nobody.
PrimaryReturn ==
  /\ p_pc = "send"
  /\ i >= Numbers
  /\ p_pc' = "done"
  /\ replies' = 0
  /\ UNCHANGED <<i, secondary_ready, ready_reply_registered, created, secondaryVars, checks, ring, lost>>

-----------------------------------------------------------------------------
(* secondary.c *)

\* The result of rte_eal_init is not looked at; a process that is no secondary
\* leaves.
SecondaryStart ==
  /\ s_pc = "absent"
  /\ s_pc' \in {"register", "exited"}
  /\ UNCHANGED <<primaryVars, ready_check_registered, received, messages, ring, lost>>

SecondaryRegister ==
  /\ s_pc = "register"
  /\ ready_check_registered' \in BOOLEAN
  /\ s_pc' = "lookup"
  /\ UNCHANGED <<primaryVars, received, messages, ring, lost>>

SecondaryLookup ==
  /\ s_pc = "lookup"
  /\ created
  /\ s_pc' = "consume"
  /\ UNCHANGED <<primaryVars, ready_check_registered, received, messages, ring, lost>>

SecondaryCheckCallback ==
  /\ checks > 0
  /\ checks' = checks - 1
  /\ replies' = IF ready_check_registered /\ p_pc # "done" /\ replies < SocketDepth
                THEN replies + 1 ELSE replies
  /\ UNCHANGED <<primaryVars, secondaryVars, ring, lost>>

\* The most recent number is taken first.
SecondaryConsume_NewestFirst ==
  /\ s_pc = "consume"
  /\ ring # <<>>
  /\ received' = Append(received, ring[Len(ring)])
  /\ ring' = Taken(ring, Len(ring) - 1)
  /\ UNCHANGED <<primaryVars, s_pc, ready_check_registered, messages, lost>>

SecondaryConsume ==
  /\ s_pc = "consume"
  /\ ring # <<>>
  /\ received' = Append(received, Head(ring))
  /\ ring' = Tail(ring)
  /\ UNCHANGED <<primaryVars, s_pc, ready_check_registered, messages, lost>>

-----------------------------------------------------------------------------
Primary   == PrimarySetup \/ PrimarySendCheck \/ PrimaryIsReady \/ PrimarySendNumber
               \/ PrimaryReturn
Secondary == SecondaryStart \/ SecondaryRegister \/ SecondaryLookup \/ SecondaryConsume

\* The secondary polls for ever when there is nothing left to do.
Idle == /\ p_pc \in {"done", "failed"} /\ checks = 0
        /\ UNCHANGED vars

Next == Primary \/ Secondary \/ PrimaryReadyCallback \/ SecondaryCheckCallback \/ Idle

Spec == Init /\ [][Next]_vars

\* Both mains and both message threads run; a secondary is started.
FairSpec == /\ Spec
            /\ WF_vars(Primary) /\ WF_vars(Secondary)
            /\ WF_vars(PrimaryReadyCallback) /\ WF_vars(SecondaryCheckCallback)

-----------------------------------------------------------------------------
(* Properties *)

\* Types and loop bounds.
TypeOK ==
  /\ p_pc \in {"init", "check", "wait", "send", "done", "failed"}
  /\ s_pc \in {"absent", "register", "lookup", "consume", "exited"}
  /\ i \in Nat /\ i <= Numbers
  /\ secondary_ready \in BOOLEAN /\ created \in BOOLEAN
  /\ ready_reply_registered \in BOOLEAN /\ ready_check_registered \in BOOLEAN
  /\ checks \in 0..SocketDepth /\ replies \in 0..SocketDepth
  /\ ring \in Seq(Nat) /\ received \in Seq(Nat) /\ lost \in Seq(Nat)

\* No number enters the ring before both callbacks are registered: dropped
\* checks, duplicate checks, late replies and failed registrations change
\* nothing about it.
\* A ring with room for all the numbers loses none, however late the
\* secondary finds it, and they are consumed in order (32 > 5 in the code).
DeliveredInOrder ==
  /\ i > 0 => ready_check_registered /\ ready_reply_registered
  /\ Numbers < RING_SIZE => received \o ring = [k \in 1..i |-> k - 1]

\* A registration failed unnoticed, or the second process is no secondary:
\* no check is ever answered.
HandshakeImpossible ==
  \/ p_pc = "check" /\ ~ready_reply_registered
  \/ s_pc \in {"lookup", "consume"} /\ ~ready_check_registered
  \/ s_pc = "exited"

\* The handshake completes although early checks are dropped, and then every
\* number is consumed, unless one side has no callback.
AllConsumed ==
  (p_pc = "check") ~> (Len(received) + Len(lost) = Numbers \/ HandshakeImpossible)
=============================================================================
