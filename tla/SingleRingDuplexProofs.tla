----------------------- MODULE SingleRingDuplexProofs -----------------------
(***************************************************************************)
(* Safety of the request-reply exchange over one shared ring for any number*)
(* of requests and any ring size, and that it implements RequestReply.     *)
(***************************************************************************)
EXTENDS SingleRingDuplex, TLAPS, SequenceTheorems

-----------------------------------------------------------------------------
(* Facts about a ring that holds one message at most *)

\* Enqueueing to an empty ring and dequeueing the only message of a ring.
LEMMA OneInRing ==
  ASSUME NEW v
  PROVE  /\ Append(<<>>, v) = <<v>> /\ Len(<<v>>) = 1 /\ <<v>> # <<>>
         /\ Head(<<v>>) = v /\ Tail(<<v>>) = <<>> /\ Len(<<>>) = 0
OBVIOUS

\* A ring that is known to hold one message.
LEMMA OnlyMessage ==
  ASSUME NEW s, NEW v, s = <<v>>
  PROVE  Head(s) = v /\ Tail(s) = <<>> /\ Len(s) = 1
<1>1. Head(<<v>>) = v /\ Tail(<<v>>) = <<>> /\ Len(<<v>>) = 1
  OBVIOUS
<1>. QED  BY <1>1, Zenon

\* The length of a ring that is known to hold nothing, or one message.
LEMMA LenOfRing ==
  ASSUME NEW s, NEW v
  PROVE  (s = <<>> => Len(s) = 0) /\ (s = <<v>> => Len(s) = 1)
BY OnlyMessage

\* A ring of at least two slots that is empty takes a message.
LEMMA EmptyNotFull == ~Full(<<>>, RING_SIZE)
BY SingleRingAssumption DEF Full, Usable

\* The messages of the exchange are messages, and differ from none at all.
LEMMA MessageTypes ==
  ASSUME NEW v \in Nat
  PROVE  /\ Request(v) \in Message /\ Response(v) \in Message /\ ExitMessage \in Message
         /\ Request(v) # NoMessage /\ Response(v) # NoMessage /\ ExitMessage # NoMessage
BY DEF Request, Response, ExitMessage, NoMessage, Message, PROC_A, PROC_B

\* What the two processes look at in a message.
LEMMA MessageFields ==
  ASSUME NEW v
  PROVE  /\ Request(v).dst_id = PROC_B /\ Request(v).type = "REQ" /\ Request(v).value = v
         /\ Response(v).dst_id = PROC_A /\ Response(v).type = "RESP" /\ Response(v).value = v
         /\ ExitMessage.dst_id = PROC_B /\ ExitMessage.type = "EXIT"
         /\ PROC_A # PROC_B
BY DEF Request, Response, ExitMessage, PROC_A, PROC_B

-----------------------------------------------------------------------------
(* The inductive invariant *)

SecondaryWaits == s_pc \in {"lookup", "poll"} /\ m = NoMessage /\ resp = NoMessage

\* Request i is on its way or with the secondary; or it has been served and
\* its response is made (the request's block still in use), ready, on its way,
\* or in the hands of the secondary, which dequeued its own response and will
\* put it back.
NotServed == Len(handled) = i
Served    == Len(handled) = i + 1 /\ handled[i + 1] = i

RequestInRing  == ring = <<Request(i)>> /\ SecondaryWaits /\ NotServed
RequestTaken   == ring = <<>> /\ s_pc = "got" /\ m = Request(i) /\ resp = NoMessage /\ NotServed
ResponseMade   == ring = <<>> /\ s_pc = "free" /\ m = Request(i) /\ resp = Response(10 * i) /\ Served
ResponseReady  == ring = <<>> /\ s_pc = "reply" /\ m = NoMessage /\ resp = Response(10 * i) /\ Served
ResponseInHand == ring = <<>> /\ s_pc = "got" /\ m = Response(10 * i) /\ resp = NoMessage /\ Served
ResponseInRing == ring = <<Response(10 * i)>> /\ SecondaryWaits /\ Served

\* Where the one message is, read off where the primary is.
Conversation ==
  /\ p_pc \in {"create", "failed", "next"} =>
       ring = <<>> /\ r = NoMessage /\ SecondaryWaits /\ NotServed /\ Len(received) = i
  /\ p_pc = "send" =>
       ring = <<>> /\ r = Request(i) /\ SecondaryWaits /\ NotServed /\ Len(received) = i
  /\ p_pc = "await" =>
       /\ r = NoMessage /\ Len(received) = i
       /\ \/ RequestInRing \/ RequestTaken \/ ResponseMade
          \/ ResponseReady \/ ResponseInHand \/ ResponseInRing
  /\ p_pc = "got" =>
       /\ ring = <<>> /\ SecondaryWaits /\ Len(received) = i
       /\ (r = Request(i) /\ NotServed) \/ (r = Response(10 * i) /\ Served)
  /\ p_pc = "exit" =>
       ring = <<>> /\ r = ExitMessage /\ SecondaryWaits /\ NotServed /\ Len(received) = i
  /\ p_pc = "done" =>
       /\ r = NoMessage /\ NotServed /\ Len(received) = i
       /\ \/ ring = <<ExitMessage>> /\ SecondaryWaits
          \/ ring = <<>> /\ s_pc = "got" /\ m = ExitMessage /\ resp = NoMessage
          \/ ring = <<>> /\ s_pc = "exited" /\ m = NoMessage /\ resp = NoMessage

\* How far the primary's loop has come.
Progress == /\ i <= Requests
            /\ p_pc \in {"send", "await", "got"} => i < Requests
            /\ p_pc \in {"exit", "done"} => i = Requests

\* One block is in use from the allocation of a message to its end, and a
\* second one while the secondary has both the request and its response.
BlocksInUse ==
  live = IF p_pc \in {"create", "failed", "next"} \/ s_pc = "exited" THEN 0
         ELSE IF s_pc = "free" THEN 2 ELSE 1

SingleRingInv == TypeOK /\ Conversation /\ Progress /\ BlocksInUse

\* Nothing has been sent yet.
LEMMA InitInv == Init => SingleRingInv
<1> SUFFICES ASSUME Init PROVE SingleRingInv
  OBVIOUS
<1>1. TypeOK
  <2>1. created \in BOOLEAN /\ NoMessage \in Message \union {NoMessage}
    BY DEF Init
  <2>. QED  BY <2>1 DEF Init, TypeOK
<1>2. Conversation /\ Progress
  BY SingleRingAssumption DEF Init, Conversation, Progress, SecondaryWaits, NotServed
<1>3. BlocksInUse
  BY DEF Init, BlocksInUse
<1>. QED  BY <1>1, <1>2, <1>3 DEF SingleRingInv

\* Every step of either process preserves the invariant.
LEMMA NextInv == SingleRingInv /\ [Next]_vars => SingleRingInv'
<1> SUFFICES ASSUME SingleRingInv, [Next]_vars PROVE SingleRingInv'
  OBVIOUS
<1>0. TypeOK /\ Conversation /\ Progress /\ BlocksInUse
  BY DEF SingleRingInv
<1>m. /\ i \in Nat /\ 10 * i \in Nat
      /\ Request(i) \in Message /\ Response(10 * i) \in Message /\ ExitMessage \in Message
      /\ Request(i) # NoMessage /\ Response(10 * i) # NoMessage /\ ExitMessage # NoMessage
  BY <1>0, MessageTypes DEF TypeOK
<1>1. CASE PrimaryCreate
  <2>1. TypeOK'
    BY <1>0, <1>m, <1>1, OneInRing, EmptyNotFull, MessageFields DEF TypeOK, Conversation, BlocksInUse, SecondaryWaits, NotServed, Served,
       RequestInRing, RequestTaken, ResponseMade, ResponseReady, ResponseInHand, ResponseInRing, PrimaryCreate, secondaryVars
  <2>2. Conversation'
    BY <1>0, <1>m, <1>1, OneInRing, EmptyNotFull, MessageFields DEF TypeOK, Conversation, Progress, SecondaryWaits, NotServed, Served,
       RequestInRing, RequestTaken, ResponseMade, ResponseReady, ResponseInHand, ResponseInRing, PrimaryCreate, secondaryVars
  <2>3. Progress'
    BY <1>0, <1>m, <1>1, SingleRingAssumption DEF TypeOK, Progress, PrimaryCreate, secondaryVars
  <2>4. BlocksInUse'
    BY <1>0, <1>m, <1>1 DEF TypeOK, Conversation, BlocksInUse, SecondaryWaits, NotServed, Served,
       RequestInRing, RequestTaken, ResponseMade, ResponseReady, ResponseInHand, ResponseInRing, PrimaryCreate, secondaryVars
  <2>. QED  BY <2>1, <2>2, <2>3, <2>4 DEF SingleRingInv
<1>2. CASE PrimaryAlloc
  <2>1. TypeOK'
    BY <1>0, <1>m, <1>2, OneInRing, EmptyNotFull, MessageFields DEF TypeOK, Conversation, BlocksInUse, SecondaryWaits, NotServed, Served,
       RequestInRing, RequestTaken, ResponseMade, ResponseReady, ResponseInHand, ResponseInRing, PrimaryAlloc, secondaryVars
  <2>2. Conversation'
    BY <1>0, <1>m, <1>2, OneInRing, EmptyNotFull, MessageFields DEF TypeOK, Conversation, Progress, SecondaryWaits, NotServed, Served,
       RequestInRing, RequestTaken, ResponseMade, ResponseReady, ResponseInHand, ResponseInRing, PrimaryAlloc, secondaryVars
  <2>3. Progress'
    BY <1>0, <1>m, <1>2, SingleRingAssumption DEF TypeOK, Progress, PrimaryAlloc, secondaryVars
  <2>4. BlocksInUse'
    BY <1>0, <1>m, <1>2 DEF TypeOK, Conversation, BlocksInUse, SecondaryWaits, NotServed, Served,
       RequestInRing, RequestTaken, ResponseMade, ResponseReady, ResponseInHand, ResponseInRing, PrimaryAlloc, secondaryVars
  <2>. QED  BY <2>1, <2>2, <2>3, <2>4 DEF SingleRingInv
<1>3. CASE PrimarySend
  <2>1. TypeOK'
    BY <1>0, <1>m, <1>3, OneInRing, EmptyNotFull, MessageFields DEF TypeOK, Conversation, BlocksInUse, SecondaryWaits, NotServed, Served,
       RequestInRing, RequestTaken, ResponseMade, ResponseReady, ResponseInHand, ResponseInRing, PrimarySend, secondaryVars
  <2>2. Conversation'
    BY <1>0, <1>m, <1>3, OneInRing, EmptyNotFull, MessageFields DEF TypeOK, Conversation, Progress, SecondaryWaits, NotServed, Served,
       RequestInRing, RequestTaken, ResponseMade, ResponseReady, ResponseInHand, ResponseInRing, PrimarySend, secondaryVars
  <2>3. Progress'
    BY <1>0, <1>m, <1>3, SingleRingAssumption DEF TypeOK, Progress, PrimarySend, secondaryVars
  <2>4. BlocksInUse'
    BY <1>0, <1>m, <1>3 DEF TypeOK, Conversation, BlocksInUse, SecondaryWaits, NotServed, Served,
       RequestInRing, RequestTaken, ResponseMade, ResponseReady, ResponseInHand, ResponseInRing, PrimarySend, secondaryVars
  <2>. QED  BY <2>1, <2>2, <2>3, <2>4 DEF SingleRingInv
<1>4. CASE PrimaryDequeue
  <2>1. /\ p_pc = "await" /\ p_pc' = "got" /\ ring # <<>> /\ r' = Head(ring) /\ ring' = Tail(ring)
        /\ UNCHANGED <<i, received, s_pc, m, resp, handled, created, live>>
    BY <1>4 DEF PrimaryDequeue, secondaryVars
  <2>2. RequestInRing \/ ResponseInRing
    BY <1>0, <2>1 DEF Conversation, RequestTaken, ResponseMade, ResponseReady, ResponseInHand
  <2>3. /\ ring' = <<>>
        /\ (r' = Request(i) /\ NotServed) \/ (r' = Response(10 * i) /\ Served)
    <3>1. CASE RequestInRing
      <4>1. Head(ring) = Request(i) /\ Tail(ring) = <<>> /\ NotServed
        BY <3>1, OnlyMessage DEF RequestInRing
      <4>. QED  BY <2>1, <4>1, Zenon
    <3>2. CASE ResponseInRing
      <4>1. Head(ring) = Response(10 * i) /\ Tail(ring) = <<>> /\ Served
        BY <3>2, OnlyMessage DEF ResponseInRing
      <4>. QED  BY <2>1, <4>1, Zenon
    <3>. QED  BY <2>2, <3>1, <3>2
  <2>4. TypeOK'
    BY <1>0, <1>m, <2>1, <2>3 DEF TypeOK
  <2>5. SecondaryWaits /\ Len(received) = i
    BY <1>0, <2>1, <2>2 DEF Conversation, RequestInRing, ResponseInRing
  <2>6. Conversation'
    BY <2>1, <2>3, <2>5 DEF Conversation, SecondaryWaits, NotServed, Served
  <2>7. Progress' /\ BlocksInUse'
    BY <1>0, <2>1 DEF Progress, BlocksInUse
  <2>. QED  BY <2>4, <2>6, <2>7 DEF SingleRingInv
<1>5. CASE PrimaryPutBack
  <2>1. TypeOK'
    BY <1>0, <1>m, <1>5, OneInRing, EmptyNotFull, MessageFields DEF TypeOK, Conversation, BlocksInUse, SecondaryWaits, NotServed, Served,
       RequestInRing, RequestTaken, ResponseMade, ResponseReady, ResponseInHand, ResponseInRing, PrimaryPutBack, secondaryVars, EnqueueOnce
  <2>2. Conversation'
    BY <1>0, <1>m, <1>5, OneInRing, EmptyNotFull, MessageFields DEF TypeOK, Conversation, Progress, SecondaryWaits, NotServed, Served,
       RequestInRing, RequestTaken, ResponseMade, ResponseReady, ResponseInHand, ResponseInRing, PrimaryPutBack, secondaryVars, EnqueueOnce
  <2>3. Progress'
    BY <1>0, <1>m, <1>5, SingleRingAssumption DEF TypeOK, Progress, PrimaryPutBack, secondaryVars, EnqueueOnce
  <2>4. BlocksInUse'
    BY <1>0, <1>m, <1>5 DEF TypeOK, Conversation, BlocksInUse, SecondaryWaits, NotServed, Served,
       RequestInRing, RequestTaken, ResponseMade, ResponseReady, ResponseInHand, ResponseInRing, PrimaryPutBack, secondaryVars, EnqueueOnce
  <2>. QED  BY <2>1, <2>2, <2>3, <2>4 DEF SingleRingInv
<1>6. CASE PrimaryTake
  <2>1. p_pc = "got" /\ r.dst_id = PROC_A
    BY <1>6 DEF PrimaryTake
  <2>2. r = Response(10 * i) /\ Served
    BY <1>0, <2>1, MessageFields DEF Conversation
  <2>3. /\ received' = Append(received, 10 * i) /\ live' = live - 1 /\ i' = i + 1
        /\ p_pc' = "next" /\ r' = NoMessage
        /\ UNCHANGED <<s_pc, m, resp, handled, ring, created>>
    BY <1>6, <2>2, MessageFields DEF PrimaryTake, secondaryVars
  <2>4. ring = <<>> /\ SecondaryWaits /\ Len(received) = i
    BY <1>0, <2>1 DEF Conversation
  <2>5. live = 1 /\ live' = 0
    BY <1>0, <2>1, <2>3, <2>4 DEF BlocksInUse, SecondaryWaits
  <2>6. received' \in Seq(Nat) /\ Len(received') = i + 1
    BY <1>0, <1>m, <2>3, <2>4, AppendProperties DEF TypeOK
  <2>7. TypeOK'
    BY <1>0, <1>m, <2>3, <2>5, <2>6 DEF TypeOK
  <2>8. Conversation'
    BY <2>2, <2>3, <2>4, <2>6 DEF Conversation, SecondaryWaits, NotServed, Served
  <2>9. Progress' /\ BlocksInUse'
    BY <1>0, <1>m, <2>1, <2>3, <2>5, SingleRingAssumption DEF Progress, BlocksInUse
  <2>. QED  BY <2>7, <2>8, <2>9 DEF SingleRingInv
<1>7. CASE PrimaryAllocExit
  <2>1. TypeOK'
    BY <1>0, <1>m, <1>7, OneInRing, EmptyNotFull, MessageFields DEF TypeOK, Conversation, BlocksInUse, SecondaryWaits, NotServed, Served,
       RequestInRing, RequestTaken, ResponseMade, ResponseReady, ResponseInHand, ResponseInRing, PrimaryAllocExit, secondaryVars
  <2>2. Conversation'
    BY <1>0, <1>m, <1>7, OneInRing, EmptyNotFull, MessageFields DEF TypeOK, Conversation, Progress, SecondaryWaits, NotServed, Served,
       RequestInRing, RequestTaken, ResponseMade, ResponseReady, ResponseInHand, ResponseInRing, PrimaryAllocExit, secondaryVars
  <2>3. Progress'
    BY <1>0, <1>m, <1>7, SingleRingAssumption DEF TypeOK, Progress, PrimaryAllocExit, secondaryVars
  <2>4. BlocksInUse'
    BY <1>0, <1>m, <1>7 DEF TypeOK, Conversation, BlocksInUse, SecondaryWaits, NotServed, Served,
       RequestInRing, RequestTaken, ResponseMade, ResponseReady, ResponseInHand, ResponseInRing, PrimaryAllocExit, secondaryVars
  <2>. QED  BY <2>1, <2>2, <2>3, <2>4 DEF SingleRingInv
<1>8. CASE PrimaryExit
  <2>1. TypeOK'
    BY <1>0, <1>m, <1>8, OneInRing, EmptyNotFull, MessageFields DEF TypeOK, Conversation, BlocksInUse, SecondaryWaits, NotServed, Served,
       RequestInRing, RequestTaken, ResponseMade, ResponseReady, ResponseInHand, ResponseInRing, PrimaryExit, secondaryVars, EnqueueOnce
  <2>2. Conversation'
    BY <1>0, <1>m, <1>8, OneInRing, EmptyNotFull, MessageFields DEF TypeOK, Conversation, Progress, SecondaryWaits, NotServed, Served,
       RequestInRing, RequestTaken, ResponseMade, ResponseReady, ResponseInHand, ResponseInRing, PrimaryExit, secondaryVars, EnqueueOnce
  <2>3. Progress'
    BY <1>0, <1>m, <1>8, SingleRingAssumption DEF TypeOK, Progress, PrimaryExit, secondaryVars, EnqueueOnce
  <2>4. BlocksInUse'
    BY <1>0, <1>m, <1>8 DEF TypeOK, Conversation, BlocksInUse, SecondaryWaits, NotServed, Served,
       RequestInRing, RequestTaken, ResponseMade, ResponseReady, ResponseInHand, ResponseInRing, PrimaryExit, secondaryVars, EnqueueOnce
  <2>. QED  BY <2>1, <2>2, <2>3, <2>4 DEF SingleRingInv
<1>9. CASE SecondaryLookup
  <2>1. TypeOK'
    BY <1>0, <1>m, <1>9, OneInRing, EmptyNotFull, MessageFields DEF TypeOK, Conversation, BlocksInUse, SecondaryWaits, NotServed, Served,
       RequestInRing, RequestTaken, ResponseMade, ResponseReady, ResponseInHand, ResponseInRing, SecondaryLookup, primaryVars
  <2>2. Conversation'
    BY <1>0, <1>m, <1>9, OneInRing, EmptyNotFull, MessageFields DEF TypeOK, Conversation, Progress, SecondaryWaits, NotServed, Served,
       RequestInRing, RequestTaken, ResponseMade, ResponseReady, ResponseInHand, ResponseInRing, SecondaryLookup, primaryVars
  <2>3. Progress'
    BY <1>0, <1>m, <1>9, SingleRingAssumption DEF TypeOK, Progress, SecondaryLookup, primaryVars
  <2>4. BlocksInUse'
    BY <1>0, <1>m, <1>9 DEF TypeOK, Conversation, BlocksInUse, SecondaryWaits, NotServed, Served,
       RequestInRing, RequestTaken, ResponseMade, ResponseReady, ResponseInHand, ResponseInRing, SecondaryLookup, primaryVars
  <2>. QED  BY <2>1, <2>2, <2>3, <2>4 DEF SingleRingInv
<1>10. CASE SecondaryDequeue
  <2>1. TypeOK'
    BY <1>0, <1>m, <1>10, OneInRing, EmptyNotFull, MessageFields DEF TypeOK, Conversation, BlocksInUse, SecondaryWaits, NotServed, Served,
       RequestInRing, RequestTaken, ResponseMade, ResponseReady, ResponseInHand, ResponseInRing, SecondaryDequeue, primaryVars
  <2>2. Conversation'
    BY <1>0, <1>m, <1>10, OneInRing, EmptyNotFull, MessageFields DEF TypeOK, Conversation, Progress, SecondaryWaits, NotServed, Served,
       RequestInRing, RequestTaken, ResponseMade, ResponseReady, ResponseInHand, ResponseInRing, SecondaryDequeue, primaryVars
  <2>3. Progress'
    BY <1>0, <1>m, <1>10, SingleRingAssumption DEF TypeOK, Progress, SecondaryDequeue, primaryVars
  <2>4. BlocksInUse'
    BY <1>0, <1>m, <1>10 DEF TypeOK, Conversation, BlocksInUse, SecondaryWaits, NotServed, Served,
       RequestInRing, RequestTaken, ResponseMade, ResponseReady, ResponseInHand, ResponseInRing, SecondaryDequeue, primaryVars
  <2>. QED  BY <2>1, <2>2, <2>3, <2>4 DEF SingleRingInv
<1>11. CASE SecondaryPutBack
  <2>1. /\ s_pc = "got" /\ s_pc' = "poll" /\ m.dst_id # PROC_B /\ m' = NoMessage
        /\ UNCHANGED <<p_pc, i, r, resp, received, handled, created, live>>
    BY <1>11 DEF SecondaryPutBack, primaryVars
  <2>2. p_pc = "await" /\ ResponseInHand /\ r = NoMessage /\ Len(received) = i
    <3>1. p_pc = "await" /\ r = NoMessage /\ Len(received) = i
      BY <1>0, <2>1, MessageFields DEF TypeOK, Conversation, SecondaryWaits
    <3>2. RequestTaken \/ ResponseInHand
      BY <1>0, <2>1, <3>1 DEF Conversation, RequestInRing, ResponseMade, ResponseReady,
         ResponseInRing, SecondaryWaits
    <3>. QED  BY <2>1, <3>1, <3>2, MessageFields DEF RequestTaken
  <2>3. ring' = <<Response(10 * i)>>
    BY <1>11, <2>2, OneInRing, EmptyNotFull DEF SecondaryPutBack, EnqueueOnce, ResponseInHand
  <2>4. ring' \in Seq(Message)
    BY <1>m, <2>3
  <2>5. TypeOK'
    BY <1>0, <2>1, <2>4 DEF TypeOK
  <2>6. Conversation'
    BY <2>1, <2>2, <2>3 DEF Conversation, ResponseInHand, ResponseInRing, SecondaryWaits, Served
  <2>7. Progress' /\ BlocksInUse'
    BY <1>0, <2>1 DEF Progress, BlocksInUse
  <2>. QED  BY <2>5, <2>6, <2>7 DEF SingleRingInv
<1>12. CASE SecondaryExit
  <2>1. TypeOK'
    BY <1>0, <1>m, <1>12, OneInRing, EmptyNotFull, MessageFields DEF TypeOK, Conversation, BlocksInUse, SecondaryWaits, NotServed, Served,
       RequestInRing, RequestTaken, ResponseMade, ResponseReady, ResponseInHand, ResponseInRing, SecondaryExit, primaryVars
  <2>2. Conversation'
    BY <1>0, <1>m, <1>12, OneInRing, EmptyNotFull, MessageFields DEF TypeOK, Conversation, Progress, SecondaryWaits, NotServed, Served,
       RequestInRing, RequestTaken, ResponseMade, ResponseReady, ResponseInHand, ResponseInRing, SecondaryExit, primaryVars
  <2>3. Progress'
    BY <1>0, <1>m, <1>12, SingleRingAssumption DEF TypeOK, Progress, SecondaryExit, primaryVars
  <2>4. BlocksInUse'
    BY <1>0, <1>m, <1>12 DEF TypeOK, Conversation, BlocksInUse, SecondaryWaits, NotServed, Served,
       RequestInRing, RequestTaken, ResponseMade, ResponseReady, ResponseInHand, ResponseInRing, SecondaryExit, primaryVars
  <2>. QED  BY <2>1, <2>2, <2>3, <2>4 DEF SingleRingInv
<1>13. CASE SecondaryServe
  <2>1. TypeOK'
    BY <1>0, <1>m, <1>13, OneInRing, EmptyNotFull, MessageFields DEF TypeOK, Conversation, BlocksInUse, SecondaryWaits, NotServed, Served,
       RequestInRing, RequestTaken, ResponseMade, ResponseReady, ResponseInHand, ResponseInRing, SecondaryServe, primaryVars
  <2>2. Conversation'
    BY <1>0, <1>m, <1>13, OneInRing, EmptyNotFull, MessageFields DEF TypeOK, Conversation, Progress, SecondaryWaits, NotServed, Served,
       RequestInRing, RequestTaken, ResponseMade, ResponseReady, ResponseInHand, ResponseInRing, SecondaryServe, primaryVars
  <2>3. Progress'
    BY <1>0, <1>m, <1>13, SingleRingAssumption DEF TypeOK, Progress, SecondaryServe, primaryVars
  <2>4. BlocksInUse'
    BY <1>0, <1>m, <1>13 DEF TypeOK, Conversation, BlocksInUse, SecondaryWaits, NotServed, Served,
       RequestInRing, RequestTaken, ResponseMade, ResponseReady, ResponseInHand, ResponseInRing, SecondaryServe, primaryVars
  <2>. QED  BY <2>1, <2>2, <2>3, <2>4 DEF SingleRingInv
<1>14. CASE SecondaryFree
  <2>1. TypeOK'
    BY <1>0, <1>m, <1>14, OneInRing, EmptyNotFull, MessageFields DEF TypeOK, Conversation, BlocksInUse, SecondaryWaits, NotServed, Served,
       RequestInRing, RequestTaken, ResponseMade, ResponseReady, ResponseInHand, ResponseInRing, SecondaryFree, primaryVars
  <2>2. Conversation'
    BY <1>0, <1>m, <1>14, OneInRing, EmptyNotFull, MessageFields DEF TypeOK, Conversation, Progress, SecondaryWaits, NotServed, Served,
       RequestInRing, RequestTaken, ResponseMade, ResponseReady, ResponseInHand, ResponseInRing, SecondaryFree, primaryVars
  <2>3. Progress'
    BY <1>0, <1>m, <1>14, SingleRingAssumption DEF TypeOK, Progress, SecondaryFree, primaryVars
  <2>4. BlocksInUse'
    BY <1>0, <1>m, <1>14 DEF TypeOK, Conversation, BlocksInUse, SecondaryWaits, NotServed, Served,
       RequestInRing, RequestTaken, ResponseMade, ResponseReady, ResponseInHand, ResponseInRing, SecondaryFree, primaryVars
  <2>. QED  BY <2>1, <2>2, <2>3, <2>4 DEF SingleRingInv
<1>15. CASE SecondaryReply
  <2>1. TypeOK'
    BY <1>0, <1>m, <1>15, OneInRing, EmptyNotFull, MessageFields DEF TypeOK, Conversation, BlocksInUse, SecondaryWaits, NotServed, Served,
       RequestInRing, RequestTaken, ResponseMade, ResponseReady, ResponseInHand, ResponseInRing, SecondaryReply, primaryVars
  <2>2. Conversation'
    BY <1>0, <1>m, <1>15, OneInRing, EmptyNotFull, MessageFields DEF TypeOK, Conversation, Progress, SecondaryWaits, NotServed, Served,
       RequestInRing, RequestTaken, ResponseMade, ResponseReady, ResponseInHand, ResponseInRing, SecondaryReply, primaryVars
  <2>3. Progress'
    BY <1>0, <1>m, <1>15, SingleRingAssumption DEF TypeOK, Progress, SecondaryReply, primaryVars
  <2>4. BlocksInUse'
    BY <1>0, <1>m, <1>15 DEF TypeOK, Conversation, BlocksInUse, SecondaryWaits, NotServed, Served,
       RequestInRing, RequestTaken, ResponseMade, ResponseReady, ResponseInHand, ResponseInRing, SecondaryReply, primaryVars
  <2>. QED  BY <2>1, <2>2, <2>3, <2>4 DEF SingleRingInv
<1>16. CASE UNCHANGED vars
  <2>1. TypeOK'
    BY <1>0, <1>m, <1>16, OneInRing, EmptyNotFull, MessageFields DEF TypeOK, Conversation, BlocksInUse, SecondaryWaits, NotServed, Served,
       RequestInRing, RequestTaken, ResponseMade, ResponseReady, ResponseInHand, ResponseInRing, vars, primaryVars, secondaryVars
  <2>2. Conversation'
    BY <1>0, <1>m, <1>16, OneInRing, EmptyNotFull, MessageFields DEF TypeOK, Conversation, Progress, SecondaryWaits, NotServed, Served,
       RequestInRing, RequestTaken, ResponseMade, ResponseReady, ResponseInHand, ResponseInRing, vars, primaryVars, secondaryVars
  <2>3. Progress'
    BY <1>0, <1>m, <1>16, SingleRingAssumption DEF TypeOK, Progress, vars, primaryVars, secondaryVars
  <2>4. BlocksInUse'
    BY <1>0, <1>m, <1>16 DEF TypeOK, Conversation, BlocksInUse, SecondaryWaits, NotServed, Served,
       RequestInRing, RequestTaken, ResponseMade, ResponseReady, ResponseInHand, ResponseInRing, vars, primaryVars, secondaryVars
  <2>. QED  BY <2>1, <2>2, <2>3, <2>4 DEF SingleRingInv
<1>. QED  BY <1>1, <1>2, <1>3, <1>4, <1>5, <1>6, <1>7, <1>8, <1>9, <1>10, <1>11, <1>12, <1>13, <1>14, <1>15, <1>16
       DEF Next, Primary, Secondary, Ended

-----------------------------------------------------------------------------
(* Theorems *)

\* The invariant holds in every behaviour, for any number of requests.
THEOREM SingleRingInvariant == Spec => []SingleRingInv
<1>1. Init => SingleRingInv
  BY InitInv
<1>2. SingleRingInv /\ [Next]_vars => SingleRingInv'
  BY NextInv
<1>. QED  BY <1>1, <1>2, PTL DEF Spec

\* Type correctness: what a process dequeues is always one of the messages.
THEOREM SingleRingTypeCorrect == Spec => []TypeOK
<1>1. SingleRingInv => TypeOK
  BY DEF SingleRingInv
<1>. QED  BY <1>1, SingleRingInvariant, PTL

\* One message exists at most, put-backs included, and its block is the only
\* one in use, but for the request the secondary is about to free: no put-back, whose result nobody checks, can find the ring full
\* and lose the other process's message.
THEOREM SingleRingOneMessage == Spec => []OneMessage
<1>1. SingleRingInv => OneMessage
  <2> SUFFICES ASSUME SingleRingInv PROVE OneMessage
    OBVIOUS
  <2>1. TypeOK /\ Conversation /\ BlocksInUse
    BY DEF SingleRingInv
  <2>2. /\ Request(i) # NoMessage /\ Response(10 * i) # NoMessage /\ ExitMessage # NoMessage
    BY <2>1, MessageTypes DEF TypeOK
  <2>3. /\ Messages = IF p_pc \in {"create", "failed", "next"} \/ s_pc = "exited" THEN 0
                      ELSE IF s_pc = "free" THEN 2 ELSE 1
        /\ s_pc = "free" => m # NoMessage /\ resp # NoMessage
    <3>1. CASE p_pc \in {"create", "failed", "next"}
      <4>1. ring = <<>> /\ r = NoMessage /\ SecondaryWaits
        BY <2>1, <3>1 DEF Conversation
      <4>. QED  BY <3>1, <4>1, LenOfRing DEF SecondaryWaits, Messages, InHand
    <3>2. CASE p_pc \in {"send", "exit"}
      <4>1. ring = <<>> /\ r # NoMessage /\ SecondaryWaits
        BY <2>1, <2>2, <3>2 DEF Conversation
      <4>. QED  BY <3>2, <4>1, LenOfRing DEF SecondaryWaits, Messages, InHand
    <3>3. CASE p_pc = "got"
      <4>1. ring = <<>> /\ r # NoMessage /\ SecondaryWaits
        BY <2>1, <2>2, <3>3 DEF Conversation
      <4>. QED  BY <3>3, <4>1, LenOfRing DEF SecondaryWaits, Messages, InHand
    <3>4. CASE p_pc = "await"
      <4>1. /\ r = NoMessage
            /\ \/ RequestInRing \/ RequestTaken \/ ResponseMade
               \/ ResponseReady \/ ResponseInHand \/ ResponseInRing
        BY <2>1, <3>4 DEF Conversation
      <4>2. CASE RequestInRing
        BY <3>4, <4>1, <4>2, LenOfRing DEF RequestInRing, SecondaryWaits, Messages, InHand
      <4>3. CASE ResponseInRing
        BY <3>4, <4>1, <4>3, LenOfRing DEF ResponseInRing, SecondaryWaits, Messages, InHand
      <4>4. CASE RequestTaken \/ ResponseInHand
        <5>1. ring = <<>> /\ m # NoMessage /\ resp = NoMessage /\ s_pc = "got"
          BY <2>2, <4>4 DEF RequestTaken, ResponseInHand
        <5>. QED  BY <3>4, <4>1, <5>1, LenOfRing DEF Messages, InHand
      <4>5. CASE ResponseMade
        <5>1. ring = <<>> /\ m # NoMessage /\ resp # NoMessage /\ s_pc = "free"
          BY <2>2, <4>5 DEF ResponseMade
        <5>. QED  BY <3>4, <4>1, <5>1, LenOfRing DEF Messages, InHand
      <4>6. CASE ResponseReady
        <5>1. ring = <<>> /\ m = NoMessage /\ resp # NoMessage /\ s_pc = "reply"
          BY <2>2, <4>6 DEF ResponseReady
        <5>. QED  BY <3>4, <4>1, <5>1, LenOfRing DEF Messages, InHand
      <4>. QED  BY <4>1, <4>2, <4>3, <4>4, <4>5, <4>6
    <3>5. CASE p_pc = "done"
      <4>1. r = NoMessage
        BY <2>1, <3>5 DEF Conversation
      <4>2. CASE ring = <<ExitMessage>> /\ SecondaryWaits
        BY <3>5, <4>1, <4>2, LenOfRing DEF SecondaryWaits, Messages, InHand
      <4>3. CASE ring = <<>> /\ s_pc = "got" /\ m = ExitMessage /\ resp = NoMessage
        BY <2>2, <3>5, <4>1, <4>3, LenOfRing DEF Messages, InHand
      <4>4. CASE ring = <<>> /\ s_pc = "exited" /\ m = NoMessage /\ resp = NoMessage
        BY <3>5, <4>1, <4>4, LenOfRing DEF Messages, InHand
      <4>. QED  BY <2>1, <3>5, <4>2, <4>3, <4>4 DEF Conversation
    <3>. QED  BY <2>1, <3>1, <3>2, <3>3, <3>4, <3>5 DEF TypeOK
  <2>. QED  BY <2>1, <2>3 DEF OneMessage, BlocksInUse
<1>. QED  BY <1>1, SingleRingInvariant, PTL

-----------------------------------------------------------------------------
(* The refinement *)

\* The initial states are those of the request-reply specification.
LEMMA InitRefines == Init => Abstract!Init
BY DEF Init, Abstract!Init

\* Every step of the two processes is a step of the request-reply
\* specification or, put-backs above all, leaves its state alone.
LEMMA NextRefines == SingleRingInv /\ [Next]_vars => [Abstract!Next]_Abstract!vars
<1> SUFFICES ASSUME SingleRingInv, [Next]_vars PROVE [Abstract!Next]_Abstract!vars
  OBVIOUS
<1>0. TypeOK /\ Conversation /\ Progress
  BY DEF SingleRingInv
<1>1. CASE PrimarySend
  <2>1. Abstract!Ask
    BY <1>0, <1>1 DEF PrimarySend, secondaryVars, Conversation, Progress, TypeOK, Abstract!Ask
  <2>. QED  BY <2>1 DEF Abstract!Next
<1>2. CASE SecondaryServe
  <2>1. /\ s_pc = "got" /\ m.dst_id = PROC_B /\ m.type = "REQ"
        /\ handled' = Append(handled, m.value)
        /\ s_pc' = "free" /\ UNCHANGED <<p_pc, i, received>>
    BY <1>2 DEF SecondaryServe, primaryVars
  <2>2. m # NoMessage /\ m # ExitMessage
    BY <2>1, MessageFields DEF NoMessage, PROC_B
  <2>3. p_pc \in {"await", "got"} /\ m = Request(i) /\ NotServed
    <3>1. p_pc = "await"
      BY <1>0, <2>1, <2>2 DEF TypeOK, Conversation, SecondaryWaits
    <3>2. RequestTaken \/ ResponseInHand
      BY <1>0, <2>1, <3>1 DEF Conversation, RequestInRing, ResponseMade, ResponseReady,
         ResponseInRing, SecondaryWaits
    <3>. QED  BY <2>1, <3>1, <3>2, MessageFields DEF RequestTaken, ResponseInHand
  <2>4. handled' = Append(handled, Len(handled))
    BY <2>1, <2>3, MessageFields DEF NotServed
  <2>5. Abstract!Serve
    BY <1>0, <2>1, <2>3, <2>4 DEF TypeOK, NotServed, Abstract!Serve
  <2>. QED  BY <2>5 DEF Abstract!Next
<1>3. CASE PrimaryTake
  <2>1. p_pc = "got" /\ r.dst_id = PROC_A
    BY <1>3 DEF PrimaryTake
  <2>2. r = Response(10 * i) /\ Served /\ Len(received) = i
    BY <1>0, <2>1, MessageFields DEF Conversation
  <2>3. /\ received' = Append(received, 10 * i) /\ i' = i + 1 /\ p_pc' = "next"
        /\ UNCHANGED <<s_pc, handled>>
    BY <1>3, <2>2, MessageFields DEF PrimaryTake, secondaryVars
  <2>4. received' = Append(received, 10 * handled[Len(received) + 1])
    BY <2>2, <2>3 DEF Served
  <2>5. Abstract!Answer
    BY <1>0, <2>1, <2>2, <2>3, <2>4 DEF TypeOK, Served, Abstract!Answer
  <2>. QED  BY <2>5 DEF Abstract!Next
<1>4. CASE SecondaryExit
  <2>1. /\ s_pc = "got" /\ m.type = "EXIT" /\ s_pc' = "exited"
        /\ UNCHANGED <<p_pc, i, received, handled>>
    BY <1>4 DEF SecondaryExit, primaryVars
  <2>2. p_pc = "done"
    BY <1>0, <2>1, MessageFields DEF TypeOK, Conversation, SecondaryWaits, RequestInRing,
       RequestTaken, ResponseMade, ResponseReady, ResponseInHand, ResponseInRing, NoMessage
  <2>3. Abstract!Leave
    BY <1>0, <2>1, <2>2 DEF Conversation, Progress, Abstract!Leave
  <2>. QED  BY <2>3 DEF Abstract!Next
<1>5. CASE PrimaryCreate \/ PrimaryAlloc \/ PrimaryAllocExit \/ PrimaryExit
  BY <1>5 DEF PrimaryCreate, PrimaryAlloc, PrimaryAllocExit, PrimaryExit, EnqueueOnce,
     secondaryVars, Abstract!vars
<1>6. CASE PrimaryDequeue \/ PrimaryPutBack
  BY <1>6 DEF PrimaryDequeue, PrimaryPutBack, secondaryVars, Abstract!vars
<1>7. CASE SecondaryLookup \/ SecondaryDequeue \/ SecondaryPutBack \/ SecondaryFree \/ SecondaryReply
  BY <1>7 DEF SecondaryLookup, SecondaryDequeue, SecondaryPutBack, SecondaryFree, SecondaryReply,
     primaryVars, Abstract!vars
<1>8. CASE UNCHANGED vars
  BY <1>8 DEF vars, primaryVars, secondaryVars, Abstract!vars
<1>. QED  BY <1>1, <1>2, <1>3, <1>4, <1>5, <1>6, <1>7, <1>8 DEF Next, Primary, Secondary, Ended

\* One ring for both directions changes nothing for the users: the program
\* implements RequestReply, as the one with two rings does.
THEOREM SingleRingRefinement == Spec => ImplementsRequestReply
<1>1. Init => Abstract!Init
  BY InitRefines
<1>2. SingleRingInv /\ [Next]_vars => [Abstract!Next]_Abstract!vars
  BY NextRefines
<1>. QED  BY <1>1, <1>2, SingleRingInvariant, PTL
          DEF Spec, ImplementsRequestReply, Abstract!Spec
=============================================================================
