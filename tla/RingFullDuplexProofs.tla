------------------------ MODULE RingFullDuplexProofs ------------------------
(***************************************************************************)
(* Safety of the two-ring request-reply exchange for any number of requests*)
(* and any ring size, and that it implements RequestReply.                 *)
(***************************************************************************)
EXTENDS RingFullDuplex, TLAPS, SequenceTheorems

-----------------------------------------------------------------------------
(* Facts about rings that hold one message at most *)

\* Enqueueing to an empty ring and dequeueing the only message of a ring.
LEMMA OneInRing ==
  ASSUME NEW v
  PROVE  /\ Append(<<>>, v) = <<v>> /\ Len(<<v>>) = 1 /\ <<v>> # <<>>
         /\ Head(<<v>>) = v /\ Tail(<<v>>) = <<>> /\ Len(<<>>) = 0
OBVIOUS

\* The length of a ring that is known to hold nothing, or one message.
LEMMA LenOfRing ==
  ASSUME NEW r, NEW v
  PROVE  (r = <<>> => Len(r) = 0) /\ (r = <<v>> => Len(r) = 1)
<1>1. ASSUME r = <<v>> PROVE Len(r) = 1
  <2>1. Len(<<v>>) = 1
    OBVIOUS
  <2>. QED  BY <1>1, <2>1, Zenon
<1>. QED  BY <1>1

\* A ring of at least two slots that is empty takes a message.
LEMMA EmptyNotFull == ~Full(<<>>, RING_SIZE)
BY DuplexAssumption DEF Full, Usable

-----------------------------------------------------------------------------
(* The inductive invariant *)

SecondaryWaits == s_pc \in {"init", "failed", "lookup1", "lookup2", "poll"}
RingsEmpty     == ring1 = <<>> /\ ring2 = <<>>

\* The places the message for request i passes through, in this order: the
\* first ring, the secondary before and after it computes, the second ring.
RequestQueued == ring1 = <<i>> /\ ring2 = <<>> /\ SecondaryWaits /\ Len(handled) = i
RequestTaken  == RingsEmpty /\ s_pc = "compute" /\ Len(handled) = i + 1 /\ handled[i + 1] = i
ReplyReady    == /\ RingsEmpty /\ s_pc = "reply" /\ reply = 10 * i
                 /\ Len(handled) = i + 1 /\ handled[i + 1] = i
ReplyQueued   == /\ ring1 = <<>> /\ ring2 = <<10 * i>> /\ s_pc = "poll"
                 /\ Len(handled) = i + 1 /\ handled[i + 1] = i

\* Where the one message is, read off where the primary is.
Conversation ==
  /\ p_pc \in {"create1", "create2", "failed", "next", "send", "stop"} =>
       RingsEmpty /\ SecondaryWaits /\ Len(handled) = i /\ Len(received) = i
  /\ p_pc = "await" => /\ RequestQueued \/ RequestTaken \/ ReplyReady \/ ReplyQueued
                       /\ Len(received) = i
  /\ p_pc = "free" => /\ RingsEmpty /\ SecondaryWaits
                      /\ Len(handled) = i + 1 /\ Len(received) = i + 1
  /\ p_pc = "done" => /\ \/ ring1 = <<STOP>> /\ ring2 = <<>> /\ SecondaryWaits
                         \/ RingsEmpty /\ s_pc = "exited"
                      /\ Len(handled) = i /\ Len(received) = i

\* How far the primary's loop has come.
Progress == /\ p_pc \in {"send", "await", "free"} => i < Requests
            /\ p_pc \in {"stop", "done"} => i = Requests

DuplexInv == TypeOK /\ Conversation /\ Progress /\ live = Messages

\* Nothing has been sent yet.
LEMMA InitInv == Init => DuplexInv
<1> SUFFICES ASSUME Init PROVE DuplexInv
  OBVIOUS
<1>1. TypeOK
  BY DuplexAssumption DEF Init, TypeOK
<1>2. Conversation /\ Progress
  BY OneInRing DEF Init, Conversation, Progress, RingsEmpty, SecondaryWaits
<1>3. live = Messages
  BY DEF Init, Messages, HeldByPrimary, HeldBySecondary
<1>. QED  BY <1>1, <1>2, <1>3 DEF DuplexInv

\* Every step of either process preserves the invariant.
LEMMA NextInv == DuplexInv /\ [Next]_vars => DuplexInv'
<1> SUFFICES ASSUME DuplexInv, [Next]_vars PROVE DuplexInv'
  OBVIOUS
<1> USE DuplexAssumption, OneInRing, EmptyNotFull
<1>0. TypeOK /\ Conversation /\ Progress /\ live = Messages
  BY DEF DuplexInv
<1>1. CASE PrimaryCreateRing1
  <2>1. TypeOK'
    BY <1>0, <1>1 DEF TypeOK, Conversation, Progress, RingsEmpty, SecondaryWaits, RequestQueued,
       RequestTaken, ReplyReady, ReplyQueued, PrimaryCreateRing1, secondaryVars
  <2>2. Conversation'
    BY <1>0, <1>1 DEF TypeOK, Conversation, Progress, RingsEmpty, SecondaryWaits, RequestQueued,
       RequestTaken, ReplyReady, ReplyQueued, PrimaryCreateRing1, secondaryVars
  <2>3. Progress'
    BY <1>0, <1>1 DEF TypeOK, Progress, PrimaryCreateRing1, secondaryVars
  <2>4. (live = Messages)'
    BY <1>0, <1>1 DEF TypeOK, Conversation, RingsEmpty, SecondaryWaits, RequestQueued,
       RequestTaken, ReplyReady, ReplyQueued, Messages, HeldByPrimary, HeldBySecondary,
       PrimaryCreateRing1, secondaryVars
  <2>. QED  BY <2>1, <2>2, <2>3, <2>4 DEF DuplexInv
<1>2. CASE PrimaryCreateRing2
  <2>1. TypeOK'
    BY <1>0, <1>2 DEF TypeOK, Conversation, Progress, RingsEmpty, SecondaryWaits, RequestQueued,
       RequestTaken, ReplyReady, ReplyQueued, PrimaryCreateRing2, secondaryVars
  <2>2. Conversation'
    BY <1>0, <1>2 DEF TypeOK, Conversation, Progress, RingsEmpty, SecondaryWaits, RequestQueued,
       RequestTaken, ReplyReady, ReplyQueued, PrimaryCreateRing2, secondaryVars
  <2>3. Progress'
    BY <1>0, <1>2 DEF TypeOK, Progress, PrimaryCreateRing2, secondaryVars
  <2>4. (live = Messages)'
    BY <1>0, <1>2 DEF TypeOK, Conversation, RingsEmpty, SecondaryWaits, RequestQueued,
       RequestTaken, ReplyReady, ReplyQueued, Messages, HeldByPrimary, HeldBySecondary,
       PrimaryCreateRing2, secondaryVars
  <2>. QED  BY <2>1, <2>2, <2>3, <2>4 DEF DuplexInv
<1>3. CASE PrimaryCreateFails
  <2>1. TypeOK'
    BY <1>0, <1>3 DEF TypeOK, Conversation, Progress, RingsEmpty, SecondaryWaits, RequestQueued,
       RequestTaken, ReplyReady, ReplyQueued, PrimaryCreateFails, secondaryVars
  <2>2. Conversation'
    BY <1>0, <1>3 DEF TypeOK, Conversation, Progress, RingsEmpty, SecondaryWaits, RequestQueued,
       RequestTaken, ReplyReady, ReplyQueued, PrimaryCreateFails, secondaryVars
  <2>3. Progress'
    BY <1>0, <1>3 DEF TypeOK, Progress, PrimaryCreateFails, secondaryVars
  <2>4. (live = Messages)'
    BY <1>0, <1>3 DEF TypeOK, Conversation, RingsEmpty, SecondaryWaits, RequestQueued,
       RequestTaken, ReplyReady, ReplyQueued, Messages, HeldByPrimary, HeldBySecondary,
       PrimaryCreateFails, secondaryVars
  <2>. QED  BY <2>1, <2>2, <2>3, <2>4 DEF DuplexInv
<1>4. CASE PrimaryAlloc
  <2>1. TypeOK'
    BY <1>0, <1>4 DEF TypeOK, Conversation, Progress, RingsEmpty, SecondaryWaits, RequestQueued,
       RequestTaken, ReplyReady, ReplyQueued, PrimaryAlloc, secondaryVars
  <2>2. Conversation'
    BY <1>0, <1>4 DEF TypeOK, Conversation, Progress, RingsEmpty, SecondaryWaits, RequestQueued,
       RequestTaken, ReplyReady, ReplyQueued, PrimaryAlloc, secondaryVars
  <2>3. Progress'
    BY <1>0, <1>4 DEF TypeOK, Progress, PrimaryAlloc, secondaryVars
  <2>4. (live = Messages)'
    BY <1>0, <1>4 DEF TypeOK, Conversation, RingsEmpty, SecondaryWaits, RequestQueued,
       RequestTaken, ReplyReady, ReplyQueued, Messages, HeldByPrimary, HeldBySecondary,
       PrimaryAlloc, secondaryVars
  <2>. QED  BY <2>1, <2>2, <2>3, <2>4 DEF DuplexInv
<1>5. CASE PrimarySend
  <2>1. TypeOK'
    BY <1>0, <1>5 DEF TypeOK, Conversation, Progress, RingsEmpty, SecondaryWaits, RequestQueued,
       RequestTaken, ReplyReady, ReplyQueued, PrimarySend, secondaryVars
  <2>2. Conversation'
    BY <1>0, <1>5 DEF TypeOK, Conversation, Progress, RingsEmpty, SecondaryWaits, RequestQueued,
       RequestTaken, ReplyReady, ReplyQueued, PrimarySend, secondaryVars
  <2>3. Progress'
    BY <1>0, <1>5 DEF TypeOK, Progress, PrimarySend, secondaryVars
  <2>4. (live = Messages)'
    BY <1>0, <1>5 DEF TypeOK, Conversation, RingsEmpty, SecondaryWaits, RequestQueued,
       RequestTaken, ReplyReady, ReplyQueued, Messages, HeldByPrimary, HeldBySecondary,
       PrimarySend, secondaryVars
  <2>. QED  BY <2>1, <2>2, <2>3, <2>4 DEF DuplexInv
<1>6. CASE PrimaryReceive
  <2>1. /\ ReplyQueued /\ Len(received) = i /\ p_pc = "await"
        /\ ring1' = <<>> /\ ring2' = <<>> /\ received' = Append(received, 10 * i)
        /\ p_pc' = "free" /\ s_pc' = "poll" /\ UNCHANGED <<i, reply, handled, named, live>>
    BY <1>0, <1>6 DEF Conversation, PrimaryReceive, secondaryVars, RingsEmpty, SecondaryWaits, RequestQueued,
       RequestTaken, ReplyReady, ReplyQueued
  <2>2. 10 * i \in Nat /\ received' \in Seq(Nat) /\ Len(received') = i + 1
    BY <1>0, <2>1, AppendProperties DEF TypeOK
  <2>3. TypeOK'
    BY <1>0, <2>1, <2>2 DEF TypeOK
  <2>4. Conversation'
    BY <2>1, <2>2 DEF Conversation, RingsEmpty, SecondaryWaits, ReplyQueued
  <2>5. Progress'
    BY <1>0, <2>1 DEF Progress
  <2>6. (live = Messages)'
    BY <1>0, <2>1 DEF Messages, HeldByPrimary, HeldBySecondary, ReplyQueued
  <2>. QED  BY <2>3, <2>4, <2>5, <2>6 DEF DuplexInv
<1>7. CASE PrimaryFree
  <2>1. TypeOK'
    BY <1>0, <1>7 DEF TypeOK, Conversation, Progress, Messages, HeldByPrimary, HeldBySecondary, RingsEmpty, SecondaryWaits, RequestQueued,
       RequestTaken, ReplyReady, ReplyQueued, PrimaryFree, secondaryVars
  <2>2. Conversation'
    BY <1>0, <1>7 DEF TypeOK, Conversation, Progress, RingsEmpty, SecondaryWaits, RequestQueued,
       RequestTaken, ReplyReady, ReplyQueued, PrimaryFree, secondaryVars
  <2>3. Progress'
    BY <1>0, <1>7 DEF TypeOK, Progress, PrimaryFree, secondaryVars
  <2>4. (live = Messages)'
    BY <1>0, <1>7 DEF TypeOK, Conversation, RingsEmpty, SecondaryWaits, RequestQueued,
       RequestTaken, ReplyReady, ReplyQueued, Messages, HeldByPrimary, HeldBySecondary,
       PrimaryFree, secondaryVars
  <2>. QED  BY <2>1, <2>2, <2>3, <2>4 DEF DuplexInv
<1>8. CASE PrimaryAllocStop
  <2>1. TypeOK'
    BY <1>0, <1>8 DEF TypeOK, Conversation, Progress, RingsEmpty, SecondaryWaits, RequestQueued,
       RequestTaken, ReplyReady, ReplyQueued, PrimaryAllocStop, secondaryVars
  <2>2. Conversation'
    BY <1>0, <1>8 DEF TypeOK, Conversation, Progress, RingsEmpty, SecondaryWaits, RequestQueued,
       RequestTaken, ReplyReady, ReplyQueued, PrimaryAllocStop, secondaryVars
  <2>3. Progress'
    BY <1>0, <1>8 DEF TypeOK, Progress, PrimaryAllocStop, secondaryVars
  <2>4. (live = Messages)'
    BY <1>0, <1>8 DEF TypeOK, Conversation, RingsEmpty, SecondaryWaits, RequestQueued,
       RequestTaken, ReplyReady, ReplyQueued, Messages, HeldByPrimary, HeldBySecondary,
       PrimaryAllocStop, secondaryVars
  <2>. QED  BY <2>1, <2>2, <2>3, <2>4 DEF DuplexInv
<1>9. CASE PrimaryStop
  <2>1. TypeOK'
    BY <1>0, <1>9 DEF TypeOK, Conversation, Progress, RingsEmpty, SecondaryWaits, RequestQueued,
       RequestTaken, ReplyReady, ReplyQueued, PrimaryStop, secondaryVars
  <2>2. Conversation'
    BY <1>0, <1>9 DEF TypeOK, Conversation, Progress, RingsEmpty, SecondaryWaits, RequestQueued,
       RequestTaken, ReplyReady, ReplyQueued, PrimaryStop, secondaryVars
  <2>3. Progress'
    BY <1>0, <1>9 DEF TypeOK, Progress, PrimaryStop, secondaryVars
  <2>4. (live = Messages)'
    BY <1>0, <1>9 DEF TypeOK, Conversation, RingsEmpty, SecondaryWaits, RequestQueued,
       RequestTaken, ReplyReady, ReplyQueued, Messages, HeldByPrimary, HeldBySecondary,
       PrimaryStop, secondaryVars
  <2>. QED  BY <2>1, <2>2, <2>3, <2>4 DEF DuplexInv
<1>10. CASE SecondaryLookup
  <2>1. TypeOK'
    BY <1>0, <1>10 DEF TypeOK, Conversation, Progress, RingsEmpty, SecondaryWaits, RequestQueued,
       RequestTaken, ReplyReady, ReplyQueued, SecondaryLookup, primaryVars
  <2>2. Conversation'
    BY <1>0, <1>10 DEF TypeOK, Conversation, Progress, RingsEmpty, SecondaryWaits, RequestQueued,
       RequestTaken, ReplyReady, ReplyQueued, SecondaryLookup, primaryVars
  <2>3. Progress'
    BY <1>0, <1>10 DEF TypeOK, Progress, SecondaryLookup, primaryVars
  <2>4. (live = Messages)'
    BY <1>0, <1>10 DEF TypeOK, Conversation, RingsEmpty, SecondaryWaits, RequestQueued,
       RequestTaken, ReplyReady, ReplyQueued, Messages, HeldByPrimary, HeldBySecondary,
       SecondaryLookup, primaryVars
  <2>. QED  BY <2>1, <2>2, <2>3, <2>4 DEF DuplexInv
<1>11. CASE SecondaryRequest
  <2>1. i # STOP
    BY <1>0 DEF TypeOK, STOP
  <2>2. /\ RequestQueued /\ Len(received) = i /\ p_pc = "await" /\ s_pc = "poll"
        /\ ring1' = <<>> /\ ring2' = <<>> /\ handled' = Append(handled, i)
        /\ s_pc' = "compute" /\ UNCHANGED <<p_pc, i, received, reply, named, live>>
    BY <1>0, <1>11 DEF TypeOK, Conversation, SecondaryRequest, primaryVars, RingsEmpty, SecondaryWaits, RequestQueued,
       RequestTaken, ReplyReady, ReplyQueued
  <2>3. /\ handled' \in Seq(Nat) /\ Len(handled') = i + 1 /\ handled'[i + 1] = i
    BY <1>0, <2>2, AppendProperties DEF TypeOK, RequestQueued
  <2>4. TypeOK'
    BY <1>0, <2>2, <2>3 DEF TypeOK
  <2>5. Conversation'
    BY <2>2, <2>3 DEF Conversation, RingsEmpty, RequestTaken
  <2>6. Progress'
    BY <1>0, <2>2 DEF Progress
  <2>7. (live = Messages)'
    BY <1>0, <2>2 DEF Messages, HeldByPrimary, HeldBySecondary, RequestQueued
  <2>. QED  BY <2>4, <2>5, <2>6, <2>7 DEF DuplexInv
<1>12. CASE SecondaryCompute
  <2>1. TypeOK'
    BY <1>0, <1>12 DEF TypeOK, Conversation, Progress, RingsEmpty, SecondaryWaits, RequestQueued,
       RequestTaken, ReplyReady, ReplyQueued, SecondaryCompute, primaryVars
  <2>2. Conversation'
    BY <1>0, <1>12 DEF TypeOK, Conversation, Progress, RingsEmpty, SecondaryWaits, RequestQueued,
       RequestTaken, ReplyReady, ReplyQueued, SecondaryCompute, primaryVars
  <2>3. Progress'
    BY <1>0, <1>12 DEF TypeOK, Progress, SecondaryCompute, primaryVars
  <2>4. (live = Messages)'
    BY <1>0, <1>12 DEF TypeOK, Conversation, RingsEmpty, SecondaryWaits, RequestQueued,
       RequestTaken, ReplyReady, ReplyQueued, Messages, HeldByPrimary, HeldBySecondary,
       SecondaryCompute, primaryVars
  <2>. QED  BY <2>1, <2>2, <2>3, <2>4 DEF DuplexInv
<1>13. CASE SecondaryReply
  <2>1. TypeOK'
    BY <1>0, <1>13 DEF TypeOK, Conversation, Progress, RingsEmpty, SecondaryWaits, RequestQueued,
       RequestTaken, ReplyReady, ReplyQueued, SecondaryReply, primaryVars
  <2>2. Conversation'
    BY <1>0, <1>13 DEF TypeOK, Conversation, Progress, RingsEmpty, SecondaryWaits, RequestQueued,
       RequestTaken, ReplyReady, ReplyQueued, SecondaryReply, primaryVars
  <2>3. Progress'
    BY <1>0, <1>13 DEF TypeOK, Progress, SecondaryReply, primaryVars
  <2>4. (live = Messages)'
    BY <1>0, <1>13 DEF TypeOK, Conversation, RingsEmpty, SecondaryWaits, RequestQueued,
       RequestTaken, ReplyReady, ReplyQueued, Messages, HeldByPrimary, HeldBySecondary,
       SecondaryReply, primaryVars
  <2>. QED  BY <2>1, <2>2, <2>3, <2>4 DEF DuplexInv
<1>14. CASE SecondaryStop
  <2>1. i # STOP
    BY <1>0 DEF TypeOK, STOP
  <2>2. /\ p_pc = "done" /\ ring1 = <<STOP>> /\ ring2 = <<>> /\ s_pc = "poll"
        /\ Len(handled) = i /\ Len(received) = i
        /\ RingsEmpty' /\ s_pc' = "exited" /\ live' = live - 1
        /\ UNCHANGED <<p_pc, i, received, reply, handled, named>>
    BY <1>0, <1>14, <2>1 DEF TypeOK, Conversation, SecondaryStop, primaryVars, RingsEmpty, SecondaryWaits, RequestQueued,
       RequestTaken, ReplyReady, ReplyQueued
  <2>3. live = 1
    BY <1>0, <2>2 DEF Messages, HeldByPrimary, HeldBySecondary
  <2>4. TypeOK'
    BY <1>0, <2>2, <2>3 DEF TypeOK, RingsEmpty
  <2>5. Conversation'
    BY <2>2 DEF Conversation
  <2>6. Progress'
    BY <1>0, <2>2 DEF Progress
  <2>7. (live = Messages)'
    BY <2>2, <2>3 DEF Messages, HeldByPrimary, HeldBySecondary, RingsEmpty
  <2>. QED  BY <2>4, <2>5, <2>6, <2>7 DEF DuplexInv
<1>15. CASE SecondaryInit
  <2>1. TypeOK'
    BY <1>0, <1>15 DEF TypeOK, Conversation, Progress, RingsEmpty, SecondaryWaits, RequestQueued,
       RequestTaken, ReplyReady, ReplyQueued, SecondaryInit, primaryVars
  <2>2. Conversation'
    BY <1>0, <1>15 DEF TypeOK, Conversation, Progress, RingsEmpty, SecondaryWaits, RequestQueued,
       RequestTaken, ReplyReady, ReplyQueued, SecondaryInit, primaryVars
  <2>3. Progress'
    BY <1>0, <1>15 DEF TypeOK, Progress, SecondaryInit, primaryVars
  <2>4. (live = Messages)'
    BY <1>0, <1>15 DEF TypeOK, Conversation, RingsEmpty, SecondaryWaits, RequestQueued,
       RequestTaken, ReplyReady, ReplyQueued, Messages, HeldByPrimary, HeldBySecondary,
       SecondaryInit, primaryVars
  <2>. QED  BY <2>1, <2>2, <2>3, <2>4 DEF DuplexInv
<1>16. CASE UNCHANGED vars
  <2>1. TypeOK'
    BY <1>0, <1>16 DEF TypeOK, Conversation, Progress, RingsEmpty, SecondaryWaits, RequestQueued,
       RequestTaken, ReplyReady, ReplyQueued, vars, primaryVars, secondaryVars
  <2>2. Conversation'
    BY <1>0, <1>16 DEF TypeOK, Conversation, Progress, RingsEmpty, SecondaryWaits, RequestQueued,
       RequestTaken, ReplyReady, ReplyQueued, vars, primaryVars, secondaryVars
  <2>3. Progress'
    BY <1>0, <1>16 DEF TypeOK, Progress, vars, primaryVars, secondaryVars
  <2>4. (live = Messages)'
    BY <1>0, <1>16 DEF TypeOK, Conversation, RingsEmpty, SecondaryWaits, RequestQueued,
       RequestTaken, ReplyReady, ReplyQueued, Messages, HeldByPrimary, HeldBySecondary,
       vars, primaryVars, secondaryVars
  <2>. QED  BY <2>1, <2>2, <2>3, <2>4 DEF DuplexInv
<1>. QED  BY <1>1, <1>2, <1>3, <1>4, <1>5, <1>6, <1>7, <1>8, <1>9, <1>10, <1>11, <1>12, <1>13, <1>14, <1>15,
          <1>16
       DEF Next, Primary, Secondary, Ended

-----------------------------------------------------------------------------
(* Theorems *)

\* The invariant holds in every behaviour, for any number of requests.
THEOREM DuplexInvariant == Spec => []DuplexInv
<1>1. Init => DuplexInv
  BY InitInv
<1>2. DuplexInv /\ [Next]_vars => DuplexInv'
  BY NextInv
<1>. QED  BY <1>1, <1>2, PTL DEF Spec

\* Type correctness; the loop counter never passes the number of requests.
THEOREM DuplexTypeCorrect == Spec => []TypeOK
<1>1. DuplexInv => TypeOK
  BY DEF DuplexInv
<1>. QED  BY <1>1, DuplexInvariant, PTL

\* At most one message exists, its block is the only one in use, and none is
\* in use at the end: the enqueue of the stop message, whose result the
\* primary ignores, cannot fail, whatever the size of the rings.
THEOREM DuplexPingPong == Spec => []PingPong
<1>1. DuplexInv => PingPong
  <2> SUFFICES ASSUME DuplexInv PROVE PingPong
    OBVIOUS
  <2> USE DEF Messages, HeldByPrimary, HeldBySecondary
  <2>1. TypeOK /\ Conversation /\ live = Messages
    BY DEF DuplexInv
  <2>2. Messages <= 1
    <3>1. CASE p_pc = "await"
      <4>1. RequestQueued \/ RequestTaken \/ ReplyReady \/ ReplyQueued
        BY <2>1, <3>1 DEF Conversation
      <4>2. CASE RequestQueued
        BY LenOfRing, <3>1, <4>2 DEF RequestQueued, SecondaryWaits
      <4>3. CASE RequestTaken \/ ReplyReady
        BY LenOfRing, <3>1, <4>3 DEF RequestTaken, ReplyReady, RingsEmpty
      <4>4. CASE ReplyQueued
        BY LenOfRing, <3>1, <4>4 DEF ReplyQueued
      <4>. QED  BY <4>1, <4>2, <4>3, <4>4
    <3>2. CASE p_pc = "done"
      <4>1. CASE ring1 = <<STOP>> /\ ring2 = <<>> /\ SecondaryWaits
        BY LenOfRing, <3>2, <4>1 DEF SecondaryWaits
      <4>2. CASE RingsEmpty /\ s_pc = "exited"
        BY LenOfRing, <3>2, <4>2 DEF RingsEmpty
      <4>. QED  BY <2>1, <3>2, <4>1, <4>2 DEF Conversation
    <3>3. CASE p_pc \notin {"await", "done"}
      <4>1. Len(ring1) = 0 /\ Len(ring2) = 0 /\ SecondaryWaits
        BY LenOfRing, <2>1, <3>3 DEF TypeOK, Conversation, RingsEmpty, SecondaryWaits
      <4>. QED  BY <4>1 DEF SecondaryWaits
    <3>. QED  BY <3>1, <3>2, <3>3
  <2>3. p_pc = "done" /\ s_pc = "exited" => Messages = 0
    BY <2>1 DEF Conversation, RingsEmpty, SecondaryWaits
  <2>. QED  BY <2>1, <2>2, <2>3 DEF PingPong
<1>. QED  BY <1>1, DuplexInvariant, PTL

-----------------------------------------------------------------------------
(* The refinement.  asked is the loop counter, one ahead while the primary *)
(* waits for the answer or frees it.                                       *)

\* The initial states are those of the request-reply specification.
LEMMA InitRefines == Init => Abstract!Init
BY DEF Init, Abstract!Init

\* Every step of the two processes is a step of the request-reply
\* specification or leaves its state alone.
LEMMA NextRefines == DuplexInv /\ [Next]_vars => [Abstract!Next]_Abstract!vars
<1> SUFFICES ASSUME DuplexInv, [Next]_vars PROVE [Abstract!Next]_Abstract!vars
  OBVIOUS
<1> USE OneInRing
<1>0. TypeOK /\ Conversation /\ Progress
  BY DEF DuplexInv
<1>1. CASE PrimarySend
  <2>1. Abstract!Ask
    BY <1>0, <1>1 DEF PrimarySend, secondaryVars, Conversation, Progress, TypeOK, Abstract!Ask
  <2>. QED  BY <2>1 DEF Abstract!Next
<1>2. CASE SecondaryRequest
  <2>1. RequestQueued /\ p_pc = "await" /\ s_pc = "poll"
    BY <1>0, <1>2 DEF SecondaryRequest, TypeOK, STOP, Conversation, RingsEmpty, RequestQueued,
       RequestTaken, ReplyReady, ReplyQueued
  <2>2. Abstract!Serve
    BY <1>0, <1>2, <2>1 DEF SecondaryRequest, primaryVars, RequestQueued, TypeOK, Abstract!Serve
  <2>. QED  BY <2>2 DEF Abstract!Next
<1>3. CASE PrimaryReceive
  <2>1. ReplyQueued /\ Len(received) = i
    BY <1>0, <1>3 DEF PrimaryReceive, Conversation, RingsEmpty, RequestQueued, RequestTaken,
       ReplyReady, ReplyQueued
  <2>2. received' = Append(received, 10 * handled[Len(received) + 1])
    BY <1>3, <2>1 DEF PrimaryReceive, ReplyQueued
  <2>3. Abstract!Answer
    BY <1>0, <1>3, <2>1, <2>2 DEF PrimaryReceive, secondaryVars, ReplyQueued, TypeOK,
       Abstract!Answer
  <2>. QED  BY <2>3 DEF Abstract!Next
<1>4. CASE SecondaryStop
  <2>1. p_pc = "done"
    BY <1>0, <1>4 DEF SecondaryStop, TypeOK, STOP, Conversation, RingsEmpty, RequestQueued,
       RequestTaken, ReplyReady, ReplyQueued
  <2>2. Abstract!Leave
    BY <1>0, <1>4, <2>1 DEF SecondaryStop, primaryVars, Conversation, Progress, Abstract!Leave
  <2>. QED  BY <2>2 DEF Abstract!Next
<1>5. CASE PrimaryFree
  BY <1>0, <1>5 DEF PrimaryFree, secondaryVars, TypeOK, Abstract!vars
<1>6. CASE \/ PrimaryCreateRing1 \/ PrimaryCreateRing2 \/ PrimaryCreateFails
           \/ PrimaryAlloc \/ PrimaryAllocStop \/ PrimaryStop
  BY <1>6 DEF PrimaryCreateRing1, PrimaryCreateRing2, PrimaryCreateFails, PrimaryAlloc,
     PrimaryAllocStop, PrimaryStop, secondaryVars, Abstract!vars
<1>7. CASE SecondaryInit \/ SecondaryLookup \/ SecondaryCompute \/ SecondaryReply
  BY <1>7 DEF SecondaryInit, SecondaryLookup, SecondaryCompute, SecondaryReply, primaryVars,
     Abstract!vars
<1>8. CASE UNCHANGED vars
  BY <1>8 DEF vars, primaryVars, secondaryVars, Abstract!vars
<1>. QED  BY <1>1, <1>2, <1>3, <1>4, <1>5, <1>6, <1>7, <1>8 DEF Next, Primary, Secondary, Ended

\* The two processes implement RequestReply: each request is handled once and
\* answered by ten times its value, in order, and the secondary leaves only
\* after the last answer.
THEOREM DuplexRefinement == Spec => ImplementsRequestReply
<1>1. Init => Abstract!Init
  BY InitRefines
<1>2. DuplexInv /\ [Next]_vars => [Abstract!Next]_Abstract!vars
  BY NextRefines
<1>. QED  BY <1>1, <1>2, DuplexInvariant, PTL DEF Spec, ImplementsRequestReply, Abstract!Spec
=============================================================================
