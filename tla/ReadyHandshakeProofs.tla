------------------------ MODULE ReadyHandshakeProofs ------------------------
(***************************************************************************)
(* Safety of the ready handshake for every ring size, socket depth and     *)
(* number of messages.                                                     *)
(***************************************************************************)
EXTENDS ReadyHandshake, TLAPS, SequenceTheorems

\* What a reply, the flag and the sending loop each tell about the secondary:
\* the chain from two registered callbacks to the first number in the ring.
Chain ==
  /\ s_pc \in {"absent", "register", "exited"} => ~ready_check_registered
  /\ p_pc = "init" => ~ready_reply_registered
  /\ replies > 0 => ready_check_registered
  /\ secondary_ready => ready_check_registered /\ ready_reply_registered
  /\ p_pc \in {"wait", "send", "done"} => secondary_ready
  /\ i > 0 => p_pc \in {"send", "done"}

\* The numbers 0 .. n - 1 in order.
Numbered(n) == [k \in 1..n |-> k - 1]

HandshakeInv == TypeOK /\ Chain /\ DeliveredInOrder

-----------------------------------------------------------------------------
(* Facts about sequences of numbers *)

\* One more number at the end.
LEMMA NumberedStep ==
  ASSUME NEW n \in Nat
  PROVE  /\ Numbered(n) \in Seq(Nat) /\ Len(Numbered(n)) = n
         /\ Append(Numbered(n), n) = Numbered(n + 1)
<1>1. Numbered(n) \in Seq(Nat) /\ Len(Numbered(n)) = n
  BY DEF Numbered
<1>2. Numbered(n + 1) \in Seq(Nat) /\ Len(Numbered(n + 1)) = n + 1
  BY DEF Numbered
<1>3. /\ Append(Numbered(n), n) \in Seq(Nat) /\ Len(Append(Numbered(n), n)) = n + 1
      /\ \A k \in 1..n : Append(Numbered(n), n)[k] = Numbered(n)[k]
      /\ Append(Numbered(n), n)[n + 1] = n
  BY <1>1, AppendProperties
<1>4. ASSUME NEW k \in 1..(n + 1)
      PROVE  Append(Numbered(n), n)[k] = Numbered(n + 1)[k]
  BY <1>3 DEF Numbered
<1>. QED  BY <1>1, <1>2, <1>3, <1>4, SeqEqual

\* Enqueueing behind what was received, and receiving from the front.
LEMMA Moves ==
  ASSUME NEW s \in Seq(Nat), NEW r \in Seq(Nat)
  PROVE  /\ Len(s \o r) = Len(s) + Len(r)
         /\ \A e \in Nat : s \o Append(r, e) = Append(s \o r, e)
         /\ r # <<>> => Append(s, Head(r)) \o Tail(r) = s \o r
<1>1. Len(s \o r) = Len(s) + Len(r) /\ s \o r \in Seq(Nat)
  BY ConcatProperties
<1>2. ASSUME NEW e \in Nat PROVE s \o Append(r, e) = Append(s \o r, e)
  BY <1>1, AppendIsConcat, ConcatAssociative, <<e>> \in Seq(Nat)
<1>3. ASSUME r # <<>> PROVE Append(s, Head(r)) \o Tail(r) = s \o r
  <2>1. Head(r) \in Nat /\ Tail(r) \in Seq(Nat) /\ <<Head(r)>> \in Seq(Nat)
    BY <1>3, HeadTailProperties
  <2>2. r = <<Head(r)>> \o Tail(r)
    BY <1>3
  <2>3. Append(s, Head(r)) = s \o <<Head(r)>>
    BY <2>1, AppendIsConcat
  <2>. QED  BY <2>1, <2>2, <2>3, ConcatAssociative
<1>. QED  BY <1>1, <1>2, <1>3

-----------------------------------------------------------------------------
(* The inductive invariant *)

\* Before the set-up nothing is counted and nothing is queued.
LEMMA InitInv == Init => HandshakeInv
<1> SUFFICES ASSUME Init PROVE HandshakeInv
  OBVIOUS
<1> USE HandshakeAssumption
<1>1. TypeOK
  <2>1. <<>> \in Seq(Nat)
    OBVIOUS
  <2>2. /\ secondary_ready \in BOOLEAN /\ created \in BOOLEAN
        /\ ready_reply_registered \in BOOLEAN /\ ready_check_registered \in BOOLEAN
    BY DEF Init
  <2>. QED  BY <2>1, <2>2 DEF Init, TypeOK
<1>2. Chain
  BY DEF Init, Chain
<1>3. <<>> \o <<>> = [k \in 1..0 |-> k - 1]
  OBVIOUS
<1>4. DeliveredInOrder
  BY <1>3 DEF Init, DeliveredInOrder
<1>. QED  BY <1>1, <1>2, <1>4 DEF HandshakeInv

\* Every step of the two mains and of the two message threads.
LEMMA NextInv == HandshakeInv /\ [Next]_vars => HandshakeInv'
<1> SUFFICES ASSUME HandshakeInv, [Next]_vars PROVE HandshakeInv'
  OBVIOUS
<1> USE HandshakeAssumption
<1> USE DEF HandshakeInv
<1>1. CASE PrimarySetup
  <2>1. TypeOK' /\ Chain'
    BY <1>1 DEF PrimarySetup, TypeOK, Chain, secondaryVars, messages
  <2>2. i = 0 /\ UNCHANGED <<i, received, ring>>
    BY <1>1 DEF PrimarySetup, TypeOK, Chain, secondaryVars
  <2>. QED  BY <2>1, <2>2 DEF DeliveredInOrder
<1>2. CASE PrimarySendCheck
  <2>1. TypeOK' /\ Chain'
    BY <1>2 DEF PrimarySendCheck, Delivered, TypeOK, Chain, primaryVars, secondaryVars
  <2>. QED
    BY <1>2, <2>1 DEF PrimarySendCheck, DeliveredInOrder, primaryVars, secondaryVars
<1>3. CASE PrimaryIsReady
  <2>1. TypeOK' /\ Chain'
    BY <1>3 DEF PrimaryIsReady, TypeOK, Chain, secondaryVars, messages
  <2>. QED  BY <1>3, <2>1 DEF PrimaryIsReady, DeliveredInOrder, secondaryVars
<1>4. CASE PrimaryReadyCallback
  <2>1. TypeOK' /\ Chain'
    BY <1>4 DEF PrimaryReadyCallback, TypeOK, Chain, secondaryVars
  <2>. QED  BY <1>4, <2>1 DEF PrimaryReadyCallback, DeliveredInOrder, secondaryVars
<1>5. CASE PrimarySendNumber
  <2>1. i \in Nat /\ i' = i + 1 /\ received' = received /\ ring \in Seq(Nat) /\ received \in Seq(Nat)
    BY <1>5 DEF PrimarySendNumber, TypeOK, secondaryVars
  <2>2. TypeOK'
    <3>1. ring' \in Seq(Nat) /\ lost' \in Seq(Nat)
      <4>1. lost \in Seq(Nat)
        BY DEF TypeOK
      <4>2. Append(ring, i) \in Seq(Nat) /\ Append(lost, i) \in Seq(Nat)
        BY <2>1, <4>1, AppendProperties
      <4>. QED  BY <1>5, <2>1, <4>1, <4>2 DEF PrimarySendNumber
    <3>2. UNCHANGED <<p_pc, secondary_ready, ready_reply_registered, created, s_pc,
                      ready_check_registered, received, checks, replies>>
      BY <1>5 DEF PrimarySendNumber, secondaryVars, messages
    <3>3. i' \in Nat /\ i' <= Numbers
      BY <1>5, <2>1 DEF PrimarySendNumber
    <3>. QED  BY <3>1, <3>2, <3>3 DEF TypeOK
  <2>3. Chain'
    BY <1>5, <2>1 DEF PrimarySendNumber, Chain, secondaryVars, messages
  <2>4. ready_check_registered' /\ ready_reply_registered'
    BY <1>5 DEF PrimarySendNumber, Chain, secondaryVars
  <2>5. ASSUME Numbers < RING_SIZE PROVE (received \o ring)' = Numbered(i + 1)
    <3>1. received \o ring = Numbered(i)
      BY <2>5 DEF DeliveredInOrder, Numbered
    <3>2. Len(received) + Len(ring) = i
      <4>1. Len(received \o ring) = Len(received) + Len(ring)
        BY <2>1, Moves
      <4>2. Len(Numbered(i)) = i
        BY <2>1, NumberedStep
      <4>. QED  BY <3>1, <4>1, <4>2
    <3>3. ~Full(ring, RING_SIZE)
      BY <1>5, <2>1, <2>5, <3>2, LenProperties DEF Full, Usable, PrimarySendNumber
    <3>4. ring' = Append(ring, i)
      BY <1>5, <3>3 DEF PrimarySendNumber
    <3>5. received \o Append(ring, i) = Append(received \o ring, i)
      BY <2>1, Moves
    <3>6. Append(Numbered(i), i) = Numbered(i + 1)
      BY <2>1, NumberedStep
    <3>. QED  BY <2>1, <3>1, <3>4, <3>5, <3>6
  <2>. QED  BY <2>1, <2>2, <2>3, <2>4, <2>5 DEF DeliveredInOrder, Numbered
<1>6. CASE PrimaryReturn
  <2>1. TypeOK' /\ Chain'
    BY <1>6 DEF PrimaryReturn, TypeOK, Chain, secondaryVars
  <2>. QED  BY <1>6, <2>1 DEF PrimaryReturn, DeliveredInOrder, secondaryVars
<1>7. CASE SecondaryStart \/ SecondaryLookup
  <2>1. TypeOK' /\ Chain'
    BY <1>7 DEF SecondaryStart, SecondaryLookup, TypeOK, Chain, primaryVars, messages
  <2>. QED
    BY <1>7, <2>1 DEF SecondaryStart, SecondaryLookup, DeliveredInOrder, primaryVars
<1>r. CASE SecondaryRegister
  <2>1. /\ ready_check_registered' \in BOOLEAN
        /\ replies = 0 /\ ~secondary_ready /\ i = 0
    BY <1>r DEF SecondaryRegister, Chain, TypeOK
  <2>2. TypeOK'
    BY <1>r, <2>1 DEF SecondaryRegister, TypeOK, primaryVars, messages
  <2>3. Chain'
    BY <1>r, <2>1 DEF SecondaryRegister, Chain, primaryVars, messages
  <2>. QED  BY <1>r, <2>1, <2>2, <2>3 DEF SecondaryRegister, DeliveredInOrder, primaryVars
<1>8. CASE SecondaryCheckCallback
  <2>1. TypeOK' /\ Chain'
    BY <1>8 DEF SecondaryCheckCallback, TypeOK, Chain, primaryVars, secondaryVars
  <2>. QED
    BY <1>8, <2>1 DEF SecondaryCheckCallback, DeliveredInOrder, primaryVars, secondaryVars
<1>9. CASE SecondaryConsume
  <2>1. ring \in Seq(Nat) /\ received \in Seq(Nat) /\ ring # <<>>
    BY <1>9 DEF SecondaryConsume, TypeOK
  <2>2. TypeOK'
    BY <1>9, <2>1, AppendProperties, HeadTailProperties
    DEF SecondaryConsume, TypeOK, primaryVars, messages
  <2>3. Chain'
    BY <1>9 DEF SecondaryConsume, Chain, primaryVars, messages
  <2>4. (received \o ring)' = received \o ring
    BY <1>9, <2>1, Moves DEF SecondaryConsume
  <2>. QED  BY <1>9, <2>2, <2>3, <2>4 DEF SecondaryConsume, DeliveredInOrder, primaryVars
<1>10. CASE UNCHANGED vars
  BY <1>10 DEF vars, primaryVars, secondaryVars, messages, TypeOK, Chain, DeliveredInOrder
<1>. QED
  BY <1>1, <1>2, <1>3, <1>4, <1>5, <1>6, <1>7, <1>r, <1>8, <1>9, <1>10
  DEF Next, Primary, Secondary, Idle

-----------------------------------------------------------------------------
(* Theorems *)

\* The handshake keeps its invariant: no reply without a registered callback,
\* no flag without a reply and a callback for it, no number without the flag.
THEOREM HandshakeInvariant == Spec => []HandshakeInv
<1>. QED  BY InitInv, NextInv, PTL DEF Spec

\* Types and loop bounds of both processes.
THEOREM HandshakeTypeCorrect == Spec => []TypeOK
<1>1. HandshakeInv => TypeOK
  BY DEF HandshakeInv
<1>. QED  BY <1>1, HandshakeInvariant, PTL

\* No number enters DATA_RING before both callbacks are registered, and
\* a ring with more than Numbers slots loses none of them and keeps their
\* order, whichever checks and replies are dropped or repeated.
THEOREM HandshakeDelivers == Spec => []DeliveredInOrder
<1>1. HandshakeInv => DeliveredInOrder
  BY DEF HandshakeInv
<1>. QED  BY <1>1, HandshakeInvariant, PTL
=============================================================================
