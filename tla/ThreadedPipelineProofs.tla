----------------------- MODULE ThreadedPipelineProofs -----------------------
(***************************************************************************)
(* Safety of the threaded pipeline for every limit, burst and ring size.   *)
(***************************************************************************)
EXTENDS MCThreadedPipeline, TLAPS, SequenceTheorems

-----------------------------------------------------------------------------
(* Facts about the ring operators *)

\* A split of a sequence at n gives a front of length n and the rest.
LEMMA Split ==
  ASSUME NEW s \in Seq(Nat), NEW n \in 0..Len(s)
  PROVE  /\ Taken(s, n) \in Seq(Nat) /\ Len(Taken(s, n)) = n
         /\ Rest(s, n) \in Seq(Nat)  /\ Len(Rest(s, n)) = Len(s) - n
BY SubSeqProperties DEF Taken, Rest

\* A burst moves no more than asked for and no more than is there.
LEMMA DequeueBound ==
  ASSUME NEW r \in Seq(Nat), NEW b \in Nat
  PROVE  /\ DequeueCount(r, b) \in 0..Len(r)
         /\ DequeueCount(r, b) <= b
BY LenProperties DEF DequeueCount, Least

\* A burst enqueue never overfills the ring.
LEMMA EnqueueBound ==
  ASSUME NEW r \in Seq(Nat), NEW n \in Nat, NEW size \in Nat \ {0},
         Len(r) <= Usable(size)
  PROVE  /\ EnqueueCount(r, n, size) \in 0..n
         /\ Len(r) + EnqueueCount(r, n, size) <= Usable(size)
         /\ Len(r) + n <= Usable(size) => EnqueueCount(r, n, size) = n
BY LenProperties DEF EnqueueCount, Least, Room, Usable

\* Concatenation adds lengths.
LEMMA Join ==
  ASSUME NEW s \in Seq(Nat), NEW t \in Seq(Nat)
  PROVE  s \o t \in Seq(Nat) /\ Len(s \o t) = Len(s) + Len(t)
BY ConcatProperties

\* Enqueueing one object.
LEMMA AppendOne ==
  ASSUME NEW s \in Seq(Nat), NEW e \in Nat
  PROVE  Append(s, e) \in Seq(Nat) /\ Len(Append(s, e)) = Len(s) + 1
BY AppendProperties

-----------------------------------------------------------------------------
(* The inductive invariant *)

\* Where a loop stands tells what its local burst holds and, for RX, how much
\* of the limit is used up.  A loop that has not started has counted nothing,
\* so the reset of its counter at the start changes nothing.
LoopState ==
  /\ (rx_pc = "enqueue") <=> (Len(rx_pkts) > 0)
  /\ (parser_pc = "enqueue") <=> (Len(parser_pkts) > 0)
  /\ (tx_pc = "burst") <=> (Len(tx_pkts) > 0)
  /\ Len(tx_pkts) <= BURST_SIZE
  /\ rx_pc \in {"off", "start"} => rx_count = 0
  /\ parser_pc \in {"off", "start"} => parser_count = 0
  /\ tx_pc \in {"off", "start"} => tx_count = 0
  /\ rx_pc \in {"off", "start", "check", "burst"} => rx_count < RxLimit
  /\ rx_pc = "stopped" => rx_count >= RxLimit
  /\ rx_count < RxLimit + BURST_SIZE
  /\ force_quit => rx_pc = "stopped"
  /\ parser_pc = "stopped" \/ tx_pc = "stopped" => force_quit

\* main launches each loop once at most and leaves the wait only when none runs.
MainState ==
  /\ main_pc \in {"setup", "launch_rx", "exited"} => rx_pc = "off"
  /\ main_pc \in {"setup", "launch_rx", "launch_parser", "exited"} => parser_pc = "off"
  /\ main_pc \in {"setup", "launch_rx", "launch_parser", "launch_tx", "exited"} => tx_pc = "off"
  /\ main_pc = "done" => AllStopped /\ report = totals

PipelineInv ==
  TypeOK /\ CountersAgree /\ LoopState /\ MainState /\ SizedRingsLoseNothing

\* The empty sequence is the one of length zero.
LEMMA EmptyLen ==
  ASSUME NEW s \in Seq(Nat)
  PROVE  (s = <<>>) <=> (Len(s) = 0)
BY EmptySeq

\* The invariant holds initially: nothing is launched, counted or queued.
LEMMA InitInv == Init => PipelineInv
<1> SUFFICES ASSUME Init PROVE PipelineInv
  OBVIOUS
<1> USE PipelineAssumption
<1>1. Len(<<>>) = 0 /\ <<>> \in Seq(Nat)
  OBVIOUS
<1>2. TypeOK
  <2>1. force_quit \in BOOLEAN /\ report \in [rx : Nat, parser : Nat, tx : Nat]
    BY DEF Init
  <2>2. Len(ring_rx_to_parse) <= Usable(RX_RING_SIZE)
    BY <1>1 DEF Init, Usable
  <2>3. Len(ring_parse_to_tx) <= Usable(TX_RING_SIZE)
    BY <1>1 DEF Init, Usable
  <2>4. main_pc = "setup" /\ rx_pc = "off" /\ parser_pc = "off" /\ tx_pc = "off"
    BY DEF Init
  <2>. QED  BY <1>1, <2>1, <2>2, <2>3, <2>4 DEF Init, TypeOK
<1>3. CountersAgree
  BY <1>1 DEF Init, CountersAgree, PastTxRing
<1>4. LoopState
  BY <1>1 DEF Init, LoopState
<1>5. MainState
  BY DEF Init, MainState
<1>6. SizedRingsLoseNothing
  BY DEF Init, SizedRingsLoseNothing
<1>. QED  BY <1>2, <1>3, <1>4, <1>5, <1>6 DEF PipelineInv

\* Every step of main and of the three loops preserves the invariant.
LEMMA NextInv == PipelineInv /\ [Next]_vars => PipelineInv'
<1> SUFFICES ASSUME PipelineInv, [Next]_vars PROVE PipelineInv'
  OBVIOUS
<1> USE PipelineAssumption
<1> USE DEF PipelineInv
<1>0. /\ Len(rx_pkts) \in Nat /\ Len(parser_pkts) \in Nat /\ Len(tx_pkts) \in Nat
      /\ Len(ring_rx_to_parse) \in Nat /\ Len(ring_parse_to_tx) \in Nat
      /\ Len(sent) \in Nat /\ Len(unsent) \in Nat /\ Len(dropped) \in Nat /\ Len(leaked) \in Nat
      /\ rx_count \in Nat /\ parser_count \in Nat /\ tx_count \in Nat /\ accepted \in Nat
  BY LenProperties DEF TypeOK
<1>a. /\ rx_pkts \in Seq(Nat) /\ parser_pkts \in Seq(Nat) /\ tx_pkts \in Seq(Nat)
      /\ ring_rx_to_parse \in Seq(Nat) /\ ring_parse_to_tx \in Seq(Nat)
      /\ sent \in Seq(Nat) /\ dropped \in Seq(Nat) /\ unsent \in Seq(Nat) /\ leaked \in Seq(Nat)
  BY DEF TypeOK
<1>1. CASE MainSetup
  <2>1. TypeOK'
    BY <1>0, <1>1 DEF TypeOK, MainSetup, mainVars, rxVars, parserVars, txVars, rings, ends
  <2>2. CountersAgree'
    BY <1>0, <1>1 DEF TypeOK, LoopState, CountersAgree, PastTxRing, MainSetup, mainVars, rxVars, parserVars, txVars, rings, ends
  <2>3. LoopState'
    BY <1>0, <1>1 DEF TypeOK, LoopState, MainState, MainSetup, mainVars, rxVars, parserVars, txVars, rings, ends
  <2>4. MainState'
    BY <1>0, <1>1 DEF MainState, AllStopped, totals, MainSetup, mainVars, rxVars, parserVars, txVars, rings, ends
  <2>5. SizedRingsLoseNothing'
    BY <1>0, <1>1 DEF SizedRingsLoseNothing, MainSetup, mainVars, rxVars, parserVars, txVars, rings, ends
  <2>. QED  BY <2>1, <2>2, <2>3, <2>4, <2>5 DEF PipelineInv
<1>2. CASE MainLaunchRx
  <2>1. TypeOK'
    BY <1>0, <1>2 DEF TypeOK, MainLaunchRx, mainVars, rxVars, parserVars, txVars, rings, ends
  <2>2. CountersAgree'
    BY <1>0, <1>2 DEF TypeOK, LoopState, CountersAgree, PastTxRing, MainLaunchRx, mainVars, rxVars, parserVars, txVars, rings, ends
  <2>3. LoopState'
    BY <1>0, <1>2 DEF TypeOK, LoopState, MainState, MainLaunchRx, mainVars, rxVars, parserVars, txVars, rings, ends
  <2>4. MainState'
    BY <1>0, <1>2 DEF MainState, AllStopped, totals, MainLaunchRx, mainVars, rxVars, parserVars, txVars, rings, ends
  <2>5. SizedRingsLoseNothing'
    BY <1>0, <1>2 DEF SizedRingsLoseNothing, MainLaunchRx, mainVars, rxVars, parserVars, txVars, rings, ends
  <2>. QED  BY <2>1, <2>2, <2>3, <2>4, <2>5 DEF PipelineInv
<1>3. CASE MainLaunchParser
  <2>1. TypeOK'
    BY <1>0, <1>3 DEF TypeOK, MainLaunchParser, mainVars, rxVars, parserVars, txVars, rings, ends
  <2>2. CountersAgree'
    BY <1>0, <1>3 DEF TypeOK, LoopState, CountersAgree, PastTxRing, MainLaunchParser, mainVars, rxVars, parserVars, txVars, rings, ends
  <2>3. LoopState'
    BY <1>0, <1>3 DEF TypeOK, LoopState, MainState, MainLaunchParser, mainVars, rxVars, parserVars, txVars, rings, ends
  <2>4. MainState'
    BY <1>0, <1>3 DEF MainState, AllStopped, totals, MainLaunchParser, mainVars, rxVars, parserVars, txVars, rings, ends
  <2>5. SizedRingsLoseNothing'
    BY <1>0, <1>3 DEF SizedRingsLoseNothing, MainLaunchParser, mainVars, rxVars, parserVars, txVars, rings, ends
  <2>. QED  BY <2>1, <2>2, <2>3, <2>4, <2>5 DEF PipelineInv
<1>4. CASE MainLaunchTx
  <2>1. TypeOK'
    BY <1>0, <1>4 DEF TypeOK, MainLaunchTx, mainVars, rxVars, parserVars, txVars, rings, ends
  <2>2. CountersAgree'
    BY <1>0, <1>4 DEF TypeOK, LoopState, CountersAgree, PastTxRing, MainLaunchTx, mainVars, rxVars, parserVars, txVars, rings, ends
  <2>3. LoopState'
    BY <1>0, <1>4 DEF TypeOK, LoopState, MainState, MainLaunchTx, mainVars, rxVars, parserVars, txVars, rings, ends
  <2>4. MainState'
    BY <1>0, <1>4 DEF MainState, AllStopped, totals, MainLaunchTx, mainVars, rxVars, parserVars, txVars, rings, ends
  <2>5. SizedRingsLoseNothing'
    BY <1>0, <1>4 DEF SizedRingsLoseNothing, MainLaunchTx, mainVars, rxVars, parserVars, txVars, rings, ends
  <2>. QED  BY <2>1, <2>2, <2>3, <2>4, <2>5 DEF PipelineInv
<1>5. CASE MainReport
  <2>1. TypeOK'
    BY <1>0, <1>5 DEF TypeOK, MainReport, mainVars, rxVars, parserVars, txVars, rings, ends, AllStopped, totals
  <2>2. CountersAgree'
    BY <1>0, <1>5 DEF TypeOK, LoopState, CountersAgree, PastTxRing, MainReport, mainVars, rxVars, parserVars, txVars, rings, ends, AllStopped, totals
  <2>3. LoopState'
    BY <1>0, <1>5 DEF TypeOK, LoopState, MainState, MainReport, mainVars, rxVars, parserVars, txVars, rings, ends, AllStopped, totals
  <2>4. MainState'
    BY <1>0, <1>5 DEF MainState, AllStopped, totals, MainReport, mainVars, rxVars, parserVars, txVars, rings, ends, AllStopped, totals
  <2>5. SizedRingsLoseNothing'
    BY <1>0, <1>5 DEF SizedRingsLoseNothing, MainReport, mainVars, rxVars, parserVars, txVars, rings, ends, AllStopped, totals
  <2>. QED  BY <2>1, <2>2, <2>3, <2>4, <2>5 DEF PipelineInv
<1>6. CASE RxStart
  <2>1. TypeOK'
    BY <1>0, <1>6 DEF TypeOK, RxStart, mainVars, rxVars, parserVars, txVars, rings, ends
  <2>2. CountersAgree'
    BY <1>0, <1>6 DEF TypeOK, LoopState, CountersAgree, PastTxRing, RxStart, mainVars, rxVars, parserVars, txVars, rings, ends
  <2>3. LoopState'
    BY <1>0, <1>6 DEF TypeOK, LoopState, MainState, RxStart, mainVars, rxVars, parserVars, txVars, rings, ends
  <2>4. MainState'
    BY <1>0, <1>6 DEF MainState, AllStopped, totals, RxStart, mainVars, rxVars, parserVars, txVars, rings, ends
  <2>5. SizedRingsLoseNothing'
    BY <1>0, <1>6 DEF SizedRingsLoseNothing, RxStart, mainVars, rxVars, parserVars, txVars, rings, ends
  <2>. QED  BY <2>1, <2>2, <2>3, <2>4, <2>5 DEF PipelineInv
<1>7. CASE RxCheck
  <2>1. TypeOK'
    BY <1>0, <1>7 DEF TypeOK, RxCheck, mainVars, rxVars, parserVars, txVars, rings, ends
  <2>2. CountersAgree'
    BY <1>0, <1>7 DEF TypeOK, LoopState, CountersAgree, PastTxRing, RxCheck, mainVars, rxVars, parserVars, txVars, rings, ends
  <2>3. LoopState'
    BY <1>0, <1>7 DEF TypeOK, LoopState, MainState, RxCheck, mainVars, rxVars, parserVars, txVars, rings, ends
  <2>4. MainState'
    BY <1>0, <1>7 DEF MainState, AllStopped, totals, RxCheck, mainVars, rxVars, parserVars, txVars, rings, ends
  <2>5. SizedRingsLoseNothing'
    BY <1>0, <1>7 DEF SizedRingsLoseNothing, RxCheck, mainVars, rxVars, parserVars, txVars, rings, ends
  <2>. QED  BY <2>1, <2>2, <2>3, <2>4, <2>5 DEF PipelineInv
<1>8. ASSUME NEW n \in 0..BURST_SIZE, RxBurst(n) PROVE PipelineInv'
  <2>1. [i \in 1..n |-> accepted + i] \in Seq(Nat) /\ Len([i \in 1..n |-> accepted + i]) = n
    BY DEF TypeOK
  <2>t. n \in Nat /\ n <= BURST_SIZE /\ rx_pkts' \in Seq(Nat) /\ Len(rx_pkts') = n
    BY <1>8, <2>1 DEF RxBurst
  <2>e. /\ rx_pc = "burst" /\ rx_pc' = IF n > 0 THEN "enqueue" ELSE "limit"
        /\ rx_count' = rx_count + n /\ accepted' = accepted + n
        /\ UNCHANGED <<main_pc, report, parser_pc, parser_count, parser_pkts, tx_pc, tx_count,
                       tx_pkts, ring_rx_to_parse, ring_parse_to_tx, force_quit,
                       sent, dropped, unsent, leaked>>
    BY <1>8 DEF RxBurst, mainVars, rxVars, parserVars, txVars, rings, ends
  <2>2. TypeOK'
    BY <1>0, <2>t, <2>e DEF TypeOK, Usable
  <2>3. CountersAgree'
    <3>0. Len(rx_pkts) = 0
      BY <1>0, <2>e DEF LoopState
    <3>1. rx_count' = accepted'
      BY <2>e DEF CountersAgree
    <3>2. tx_count' = PastTxRing'
      BY <1>0, <2>t, <2>e, <3>0 DEF CountersAgree, PastTxRing
    <3>3. parser_count' = (PastTxRing + Len(ring_parse_to_tx) + Len(dropped) + Len(parser_pkts))'
      BY <1>0, <2>t, <2>e, <3>0 DEF CountersAgree, PastTxRing
    <3>4. rx_count' = (parser_count + Len(ring_rx_to_parse) + Len(leaked) + Len(rx_pkts))'
      BY <1>0, <2>t, <2>e, <3>0 DEF CountersAgree
    <3>. QED  BY <3>1, <3>2, <3>3, <3>4 DEF CountersAgree
  <2>4. LoopState'
    BY <1>0, <2>t, <2>e DEF TypeOK, LoopState
  <2>5. MainState'
    BY <1>0, <2>t, <2>e DEF MainState, AllStopped, totals
  <2>6. SizedRingsLoseNothing'
    BY <2>e DEF SizedRingsLoseNothing
  <2>. QED  BY <2>2, <2>3, <2>4, <2>5, <2>6 DEF PipelineInv
<1>9. CASE RxEnqueue
  <2>1. rx_pc = "enqueue" /\ rx_pkts # <<>>
    BY <1>0, <1>9, EmptyLen DEF RxEnqueue, TypeOK, LoopState
  <2>2. /\ Head(rx_pkts) \in Nat /\ Tail(rx_pkts) \in Seq(Nat)
        /\ Len(Tail(rx_pkts)) = Len(rx_pkts) - 1
    BY <2>1, HeadTailProperties DEF TypeOK
  <2>3. \/ /\ Full(ring_rx_to_parse, RX_RING_SIZE)
           /\ leaked' = Append(leaked, Head(rx_pkts)) /\ UNCHANGED ring_rx_to_parse
        \/ /\ ~Full(ring_rx_to_parse, RX_RING_SIZE)
           /\ ring_rx_to_parse' = Append(ring_rx_to_parse, Head(rx_pkts)) /\ UNCHANGED leaked
    BY <1>9 DEF RxEnqueue, EnqueueIgnoringResult
  <2>4. /\ Append(leaked, Head(rx_pkts)) \in Seq(Nat)
        /\ Len(Append(leaked, Head(rx_pkts))) = Len(leaked) + 1
        /\ Append(ring_rx_to_parse, Head(rx_pkts)) \in Seq(Nat)
        /\ Len(Append(ring_rx_to_parse, Head(rx_pkts))) = Len(ring_rx_to_parse) + 1
    BY <1>a, <2>2, AppendOne
  <2>t. /\ leaked' \in Seq(Nat) /\ ring_rx_to_parse' \in Seq(Nat)
        /\ Len(leaked') \in Nat /\ Len(ring_rx_to_parse') \in Nat
        /\ \/ Len(ring_rx_to_parse') = Len(ring_rx_to_parse) + 1 /\ Len(leaked') = Len(leaked)
           \/ Len(ring_rx_to_parse') = Len(ring_rx_to_parse) /\ Len(leaked') = Len(leaked) + 1
        /\ Len(ring_rx_to_parse') <= Usable(RX_RING_SIZE)
    <3>1. CASE Full(ring_rx_to_parse, RX_RING_SIZE)
      <4>1. /\ leaked' \in Seq(Nat) /\ Len(leaked') = Len(leaked) + 1
            /\ UNCHANGED ring_rx_to_parse
        BY <2>3, <2>4, <3>1
      <4>. QED  BY <1>0, <1>a, <4>1 DEF TypeOK
    <3>2. CASE ~Full(ring_rx_to_parse, RX_RING_SIZE)
      <4>1. /\ ring_rx_to_parse' \in Seq(Nat)
            /\ Len(ring_rx_to_parse') = Len(ring_rx_to_parse) + 1 /\ UNCHANGED leaked
        BY <2>3, <2>4, <3>2
      <4>2. Len(ring_rx_to_parse) + 1 <= Usable(RX_RING_SIZE)
        BY <1>0, <3>2 DEF Full, Usable
      <4>. QED  BY <1>0, <1>a, <4>1, <4>2
    <3>. QED  BY <3>1, <3>2
  <2>e. /\ rx_pc = "enqueue" /\ rx_pc' = IF Len(rx_pkts) = 1 THEN "limit" ELSE "enqueue"
        /\ rx_pkts' \in Seq(Nat) /\ Len(rx_pkts') = Len(rx_pkts) - 1
        /\ UNCHANGED <<main_pc, report, rx_count, parser_pc, parser_count, parser_pkts, tx_pc,
                       tx_count, tx_pkts, ring_parse_to_tx, force_quit, accepted,
                       sent, dropped, unsent>>
    BY <1>9, <2>2 DEF RxEnqueue, mainVars, rxVars, parserVars, txVars, rings, ends
  <2>5. RxLimit + BURST_SIZE <= RX_RING_SIZE => ~Full(ring_rx_to_parse, RX_RING_SIZE)
    <3>1. Len(ring_rx_to_parse) + Len(rx_pkts) <= rx_count
      BY <1>0 DEF CountersAgree, PastTxRing, TypeOK
    <3>. QED  BY <1>0, <2>1, <3>1 DEF LoopState, TypeOK, Full, Usable
  <2>6. TypeOK'
    BY <1>0, <2>t, <2>e DEF TypeOK, Usable
  <2>7. CountersAgree'
    <3>1. rx_count' = accepted'
      BY <2>e DEF CountersAgree
    <3>2. tx_count' = PastTxRing'
      BY <1>0, <2>t, <2>e DEF CountersAgree, PastTxRing
    <3>3. parser_count' = (PastTxRing + Len(ring_parse_to_tx) + Len(dropped) + Len(parser_pkts))'
      BY <1>0, <2>t, <2>e DEF CountersAgree, PastTxRing
    <3>4. rx_count' = (parser_count + Len(ring_rx_to_parse) + Len(leaked) + Len(rx_pkts))'
      <4>1. /\ rx_count' = rx_count /\ parser_count' = parser_count
            /\ Len(rx_pkts') \in Nat /\ Len(rx_pkts') = Len(rx_pkts) - 1
        BY <2>e, LenProperties
      <4>2. rx_count = parser_count + Len(ring_rx_to_parse) + Len(leaked) + Len(rx_pkts)
        BY DEF CountersAgree
      <4>3. CASE Len(ring_rx_to_parse') = Len(ring_rx_to_parse) + 1 /\ Len(leaked') = Len(leaked)
        BY <1>0, <4>1, <4>2, <4>3
      <4>4. CASE Len(ring_rx_to_parse') = Len(ring_rx_to_parse) /\ Len(leaked') = Len(leaked) + 1
        BY <1>0, <4>1, <4>2, <4>4
      <4>. QED  BY <2>t, <4>3, <4>4
    <3>. QED  BY <3>1, <3>2, <3>3, <3>4 DEF CountersAgree
  <2>8. LoopState'
    <3>1. /\ Len(rx_pkts) \in Nat /\ Len(rx_pkts) > 0
          /\ Len(rx_pkts') \in Nat /\ Len(rx_pkts') = Len(rx_pkts) - 1
      BY <1>0, <2>1, <2>e, LenProperties DEF LoopState
    <3>2. (rx_pc' = "enqueue") <=> (Len(rx_pkts') > 0)
      BY <2>e, <3>1
    <3>3. rx_pc' \in {"limit", "enqueue"} /\ rx_count' < RxLimit + BURST_SIZE
      BY <2>e DEF LoopState
    <3>. QED  BY <2>e, <3>2, <3>3 DEF LoopState
  <2>9. MainState'
    BY <1>0, <2>t, <2>e DEF MainState, AllStopped, totals
  <2>10. SizedRingsLoseNothing'
    BY <2>e, <2>3, <2>5 DEF SizedRingsLoseNothing
  <2>. QED  BY <2>6, <2>7, <2>8, <2>9, <2>10 DEF PipelineInv
<1>10. CASE RxLimitStop
  <2>1. TypeOK'
    BY <1>0, <1>10 DEF TypeOK, RxLimitStop, mainVars, rxVars, parserVars, txVars, rings, ends, LimitReached
  <2>2. CountersAgree'
    BY <1>0, <1>10 DEF TypeOK, LoopState, CountersAgree, PastTxRing, RxLimitStop, mainVars, rxVars, parserVars, txVars, rings, ends, LimitReached
  <2>3. LoopState'
    BY <1>0, <1>10 DEF TypeOK, LoopState, MainState, RxLimitStop, mainVars, rxVars, parserVars, txVars, rings, ends, LimitReached
  <2>4. MainState'
    BY <1>0, <1>10 DEF MainState, AllStopped, totals, RxLimitStop, mainVars, rxVars, parserVars, txVars, rings, ends, LimitReached
  <2>5. SizedRingsLoseNothing'
    BY <1>0, <1>10 DEF SizedRingsLoseNothing, RxLimitStop, mainVars, rxVars, parserVars, txVars, rings, ends, LimitReached
  <2>. QED  BY <2>1, <2>2, <2>3, <2>4, <2>5 DEF PipelineInv
<1>11. CASE RxLimitGoOn
  <2>1. TypeOK'
    BY <1>0, <1>11 DEF TypeOK, RxLimitGoOn, mainVars, rxVars, parserVars, txVars, rings, ends, LimitReached
  <2>2. CountersAgree'
    BY <1>0, <1>11 DEF TypeOK, LoopState, CountersAgree, PastTxRing, RxLimitGoOn, mainVars, rxVars, parserVars, txVars, rings, ends, LimitReached
  <2>3. LoopState'
    BY <1>0, <1>11 DEF TypeOK, LoopState, MainState, RxLimitGoOn, mainVars, rxVars, parserVars, txVars, rings, ends, LimitReached
  <2>4. MainState'
    BY <1>0, <1>11 DEF MainState, AllStopped, totals, RxLimitGoOn, mainVars, rxVars, parserVars, txVars, rings, ends, LimitReached
  <2>5. SizedRingsLoseNothing'
    BY <1>0, <1>11 DEF SizedRingsLoseNothing, RxLimitGoOn, mainVars, rxVars, parserVars, txVars, rings, ends, LimitReached
  <2>. QED  BY <2>1, <2>2, <2>3, <2>4, <2>5 DEF PipelineInv
<1>12. CASE ParserStart
  <2>1. TypeOK'
    BY <1>0, <1>12 DEF TypeOK, ParserStart, mainVars, rxVars, parserVars, txVars, rings, ends
  <2>2. CountersAgree'
    BY <1>0, <1>12 DEF TypeOK, LoopState, CountersAgree, PastTxRing, ParserStart, mainVars, rxVars, parserVars, txVars, rings, ends
  <2>3. LoopState'
    BY <1>0, <1>12 DEF TypeOK, LoopState, MainState, ParserStart, mainVars, rxVars, parserVars, txVars, rings, ends
  <2>4. MainState'
    BY <1>0, <1>12 DEF MainState, AllStopped, totals, ParserStart, mainVars, rxVars, parserVars, txVars, rings, ends
  <2>5. SizedRingsLoseNothing'
    BY <1>0, <1>12 DEF SizedRingsLoseNothing, ParserStart, mainVars, rxVars, parserVars, txVars, rings, ends
  <2>. QED  BY <2>1, <2>2, <2>3, <2>4, <2>5 DEF PipelineInv
<1>13. CASE ParserCheck
  <2>1. TypeOK'
    BY <1>0, <1>13 DEF TypeOK, ParserCheck, mainVars, rxVars, parserVars, txVars, rings, ends
  <2>2. CountersAgree'
    BY <1>0, <1>13 DEF TypeOK, LoopState, CountersAgree, PastTxRing, ParserCheck, mainVars, rxVars, parserVars, txVars, rings, ends
  <2>3. LoopState'
    BY <1>0, <1>13 DEF TypeOK, LoopState, MainState, ParserCheck, mainVars, rxVars, parserVars, txVars, rings, ends
  <2>4. MainState'
    BY <1>0, <1>13 DEF MainState, AllStopped, totals, ParserCheck, mainVars, rxVars, parserVars, txVars, rings, ends
  <2>5. SizedRingsLoseNothing'
    BY <1>0, <1>13 DEF SizedRingsLoseNothing, ParserCheck, mainVars, rxVars, parserVars, txVars, rings, ends
  <2>. QED  BY <2>1, <2>2, <2>3, <2>4, <2>5 DEF PipelineInv
<1>14. CASE ParserDequeue
  <2> DEFINE n == DequeueCount(ring_rx_to_parse, BURST_SIZE)
  <2>1. n \in 0..Len(ring_rx_to_parse) /\ n <= BURST_SIZE
    BY DequeueBound DEF TypeOK
  <2>2. /\ parser_pc = "dequeue" /\ parser_pc' = IF n > 0 THEN "enqueue" ELSE "check"
        /\ parser_pkts' = Taken(ring_rx_to_parse, n) /\ ring_rx_to_parse' = Rest(ring_rx_to_parse, n)
        /\ parser_count' = parser_count + n
    BY <1>14 DEF ParserDequeue
  <2> HIDE DEF n
  <2>3. /\ Taken(ring_rx_to_parse, n) \in Seq(Nat) /\ Len(Taken(ring_rx_to_parse, n)) = n
        /\ Rest(ring_rx_to_parse, n) \in Seq(Nat) /\ Len(Rest(ring_rx_to_parse, n)) = Len(ring_rx_to_parse) - n
    BY <1>a, <2>1, Split
  <2>t. /\ n \in Nat /\ n <= Len(ring_rx_to_parse) /\ n <= BURST_SIZE
        /\ parser_pkts' \in Seq(Nat) /\ Len(parser_pkts') = n
        /\ ring_rx_to_parse' \in Seq(Nat)
        /\ Len(ring_rx_to_parse') = Len(ring_rx_to_parse) - n
    BY <1>0, <2>1, <2>2, <2>3
  <2>e. /\ parser_pc = "dequeue" /\ parser_pc' = IF n > 0 THEN "enqueue" ELSE "check"
        /\ parser_count' = parser_count + n
        /\ UNCHANGED <<main_pc, report, rx_pc, rx_count, rx_pkts, tx_pc, tx_count, tx_pkts,
                       ring_parse_to_tx, force_quit, accepted, sent, dropped, unsent, leaked>>
    BY <1>14, <2>2 DEF ParserDequeue, mainVars, rxVars, parserVars, txVars, rings, ends
  <2>4. TypeOK'
    BY <1>0, <2>t, <2>e DEF TypeOK, Usable
  <2>5. CountersAgree'
    <3>0. Len(parser_pkts) = 0
      BY <1>0, <2>e DEF LoopState
    <3>1. rx_count' = accepted'
      BY <2>e DEF CountersAgree
    <3>2. tx_count' = PastTxRing'
      BY <1>0, <2>t, <2>e, <3>0 DEF CountersAgree, PastTxRing
    <3>3. parser_count' = (PastTxRing + Len(ring_parse_to_tx) + Len(dropped) + Len(parser_pkts))'
      BY <1>0, <2>t, <2>e, <3>0 DEF CountersAgree, PastTxRing
    <3>4. rx_count' = (parser_count + Len(ring_rx_to_parse) + Len(leaked) + Len(rx_pkts))'
      BY <1>0, <2>t, <2>e, <3>0 DEF CountersAgree
    <3>. QED  BY <3>1, <3>2, <3>3, <3>4 DEF CountersAgree
  <2>6. LoopState'
    BY <1>0, <2>t, <2>e DEF TypeOK, LoopState
  <2>7. MainState'
    BY <1>0, <2>t, <2>e DEF MainState, AllStopped, totals
  <2>8. SizedRingsLoseNothing'
    BY <2>e DEF SizedRingsLoseNothing
  <2>. QED  BY <2>4, <2>5, <2>6, <2>7, <2>8 DEF PipelineInv
<1>15. CASE ParserEnqueue
  <2> DEFINE n == Len(parser_pkts)
             m == EnqueueCount(ring_parse_to_tx, n, TX_RING_SIZE)
  <2>1. /\ m \in 0..n
        /\ Len(ring_parse_to_tx) + m <= Usable(TX_RING_SIZE)
        /\ Len(ring_parse_to_tx) + n <= Usable(TX_RING_SIZE) => m = n
    BY <1>0, EnqueueBound DEF TypeOK
  <2>2. /\ parser_pc = "enqueue" /\ parser_pc' = "check" /\ parser_pkts' = <<>>
        /\ ring_parse_to_tx' = ring_parse_to_tx \o Taken(parser_pkts, m)
        /\ dropped' = dropped \o Rest(parser_pkts, m)
    BY <1>15 DEF ParserEnqueue
  <2> HIDE DEF m
  <2>3. /\ Taken(parser_pkts, m) \in Seq(Nat) /\ Len(Taken(parser_pkts, m)) = m
        /\ Rest(parser_pkts, m) \in Seq(Nat) /\ Len(Rest(parser_pkts, m)) = n - m
    BY <1>a, <2>1, Split
  <2>4. /\ ring_parse_to_tx' \in Seq(Nat) /\ Len(ring_parse_to_tx') = Len(ring_parse_to_tx) + m
        /\ dropped' \in Seq(Nat) /\ Len(dropped') = Len(dropped) + (n - m)
    BY <1>a, <2>2, <2>3, Join
  <2>t. /\ m \in Nat /\ m <= n /\ Len(ring_parse_to_tx) + m <= Usable(TX_RING_SIZE)
        /\ ring_parse_to_tx' \in Seq(Nat) /\ Len(ring_parse_to_tx') = Len(ring_parse_to_tx) + m
        /\ dropped' \in Seq(Nat) /\ Len(dropped') = Len(dropped) + (n - m)
        /\ parser_pkts' \in Seq(Nat) /\ Len(parser_pkts') = 0
    BY <1>0, <2>1, <2>2, <2>4
  <2>e. /\ parser_pc = "enqueue" /\ parser_pc' = "check"
        /\ UNCHANGED <<main_pc, report, rx_pc, rx_count, rx_pkts, parser_count, tx_pc, tx_count,
                       tx_pkts, ring_rx_to_parse, force_quit, accepted, sent, unsent, leaked>>
    BY <1>15 DEF ParserEnqueue, mainVars, rxVars, parserVars, txVars, rings, ends
  <2>5. RxLimit + BURST_SIZE <= TX_RING_SIZE => dropped' = dropped
    <3> SUFFICES ASSUME RxLimit + BURST_SIZE <= TX_RING_SIZE PROVE dropped' = dropped
      OBVIOUS
    <3>1. Len(ring_parse_to_tx) + n <= rx_count
      BY <1>0 DEF CountersAgree, PastTxRing, TypeOK
    <3>2. m = n
      BY <1>0, <2>1, <3>1 DEF LoopState, TypeOK, Usable
    <3>3. Rest(parser_pkts, m) = <<>>
      BY <1>0, <2>3, <3>2, EmptyLen
    <3>. QED  BY <2>2, <3>3, ConcatEmptySeq DEF TypeOK
  <2>6. TypeOK'
    BY <1>0, <2>t, <2>e DEF TypeOK, Usable
  <2>7. CountersAgree'
    <3>1. rx_count' = accepted'
      BY <2>e DEF CountersAgree
    <3>2. tx_count' = PastTxRing'
      BY <1>0, <2>t, <2>e DEF CountersAgree, PastTxRing
    <3>3. parser_count' = (PastTxRing + Len(ring_parse_to_tx) + Len(dropped) + Len(parser_pkts))'
      BY <1>0, <2>t, <2>e DEF CountersAgree, PastTxRing
    <3>4. rx_count' = (parser_count + Len(ring_rx_to_parse) + Len(leaked) + Len(rx_pkts))'
      BY <1>0, <2>t, <2>e DEF CountersAgree
    <3>. QED  BY <3>1, <3>2, <3>3, <3>4 DEF CountersAgree
  <2>8. LoopState'
    BY <1>0, <2>t, <2>e DEF TypeOK, LoopState
  <2>9. MainState'
    BY <1>0, <2>t, <2>e DEF MainState, AllStopped, totals
  <2>10. SizedRingsLoseNothing'
    BY <2>e, <2>5 DEF SizedRingsLoseNothing
  <2>. QED  BY <2>6, <2>7, <2>8, <2>9, <2>10 DEF PipelineInv
<1>16. CASE TxStart
  <2>1. TypeOK'
    BY <1>0, <1>16 DEF TypeOK, TxStart, mainVars, rxVars, parserVars, txVars, rings, ends
  <2>2. CountersAgree'
    BY <1>0, <1>16 DEF TypeOK, LoopState, CountersAgree, PastTxRing, TxStart, mainVars, rxVars, parserVars, txVars, rings, ends
  <2>3. LoopState'
    BY <1>0, <1>16 DEF TypeOK, LoopState, MainState, TxStart, mainVars, rxVars, parserVars, txVars, rings, ends
  <2>4. MainState'
    BY <1>0, <1>16 DEF MainState, AllStopped, totals, TxStart, mainVars, rxVars, parserVars, txVars, rings, ends
  <2>5. SizedRingsLoseNothing'
    BY <1>0, <1>16 DEF SizedRingsLoseNothing, TxStart, mainVars, rxVars, parserVars, txVars, rings, ends
  <2>. QED  BY <2>1, <2>2, <2>3, <2>4, <2>5 DEF PipelineInv
<1>17. CASE TxCheck
  <2>1. TypeOK'
    BY <1>0, <1>17 DEF TypeOK, TxCheck, mainVars, rxVars, parserVars, txVars, rings, ends
  <2>2. CountersAgree'
    BY <1>0, <1>17 DEF TypeOK, LoopState, CountersAgree, PastTxRing, TxCheck, mainVars, rxVars, parserVars, txVars, rings, ends
  <2>3. LoopState'
    BY <1>0, <1>17 DEF TypeOK, LoopState, MainState, TxCheck, mainVars, rxVars, parserVars, txVars, rings, ends
  <2>4. MainState'
    BY <1>0, <1>17 DEF MainState, AllStopped, totals, TxCheck, mainVars, rxVars, parserVars, txVars, rings, ends
  <2>5. SizedRingsLoseNothing'
    BY <1>0, <1>17 DEF SizedRingsLoseNothing, TxCheck, mainVars, rxVars, parserVars, txVars, rings, ends
  <2>. QED  BY <2>1, <2>2, <2>3, <2>4, <2>5 DEF PipelineInv
<1>18. CASE TxDequeue
  <2> DEFINE n == DequeueCount(ring_parse_to_tx, BURST_SIZE)
  <2>1. n \in 0..Len(ring_parse_to_tx) /\ n <= BURST_SIZE
    BY DequeueBound DEF TypeOK
  <2>2. /\ tx_pc = "dequeue" /\ tx_pc' = IF n > 0 THEN "burst" ELSE "check"
        /\ tx_pkts' = Taken(ring_parse_to_tx, n) /\ ring_parse_to_tx' = Rest(ring_parse_to_tx, n)
        /\ tx_count' = tx_count + n
    BY <1>18 DEF TxDequeue
  <2> HIDE DEF n
  <2>3. /\ Taken(ring_parse_to_tx, n) \in Seq(Nat) /\ Len(Taken(ring_parse_to_tx, n)) = n
        /\ Rest(ring_parse_to_tx, n) \in Seq(Nat) /\ Len(Rest(ring_parse_to_tx, n)) = Len(ring_parse_to_tx) - n
    BY <1>a, <2>1, Split
  <2>t. /\ n \in Nat /\ n <= Len(ring_parse_to_tx) /\ n <= BURST_SIZE
        /\ tx_pkts' \in Seq(Nat) /\ Len(tx_pkts') = n
        /\ ring_parse_to_tx' \in Seq(Nat)
        /\ Len(ring_parse_to_tx') = Len(ring_parse_to_tx) - n
    BY <1>0, <2>1, <2>2, <2>3
  <2>e. /\ tx_pc = "dequeue" /\ tx_pc' = IF n > 0 THEN "burst" ELSE "check"
        /\ tx_count' = tx_count + n
        /\ UNCHANGED <<main_pc, report, rx_pc, rx_count, rx_pkts, parser_pc, parser_count,
                       parser_pkts, ring_rx_to_parse, force_quit, accepted,
                       sent, dropped, unsent, leaked>>
    BY <1>18, <2>2 DEF TxDequeue, mainVars, rxVars, parserVars, txVars, rings, ends
  <2>4. TypeOK'
    BY <1>0, <2>t, <2>e DEF TypeOK, Usable
  <2>5. CountersAgree'
    <3>0. Len(tx_pkts) = 0
      BY <1>0, <2>e DEF LoopState
    <3>1. rx_count' = accepted'
      BY <2>e DEF CountersAgree
    <3>2. tx_count' = PastTxRing'
      BY <1>0, <2>t, <2>e, <3>0 DEF CountersAgree, PastTxRing
    <3>3. parser_count' = (PastTxRing + Len(ring_parse_to_tx) + Len(dropped) + Len(parser_pkts))'
      BY <1>0, <2>t, <2>e, <3>0 DEF CountersAgree, PastTxRing
    <3>4. rx_count' = (parser_count + Len(ring_rx_to_parse) + Len(leaked) + Len(rx_pkts))'
      BY <1>0, <2>t, <2>e, <3>0 DEF CountersAgree
    <3>. QED  BY <3>1, <3>2, <3>3, <3>4 DEF CountersAgree
  <2>6. LoopState'
    BY <1>0, <2>t, <2>e DEF TypeOK, LoopState
  <2>7. MainState'
    BY <1>0, <2>t, <2>e DEF MainState, AllStopped, totals
  <2>8. SizedRingsLoseNothing'
    BY <2>e DEF SizedRingsLoseNothing
  <2>. QED  BY <2>4, <2>5, <2>6, <2>7, <2>8 DEF PipelineInv
<1>19. ASSUME NEW k \in 0..BURST_SIZE, TxBurst(k) PROVE PipelineInv'
  <2>1. k \in 0..Len(tx_pkts)
    BY <1>0, <1>19 DEF TxBurst
  <2>2. /\ Taken(tx_pkts, k) \in Seq(Nat) /\ Len(Taken(tx_pkts, k)) = k
        /\ Rest(tx_pkts, k) \in Seq(Nat) /\ Len(Rest(tx_pkts, k)) = Len(tx_pkts) - k
    BY <1>a, <2>1, Split
  <2>3. /\ sent' = sent \o Taken(tx_pkts, k) /\ unsent' = unsent \o Rest(tx_pkts, k)
        /\ tx_pkts' = <<>>
    BY <1>19 DEF TxBurst
  <2>t. /\ k \in Nat /\ k <= Len(tx_pkts)
        /\ sent' \in Seq(Nat) /\ Len(sent') = Len(sent) + k
        /\ unsent' \in Seq(Nat) /\ Len(unsent') = Len(unsent) + (Len(tx_pkts) - k)
        /\ tx_pkts' \in Seq(Nat) /\ Len(tx_pkts') = 0
    BY <1>0, <1>a, <2>1, <2>2, <2>3, Join
  <2>e. /\ tx_pc = "burst" /\ tx_pc' = "check"
        /\ UNCHANGED <<main_pc, report, rx_pc, rx_count, rx_pkts, parser_pc, parser_count,
                       parser_pkts, tx_count, ring_rx_to_parse, ring_parse_to_tx, force_quit,
                       accepted, dropped, leaked>>
    BY <1>19 DEF TxBurst, mainVars, rxVars, parserVars, txVars, rings, ends
  <2>4. TypeOK'
    BY <1>0, <2>t, <2>e DEF TypeOK, Usable
  <2>5. CountersAgree'
    <3>1. rx_count' = accepted'
      BY <2>e DEF CountersAgree
    <3>2. tx_count' = PastTxRing'
      BY <1>0, <2>t, <2>e DEF CountersAgree, PastTxRing
    <3>3. parser_count' = (PastTxRing + Len(ring_parse_to_tx) + Len(dropped) + Len(parser_pkts))'
      BY <1>0, <2>t, <2>e DEF CountersAgree, PastTxRing
    <3>4. rx_count' = (parser_count + Len(ring_rx_to_parse) + Len(leaked) + Len(rx_pkts))'
      BY <1>0, <2>t, <2>e DEF CountersAgree
    <3>. QED  BY <3>1, <3>2, <3>3, <3>4 DEF CountersAgree
  <2>6. LoopState'
    BY <1>0, <2>t, <2>e DEF TypeOK, LoopState
  <2>7. MainState'
    BY <1>0, <2>t, <2>e DEF MainState, AllStopped, totals
  <2>8. SizedRingsLoseNothing'
    BY <2>e DEF SizedRingsLoseNothing
  <2>. QED  BY <2>4, <2>5, <2>6, <2>7, <2>8 DEF PipelineInv
<1>20. CASE UNCHANGED vars
  <2>1. TypeOK'
    BY <1>0, <1>20 DEF TypeOK, vars, mainVars, rxVars, parserVars, txVars, rings, ends
  <2>2. CountersAgree'
    BY <1>0, <1>20 DEF TypeOK, LoopState, CountersAgree, PastTxRing, vars, mainVars, rxVars, parserVars, txVars, rings, ends
  <2>3. LoopState'
    BY <1>0, <1>20 DEF TypeOK, LoopState, MainState, vars, mainVars, rxVars, parserVars, txVars, rings, ends
  <2>4. MainState'
    BY <1>0, <1>20 DEF MainState, AllStopped, totals, vars, mainVars, rxVars, parserVars, txVars, rings, ends
  <2>5. SizedRingsLoseNothing'
    BY <1>0, <1>20 DEF SizedRingsLoseNothing, vars, mainVars, rxVars, parserVars, txVars, rings, ends
  <2>. QED  BY <2>1, <2>2, <2>3, <2>4, <2>5 DEF PipelineInv
<1>. QED
  BY <1>1, <1>2, <1>3, <1>4, <1>5, <1>6, <1>7, <1>8, <1>9, <1>10, <1>11, <1>12, <1>13, <1>14, <1>15, <1>16, <1>17, <1>18, <1>19, <1>20 DEF Next, Main, Rx, Parser, Tx, Ended

-----------------------------------------------------------------------------
(* Counters, ring sizes and the report *)

\* The invariant holds in every behaviour, for all parameters.
THEOREM PipelineInvariant == Spec => []PipelineInv
<1>1. Init => PipelineInv
  BY InitInv
<1>2. PipelineInv /\ [Next]_vars => PipelineInv'
  BY NextInv
<1>. QED  BY <1>1, <1>2, PTL DEF Spec

\* Type correctness; in particular no ring is ever overfilled.
THEOREM PipelineTypeCorrect == Spec => []TypeOK
<1>1. PipelineInv => TypeOK
  BY DEF PipelineInv
<1>. QED  BY <1>1, PipelineInvariant, PTL

\* rx_count, parser_count and tx_count always agree with where the packets
\* are, although three lcores update them without synchronization.
THEOREM PipelineCountersAgree == Spec => []CountersAgree
<1>1. PipelineInv => CountersAgree
  BY DEF PipelineInv
<1>. QED  BY <1>1, PipelineInvariant, PTL

\* With rings larger than the limit plus a burst, the enqueue result rx_loop
\* ignores is never a failure and the parser never drops.
THEOREM PipelineSizedRingsLoseNothing == Spec => []SizedRingsLoseNothing
<1>1. PipelineInv => SizedRingsLoseNothing
  BY DEF PipelineInv
<1>. QED  BY <1>1, PipelineInvariant, PTL

\* The printed totals are final and account for every packet.
THEOREM PipelineReportIsFinal == Spec => []ReportIsFinal
<1>1. PipelineInv => ReportIsFinal
  <2> SUFFICES ASSUME PipelineInv, main_pc = "done" PROVE ReportIsFinal
    BY DEF ReportIsFinal
  <2>1. TypeOK /\ CountersAgree /\ LoopState /\ MainState
    BY DEF PipelineInv
  <2>2. /\ rx_pc \in {"off", "stopped"} /\ parser_pc \in {"off", "stopped"}
        /\ tx_pc \in {"off", "stopped"}
        /\ report = totals
    BY <2>1 DEF MainState, AllStopped
  <2>3. /\ Len(rx_pkts) \in Nat /\ Len(parser_pkts) \in Nat /\ Len(tx_pkts) \in Nat
        /\ Len(ring_rx_to_parse) \in Nat /\ Len(ring_parse_to_tx) \in Nat
        /\ Len(sent) \in Nat /\ Len(unsent) \in Nat /\ Len(dropped) \in Nat /\ Len(leaked) \in Nat
        /\ rx_count \in Nat /\ parser_count \in Nat /\ tx_count \in Nat
    BY <2>1, LenProperties DEF TypeOK
  <2>4. Len(rx_pkts) = 0 /\ Len(parser_pkts) = 0 /\ Len(tx_pkts) = 0
    BY <2>1, <2>2, <2>3 DEF LoopState
  <2>5. rx_pkts = <<>> /\ parser_pkts = <<>> /\ tx_pkts = <<>>
    BY <2>1, <2>4, EmptyLen DEF TypeOK
  <2>6. report.rx = rx_count /\ report.parser = parser_count /\ report.tx = tx_count
    BY <2>2 DEF totals
  <2>7. rx_count >= RxLimit \/ {rx_pc, parser_pc, tx_pc} = {"off"}
    BY <2>1, <2>2 DEF LoopState
  <2>8. rx_count - parser_count = Len(ring_rx_to_parse) + Len(leaked)
    BY <2>1, <2>3, <2>4 DEF CountersAgree
  <2>9. tx_count = Len(sent) + Len(unsent)
    BY <2>1, <2>3, <2>4 DEF CountersAgree, PastTxRing
  <2>10. parser_count - tx_count = Len(ring_parse_to_tx) + Len(dropped)
    <3>1. parser_count = tx_count + Len(ring_parse_to_tx) + Len(dropped) + Len(parser_pkts)
      BY <2>1 DEF CountersAgree
    <3>. QED  BY <2>3, <2>4, <3>1
  <2>. QED  BY <2>2, <2>5, <2>6, <2>7, <2>8, <2>9, <2>10 DEF ReportIsFinal
<1>. QED  BY <1>1, PipelineInvariant, PTL

-----------------------------------------------------------------------------
(* Which packets a sequence holds, and in which order *)

\* Concatenation unites elements.
LEMMA JoinRange ==
  ASSUME NEW s \in Seq(Nat), NEW t \in Seq(Nat)
  PROVE  s \o t \in Seq(Nat) /\ Range(s \o t) = Range(s) \union Range(t)
BY ConcatProperties, RangeConcatenation

\* The empty sequence holds nothing, a sequence of numbers holds numbers.
LEMMA RangeNat ==
  ASSUME NEW s \in Seq(Nat)
  PROVE  Range(s) \subseteq Nat /\ (s = <<>> => Range(s) = {})
<1>1. Range(s) \subseteq Nat
  BY RangeOfSeq DEF Range
<1>2. Range(<<>>) = {}
  BY DEF Range
<1>. QED  BY <1>1, <1>2

\* Enqueueing adds the object.
LEMMA AppendRange ==
  ASSUME NEW s \in Seq(Nat), NEW e \in Nat
  PROVE  Range(Append(s, e)) = Range(s) \union {e}
<1>1. Append(s, e) = s \o <<e>>
  BY AppendIsConcat
<1>2. <<e>> \in Seq(Nat) /\ DOMAIN <<e>> = {1} /\ <<e>>[1] = e
  OBVIOUS
<1>3. Range(<<e>>) = {<<e>>[x] : x \in {1}}
  BY <1>2, Zenon DEF Range
<1>4. Range(<<e>>) = {e}
  BY <1>2, <1>3
<1>5. Range(s \o <<e>>) = Range(s) \union Range(<<e>>)
  BY <1>2, JoinRange
<1>. QED  BY <1>1, <1>4, <1>5

\* The head and the tail hold what the sequence holds.
LEMMA HeadTailRange ==
  ASSUME NEW s \in Seq(Nat), s # <<>>
  PROVE  Range(s) = {Head(s)} \union Range(Tail(s))
<1>1. Head(s) \in Nat /\ Tail(s) \in Seq(Nat)
  BY HeadTailProperties
<1>2. s = <<Head(s)>> \o Tail(s) /\ <<Head(s)>> \in Seq(Nat)
  BY <1>1
<1>3. Range(<<Head(s)>> \o Tail(s)) = Range(<<Head(s)>>) \union Range(Tail(s))
  BY <1>1, <1>2, JoinRange
<1>4. DOMAIN <<Head(s)>> = {1} /\ <<Head(s)>>[1] = Head(s)
  OBVIOUS
<1>5. Range(<<Head(s)>>) = {<<Head(s)>>[x] : x \in {1}}
  BY <1>4, Zenon DEF Range
<1>6. Range(<<Head(s)>>) = {Head(s)}
  BY <1>4, <1>5
<1>. QED  BY <1>2, <1>3, <1>6

\* A split divides the elements between the front and the rest.
LEMMA SplitRange ==
  ASSUME NEW s \in Seq(Nat), NEW n \in 0..Len(s)
  PROVE  Range(s) = Range(Taken(s, n)) \union Range(Rest(s, n))
<1>1. Taken(s, n) \in Seq(Nat) /\ Rest(s, n) \in Seq(Nat)
  BY Split
<1>2. 1 \in 1..(Len(s) + 1) /\ n \in (1 - 1)..Len(s) /\ Len(s) \in n..Len(s)
  BY LenProperties
<1>3. SubSeq(s, 1, n) \o SubSeq(s, n + 1, Len(s)) = SubSeq(s, 1, Len(s))
  BY <1>2, ConcatAdjacentSubSeq
<1>4. SubSeq(s, 1, Len(s)) = s
  BY SubSeqFull
<1>5. Taken(s, n) \o Rest(s, n) = s
  BY <1>3, <1>4 DEF Taken, Rest
<1>. QED  BY <1>1, <1>5, JoinRange

Ascending(s) == \A j, k \in DOMAIN s : j < k => s[j] < s[k]
Below(P, Q) == \A p \in P, q \in Q : p < q

\* Nothing is in order.
LEMMA EmptyFacts == <<>> \in Seq(Nat) /\ Range(<<>>) = {} /\ Ascending(<<>>)
<1>1. <<>> \in Seq(Nat) /\ DOMAIN <<>> = {}
  OBVIOUS
<1>2. Range(<<>>) = {}
  BY <1>1, RangeNat
<1>. QED  BY <1>1, <1>2 DEF Ascending

\* Two sequences in order, the first below the second, make one in order.
LEMMA AscendingJoin ==
  ASSUME NEW s \in Seq(Nat), NEW t \in Seq(Nat), Ascending(s), Ascending(t),
         Below(Range(s), Range(t))
  PROVE  Ascending(s \o t)
<1> DEFINE u == s \o t
<1>1. /\ Len(s) \in Nat /\ Len(t) \in Nat /\ DOMAIN s = 1..Len(s) /\ DOMAIN t = 1..Len(t)
      /\ u \in Seq(Nat) /\ DOMAIN u = 1..(Len(s) + Len(t))
      /\ \A i \in 1..(Len(s) + Len(t)) : u[i] = IF i <= Len(s) THEN s[i] ELSE t[i - Len(s)]
  BY ConcatProperties, LenProperties
<1> HIDE DEF u
<1>2. ASSUME NEW j \in DOMAIN u, NEW k \in DOMAIN u, j < k PROVE u[j] < u[k]
  <2>1. CASE k <= Len(s)
    <3>1. u[j] = s[j] /\ u[k] = s[k] /\ j \in DOMAIN s /\ k \in DOMAIN s
      BY <1>1, <1>2, <2>1
    <3>. QED  BY <1>2, <3>1 DEF Ascending
  <2>2. CASE j <= Len(s) /\ k > Len(s)
    <3>1. u[j] = s[j] /\ u[k] = t[k - Len(s)] /\ j \in DOMAIN s /\ k - Len(s) \in DOMAIN t
      BY <1>1, <1>2, <2>2
    <3>. QED  BY <3>1 DEF Range, Below
  <2>3. CASE j > Len(s)
    <3>1. /\ j \in 1..(Len(s) + Len(t)) /\ ~(j <= Len(s))
          /\ k \in 1..(Len(s) + Len(t)) /\ ~(k <= Len(s))
          /\ Len(s) \in Nat /\ Len(t) \in Nat
      BY <1>1, <1>2, <2>3
    <3>2. j - Len(s) \in 1..Len(t) /\ k - Len(s) \in 1..Len(t) /\ j - Len(s) < k - Len(s)
      BY <1>2, <3>1
    <3>3. t[j - Len(s)] < t[k - Len(s)]
      BY <1>1, <3>2 DEF Ascending
    <3>4. u[j] = t[j - Len(s)]
      BY <1>1, <3>1
    <3>5. u[k] = t[k - Len(s)]
      BY <1>1, <3>1
    <3>. QED  BY <3>3, <3>4, <3>5
  <2>. QED  BY <1>1, <2>1, <2>2, <2>3
<1>. QED  BY <1>2 DEF Ascending, u

\* Cutting a sequence in order gives two in order, the front below the rest.
LEMMA AscendingSplit ==
  ASSUME NEW s \in Seq(Nat), Ascending(s), NEW n \in 0..Len(s)
  PROVE  /\ Ascending(Taken(s, n)) /\ Ascending(Rest(s, n))
         /\ Below(Range(Taken(s, n)), Range(Rest(s, n)))
<1> DEFINE a == Taken(s, n)
           b == Rest(s, n)
<1>1. /\ Len(s) \in Nat /\ DOMAIN s = 1..Len(s) /\ DOMAIN a = 1..n /\ DOMAIN b = 1..(Len(s) - n)
      /\ \A i \in 1..n : a[i] = s[i]
      /\ \A i \in 1..(Len(s) - n) : b[i] = s[n + i]
  BY Split, SubSeqProperties, LenProperties DEF Taken, Rest
<1> HIDE DEF a, b
<1>2. Ascending(a)
  BY <1>1 DEF Ascending
<1>3. Ascending(b)
  <2>1. ASSUME NEW j \in DOMAIN b, NEW k \in DOMAIN b, j < k PROVE b[j] < b[k]
    <3>1. n + j \in DOMAIN s /\ n + k \in DOMAIN s /\ n + j < n + k
      BY <1>1, <2>1
    <3>2. s[n + j] < s[n + k]
      BY <3>1 DEF Ascending
    <3>. QED  BY <1>1, <3>2
  <2>. QED  BY <2>1 DEF Ascending
<1>4. Below(Range(a), Range(b))
  <2>1. ASSUME NEW i \in DOMAIN a, NEW k \in DOMAIN b PROVE a[i] < b[k]
    <3>1. i \in DOMAIN s /\ n + k \in DOMAIN s /\ i < n + k
      BY <1>1, <2>1
    <3>2. s[i] < s[n + k]
      BY <3>1 DEF Ascending
    <3>. QED  BY <1>1, <3>2
  <2>. QED  BY <2>1 DEF Below, Range
<1>. QED  BY <1>2, <1>3, <1>4 DEF a, b

\* Dequeueing the head of a sequence in order.
LEMMA AscendingHeadTail ==
  ASSUME NEW s \in Seq(Nat), s # <<>>, Ascending(s)
  PROVE  Ascending(Tail(s)) /\ Below({Head(s)}, Range(Tail(s)))
<1>1. 1 \in 0..Len(s) /\ Len(s) \in Nat
  BY EmptyLen, LenProperties
<1>2. Taken(s, 1) \in Seq(Nat) /\ Len(Taken(s, 1)) = 1 /\ Taken(s, 1)[1] = Head(s)
  BY <1>1, Split, SubSeqProperties DEF Taken
<1>3. Rest(s, 1) = Tail(s)
  BY <1>1 DEF Rest
<1>4. Head(s) \in Range(Taken(s, 1))
  BY <1>2 DEF Range
<1>. QED  BY <1>1, <1>3, <1>4, AscendingSplit DEF Below

\* Enqueueing what is above all that is queued.
LEMMA AscendingAppend ==
  ASSUME NEW s \in Seq(Nat), NEW e \in Nat, Ascending(s), Below(Range(s), {e})
  PROVE  Ascending(Append(s, e))
<1>1. <<e>> \in Seq(Nat) /\ DOMAIN <<e>> = {1} /\ <<e>>[1] = e
  OBVIOUS
<1>2. Ascending(<<e>>)
  BY <1>1 DEF Ascending
<1>3. Below(Range(s), Range(<<e>>))
  BY <1>1 DEF Range, Below
<1>4. Ascending(s \o <<e>>)
  BY <1>1, <1>2, <1>3, AscendingJoin
<1>. QED  BY <1>4, AppendIsConcat

-----------------------------------------------------------------------------
(* All places *)

\* The packets there are, place by place.
EveryPlace ==
  Range(Everywhere) = Range(sent) \union Range(unsent) \union Range(tx_pkts)
                        \union Range(ring_parse_to_tx) \union Range(dropped)
                        \union Range(parser_pkts) \union Range(ring_rx_to_parse)
                        \union Range(leaked) \union Range(rx_pkts)

LEMMA PlacesNow == TypeOK => EveryPlace
<1> SUFFICES ASSUME TypeOK PROVE EveryPlace
  OBVIOUS
<1>0. /\ rx_pkts \in Seq(Nat) /\ parser_pkts \in Seq(Nat) /\ tx_pkts \in Seq(Nat)
      /\ ring_rx_to_parse \in Seq(Nat) /\ ring_parse_to_tx \in Seq(Nat)
      /\ sent \in Seq(Nat) /\ dropped \in Seq(Nat) /\ unsent \in Seq(Nat) /\ leaked \in Seq(Nat)
  BY DEF TypeOK
<1> DEFINE s2 == sent \o unsent
           s3 == s2 \o tx_pkts
           s4 == s3 \o ring_parse_to_tx
           s5 == s4 \o dropped
           s6 == s5 \o parser_pkts
           s7 == s6 \o ring_rx_to_parse
           s8 == s7 \o leaked
           s9 == s8 \o rx_pkts
<1>1. Everywhere = s9
  BY DEF Everywhere
<1> HIDE DEF s2, s3, s4, s5, s6, s7, s8, s9
<1>2. s2 \in Seq(Nat) /\ Range(s2) = Range(sent) \union Range(unsent)
  BY <1>0, JoinRange DEF s2
<1>3. s3 \in Seq(Nat) /\ Range(s3) = Range(s2) \union Range(tx_pkts)
  BY <1>0, <1>2, JoinRange DEF s3
<1>4. s4 \in Seq(Nat) /\ Range(s4) = Range(s3) \union Range(ring_parse_to_tx)
  BY <1>0, <1>3, JoinRange DEF s4
<1>5. s5 \in Seq(Nat) /\ Range(s5) = Range(s4) \union Range(dropped)
  BY <1>0, <1>4, JoinRange DEF s5
<1>6. s6 \in Seq(Nat) /\ Range(s6) = Range(s5) \union Range(parser_pkts)
  BY <1>0, <1>5, JoinRange DEF s6
<1>7. s7 \in Seq(Nat) /\ Range(s7) = Range(s6) \union Range(ring_rx_to_parse)
  BY <1>0, <1>6, JoinRange DEF s7
<1>8. s8 \in Seq(Nat) /\ Range(s8) = Range(s7) \union Range(leaked)
  BY <1>0, <1>7, JoinRange DEF s8
<1>9. Range(s9) = Range(s8) \union Range(rx_pkts)
  BY <1>0, <1>8, JoinRange DEF s9
<1>. QED  BY <1>1, <1>2, <1>3, <1>4, <1>5, <1>6, <1>7, <1>8, <1>9 DEF EveryPlace

LEMMA PlacesNext == TypeOK' => EveryPlace'
BY PlacesNow, PTL

\* How many there are, place by place.
PlaceLengths ==
  Len(Everywhere) = Len(sent) + Len(unsent) + Len(tx_pkts) + Len(ring_parse_to_tx)
                      + Len(dropped) + Len(parser_pkts) + Len(ring_rx_to_parse)
                      + Len(leaked) + Len(rx_pkts)

LEMMA LengthsNow == TypeOK => PlaceLengths
<1> SUFFICES ASSUME TypeOK PROVE PlaceLengths
  OBVIOUS
<1>0. /\ rx_pkts \in Seq(Nat) /\ parser_pkts \in Seq(Nat) /\ tx_pkts \in Seq(Nat)
      /\ ring_rx_to_parse \in Seq(Nat) /\ ring_parse_to_tx \in Seq(Nat)
      /\ sent \in Seq(Nat) /\ dropped \in Seq(Nat) /\ unsent \in Seq(Nat) /\ leaked \in Seq(Nat)
  BY DEF TypeOK
<1> DEFINE s2 == sent \o unsent
           s3 == s2 \o tx_pkts
           s4 == s3 \o ring_parse_to_tx
           s5 == s4 \o dropped
           s6 == s5 \o parser_pkts
           s7 == s6 \o ring_rx_to_parse
           s8 == s7 \o leaked
           s9 == s8 \o rx_pkts
<1>1. Everywhere = s9
  BY DEF Everywhere
<1> HIDE DEF s2, s3, s4, s5, s6, s7, s8, s9
<1>2. s2 \in Seq(Nat) /\ Len(s2) = Len(sent) + Len(unsent)
  BY <1>0, Join DEF s2
<1>3. s3 \in Seq(Nat) /\ Len(s3) = Len(s2) + Len(tx_pkts)
  BY <1>0, <1>2, Join DEF s3
<1>4. s4 \in Seq(Nat) /\ Len(s4) = Len(s3) + Len(ring_parse_to_tx)
  BY <1>0, <1>3, Join DEF s4
<1>5. s5 \in Seq(Nat) /\ Len(s5) = Len(s4) + Len(dropped)
  BY <1>0, <1>4, Join DEF s5
<1>6. s6 \in Seq(Nat) /\ Len(s6) = Len(s5) + Len(parser_pkts)
  BY <1>0, <1>5, Join DEF s6
<1>7. s7 \in Seq(Nat) /\ Len(s7) = Len(s6) + Len(ring_rx_to_parse)
  BY <1>0, <1>6, Join DEF s7
<1>8. s8 \in Seq(Nat) /\ Len(s8) = Len(s7) + Len(leaked)
  BY <1>0, <1>7, Join DEF s8
<1>9. Len(s9) = Len(s8) + Len(rx_pkts)
  BY <1>0, <1>8, Join DEF s9
<1>. QED  BY <1>1, <1>2, <1>3, <1>4, <1>5, <1>6, <1>7, <1>8, <1>9 DEF PlaceLengths

-----------------------------------------------------------------------------
(* Custody and order *)

\* Each stage holds its packets in order, and all of them are older than the
\* packets of the stages behind it.
FifoOrder ==
  /\ Ascending(tx_pkts) /\ Ascending(ring_parse_to_tx) /\ Ascending(parser_pkts)
  /\ Ascending(ring_rx_to_parse) /\ Ascending(rx_pkts)
  /\ Below(Range(tx_pkts), Range(ring_parse_to_tx) \union Range(parser_pkts)
                             \union Range(ring_rx_to_parse) \union Range(rx_pkts))
  /\ Below(Range(ring_parse_to_tx), Range(parser_pkts) \union Range(ring_rx_to_parse)
                                      \union Range(rx_pkts))
  /\ Below(Range(parser_pkts), Range(ring_rx_to_parse) \union Range(rx_pkts))
  /\ Below(Range(ring_rx_to_parse), Range(rx_pkts))

FifoInv == PipelineInv /\ Range(Everywhere) = Packets /\ FifoOrder

LEMMA InitFifo == Init => FifoInv
<1> SUFFICES ASSUME Init PROVE FifoInv
  OBVIOUS
<1>1. PipelineInv
  BY InitInv
<1>2. <<>> \in Seq(Nat) /\ Range(<<>>) = {} /\ Ascending(<<>>)
  BY EmptyFacts
<1>3. FifoOrder
  BY <1>2 DEF Init, FifoOrder, Below
<1>4. Range(Everywhere) = {}
  BY <1>1, <1>2, PlacesNow DEF Init, EveryPlace, PipelineInv
<1>5. Packets = {}
  BY DEF Init, Packets
<1>. QED  BY <1>1, <1>3, <1>4, <1>5 DEF FifoInv

\* The steps that move no packet.
NoMove == UNCHANGED <<accepted, ends, rings, rx_pkts, parser_pkts, tx_pkts>>

LEMMA Moves ==
  ASSUME [Next]_vars
  PROVE  \/ NoMove
         \/ \E n \in 0..BURST_SIZE : RxBurst(n)
         \/ RxEnqueue \/ ParserDequeue \/ ParserEnqueue \/ TxDequeue
         \/ \E k \in 0..BURST_SIZE : TxBurst(k)
<1>1. CASE Main \/ Ended \/ UNCHANGED vars
  BY <1>1 DEF Main, MainSetup, MainLaunchRx, MainLaunchParser, MainLaunchTx, MainReport, Ended,
       NoMove, vars, mainVars, rxVars, parserVars, txVars
<1>2. CASE RxStart \/ RxCheck \/ RxLimitStop \/ RxLimitGoOn
  BY <1>2 DEF RxStart, RxCheck, RxLimitStop, RxLimitGoOn, NoMove, parserVars, txVars
<1>3. CASE ParserStart \/ ParserCheck \/ TxStart \/ TxCheck
  BY <1>3 DEF ParserStart, ParserCheck, TxStart, TxCheck, NoMove, rxVars, parserVars, txVars
<1>. QED  BY <1>1, <1>2, <1>3 DEF Next, Rx, Parser, Tx

\* Every step keeps one place per packet and the stages in order.
LEMMA NextFifo == FifoInv /\ [Next]_vars => FifoInv'
<1> SUFFICES ASSUME FifoInv, [Next]_vars PROVE FifoInv'
  OBVIOUS
<1> USE PipelineAssumption
<1>0. PipelineInv /\ PipelineInv' /\ EveryPlace /\ EveryPlace'
  BY NextInv, PlacesNow, PlacesNext DEF FifoInv, PipelineInv
<1>i. Range(Everywhere) = Packets /\ FifoOrder
  BY DEF FifoInv
<1>a. /\ rx_pkts \in Seq(Nat) /\ parser_pkts \in Seq(Nat) /\ tx_pkts \in Seq(Nat)
      /\ ring_rx_to_parse \in Seq(Nat) /\ ring_parse_to_tx \in Seq(Nat)
      /\ sent \in Seq(Nat) /\ dropped \in Seq(Nat) /\ unsent \in Seq(Nat) /\ leaked \in Seq(Nat)
      /\ accepted \in Nat
  BY <1>0 DEF PipelineInv, TypeOK
<1>b. /\ (rx_pc = "enqueue") <=> rx_pkts # <<>>
      /\ (parser_pc = "enqueue") <=> parser_pkts # <<>>
      /\ (tx_pc = "burst") <=> tx_pkts # <<>>
  <2>1. /\ Len(rx_pkts) \in Nat /\ Len(parser_pkts) \in Nat /\ Len(tx_pkts) \in Nat
    BY <1>a, LenProperties
  <2>2. /\ (rx_pkts = <<>>) <=> (Len(rx_pkts) = 0)
        /\ (parser_pkts = <<>>) <=> (Len(parser_pkts) = 0)
        /\ (tx_pkts = <<>>) <=> (Len(tx_pkts) = 0)
    BY <1>a, EmptyLen
  <2>3. /\ (rx_pc = "enqueue") <=> (Len(rx_pkts) > 0)
        /\ (parser_pc = "enqueue") <=> (Len(parser_pkts) > 0)
        /\ (tx_pc = "burst") <=> (Len(tx_pkts) > 0)
    BY <1>0 DEF PipelineInv, LoopState
  <2>. QED  BY <2>1, <2>2, <2>3
<1> SUFFICES Range(Everywhere)' = Packets' /\ FifoOrder'
  BY <1>0 DEF FifoInv
<1>1. CASE NoMove
  BY <1>i, <1>1 DEF NoMove, ends, rings, Everywhere, Packets, FifoOrder
<1>2. ASSUME NEW n \in 0..BURST_SIZE, RxBurst(n)
      PROVE  Range(Everywhere)' = Packets' /\ FifoOrder'
  <2> DEFINE new == [i \in 1..n |-> accepted + i]
  <2>1. /\ rx_pc = "burst" /\ rx_pkts' = new /\ accepted' = accepted + n
        /\ UNCHANGED <<parser_pkts, tx_pkts, ring_rx_to_parse, ring_parse_to_tx,
                       sent, dropped, unsent, leaked>>
    BY <1>2 DEF RxBurst, parserVars, txVars, rings, ends
  <2>2. Range(rx_pkts) = {}
    BY <1>a, <1>b, <2>1, RangeNat
  <2>3. n \in Nat /\ DOMAIN new = 1..n /\ \A i \in 1..n : new[i] = accepted + i
    OBVIOUS
  <2> HIDE DEF new
  <2>4. Ascending(new) /\ Range(new) = (accepted + 1)..(accepted + n)
    <3>1. Ascending(new)
      BY <1>a, <2>3 DEF Ascending
    <3>2. ASSUME NEW x \in (accepted + 1)..(accepted + n) PROVE x \in Range(new)
      <4>1. x - accepted \in 1..n /\ new[x - accepted] = x
        BY <1>a, <2>3, <3>2
      <4>. QED  BY <2>3, <4>1 DEF Range
    <3>3. ASSUME NEW i \in DOMAIN new PROVE new[i] \in (accepted + 1)..(accepted + n)
      BY <1>a, <2>3, <3>3
    <3>4. Range(new) \subseteq (accepted + 1)..(accepted + n)
      BY <3>3 DEF Range
    <3>. QED  BY <3>1, <3>2, <3>4
  <2>5. Packets' = Packets \union Range(new)
    BY <1>a, <2>1, <2>3, <2>4 DEF Packets
  <2>6. Range(Everywhere)' = Packets'
    BY <1>0, <1>i, <2>1, <2>2, <2>5 DEF EveryPlace
  <2>7. Below(Packets, Range(new))
    BY <1>a, <2>3, <2>4 DEF Below, Packets
  <2>8. /\ Range(tx_pkts) \subseteq Packets /\ Range(ring_parse_to_tx) \subseteq Packets
        /\ Range(parser_pkts) \subseteq Packets /\ Range(ring_rx_to_parse) \subseteq Packets
    BY <1>0, <1>i DEF EveryPlace
  <2>9. FifoOrder'
    BY <1>i, <2>1, <2>4, <2>7, <2>8 DEF FifoOrder, Below
  <2>. QED  BY <2>6, <2>9
<1>3. CASE RxEnqueue
  <2>1. /\ rx_pkts # <<>> /\ rx_pkts' = Tail(rx_pkts)
        /\ UNCHANGED <<accepted, parser_pkts, tx_pkts, ring_parse_to_tx, sent, dropped, unsent>>
    BY <1>3, <1>b DEF RxEnqueue, parserVars, txVars
  <2> DEFINE h == Head(rx_pkts)
  <2>2. h \in Nat
    BY <1>a, <2>1, HeadTailProperties
  <2>3. Range(rx_pkts) = {h} \union Range(rx_pkts')
    BY <1>a, <2>1, HeadTailRange
  <2>4. Ascending(rx_pkts') /\ Below({h}, Range(rx_pkts'))
    BY <1>a, <1>i, <2>1, AscendingHeadTail DEF FifoOrder
  <2>5. CASE Full(ring_rx_to_parse, RX_RING_SIZE)
    <3>1. leaked' = Append(leaked, h) /\ UNCHANGED ring_rx_to_parse
      BY <1>3, <2>5 DEF RxEnqueue, EnqueueIgnoringResult
    <3> HIDE DEF h
    <3>2. Range(leaked') = Range(leaked) \union {h}
      BY <1>a, <2>2, <3>1, AppendRange
    <3>3. Range(Everywhere)' = Packets'
      BY <1>0, <1>i, <2>1, <2>3, <3>1, <3>2 DEF EveryPlace, Packets
    <3>4. FifoOrder'
      BY <1>i, <2>1, <2>3, <2>4, <3>1 DEF FifoOrder, Below
    <3>. QED  BY <3>3, <3>4
  <2>6. CASE ~Full(ring_rx_to_parse, RX_RING_SIZE)
    <3>1. ring_rx_to_parse' = Append(ring_rx_to_parse, h) /\ UNCHANGED leaked
      BY <1>3, <2>6 DEF RxEnqueue, EnqueueIgnoringResult
    <3> HIDE DEF h
    <3>2. Range(ring_rx_to_parse') = Range(ring_rx_to_parse) \union {h}
      BY <1>a, <2>2, <3>1, AppendRange
    <3>3. Range(Everywhere)' = Packets'
      BY <1>0, <1>i, <2>1, <2>3, <3>1, <3>2 DEF EveryPlace, Packets
    <3>4. Below(Range(ring_rx_to_parse), {h})
      BY <1>i, <2>3 DEF FifoOrder, Below
    <3>5. Ascending(ring_rx_to_parse')
      BY <1>a, <1>i, <2>2, <3>1, <3>4, AscendingAppend DEF FifoOrder
    <3>6. FifoOrder'
      BY <1>i, <2>1, <2>3, <2>4, <3>2, <3>5 DEF FifoOrder, Below
    <3>. QED  BY <3>3, <3>6
  <2>. QED  BY <2>5, <2>6
<1>4. CASE ParserDequeue
  <2> DEFINE n == DequeueCount(ring_rx_to_parse, BURST_SIZE)
  <2>1. /\ parser_pc = "dequeue"
        /\ parser_pkts' = Taken(ring_rx_to_parse, n) /\ ring_rx_to_parse' = Rest(ring_rx_to_parse, n)
        /\ UNCHANGED <<accepted, rx_pkts, tx_pkts, ring_parse_to_tx, sent, dropped, unsent, leaked>>
    BY <1>4 DEF ParserDequeue, rxVars, txVars, ends
  <2>2. n \in 0..Len(ring_rx_to_parse)
    BY <1>a, DequeueBound
  <2> HIDE DEF n
  <2>3. Range(parser_pkts) = {}
    BY <1>a, <1>b, <2>1, RangeNat
  <2>4. Range(ring_rx_to_parse) = Range(parser_pkts') \union Range(ring_rx_to_parse')
    BY <1>a, <2>1, <2>2, SplitRange
  <2>5. /\ Ascending(parser_pkts') /\ Ascending(ring_rx_to_parse')
        /\ Below(Range(parser_pkts'), Range(ring_rx_to_parse'))
    BY <1>a, <1>i, <2>1, <2>2, AscendingSplit DEF FifoOrder
  <2>6. Range(Everywhere)' = Packets'
    BY <1>0, <1>i, <2>1, <2>3, <2>4 DEF EveryPlace, Packets
  <2>7. FifoOrder'
    BY <1>i, <2>1, <2>4, <2>5 DEF FifoOrder, Below
  <2>. QED  BY <2>6, <2>7
<1>5. CASE ParserEnqueue
  <2> DEFINE m == EnqueueCount(ring_parse_to_tx, Len(parser_pkts), TX_RING_SIZE)
             front == Taken(parser_pkts, m)
             back  == Rest(parser_pkts, m)
  <2>1. /\ ring_parse_to_tx' = ring_parse_to_tx \o front /\ dropped' = dropped \o back
        /\ parser_pkts' = <<>>
        /\ UNCHANGED <<accepted, rx_pkts, tx_pkts, ring_rx_to_parse, sent, unsent, leaked>>
    BY <1>5 DEF ParserEnqueue, rxVars, txVars
  <2>2. m \in 0..Len(parser_pkts)
    <3>1. Len(parser_pkts) \in Nat /\ Len(ring_parse_to_tx) <= Usable(TX_RING_SIZE)
      BY <1>0, <1>a, LenProperties DEF PipelineInv, TypeOK
    <3>. QED  BY <1>a, <3>1, EnqueueBound
  <2> HIDE DEF m
  <2>3. front \in Seq(Nat) /\ back \in Seq(Nat)
    BY <1>a, <2>2, Split
  <2>4. Range(parser_pkts) = Range(front) \union Range(back)
    BY <1>a, <2>2, SplitRange
  <2>5. Ascending(front)
    BY <1>a, <1>i, <2>2, AscendingSplit DEF FifoOrder
  <2> HIDE DEF front, back
  <2>6. Range(ring_parse_to_tx') = Range(ring_parse_to_tx) \union Range(front)
    BY <1>a, <2>1, <2>3, JoinRange
  <2>7. Range(dropped') = Range(dropped) \union Range(back)
    BY <1>a, <2>1, <2>3, JoinRange
  <2>8. Range(parser_pkts') = {} /\ Ascending(parser_pkts')
    BY <2>1, EmptyFacts
  <2>9. Range(Everywhere)' = Packets'
    BY <1>0, <1>i, <2>1, <2>4, <2>6, <2>7, <2>8 DEF EveryPlace, Packets
  <2>10. Below(Range(ring_parse_to_tx), Range(front))
    BY <1>i, <2>4 DEF FifoOrder, Below
  <2>11. Ascending(ring_parse_to_tx')
    BY <1>a, <1>i, <2>1, <2>3, <2>5, <2>10, AscendingJoin DEF FifoOrder
  <2>12. FifoOrder'
    BY <1>i, <2>1, <2>4, <2>6, <2>8, <2>11 DEF FifoOrder, Below
  <2>. QED  BY <2>9, <2>12
<1>6. CASE TxDequeue
  <2> DEFINE n == DequeueCount(ring_parse_to_tx, BURST_SIZE)
  <2>1. /\ tx_pc = "dequeue"
        /\ tx_pkts' = Taken(ring_parse_to_tx, n) /\ ring_parse_to_tx' = Rest(ring_parse_to_tx, n)
        /\ UNCHANGED <<accepted, rx_pkts, parser_pkts, ring_rx_to_parse, sent, dropped, unsent, leaked>>
    BY <1>6 DEF TxDequeue, rxVars, parserVars, ends
  <2>2. n \in 0..Len(ring_parse_to_tx)
    BY <1>a, DequeueBound
  <2> HIDE DEF n
  <2>3. Range(tx_pkts) = {}
    BY <1>a, <1>b, <2>1, RangeNat
  <2>4. Range(ring_parse_to_tx) = Range(tx_pkts') \union Range(ring_parse_to_tx')
    BY <1>a, <2>1, <2>2, SplitRange
  <2>5. /\ Ascending(tx_pkts') /\ Ascending(ring_parse_to_tx')
        /\ Below(Range(tx_pkts'), Range(ring_parse_to_tx'))
    BY <1>a, <1>i, <2>1, <2>2, AscendingSplit DEF FifoOrder
  <2>6. Range(Everywhere)' = Packets'
    BY <1>0, <1>i, <2>1, <2>3, <2>4 DEF EveryPlace, Packets
  <2>7. FifoOrder'
    BY <1>i, <2>1, <2>4, <2>5 DEF FifoOrder, Below
  <2>. QED  BY <2>6, <2>7
<1>7. ASSUME NEW k \in 0..BURST_SIZE, TxBurst(k)
      PROVE  Range(Everywhere)' = Packets' /\ FifoOrder'
  <2> DEFINE front == Taken(tx_pkts, k)
             back  == Rest(tx_pkts, k)
  <2>1. /\ sent' = sent \o front /\ unsent' = unsent \o back
        /\ tx_pkts' = <<>>
        /\ UNCHANGED <<accepted, rx_pkts, parser_pkts, ring_rx_to_parse, ring_parse_to_tx,
                       dropped, leaked>>
    BY <1>7 DEF TxBurst, rxVars, parserVars, rings
  <2>2. k \in 0..Len(tx_pkts)
    BY <1>a, <1>7, LenProperties DEF TxBurst
  <2>3. front \in Seq(Nat) /\ back \in Seq(Nat)
    BY <1>a, <2>2, Split
  <2>4. Range(tx_pkts) = Range(front) \union Range(back)
    BY <1>a, <2>2, SplitRange
  <2> HIDE DEF front, back
  <2>5. Range(sent') = Range(sent) \union Range(front)
    BY <1>a, <2>1, <2>3, JoinRange
  <2>6. Range(unsent') = Range(unsent) \union Range(back)
    BY <1>a, <2>1, <2>3, JoinRange
  <2>7. Range(tx_pkts') = {} /\ Ascending(tx_pkts')
    BY <2>1, EmptyFacts
  <2>8. Range(Everywhere)' = Packets'
    BY <1>0, <1>i, <2>1, <2>4, <2>5, <2>6, <2>7 DEF EveryPlace, Packets
  <2>9. FifoOrder'
    BY <1>i, <2>1, <2>7 DEF FifoOrder, Below
  <2>. QED  BY <2>8, <2>9
<1>. QED  BY <1>1, <1>2, <1>3, <1>4, <1>5, <1>6, <1>7, Moves

\* One place per packet and stages in order, in every behaviour.
THEOREM FifoInvariant == Spec => []FifoInv
<1>1. Init => FifoInv
  BY InitFifo
<1>2. FifoInv /\ [Next]_vars => FifoInv'
  BY NextFifo
<1>. QED  BY <1>1, <1>2, PTL DEF Spec

\* No interleaving of the three loops ever leaves a packet with two owners or
\* with none: the counters count as many packets as there are places taken, and
\* the packets found there are all that the port handed out.
THEOREM PipelineCustody == Spec => []Custody
<1>1. FifoInv => Custody
  <2> SUFFICES ASSUME FifoInv PROVE Custody
    OBVIOUS
  <2>1. TypeOK /\ CountersAgree /\ Range(Everywhere) = Packets
    BY DEF FifoInv, PipelineInv
  <2>2. PlaceLengths
    BY <2>1, LengthsNow
  <2>3. /\ Len(rx_pkts) \in Nat /\ Len(parser_pkts) \in Nat /\ Len(tx_pkts) \in Nat
        /\ Len(ring_rx_to_parse) \in Nat /\ Len(ring_parse_to_tx) \in Nat
        /\ Len(sent) \in Nat /\ Len(unsent) \in Nat /\ Len(dropped) \in Nat /\ Len(leaked) \in Nat
        /\ rx_count \in Nat /\ parser_count \in Nat
    BY <2>1, LenProperties DEF TypeOK
  <2>4. parser_count = Len(sent) + Len(unsent) + Len(tx_pkts) + Len(ring_parse_to_tx)
                         + Len(dropped) + Len(parser_pkts)
    BY <2>1 DEF CountersAgree, PastTxRing
  <2>5. accepted = parser_count + Len(ring_rx_to_parse) + Len(leaked) + Len(rx_pkts)
    BY <2>1 DEF CountersAgree
  <2>6. Len(Everywhere) = accepted
    BY <2>2, <2>3, <2>4, <2>5 DEF PlaceLengths
  <2>. QED  BY <2>1, <2>6 DEF Custody
<1>. QED  BY <1>1, FifoInvariant, PTL

-----------------------------------------------------------------------------
(* The pipeline is a lossy FIFO *)

Inside == tx_pkts \o ring_parse_to_tx \o parser_pkts \o ring_rx_to_parse \o rx_pkts

\* The abstract queue is in order and holds what the five stages hold.
InsideFacts ==
  /\ Inside \in Seq(Nat) /\ Ascending(Inside)
  /\ Range(Inside) = Range(tx_pkts) \union Range(ring_parse_to_tx) \union Range(parser_pkts)
                       \union Range(ring_rx_to_parse) \union Range(rx_pkts)

LEMMA InsideNow == FifoInv => InsideFacts
<1> SUFFICES ASSUME FifoInv PROVE InsideFacts
  OBVIOUS
<1>0. /\ rx_pkts \in Seq(Nat) /\ parser_pkts \in Seq(Nat) /\ tx_pkts \in Seq(Nat)
      /\ ring_rx_to_parse \in Seq(Nat) /\ ring_parse_to_tx \in Seq(Nat)
      /\ FifoOrder
  BY DEF FifoInv, PipelineInv, TypeOK
<1> DEFINE s2 == tx_pkts \o ring_parse_to_tx
           s3 == s2 \o parser_pkts
           s4 == s3 \o ring_rx_to_parse
           s5 == s4 \o rx_pkts
<1>1. Inside = s5
  BY DEF Inside
<1> HIDE DEF s2, s3, s4, s5
<1>2. s2 \in Seq(Nat) /\ Range(s2) = Range(tx_pkts) \union Range(ring_parse_to_tx)
  BY <1>0, JoinRange DEF s2
<1>3. s3 \in Seq(Nat) /\ Range(s3) = Range(s2) \union Range(parser_pkts)
  BY <1>0, <1>2, JoinRange DEF s3
<1>4. s4 \in Seq(Nat) /\ Range(s4) = Range(s3) \union Range(ring_rx_to_parse)
  BY <1>0, <1>3, JoinRange DEF s4
<1>5. s5 \in Seq(Nat) /\ Range(s5) = Range(s4) \union Range(rx_pkts)
  BY <1>0, <1>4, JoinRange DEF s5
<1>6. /\ Below(Range(tx_pkts), Range(ring_parse_to_tx)) /\ Below(Range(s2), Range(parser_pkts))
      /\ Below(Range(s3), Range(ring_rx_to_parse)) /\ Below(Range(s4), Range(rx_pkts))
  BY <1>0, <1>2, <1>3, <1>4 DEF FifoOrder, Below
<1>a. /\ Ascending(tx_pkts) /\ Ascending(ring_parse_to_tx) /\ Ascending(parser_pkts)
      /\ Ascending(ring_rx_to_parse) /\ Ascending(rx_pkts)
  BY <1>0 DEF FifoOrder
<1>7. Ascending(s2)
  BY <1>0, <1>a, <1>6, AscendingJoin DEF s2
<1>8. Ascending(s3)
  BY <1>0, <1>a, <1>2, <1>6, <1>7, AscendingJoin DEF s3
<1>9. Ascending(s4)
  BY <1>0, <1>a, <1>3, <1>6, <1>8, AscendingJoin DEF s4
<1>10. Ascending(s5)
  BY <1>0, <1>a, <1>4, <1>6, <1>9, AscendingJoin DEF s5
<1>. QED  BY <1>1, <1>2, <1>3, <1>4, <1>5, <1>10 DEF InsideFacts

LEMMA InsideNext == FifoInv' => InsideFacts'
BY InsideNow, PTL

\* The front of a concatenation is the front of its first part.
LEMMA FrontOfJoin ==
  ASSUME NEW s \in Seq(Nat), NEW t \in Seq(Nat), NEW k \in 0..Len(s)
  PROVE  /\ s \o t \in Seq(Nat) /\ k \in 0..Len(s \o t)
         /\ SubSeq(s \o t, 1, k) = SubSeq(s, 1, k)
<1>1. Len(s) \in Nat /\ Len(t) \in Nat /\ s \o t \in Seq(Nat) /\ Len(s \o t) = Len(s) + Len(t)
  BY ConcatProperties, LenProperties
<1>2. CASE k = 0
  <2>1. SubSeq(s \o t, 1, 0) = <<>> /\ SubSeq(s, 1, 0) = <<>>
    BY SubSeqEmpty
  <2>. QED  BY <1>1, <1>2, <2>1
<1>3. CASE k # 0
  <2>1. 1 \in 1..Len(s) /\ k \in 1..Len(s)
    BY <1>1, <1>3
  <2>. QED  BY <1>1, <2>1, SubSeqOfConcat1
<1>. QED  BY <1>2, <1>3

\* A transmit burst takes the front of the abstract queue.
LEMMA FrontOfInside ==
  ASSUME FifoInv, NEW k \in 0..Len(tx_pkts)
  PROVE  k \in 0..Len(Inside) /\ SubSeq(Inside, 1, k) = SubSeq(tx_pkts, 1, k)
<1>0. /\ rx_pkts \in Seq(Nat) /\ parser_pkts \in Seq(Nat) /\ tx_pkts \in Seq(Nat)
      /\ ring_rx_to_parse \in Seq(Nat) /\ ring_parse_to_tx \in Seq(Nat)
  BY DEF FifoInv, PipelineInv, TypeOK
<1> DEFINE s2 == tx_pkts \o ring_parse_to_tx
           s3 == s2 \o parser_pkts
           s4 == s3 \o ring_rx_to_parse
           s5 == s4 \o rx_pkts
<1>1. Inside = s5
  BY DEF Inside
<1> HIDE DEF s2, s3, s4, s5
<1>2. s2 \in Seq(Nat) /\ k \in 0..Len(s2) /\ SubSeq(s2, 1, k) = SubSeq(tx_pkts, 1, k)
  BY <1>0, FrontOfJoin DEF s2
<1>3. s3 \in Seq(Nat) /\ k \in 0..Len(s3) /\ SubSeq(s3, 1, k) = SubSeq(s2, 1, k)
  BY <1>0, <1>2, FrontOfJoin DEF s3
<1>4. s4 \in Seq(Nat) /\ k \in 0..Len(s4) /\ SubSeq(s4, 1, k) = SubSeq(s3, 1, k)
  BY <1>0, <1>3, FrontOfJoin DEF s4
<1>5. s5 \in Seq(Nat) /\ k \in 0..Len(s5) /\ SubSeq(s5, 1, k) = SubSeq(s4, 1, k)
  BY <1>0, <1>4, FrontOfJoin DEF s5
<1>. QED  BY <1>1, <1>2, <1>3, <1>4, <1>5

\* What makes a step an Advance of the abstract queue.
LEMMA AdvanceStep ==
  ASSUME NEW n \in 0..Len(Inside),
         sent' = sent \o SubSeq(Inside, 1, n),
         Range(Inside') \subseteq Range(SubSeq(Inside, n + 1, Len(Inside))),
         Ascending(Inside'), accepted' = accepted
  PROVE  Fifo!Advance
<1>1. Fifo!Ascending(Inside')
  BY DEF Ascending, Fifo!Ascending
<1>2. Fifo!Range(Inside') \subseteq Fifo!Range(SubSeq(Inside, n + 1, Len(Inside)))
  BY DEF Range, Fifo!Range
<1>. QED  BY <1>1, <1>2, Zenon DEF Fifo!Advance, Inside

\* A step that sends nothing and lets nothing in can only lose packets.
LEMMA QuietStep ==
  ASSUME FifoInv, FifoInv', sent' = sent, accepted' = accepted,
         Range(Inside') \subseteq Range(Inside)
  PROVE  Fifo!Advance
<1>1. sent \in Seq(Nat) /\ Inside \in Seq(Nat)
  BY InsideNow DEF FifoInv, PipelineInv, TypeOK, InsideFacts
<1>2. 0 \in 0..Len(Inside) /\ SubSeq(Inside, 1, 0) = <<>>
  BY <1>1, LenProperties, SubSeqEmpty
<1>3. sent' = sent \o SubSeq(Inside, 1, 0)
  BY <1>1, <1>2, ConcatEmptySeq
<1>4. SubSeq(Inside, 0 + 1, Len(Inside)) = Inside
  BY <1>1, SubSeqFull
<1>5. Ascending(Inside')
  BY InsideNext DEF InsideFacts
<1>. QED  BY <1>2, <1>3, <1>4, <1>5, AdvanceStep

\* What the stages hold afterwards, they held before.
LEMMA StagesLose ==
  ASSUME FifoInv, RxEnqueue \/ ParserDequeue \/ ParserEnqueue \/ TxDequeue
  PROVE  Range(tx_pkts') \union Range(ring_parse_to_tx') \union Range(parser_pkts')
           \union Range(ring_rx_to_parse') \union Range(rx_pkts')
         \subseteq
         Range(tx_pkts) \union Range(ring_parse_to_tx) \union Range(parser_pkts)
           \union Range(ring_rx_to_parse) \union Range(rx_pkts)
<1> USE PipelineAssumption
<1>0. /\ rx_pkts \in Seq(Nat) /\ parser_pkts \in Seq(Nat) /\ tx_pkts \in Seq(Nat)
      /\ ring_rx_to_parse \in Seq(Nat) /\ ring_parse_to_tx \in Seq(Nat)
      /\ Len(parser_pkts) \in Nat /\ Len(ring_parse_to_tx) <= Usable(TX_RING_SIZE)
  BY LenProperties DEF FifoInv, PipelineInv, TypeOK
<1>1. CASE RxEnqueue
  <2>1. rx_pkts # <<>>
    <3>1. Len(rx_pkts) \in Nat /\ Len(rx_pkts) > 0
      BY <1>0, <1>1, LenProperties DEF RxEnqueue, FifoInv, PipelineInv, LoopState
    <3>. QED  BY <1>0, <3>1, EmptyLen
  <2>2. /\ rx_pkts' = Tail(rx_pkts)
        /\ UNCHANGED <<parser_pkts, tx_pkts, ring_parse_to_tx>>
        /\ \/ UNCHANGED ring_rx_to_parse
           \/ ring_rx_to_parse' = Append(ring_rx_to_parse, Head(rx_pkts))
    BY <1>1 DEF RxEnqueue, EnqueueIgnoringResult, parserVars, txVars
  <2>3. Head(rx_pkts) \in Nat
    BY <1>0, <2>1, HeadTailProperties
  <2>4. Range(rx_pkts) = {Head(rx_pkts)} \union Range(rx_pkts')
    BY <1>0, <2>1, <2>2, HeadTailRange
  <2>5. Range(Append(ring_rx_to_parse, Head(rx_pkts))) = Range(ring_rx_to_parse) \union {Head(rx_pkts)}
    BY <1>0, <2>3, AppendRange
  <2>. QED  BY <2>2, <2>4, <2>5
<1>2. CASE ParserDequeue
  <2> DEFINE n == DequeueCount(ring_rx_to_parse, BURST_SIZE)
  <2>1. /\ parser_pkts' = Taken(ring_rx_to_parse, n) /\ ring_rx_to_parse' = Rest(ring_rx_to_parse, n)
        /\ UNCHANGED <<rx_pkts, tx_pkts, ring_parse_to_tx>>
    BY <1>2 DEF ParserDequeue, rxVars, txVars
  <2>2. n \in 0..Len(ring_rx_to_parse)
    BY <1>0, DequeueBound
  <2> HIDE DEF n
  <2>3. Range(ring_rx_to_parse) = Range(parser_pkts') \union Range(ring_rx_to_parse')
    BY <1>0, <2>1, <2>2, SplitRange
  <2>. QED  BY <2>1, <2>3
<1>3. CASE ParserEnqueue
  <2> DEFINE m == EnqueueCount(ring_parse_to_tx, Len(parser_pkts), TX_RING_SIZE)
             front == Taken(parser_pkts, m)
  <2>1. /\ ring_parse_to_tx' = ring_parse_to_tx \o front /\ parser_pkts' = <<>>
        /\ UNCHANGED <<rx_pkts, tx_pkts, ring_rx_to_parse>>
    BY <1>3 DEF ParserEnqueue, rxVars, txVars
  <2>2. m \in 0..Len(parser_pkts)
    BY <1>0, EnqueueBound
  <2> HIDE DEF m
  <2>3. front \in Seq(Nat)
    BY <1>0, <2>2, Split
  <2>4. Range(front) \subseteq Range(parser_pkts)
    BY <1>0, <2>2, SplitRange
  <2> HIDE DEF front
  <2>5. Range(ring_parse_to_tx') = Range(ring_parse_to_tx) \union Range(front)
    BY <1>0, <2>1, <2>3, JoinRange
  <2>6. Range(parser_pkts') = {}
    BY <2>1, EmptyFacts
  <2>. QED  BY <2>1, <2>4, <2>5, <2>6
<1>4. CASE TxDequeue
  <2> DEFINE n == DequeueCount(ring_parse_to_tx, BURST_SIZE)
  <2>1. /\ tx_pkts' = Taken(ring_parse_to_tx, n) /\ ring_parse_to_tx' = Rest(ring_parse_to_tx, n)
        /\ UNCHANGED <<rx_pkts, parser_pkts, ring_rx_to_parse>>
    BY <1>4 DEF TxDequeue, rxVars, parserVars
  <2>2. n \in 0..Len(ring_parse_to_tx)
    BY <1>0, DequeueBound
  <2> HIDE DEF n
  <2>3. Range(ring_parse_to_tx) = Range(tx_pkts') \union Range(ring_parse_to_tx')
    BY <1>0, <2>1, <2>2, SplitRange
  <2>. QED  BY <2>1, <2>3
<1>. QED  BY <1>1, <1>2, <1>3, <1>4

\* Every step of the pipeline is a step of the lossy FIFO.
LEMMA FifoStep == FifoInv /\ FifoInv' /\ [Next]_vars => [Fifo!Next]_(Fifo!vars)
<1> SUFFICES ASSUME FifoInv, FifoInv', [Next]_vars PROVE [Fifo!Next]_(Fifo!vars)
  OBVIOUS
<1> USE PipelineAssumption
<1>0. InsideFacts /\ InsideFacts'
  BY InsideNow, InsideNext
<1>a. /\ rx_pkts \in Seq(Nat) /\ parser_pkts \in Seq(Nat) /\ tx_pkts \in Seq(Nat)
      /\ ring_rx_to_parse \in Seq(Nat) /\ ring_parse_to_tx \in Seq(Nat)
      /\ sent \in Seq(Nat) /\ accepted \in Nat /\ rx_pkts' \in Seq(Nat)
  BY DEF FifoInv, PipelineInv, TypeOK
<1>1. CASE NoMove
  BY <1>1 DEF NoMove, ends, rings, Fifo!vars
<1>2. ASSUME NEW n \in 0..BURST_SIZE, RxBurst(n) PROVE [Fifo!Next]_(Fifo!vars)
  <2>1. /\ rx_pc = "burst" /\ rx_pkts' = [i \in 1..n |-> accepted + i] /\ accepted' = accepted + n
        /\ UNCHANGED <<parser_pkts, tx_pkts, ring_rx_to_parse, ring_parse_to_tx, sent>>
    BY <1>2 DEF RxBurst, parserVars, txVars, rings, ends
  <2>2. rx_pkts = <<>>
    <3>1. Len(rx_pkts) \in Nat /\ ~(Len(rx_pkts) > 0)
      BY <1>a, <2>1, LenProperties DEF FifoInv, PipelineInv, LoopState
    <3>. QED  BY <1>a, <3>1, EmptyLen
  <2> DEFINE four == tx_pkts \o ring_parse_to_tx \o parser_pkts \o ring_rx_to_parse
  <2>3. four \in Seq(Nat)
    BY <1>a, ConcatProperties
  <2>4. Inside = four \o rx_pkts /\ Inside' = four \o rx_pkts'
    BY <2>1 DEF Inside
  <2> HIDE DEF four
  <2>5. Inside = four
    BY <2>2, <2>3, <2>4, ConcatEmptySeq
  <2>6. CASE n = 0
    <3>1. Len(rx_pkts') = 0
      BY <2>1, <2>6
    <3>2. rx_pkts' = rx_pkts
      BY <1>a, <2>2, <3>1, EmptyLen
    <3>3. accepted' = accepted
      BY <1>a, <2>1, <2>6
    <3>. QED  BY <2>1, <3>2, <3>3 DEF Fifo!vars
  <2>7. CASE n # 0
    <3>1. n \in 1..BURST_SIZE
      BY <2>7
    <3>2. Inside' = Inside \o [i \in 1..n |-> accepted + i]
      BY <2>1, <2>4, <2>5
    <3>3. Fifo!Accept
      BY <2>1, <3>1, <3>2 DEF Fifo!Accept, Inside
    <3>. QED  BY <3>3 DEF Fifo!Next
  <2>. QED  BY <2>6, <2>7
<1>3. CASE RxEnqueue \/ ParserDequeue \/ ParserEnqueue \/ TxDequeue
  <2>1. sent' = sent /\ accepted' = accepted
    BY <1>3 DEF RxEnqueue, ParserDequeue, ParserEnqueue, TxDequeue, ends
  <2>2. Range(Inside') \subseteq Range(Inside)
    BY <1>0, <1>3, StagesLose DEF InsideFacts
  <2>. QED  BY <2>1, <2>2, QuietStep DEF Fifo!Next
<1>4. ASSUME NEW k \in 0..BURST_SIZE, TxBurst(k) PROVE [Fifo!Next]_(Fifo!vars)
  <2>1. /\ sent' = sent \o SubSeq(tx_pkts, 1, k) /\ tx_pkts' = <<>>
        /\ UNCHANGED <<accepted, rx_pkts, parser_pkts, ring_rx_to_parse, ring_parse_to_tx>>
    BY <1>4 DEF TxBurst, rxVars, parserVars, rings, Taken
  <2>2. k \in 0..Len(tx_pkts)
    BY <1>a, <1>4, LenProperties DEF TxBurst
  <2>3. k \in 0..Len(Inside) /\ SubSeq(Inside, 1, k) = SubSeq(tx_pkts, 1, k)
    BY <2>2, FrontOfInside
  <2>4. Range(Inside) = Range(SubSeq(Inside, 1, k)) \union Range(SubSeq(Inside, k + 1, Len(Inside)))
    BY <1>0, <2>3, SplitRange DEF InsideFacts, Taken, Rest
  <2>5. Range(SubSeq(tx_pkts, 1, k)) \subseteq Range(tx_pkts)
    BY <1>a, <2>2, SplitRange DEF Taken
  <2>6. Range(tx_pkts') = {}
    BY <2>1, EmptyFacts
  <2>7. Range(Inside') = Range(ring_parse_to_tx) \union Range(parser_pkts)
                           \union Range(ring_rx_to_parse) \union Range(rx_pkts)
    BY <1>0, <2>1, <2>6 DEF InsideFacts
  <2>8. Range(Inside') \subseteq Range(Inside)
    BY <1>0, <2>7 DEF InsideFacts
  <2>9. Below(Range(tx_pkts), Range(Inside')) /\ Range(tx_pkts) \subseteq Nat
    BY <1>a, <2>7, RangeNat DEF FifoInv, FifoOrder
  <2>10. \A x \in Range(Inside') : x \notin Range(tx_pkts)
    BY <2>9 DEF Below
  <2>11. Range(Inside') \subseteq Range(SubSeq(Inside, k + 1, Len(Inside)))
    BY <2>3, <2>4, <2>5, <2>8, <2>10
  <2>12. sent' = sent \o SubSeq(Inside, 1, k) /\ accepted' = accepted /\ Ascending(Inside')
    BY <1>0, <2>1, <2>3 DEF InsideFacts
  <2>. QED  BY <2>3, <2>11, <2>12, AdvanceStep DEF Fifo!Next
<1>. QED  BY <1>1, <1>2, <1>3, <1>4, Moves

\* Packets leave the port in the order they arrived, each at most once,
\* whatever the sizes of the rings and bursts and however the lcores interleave.
THEOREM PipelineRefinement == Spec => ImplementsLossyFifo
<1>1. Init => Fifo!Init
  BY EmptyFacts, ConcatEmptySeq DEF Init, Fifo!Init
<1>2. FifoInv /\ FifoInv' /\ [Next]_vars => [Fifo!Next]_(Fifo!vars)
  BY FifoStep
<1>. QED  BY <1>1, <1>2, FifoInvariant, PTL DEF Spec, ImplementsLossyFifo, Fifo!Spec
=============================================================================
