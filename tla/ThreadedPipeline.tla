--------------------------- MODULE ThreadedPipeline ---------------------------
(***************************************************************************)
(* The three-stage packet pipeline of thread_parsing/threaded_project (and *)
(* of nic_stats/sample, whose rx.c, tx.c and parser_loop are the same):    *)
(* one lcore receives bursts from the port, one parses them, one transmits *)
(* them, and two rte_rings connect the stages.  The RX lcore stops all of  *)
(* them through the shared flag force_quit once it has received RxLimit    *)
(* packets; main launches the lcores, waits for them and prints totals.    *)
(*                                                                         *)
(* Packets are numbered in the order the port hands them out.  An action   *)
(* is a piece of a loop between two accesses to state other lcores see:    *)
(* the read of force_quit, the port call, each ring call.                  *)
(***************************************************************************)
EXTENDS RteRing, Functions

CONSTANTS RxLimit,       \* packets after which RX stops (10 in rx.c)
          BURST_SIZE,    \* most packets moved by one call (32)
          RX_RING_SIZE,  \* size of ring_rx_to_parse (1024)
          TX_RING_SIZE   \* size of ring_parse_to_tx (1024)

ASSUME PipelineAssumption ==
  /\ RxLimit \in Nat \ {0}
  /\ BURST_SIZE \in Nat \ {0}
  /\ RX_RING_SIZE \in Nat \ {0}
  /\ TX_RING_SIZE \in Nat \ {0}

VARIABLES
  main_pc,           \* where main is
  rx_pc, parser_pc, tx_pc,
  force_quit,
  rx_count, parser_count, tx_count,
  ring_rx_to_parse, ring_parse_to_tx,
  rx_pkts,           \* rest of RX's burst, not yet enqueued
  parser_pkts,       \* the parser's burst
  tx_pkts,           \* TX's burst
  accepted,          \* packets the port has handed out
  sent,              \* packets the port took back for transmission
  dropped,           \* packets the parser freed
  unsent,            \* packets TX freed
  leaked,            \* packets no code holds a pointer to any more
  report             \* the totals main printed

totals == [rx |-> rx_count, parser |-> parser_count, tx |-> tx_count]
ends   == <<sent, dropped, unsent, leaked>>
rxVars     == <<rx_pc, rx_count, rx_pkts>>
parserVars == <<parser_pc, parser_count, parser_pkts>>
txVars     == <<tx_pc, tx_count, tx_pkts>>
rings      == <<ring_rx_to_parse, ring_parse_to_tx>>
mainVars   == <<main_pc, report>>

vars == <<mainVars, rxVars, parserVars, txVars, rings, force_quit, accepted, ends>>

Init ==
  /\ main_pc = "setup"
  /\ rx_pc = "off" /\ parser_pc = "off" /\ tx_pc = "off"
  /\ force_quit = FALSE
  /\ rx_count = 0 /\ parser_count = 0 /\ tx_count = 0
  /\ ring_rx_to_parse = <<>> /\ ring_parse_to_tx = <<>>
  /\ rx_pkts = <<>> /\ parser_pkts = <<>> /\ tx_pkts = <<>>
  /\ accepted = 0
  /\ sent = <<>> /\ dropped = <<>> /\ unsent = <<>> /\ leaked = <<>>
  /\ report = [rx |-> 0, parser |-> 0, tx |-> 0]

-----------------------------------------------------------------------------
(* main *)

\* Port, pool and rings are set up; any failure is rte_exit before a launch.
MainSetup ==
  /\ main_pc = "setup"
  /\ main_pc' \in {"launch_rx", "exited"}
  /\ UNCHANGED <<report, rxVars, parserVars, txVars, rings, force_quit, accepted, ends>>

\* The result of rte_eal_remote_launch is ignored: when it fails the lcore
\* does not run and main goes on.
MainLaunchRx ==
  /\ main_pc = "launch_rx"
  /\ main_pc' = "launch_parser"
  /\ rx_pc' \in {"start", "off"}
  /\ UNCHANGED <<report, rx_count, rx_pkts, parserVars, txVars, rings, force_quit,
                 accepted, ends>>

MainLaunchParser ==
  /\ main_pc = "launch_parser"
  /\ main_pc' = "launch_tx"
  /\ parser_pc' \in {"start", "off"}
  /\ UNCHANGED <<report, rxVars, parser_count, parser_pkts, txVars, rings, force_quit,
                 accepted, ends>>

MainLaunchTx ==
  /\ main_pc = "launch_tx"
  /\ main_pc' = "wait"
  /\ tx_pc' \in {"start", "off"}
  /\ UNCHANGED <<report, rxVars, parserVars, tx_count, tx_pkts, rings, force_quit,
                 accepted, ends>>

\* rte_eal_mp_wait_lcore returns when no worker lcore runs a function.
AllStopped_RxOnly == rx_pc \in {"off", "stopped"}
AllStopped == {rx_pc, parser_pc, tx_pc} \subseteq {"off", "stopped"}

MainReport ==
  /\ main_pc = "wait"
  /\ AllStopped
  /\ main_pc' = "done"
  /\ report' = totals
  /\ UNCHANGED <<rxVars, parserVars, txVars, rings, force_quit, accepted, ends>>

-----------------------------------------------------------------------------
(* rx_loop *)

RxStart ==
  /\ rx_pc = "start"
  /\ rx_pc' = "check"
  /\ rx_count' = 0
  /\ UNCHANGED <<rx_pkts, mainVars, parserVars, txVars, rings, force_quit, accepted, ends>>

RxCheck ==
  /\ rx_pc = "check"
  /\ rx_pc' = IF force_quit THEN "stopped" ELSE "burst"
  /\ UNCHANGED <<rx_count, rx_pkts, mainVars, parserVars, txVars, rings, force_quit,
                 accepted, ends>>

\* rte_eth_rx_burst hands out n packets.
RxBurst(n) ==
  /\ rx_pc = "burst"
  /\ rx_pc' = IF n > 0 THEN "enqueue" ELSE "limit"
  /\ rx_count' = rx_count + n
  /\ rx_pkts' = [i \in 1..n |-> accepted + i]
  /\ accepted' = accepted + n
  /\ UNCHANGED <<mainVars, parserVars, txVars, rings, force_quit, ends>>

\* One rte_ring_enqueue of the for loop.  Its result is ignored: on a full
\* ring the pointer is overwritten by the next burst.
EnqueueIgnoringResult(p) ==
  IF Full(ring_rx_to_parse, RX_RING_SIZE)
  THEN leaked' = Append(leaked, p) /\ UNCHANGED ring_rx_to_parse
  ELSE ring_rx_to_parse' = Append(ring_rx_to_parse, p) /\ UNCHANGED leaked

\* The for loop run downwards.
RxEnqueue_FromTheEnd ==
  /\ rx_pc = "enqueue"
  /\ EnqueueIgnoringResult(rx_pkts[Len(rx_pkts)])
  /\ rx_pkts' = Taken(rx_pkts, Len(rx_pkts) - 1)
  /\ rx_pc' = IF Len(rx_pkts) = 1 THEN "limit" ELSE "enqueue"
  /\ UNCHANGED <<rx_count, mainVars, parserVars, txVars, ring_parse_to_tx, force_quit,
                 accepted, sent, dropped, unsent>>

RxEnqueue ==
  /\ rx_pc = "enqueue"
  /\ EnqueueIgnoringResult(Head(rx_pkts))
  /\ rx_pkts' = Tail(rx_pkts)
  /\ rx_pc' = IF Len(rx_pkts) = 1 THEN "limit" ELSE "enqueue"
  /\ UNCHANGED <<rx_count, mainVars, parserVars, txVars, ring_parse_to_tx, force_quit,
                 accepted, sent, dropped, unsent>>

LimitReached_OffByOne == rx_count > RxLimit
LimitReached == rx_count >= RxLimit

RxLimitStop_FlagNotSet ==
  /\ rx_pc = "limit"
  /\ LimitReached
  /\ rx_pc' = "stopped"
  /\ UNCHANGED <<rx_count, rx_pkts, mainVars, parserVars, txVars, rings, force_quit,
                 accepted, ends>>

RxLimitStop ==
  /\ rx_pc = "limit"
  /\ LimitReached
  /\ force_quit' = TRUE
  /\ rx_pc' = "stopped"
  /\ UNCHANGED <<rx_count, rx_pkts, mainVars, parserVars, txVars, rings, accepted, ends>>

RxLimitGoOn ==
  /\ rx_pc = "limit"
  /\ ~LimitReached
  /\ rx_pc' = "check"
  /\ UNCHANGED <<rx_count, rx_pkts, mainVars, parserVars, txVars, rings, force_quit,
                 accepted, ends>>

-----------------------------------------------------------------------------
(* parser_loop *)

ParserStart ==
  /\ parser_pc = "start"
  /\ parser_pc' = "check"
  /\ parser_count' = 0
  /\ UNCHANGED <<parser_pkts, mainVars, rxVars, txVars, rings, force_quit, accepted, ends>>

ParserCheck ==
  /\ parser_pc = "check"
  /\ parser_pc' = IF force_quit THEN "stopped" ELSE "dequeue"
  /\ UNCHANGED <<parser_count, parser_pkts, mainVars, rxVars, txVars, rings, force_quit,
                 accepted, ends>>

\* The burst is taken and parsed; parse_packet only prints.
ParserDequeue ==
  /\ parser_pc = "dequeue"
  /\ LET n == DequeueCount(ring_rx_to_parse, BURST_SIZE) IN
       /\ parser_pkts' = Taken(ring_rx_to_parse, n)
       /\ ring_rx_to_parse' = Rest(ring_rx_to_parse, n)
       /\ parser_count' = parser_count + n
       /\ parser_pc' = IF n > 0 THEN "enqueue" ELSE "check"
  /\ UNCHANGED <<mainVars, rxVars, txVars, ring_parse_to_tx, force_quit, accepted, ends>>

\* The free loop started at 0 instead of m.
ParserEnqueue_FreesWholeBurst ==
  /\ parser_pc = "enqueue"
  /\ LET m == EnqueueCount(ring_parse_to_tx, Len(parser_pkts), TX_RING_SIZE) IN
       /\ ring_parse_to_tx' = ring_parse_to_tx \o Taken(parser_pkts, m)
       /\ dropped' = IF m < Len(parser_pkts) THEN dropped \o parser_pkts ELSE dropped
  /\ parser_pkts' = <<>>
  /\ parser_pc' = "check"
  /\ UNCHANGED <<parser_count, mainVars, rxVars, txVars, ring_rx_to_parse, force_quit,
                 accepted, sent, unsent, leaked>>

\* The burst is forwarded; what the TX ring has no room for is freed.
ParserEnqueue ==
  /\ parser_pc = "enqueue"
  /\ LET m == EnqueueCount(ring_parse_to_tx, Len(parser_pkts), TX_RING_SIZE) IN
       /\ ring_parse_to_tx' = ring_parse_to_tx \o Taken(parser_pkts, m)
       /\ dropped' = dropped \o Rest(parser_pkts, m)
  /\ parser_pkts' = <<>>
  /\ parser_pc' = "check"
  /\ UNCHANGED <<parser_count, mainVars, rxVars, txVars, ring_rx_to_parse, force_quit,
                 accepted, sent, unsent, leaked>>

-----------------------------------------------------------------------------
(* tx_loop *)

TxStart ==
  /\ tx_pc = "start"
  /\ tx_pc' = "check"
  /\ tx_count' = 0
  /\ UNCHANGED <<tx_pkts, mainVars, rxVars, parserVars, rings, force_quit, accepted, ends>>

TxCheck ==
  /\ tx_pc = "check"
  /\ tx_pc' = IF force_quit THEN "stopped" ELSE "dequeue"
  /\ UNCHANGED <<tx_count, tx_pkts, mainVars, rxVars, parserVars, rings, force_quit,
                 accepted, ends>>

\* tx_count counts bursts instead of packets.
TxDequeue_CountsBursts ==
  /\ tx_pc = "dequeue"
  /\ LET n == DequeueCount(ring_parse_to_tx, BURST_SIZE) IN
       /\ tx_pkts' = Taken(ring_parse_to_tx, n)
       /\ ring_parse_to_tx' = Rest(ring_parse_to_tx, n)
       /\ tx_count' = IF n > 0 THEN tx_count + 1 ELSE tx_count
       /\ tx_pc' = IF n > 0 THEN "burst" ELSE "check"
  /\ UNCHANGED <<mainVars, rxVars, parserVars, ring_rx_to_parse, force_quit, accepted, ends>>

TxDequeue ==
  /\ tx_pc = "dequeue"
  /\ LET n == DequeueCount(ring_parse_to_tx, BURST_SIZE) IN
       /\ tx_pkts' = Taken(ring_parse_to_tx, n)
       /\ ring_parse_to_tx' = Rest(ring_parse_to_tx, n)
       /\ tx_count' = tx_count + n
       /\ tx_pc' = IF n > 0 THEN "burst" ELSE "check"
  /\ UNCHANGED <<mainVars, rxVars, parserVars, ring_rx_to_parse, force_quit, accepted, ends>>

\* The port takes the first k packets, the others are freed.  tx_count has
\* counted all of them already.
TxBurst(k) ==
  /\ tx_pc = "burst"
  /\ k <= Len(tx_pkts)
  /\ sent' = sent \o Taken(tx_pkts, k)
  /\ unsent' = unsent \o Rest(tx_pkts, k)
  /\ tx_pkts' = <<>>
  /\ tx_pc' = "check"
  /\ UNCHANGED <<tx_count, mainVars, rxVars, parserVars, rings, force_quit, accepted,
                 dropped, leaked>>

-----------------------------------------------------------------------------
Main   == MainSetup \/ MainLaunchRx \/ MainLaunchParser \/ MainLaunchTx \/ MainReport
Rx     == RxStart \/ RxCheck \/ (\E n \in 0..BURST_SIZE : RxBurst(n)) \/ RxEnqueue
            \/ RxLimitStop \/ RxLimitGoOn
Parser == ParserStart \/ ParserCheck \/ ParserDequeue \/ ParserEnqueue
Tx     == TxStart \/ TxCheck \/ TxDequeue \/ (\E k \in 0..BURST_SIZE : TxBurst(k))

\* The process has ended: main returned, or gave up during set-up.
Ended == main_pc \in {"done", "exited"} /\ UNCHANGED vars

Next == Main \/ Rx \/ Parser \/ Tx \/ Ended

Spec == Init /\ [][Next]_vars

\* Every lcore keeps running; the traffic does not dry up: a receive call that
\* is made again and again returns packets again and again.
FairSpec == /\ Spec
            /\ WF_vars(Main) /\ WF_vars(Rx) /\ WF_vars(Parser) /\ WF_vars(Tx)
            /\ SF_vars(\E n \in 1..BURST_SIZE : RxBurst(n))

-----------------------------------------------------------------------------
(* Properties *)

Packets == 1..accepted

\* Every variable stays in its type, and a ring never holds more than its size
\* allows.
TypeOK ==
  /\ main_pc \in {"setup", "launch_rx", "launch_parser", "launch_tx", "wait", "done", "exited"}
  /\ rx_pc \in {"off", "start", "check", "burst", "enqueue", "limit", "stopped"}
  /\ parser_pc \in {"off", "start", "check", "dequeue", "enqueue", "stopped"}
  /\ tx_pc \in {"off", "start", "check", "dequeue", "burst", "stopped"}
  /\ force_quit \in BOOLEAN
  /\ rx_count \in Nat /\ parser_count \in Nat /\ tx_count \in Nat /\ accepted \in Nat
  /\ ring_rx_to_parse \in Seq(Nat) /\ Len(ring_rx_to_parse) <= Usable(RX_RING_SIZE)
  /\ ring_parse_to_tx \in Seq(Nat) /\ Len(ring_parse_to_tx) <= Usable(TX_RING_SIZE)
  /\ rx_pkts \in Seq(Nat) /\ parser_pkts \in Seq(Nat) /\ tx_pkts \in Seq(Nat)
  /\ sent \in Seq(Nat) /\ dropped \in Seq(Nat) /\ unsent \in Seq(Nat) /\ leaked \in Seq(Nat)
  /\ report \in [rx : Nat, parser : Nat, tx : Nat]

\* All the packets the port handed out, read back from where they are now.
Everywhere == sent \o unsent \o tx_pkts \o ring_parse_to_tx \o dropped
                \o parser_pkts \o ring_rx_to_parse \o leaked \o rx_pkts

\* Each mbuf has one owner: whatever the interleaving of the three loops,
\* every packet taken from the port is in exactly one place (a local burst,
\* a ring, the port, freed once, or lost).  No mbuf is freed twice, freed
\* while queued, or sent twice.
Custody == /\ Len(Everywhere) = accepted
           /\ Range(Everywhere) = Packets

\* The counters the three loops update without locks agree with where the
\* packets are: rx_count with the port, parser_count with what has left the
\* first ring, tx_count with what has left the second.
PastTxRing == Len(sent) + Len(unsent) + Len(tx_pkts)
CountersAgree ==
  /\ rx_count = accepted
  /\ parser_count = PastTxRing + Len(ring_parse_to_tx) + Len(dropped) + Len(parser_pkts)
  /\ tx_count = PastTxRing
  /\ rx_count = parser_count + Len(ring_rx_to_parse) + Len(leaked) + Len(rx_pkts)

\* What main prints is final and explains every packet: all loops have ended,
\* no burst is half processed, and the differences between the totals are
\* exactly the packets that were lost or are stranded in a ring.  It is never
\* printed short of the limit unless no loop ran at all, whichever launches
\* failed.
ReportIsFinal ==
  main_pc = "done" =>
    /\ report = totals
    /\ rx_pkts = <<>> /\ parser_pkts = <<>> /\ tx_pkts = <<>>
    /\ report.rx >= RxLimit \/ {rx_pc, parser_pc, tx_pc} = {"off"}
    /\ report.rx - report.parser = Len(ring_rx_to_parse) + Len(leaked)
    /\ report.parser - report.tx = Len(ring_parse_to_tx) + Len(dropped)
    /\ report.tx = Len(sent) + Len(unsent)

\* RX stops at the first burst that reaches the limit, so it receives at most
\* RxLimit - 1 + BURST_SIZE packets.  A ring with room for that many never
\* fills up: then the ignored result of rte_ring_enqueue in rx_loop leaks
\* nothing and the parser never drops (1024 >= 10 + 32 in the code).
SizedRingsLoseNothing ==
  /\ RxLimit + BURST_SIZE <= RX_RING_SIZE => leaked = <<>>
  /\ RxLimit + BURST_SIZE <= TX_RING_SIZE => dropped = <<>>

\* If packets keep coming the process ends: the flag RX sets stops the other
\* two loops, in whatever order the lcores were launched and scheduled and
\* whether or not the launch of the parser or of TX failed.  Only when the
\* launch of RX failed is there nobody to stop the others.
Termination == <>(main_pc \in {"done", "exited"} \/ (main_pc = "wait" /\ rx_pc = "off"))
=============================================================================
