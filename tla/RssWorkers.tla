----------------------------- MODULE RssWorkers -----------------------------
(***************************************************************************)
(* The RSS receivers: the port spreads packets over several RX queues and  *)
(* every worker lcore polls one queue; main polls one more if the workers  *)
(* do not suffice.                                                         *)
(*   rss             rss_dpdk: RX_QUEUES queues, whatever the lcores;      *)
(*   af_packet_rss   rss_dpdk/af_packet_rss: as many queues as workers, at *)
(*                   most what the port supports.                          *)
(***************************************************************************)
EXTENDS RteRing

CONSTANTS RX_QUEUES,    \* queues of rss (4)
          MaxWorkers,   \* bound: worker lcores
          MaxQueues,    \* bound: queues a port may support
          RX_RING,      \* packets a queue holds (1024)
          RSS_BURST,    \* most packets per burst (32)
          RSS_MBUFS     \* size of the pool (8191)

VARIABLES
  rss_app,          \* the application that runs
  workers,          \* number of worker lcores; main is lcore 0
  max_rx_queues,    \* what the port supports
  used_rx_queues,   \* queues configured
  rss_pc,           \* "setup", "launch", "polling" (or waiting), "exited"
  q,                \* next queue to give to a lcore
  polls,            \* the queue each launched lcore polls
  rxq,              \* packets in each queue
  rss_pool          \* free mbufs

vars == <<rss_app, workers, max_rx_queues, used_rx_queues, rss_pc, q, polls, rxq, rss_pool>>

config  == <<rss_app, workers, max_rx_queues>>
packets == <<rxq, rss_pool>>

Init ==
  /\ rss_app \in {"rss", "af_packet_rss"}
  /\ workers \in 0..MaxWorkers
  /\ max_rx_queues \in 0..MaxQueues
  /\ used_rx_queues = 1
  /\ rss_pc = "setup"
  /\ q = 0
  /\ polls = <<>>
  /\ rxq = <<>>
  /\ rss_pool = RSS_MBUFS

-----------------------------------------------------------------------------
(* main *)

AtLeastOne(n) == IF n = 0 THEN 1 ELSE n

\* The number of queues main configures.
Queues == IF rss_app = "rss" THEN RX_QUEUES
          ELSE AtLeastOne(Least(AtLeastOne(workers), max_rx_queues))

\* A port that supports fewer queues cannot be configured.
Setup ==
  /\ rss_pc = "setup"
  /\ \/ /\ Queues <= max_rx_queues
        /\ used_rx_queues' = Queues
        /\ rxq' = [i \in 0 .. Queues - 1 |-> 0]
        /\ rss_pc' = "launch"
     \/ /\ rss_pc' = "exited"
        /\ UNCHANGED <<used_rx_queues, rxq>>
  /\ UNCHANGED <<config, q, polls, rss_pool>>

\* polls[l] is the queue of the l-th worker; main's comes last.
LaunchWorker ==
  /\ rss_pc = "launch"
  /\ q < used_rx_queues /\ Len(polls) < workers
  /\ polls' = Append(polls, q)
  /\ q' = q + 1
  /\ UNCHANGED <<config, used_rx_queues, rss_pc, packets>>

\* main polls a queue that a worker has.
MainTakes_Last ==
  /\ rss_pc = "launch"
  /\ q >= used_rx_queues \/ Len(polls) = workers
  /\ polls' = IF q < used_rx_queues THEN Append(polls, IF q = 0 THEN 0 ELSE q - 1) ELSE polls
  /\ rss_pc' = "polling"
  /\ UNCHANGED <<config, used_rx_queues, q, packets>>

\* After the workers main polls one queue itself, or waits for them.
MainTakes ==
  /\ rss_pc = "launch"
  /\ q >= used_rx_queues \/ Len(polls) = workers
  /\ polls' = IF q < used_rx_queues THEN Append(polls, q) ELSE polls
  /\ rss_pc' = "polling"
  /\ UNCHANGED <<config, used_rx_queues, q, packets>>

-----------------------------------------------------------------------------
(* The port and the loops *)

\* A packet is put into some queue, in an mbuf of the pool.
Arrive ==
  /\ rss_pc \in {"launch", "polling"}
  /\ rss_pool > 0
  /\ \E i \in DOMAIN rxq : rxq[i] < RX_RING /\ rxq' = [rxq EXCEPT ![i] = @ + 1]
  /\ rss_pool' = rss_pool - 1
  /\ UNCHANGED <<config, used_rx_queues, rss_pc, q, polls>>

\* lcore_rx: a burst is received, printed and freed.
lcore_rx(l) ==
  LET n == Least(RSS_BURST, rxq[polls[l]]) IN
    /\ n > 0
    /\ rxq' = [rxq EXCEPT ![polls[l]] = @ - n]
    /\ rss_pool' = rss_pool + n
    /\ UNCHANGED <<config, used_rx_queues, rss_pc, q, polls>>

-----------------------------------------------------------------------------
Main == Setup \/ LaunchWorker \/ MainTakes
Rx   == \E l \in DOMAIN polls : lcore_rx(l)

Ended == rss_pc = "exited" /\ UNCHANGED vars

Next == Main \/ Rx \/ Arrive \/ Ended

Spec == Init /\ [][Next]_vars

-----------------------------------------------------------------------------
(* Properties *)

Polled == {polls[l] : l \in DOMAIN polls}

\* No two lcores poll one queue (a queue is not thread-safe).  Once all are
\* launched, the first queues are polled, one per worker and one by main:
\* all of them in af_packet_rss, not in rss with fewer than RX_QUEUES
\* lcores.  A queue nobody polls keeps its packets, but never so many
\* that the polled ones find the pool empty.
QueuesCovered ==
  /\ \A l, m \in DOMAIN polls : polls[l] = polls[m] => l = m
  /\ rss_pc = "polling" =>
       /\ Polled = 0 .. Least(used_rx_queues, workers + 1) - 1
       /\ rss_app = "af_packet_rss" => Polled = DOMAIN rxq
       /\ rss_pool = 0 => \E i \in Polled : rxq[i] > 0
=============================================================================
