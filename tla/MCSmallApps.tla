---------------------------- MODULE MCSmallApps ----------------------------
(***************************************************************************)
(* The small applications of the repository, each a program of its own: a  *)
(* behaviour runs one component, and the state of the others stays as it   *)
(* was at the start.                                                       *)
(***************************************************************************)
EXTENDS Naturals, Sequences

CONSTANTS Lcores, MaxLoops,                            \* Telemetry
          RING_SIZE, Messages, MaxBlocks,              \* RingApps
          Events, LIMIT, CQ_DEPTH, EV_MBUFS,           \* EventApps
          RX_QUEUES, MaxWorkers, MaxQueues, RX_RING,   \* RssWorkers
          RSS_BURST, RSS_MBUFS,
          SEQ_MOD, BURST, Numbered,                    \* Reorder
          Features, MAX_FEATURES, NULL,                \* FeatureArc
          Macs, HASH_ENTRIES, MAX_PORTS                \* MacTable

\* The limits that the constants of the code are far below, or above.
ASSUME SmallAppsAssumption ==
  /\ Lcores \in Nat \ {0} /\ MaxLoops \in Nat
  /\ RX_QUEUES \in Nat \ {0} /\ MaxWorkers \in Nat /\ MaxQueues \in Nat
  /\ RX_RING \in Nat /\ RSS_BURST \in Nat /\ RSS_MBUFS \in Nat
  /\ Events <= LIMIT
  /\ (RX_QUEUES - 1) * RX_RING < RSS_MBUFS
  /\ 2 * 4 * BURST <= SEQ_MOD

\* The device takes some number of events, and the pool has some mbufs.
ASSUME EventAssumption ==
  Events \in Nat /\ LIMIT \in Nat /\ CQ_DEPTH \in Nat /\ EV_MBUFS \in Nat

\* The eight packets of reordering/sample fit into one burst.
ASSUME ReorderAssumption == BURST \in Nat /\ 8 <= BURST /\ SEQ_MOD \in Nat

\* The names of the start and the end node are no features, and NULL is
\* neither a name nor a list of names.
ASSUME ArcAssumption ==
  /\ {"L3", "L4"} \cap Features = {}
  /\ NULL \notin Features \cup {"L3", "L4"} \cup Seq(Features)

VARIABLES component,
  tel_pc, launched, done, seen_total, g_lcore_stats, g_total_loops, registered, summary, array,
  ring_app, ring_main, producer_pc, consumer_pc, ring_state, ring, made, hand, refused, taken,
  keep_running,
  ev_app, ev_pc, worker_pc, dev_up, links, waiting, cq, context, sent, got, ev_mbuf, ev_pool,
  ev_lost,
  rss_app, workers, max_rx_queues, used_rx_queues, rss_pc, q, polls, rxq, rss_pool,
  seq_app, seq_pc, buf, seq_counter, failed, drained, due,
  next, features, enabled, built,
  mac_table, decided, seen

Tel  == INSTANCE Telemetry
Ring == INSTANCE RingApps
Ev   == INSTANCE EventApps
Rss  == INSTANCE RssWorkers
Ord  == INSTANCE Reorder
Arc  == INSTANCE FeatureArc
Mac  == INSTANCE MacTable

tel_vars  == <<tel_pc, launched, done, seen_total, g_lcore_stats, g_total_loops, registered,
               summary, array>>
ring_vars == <<ring_app, ring_main, producer_pc, consumer_pc, ring_state, ring, made, hand,
               refused, taken, keep_running>>
ev_vars   == <<ev_app, ev_pc, worker_pc, dev_up, links, waiting, cq, context, sent, got,
               ev_mbuf, ev_pool, ev_lost>>
rss_vars  == <<rss_app, workers, max_rx_queues, used_rx_queues, rss_pc, q, polls, rxq, rss_pool>>
seq_vars  == <<seq_app, seq_pc, buf, seq_counter, failed, drained, due>>
arc_vars  == <<next, features, enabled, built>>
mac_vars  == <<mac_table, decided, seen>>

vars == <<component, tel_vars, ring_vars, ev_vars, rss_vars, seq_vars, arc_vars, mac_vars>>

Init ==
  /\ component \in {"telemetry", "rings", "events", "rss", "reorder", "arc", "mac"}
  /\ Tel!Init /\ Ring!Init /\ Ev!Init /\ Rss!Init /\ Ord!Init /\ Arc!Init /\ Mac!Init
  /\ component # "rings" => ring_app = "practice"
  /\ component # "events" => ev_app = "one_event"
  /\ component # "rss" => rss_app = "rss" /\ workers = 0 /\ max_rx_queues = 0
  /\ component # "reorder" => seq_app = "sample"

Running(c) == component = c /\ UNCHANGED component

Telemetry  == /\ Running("telemetry") /\ Tel!Next
              /\ UNCHANGED <<ring_vars, ev_vars, rss_vars, seq_vars, arc_vars, mac_vars>>
Rings      == /\ Running("rings") /\ Ring!Next
              /\ UNCHANGED <<tel_vars, ev_vars, rss_vars, seq_vars, arc_vars, mac_vars>>
EventApps  == /\ Running("events") /\ Ev!Next
              /\ UNCHANGED <<tel_vars, ring_vars, rss_vars, seq_vars, arc_vars, mac_vars>>
RssWorkers == /\ Running("rss") /\ Rss!Next
              /\ UNCHANGED <<tel_vars, ring_vars, ev_vars, seq_vars, arc_vars, mac_vars>>
Reorder    == /\ Running("reorder") /\ Ord!Next
              /\ UNCHANGED <<tel_vars, ring_vars, ev_vars, rss_vars, arc_vars, mac_vars>>
FeatureArc == /\ Running("arc") /\ Arc!Next
              /\ UNCHANGED <<tel_vars, ring_vars, ev_vars, rss_vars, seq_vars, mac_vars>>
MacTable   == /\ Running("mac") /\ Mac!Next
              /\ UNCHANGED <<tel_vars, ring_vars, ev_vars, rss_vars, seq_vars, arc_vars>>

Next == Telemetry \/ Rings \/ EventApps \/ RssWorkers \/ Reorder \/ FeatureArc \/ MacTable

\* The fairness of the two components whose ends are checked, over all
\* variables.
InRings(A)  == Rings /\ A
InEvents(A) == EventApps /\ A

Spec == Init /\ [][Next]_vars

FairSpec == /\ Spec
            /\ WF_vars(InRings(Ring!Main)) /\ WF_vars(InRings(Ring!Producer))
            /\ WF_vars(InRings(Ring!Consumer))
            /\ WF_vars(InEvents(Ev!Main)) /\ WF_vars(InEvents(Ev!Worker))
            /\ WF_vars(InEvents(Ev!Schedule))

-----------------------------------------------------------------------------
(* The properties of the components *)

\* telementry/advanced_stats: the racing increments invent no loops.
SummaryNeverAhead == Tel!SummaryNeverAhead

\* The ring programs: blocks arrive in order, each once; only practice's
\* consumer can meet a freed ring.
RingCustody == Ring!RingCustody

\* The event applications: every event and mbuf is in one place.
EventsConserved == Ev!EventsConserved

\* eventdev/02practice: events of one flow stay in order over two ports.
FlowsInOrder == Ev!FlowsInOrder

\* inter_process_comm/eventdev: a flow scheduled to the primary's own port
\* empties the pool for good.
StuckFlowDrainsPool == (component = "events" /\ ev_app = "processes" /\ cq[0] # <<>>)
                         ~> [](ev_pool = 0)

\* rss_dpdk: one lcore per queue, and which queues have one.
QueuesCovered == Rss!QueuesCovered

\* reordering: every packet drained once, in order, with its own burst.
DrainedInOrder == Ord!DrainedInOrder

\* feature_arc/sample: the pipeline is what was on at the last rebuild.
ChainIsEnabled == Arc!ChainIsEnabled

\* l2_forwarding: packets follow a station that moves.
ForwardsWhereLastSeen == Mac!ForwardsWhereLastSeen

\* The programs that should end do, with everything received.
SmallAppsEnd == /\ component = "rings" => Ring!RingAppsEnd
                /\ component = "events" => Ev!EventAppsEnd
=============================================================================
