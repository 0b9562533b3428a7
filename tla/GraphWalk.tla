----------------------------- MODULE GraphWalk -----------------------------
(***************************************************************************)
(* The graph applications: graph/pipeline, graph/rx_drop_sample,           *)
(* graph/two_start_node, graph/two_start_with_worker, graph/sample,        *)
(* graph/node_sched and feature_arc/graph_arc.  A behaviour runs one of    *)
(* them, `app`, named as its directory.                                    *)
(*                                                                         *)
(* rte_graph_walk visits the source nodes and then the nodes on a list of  *)
(* pending ones, which grows while nodes enqueue objects to their          *)
(* successors.  A node is put on the list when its stream is empty; so it  *)
(* is also visited when nothing is enqueued to it, as some of these        *)
(* applications do on purpose.  One step is one call of a node's process   *)
(* function.                                                               *)
(***************************************************************************)
EXTENDS RteRing, FiniteSets, Functions

CONSTANTS Apps,        \* the applications to run
          NB_MBUF,     \* size of each application's mbuf pool (1024, 8192)
          BURST,       \* most packets per receive call (32, 256)
          MaxPackets   \* bound: packets delivered by the port

ASSUME GraphAssumption == /\ Apps \subseteq {"pipeline", "rx_drop_sample", "two_start_node",
                                           "two_start_with_worker", "sample", "node_sched",
                                           "graph_arc"}
                          /\ NB_MBUF \in [Apps -> Nat]
                          /\ BURST \in Nat \ {0}
                          /\ MaxPackets \in Nat

VARIABLES
  app,           \* the application that runs
  pc,            \* "setup", "loop" (between walks), "walk", "ended", "exited", "crashed"
  pending,       \* nodes the walk has still to visit
  stream,        \* the objects enqueued to each node
  count,         \* count, or total_prints
  quit,          \* quit, or force_quit
  feature,       \* graph_arc's two flags
  helper,        \* graph_arc's function on lcore 1: "none", "launched", "done"
  accepted,      \* mbufs handed out by the pool so far
  sent, freed,   \* packets the port took, packets that were freed
  lost,          \* packets neither sent nor freed
  visited        \* nodes visited so far

graphVars == <<pending, stream>>
mbufVars == <<accepted, sent, freed, lost>>
vars == <<app, pc, graphVars, count, quit, feature, helper, mbufVars, visited>>

Nodes == {"rx", "l2", "ipv4", "ipv6", "tx", "drop", "hello", "dummy", "dummy2",
          "start1", "start2", "worker", "work1", "work2"}

Init ==
  /\ app \in Apps
  /\ pc = "setup"
  /\ pending = <<>>
  /\ stream = [n \in Nodes |-> <<>>]
  /\ count = 0 /\ quit = FALSE
  /\ feature \in IF app = "graph_arc" THEN {0, 1, 2} \X {0, 1, 2} ELSE {<<0, 0>>}
  /\ helper = "none"
  /\ accepted = 0 /\ sent = <<>> /\ freed = <<>> /\ lost = <<>>
  /\ visited = {}

-----------------------------------------------------------------------------
(* The graph library *)

\* rte_node_enqueue: the node becomes pending unless its stream holds objects.
Enqueue(g, n, objs) ==
  [pending |-> IF g.stream[n] = <<>> THEN Append(g.pending, n) ELSE g.pending,
   stream  |-> [g.stream EXCEPT ![n] = @ \o objs]]

EnqueueIfAny(g, n, objs) == IF objs = <<>> THEN g ELSE Enqueue(g, n, objs)

\* The graph after the visit of node n, before what n enqueues.
Left(n) == [pending |-> Tail(pending), stream |-> [stream EXCEPT ![n] = <<>>]]

Become(g) == pending' = g.pending /\ stream' = g.stream

\* The walk calls the process function of node n of application a.
Visit(a, n) ==
  /\ app = a
  /\ pc = "walk"
  /\ pending # <<>> /\ Head(pending) = n
  /\ visited' = visited \union {n}
  /\ UNCHANGED <<app, pc, feature>>

\* Mbufs left in the pool; the port returns what it has sent.
Available == NB_MBUF[app] - (accepted - Len(sent) - Len(freed))

\* n packets from the port.  `burst` tells the receive calls apart.
Received(n) ==
  {[j \in 1..n |-> [id |-> accepted + j, type |-> types[j], burst |-> accepted]] :
     types \in [1..n -> {"ipv4", "ipv6", "arp"}]}

\* The array a loop over objs fills with the packets of the types T.
OfType(objs, T) ==
  LET array[i \in 0..Len(objs)] ==
        IF i = 0 THEN <<>>
        ELSE IF objs[i].type \in T THEN Append(array[i - 1], objs[i]) ELSE array[i - 1]
  IN array[Len(objs)]

-----------------------------------------------------------------------------
(* Set-up and the loops of main *)

\* The applications stop by themselves at this count.
Limit == [two_start_node |-> 10, two_start_with_worker |-> 10, sample |-> 10,
          node_sched |-> 10, graph_arc |-> 1]

Sources(a) ==
  CASE a \in {"pipeline", "rx_drop_sample"} -> <<"rx">>
    [] a \in {"two_start_node", "two_start_with_worker"} -> <<"start1", "start2">>
    [] a \in {"sample", "node_sched", "graph_arc"} -> <<"hello">>

\* A failing EAL, pool or graph ends the process.  The results of the calls
\* that bring up the port are ignored: it may never deliver a packet.
Setup == /\ pc = "setup"
         /\ pc' \in {"loop", "exited"}
         /\ UNCHANGED <<app, graphVars, count, quit, feature, helper, mbufVars, visited>>

MayWalk == ~quit /\ (app \in DOMAIN Limit => count < Limit[app])

StartWalk == /\ pc = "loop"
             /\ MayWalk
             /\ pc' = "walk"
             /\ pending' = Sources(app)
             /\ UNCHANGED <<app, stream, count, quit, feature, helper, mbufVars, visited>>

\* The walks are not counted.
EndWalk_ForgetsCount ==
  /\ pc = "walk"
  /\ pending = <<>>
  /\ pc' = "loop"
  /\ UNCHANGED <<app, graphVars, count, quit, feature, helper, mbufVars, visited>>

\* two_start_with_worker counts its walks.
EndWalk == /\ pc = "walk"
           /\ pending = <<>>
           /\ pc' = "loop"
           /\ count' = IF app = "two_start_with_worker" THEN count + 1 ELSE count
           /\ UNCHANGED <<app, graphVars, quit, feature, helper, mbufVars, visited>>

Leave == /\ pc = "loop"
         /\ ~MayWalk
         /\ pc' = "ended"
         /\ UNCHANGED <<app, graphVars, count, quit, feature, helper, mbufVars, visited>>

\* two_start_node and graph_arc install no handler.
signal_handler ==
  /\ app \in {"pipeline", "rx_drop_sample", "sample", "node_sched", "two_start_with_worker"}
  /\ pc \in {"setup", "loop", "walk"}
  /\ quit' = TRUE
  /\ UNCHANGED <<app, pc, graphVars, count, feature, helper, mbufVars, visited>>

-----------------------------------------------------------------------------
(* graph/pipeline: rx -> l2 -> ipv4 or ipv6 -> tx, or drop *)

RxNode(a, next, n) ==
  /\ Visit(a, "rx")
  /\ n <= Available /\ accepted + n <= MaxPackets
  /\ \E pkts \in Received(n) : Become(EnqueueIfAny(Left("rx"), next, pkts))
  /\ accepted' = accepted + n
  /\ UNCHANGED <<count, quit, helper, sent, freed, lost>>

PipelineRx(n) == RxNode("pipeline", "l2", n)

\* A break is missing: what goes to ipv4 also goes to ipv6.
L2Node_FallsThrough ==
  /\ Visit("pipeline", "l2")
  /\ LET objs == stream["l2"]
         v4 == EnqueueIfAny(Left("l2"), "ipv4", OfType(objs, {"ipv4"}))
         v6 == EnqueueIfAny(v4, "ipv6", OfType(objs, {"ipv4", "ipv6"}))
     IN Become(EnqueueIfAny(v6, "drop", OfType(objs, {"arp"})))
  /\ UNCHANGED <<count, quit, helper, mbufVars>>

\* The IPv6 packets are handed on first.
L2Node_V6First ==
  /\ Visit("pipeline", "l2")
  /\ LET objs == stream["l2"]
         v6 == EnqueueIfAny(Left("l2"), "ipv6", OfType(objs, {"ipv6"}))
         v4 == EnqueueIfAny(v6, "ipv4", OfType(objs, {"ipv4"}))
     IN Become(EnqueueIfAny(v4, "drop", OfType(objs, {"arp"})))
  /\ UNCHANGED <<count, quit, helper, mbufVars>>

L2Node ==
  /\ Visit("pipeline", "l2")
  /\ LET objs == stream["l2"]
         v4 == EnqueueIfAny(Left("l2"), "ipv4", OfType(objs, {"ipv4"}))
         v6 == EnqueueIfAny(v4, "ipv6", OfType(objs, {"ipv6"}))
     IN Become(EnqueueIfAny(v6, "drop", OfType(objs, {"arp"})))
  /\ UNCHANGED <<count, quit, helper, mbufVars>>

ToTx(n) == /\ Visit("pipeline", n)
           /\ Become(Enqueue(Left(n), "tx", stream[n]))
           /\ UNCHANGED <<count, quit, helper, mbufVars>>
Ipv4Node == ToTx("ipv4")
Ipv6Node == ToTx("ipv6")

\* The whole burst is freed once the port took some of it.
PipelineTx_FreesAll(k) ==
  /\ Visit("pipeline", "tx")
  /\ k <= Len(stream["tx"])
  /\ sent' = sent \o Taken(stream["tx"], k)
  /\ freed' = IF k < Len(stream["tx"]) THEN freed \o stream["tx"] ELSE freed
  /\ Become(Left("tx"))
  /\ UNCHANGED <<count, quit, helper, accepted, lost>>

\* The port takes k packets; the others are freed.
PipelineTx(k) ==
  /\ Visit("pipeline", "tx")
  /\ k <= Len(stream["tx"])
  /\ sent' = sent \o Taken(stream["tx"], k)
  /\ freed' = freed \o Rest(stream["tx"], k)
  /\ Become(Left("tx"))
  /\ UNCHANGED <<count, quit, helper, accepted, lost>>

FreeAll(a, n) == /\ Visit(a, n)
                 /\ freed' = freed \o stream[n]
                 /\ Become(Left(n))
                 /\ UNCHANGED <<count, quit, helper, accepted, sent, lost>>

PipelineDrop == FreeAll("pipeline", "drop")

-----------------------------------------------------------------------------
(* graph/rx_drop_sample: rx -> ipv4 -> tx or drop *)

RxDropRx(n) == RxNode("rx_drop_sample", "ipv4", n)

\* Packets are enqueued one by one.
RxDropIpv4 ==
  /\ Visit("rx_drop_sample", "ipv4")
  /\ LET objs == stream["ipv4"]
         graph[i \in 0..Len(objs)] ==
           IF i = 0 THEN Left("ipv4")
           ELSE Enqueue(graph[i - 1], IF objs[i].type = "ipv4" THEN "tx" ELSE "drop",
                        <<objs[i]>>)
     IN Become(graph[Len(objs)])
  /\ UNCHANGED <<count, quit, helper, mbufVars>>

\* The result of rte_eth_tx_burst is ignored.
RxDropTx(k) ==
  /\ Visit("rx_drop_sample", "tx")
  /\ k <= Len(stream["tx"])
  /\ sent' = sent \o Taken(stream["tx"], k)
  /\ lost' = lost \o Rest(stream["tx"], k)
  /\ Become(Left("tx"))
  /\ UNCHANGED <<count, quit, helper, accepted, freed>>

RxDropDrop == FreeAll("rx_drop_sample", "drop")

-----------------------------------------------------------------------------
(* graph/two_start_node: two sources allocate a packet each, a worker      *)
(* frees them.                                                             *)

Packet == [id |-> accepted + 1, type |-> "made", burst |-> accepted]

Start(n) ==
  /\ Visit("two_start_node", n)
  /\ IF count < 10 /\ Available > 0
     THEN /\ Become(Enqueue(Left(n), "worker", <<Packet>>))
          /\ accepted' = accepted + 1
          /\ count' = count + 1
     ELSE Become(Left(n)) /\ UNCHANGED <<accepted, count>>
  /\ UNCHANGED <<quit, helper, sent, freed, lost>>

Start1 == Start("start1")
Start2 == Start("start2")
Worker == FreeAll("two_start_node", "worker")

-----------------------------------------------------------------------------
(* graph/two_start_with_worker: each source has a worker of its own.  The  *)
(* objects are numbers, no mbufs.                                          *)

Numbers(first) == [i \in 1..4 |-> [id |-> first + i - 1, type |-> "number", burst |-> 0]]

NumberSource(n, next, first) ==
  /\ Visit("two_start_with_worker", n)
  /\ Become(Enqueue(Left(n), next, Numbers(first)))
  /\ UNCHANGED <<count, quit, helper, mbufVars>>
NumberSource1 == NumberSource("start1", "work1", 0)
NumberSource2 == NumberSource("start2", "work2", 100)

NumberWorker(n) == /\ Visit("two_start_with_worker", n)
                   /\ Become(Left(n))
                   /\ UNCHANGED <<count, quit, helper, mbufVars>>
Work1 == NumberWorker("work1")
Work2 == NumberWorker("work2")

-----------------------------------------------------------------------------
(* graph/sample and graph/node_sched: a source and one or two sinks *)

\* An empty enqueue makes the node run with no objects.
SampleHello == /\ Visit("sample", "hello")
               /\ count' = count + 1
               /\ Become(Enqueue(Left("hello"), "dummy", <<>>))
               /\ UNCHANGED <<quit, helper, mbufVars>>
SampleDummy == /\ Visit("sample", "dummy")
               /\ count' = count + 1
               /\ Become(Left("dummy"))
               /\ UNCHANGED <<quit, helper, mbufVars>>

\* One object whose value was never set; nobody looks at it.
Junk == [id |-> 0, type |-> "junk", burst |-> 0]

SchedHello == /\ Visit("node_sched", "hello")
              /\ count' = count + 1
              /\ Become(Enqueue(Left("hello"), IF count' % 2 = 0 THEN "dummy" ELSE "dummy2",
                                <<Junk>>))
              /\ UNCHANGED <<quit, helper, mbufVars>>
SchedDummy(n) == /\ Visit("node_sched", n)
                 /\ Become(Left(n))
                 /\ UNCHANGED <<count, quit, helper, mbufVars>>

-----------------------------------------------------------------------------
(* feature_arc/graph_arc: the flags choose the sink; with both set, the    *)
(* second enqueue runs on lcore 1, concurrently with the walk.             *)

\* The branches test feature[0] only.
ArcHello_FirstOnly ==
  /\ Visit("graph_arc", "hello")
  /\ count' = count + 1
  /\ IF feature[1] = 1
     THEN Become(Enqueue(Left("hello"), "dummy", <<>>))
     ELSE Become(Enqueue(Left("hello"), "dummy2", <<>>))
  /\ UNCHANGED <<quit, helper, mbufVars>>

ArcHello ==
  /\ Visit("graph_arc", "hello")
  /\ count' = count + 1
  /\ \/ /\ feature \in {<<1, 0>>, <<0, 1>>}
        /\ Become(Enqueue(Left("hello"), IF feature = <<1, 0>> THEN "dummy" ELSE "dummy2", <<>>))
        /\ UNCHANGED <<quit, helper>>
     \/ /\ feature = <<1, 1>>
        /\ Become(Enqueue(Left("hello"), "dummy", <<>>))
        /\ helper' \in {"launched", "none"}    \* there may be no free lcore 1
        /\ UNCHANGED quit
     \/ /\ feature \notin {<<1, 0>>, <<0, 1>>, <<1, 1>>}
        /\ Become(Left("hello"))
        /\ quit' = TRUE
        /\ UNCHANGED helper
  /\ UNCHANGED mbufVars

ArcDummy(n) == /\ Visit("graph_arc", n)
               /\ count' = count + 1
               /\ Become(Left(n))
               /\ UNCHANGED <<quit, helper, mbufVars>>

\* helper reads its arguments from the stack frame of hello_node_process,
\* which has usually returned, and the graph, which may be destroyed: the
\* enqueue happens in time, or is never noticed, or the process crashes.
helper_run ==
  /\ helper = "launched"
  /\ helper' = "done"
  /\ pc \in {"loop", "walk", "ended"}
  /\ \/ /\ pc = "walk"
        /\ Become(Enqueue([pending |-> pending, stream |-> stream], "dummy2", <<>>))
        /\ UNCHANGED pc
     \/ pc' \in {pc, "crashed"} /\ UNCHANGED graphVars
  /\ UNCHANGED <<app, count, quit, feature, mbufVars, visited>>

-----------------------------------------------------------------------------
NodeStep ==
  \/ \E n \in 0..BURST : PipelineRx(n) \/ RxDropRx(n) \/ PipelineTx(n) \/ RxDropTx(n)
  \/ L2Node \/ Ipv4Node \/ Ipv6Node \/ PipelineDrop
  \/ RxDropIpv4 \/ RxDropDrop
  \/ Start1 \/ Start2 \/ Worker
  \/ NumberSource1 \/ NumberSource2 \/ Work1 \/ Work2
  \/ SampleHello \/ SampleDummy \/ SchedHello \/ ArcHello
  \/ \E n \in {"dummy", "dummy2"} : SchedDummy(n) \/ ArcDummy(n)

MainStep == Setup \/ StartWalk \/ EndWalk \/ Leave \/ NodeStep

Ended == pc \in {"ended", "exited", "crashed"} /\ UNCHANGED vars

Next == MainStep \/ signal_handler \/ helper_run \/ Ended

Spec == Init /\ [][Next]_vars

\* The main lcore keeps running.
FairSpec == Spec /\ WF_vars(MainStep)

-----------------------------------------------------------------------------
(* Properties *)

MbufApps == {"pipeline", "rx_drop_sample", "two_start_node"}

\* Who has an mbuf: a node, the port, the pool again, or nobody.
Owners == Nodes \union {"sent", "freed", "lost"}
Held(x) == CASE x = "sent"  -> sent
             [] x = "freed" -> freed
             [] x = "lost"  -> lost
             [] OTHER       -> stream[x]

OneOwner ==
  /\ \A x, y \in Owners : \A i \in DOMAIN Held(x), j \in DOMAIN Held(y) :
       Held(x)[i].id = Held(y)[j].id => x = y /\ i = j
  /\ UNION {{p.id : p \in Range(Held(x))} : x \in Owners} = 1..accepted

\* Every mbuf has one owner throughout a walk, whatever way it takes through
\* the graph, and the walk leaves none behind in a stream: at its end each
\* was sent or freed, or lost by rx_drop_sample's transmit node.  The two
\* sources of two_start_node together count exactly the mbufs they made,
\* however often the pool was empty; it ends after ten, all freed.
GraphCustody ==
  /\ app \in MbufApps => OneOwner
  /\ pc = "loop" => \A n \in Nodes : stream[n] = <<>>
  /\ app # "rx_drop_sample" => lost = <<>>
  /\ app = "two_start_node" => /\ count = accepted
                               /\ pc = "ended" => accepted = 10 /\ Len(freed) = 10

\* The arrays of BURST pointers in l2_node_process suffice, transmit gets at
\* most one burst although two nodes feed it, and no node is pending twice.
StreamsFit ==
  /\ app \in {"pipeline", "rx_drop_sample"} => \A n \in Nodes : Len(stream[n]) <= BURST
  /\ Cardinality(Range(pending)) = Len(pending)

\* The graph reorders packets in one way: within a burst, IPv4 leaves before
\* IPv6.
FamilyOrder ==
  \A i, j \in DOMAIN sent :
    i < j /\ sent[i].id > sent[j].id =>
      sent[i].type = "ipv4" /\ sent[j].type = "ipv6" /\ sent[i].burst = sent[j].burst

\* graph_arc runs only sinks whose flag is set, and the one whose flag is
\* set alone for certain.  With both set the second may be missed.
OnlyEnabledFeatures ==
  app = "graph_arc" =>
    /\ "dummy" \in visited => feature[1] = 1
    /\ "dummy2" \in visited => feature[2] = 1
    /\ pc = "ended" /\ feature \in {<<1, 0>>, <<1, 1>>} => "dummy" \in visited
    /\ pc = "ended" /\ feature = <<0, 1>> => "dummy2" \in visited

\* The applications with a limit end by themselves.
LimitedAppsEnd == app \in DOMAIN Limit => <>(pc \in {"ended", "exited", "crashed"})
=============================================================================
