# TLA+ models of DPDK_STARTER

DPDK_STARTER is a collection of small DPDK applications in C, each in a
directory of its own. They share no code; what they share is how they use DPDK:
mbufs that must have exactly one owner, rings whose calls may move fewer objects
than asked, ports that may take only part of a burst, lcores and processes that
talk through plain flags and unchecked enqueues. This directory models the
applications in which such things can go wrong, checks them with TLC and proves
their safety properties, and the three refinements, with TLAPS.

## Inventory

DPDK itself (rings, mempools, the ethdev and graph libraries, multi-process
messages) is not part of the repository. It is modelled from the calls the
applications make, and marked external in `PROJECT.json`.

### Pipelines over threads: `thread_parsing/threaded_project`, `nic_stats/sample`

*State*: two rings, three counters, the flag `force_quit`, a local burst in each
loop. *Operations*: `main` sets up, launches three lcores, waits for them and
prints totals; `rx_loop` receives bursts and enqueues packet by packet;
`parser_loop` dequeues a burst, parses it (only printing) and forwards it, freeing
what does not fit; `tx_loop` dequeues, transmits, frees what the port refuses. RX
sets `force_quit` after 10 packets. *Hard*: three lcores interleave at every ring
call; RX ignores the result of `rte_ring_enqueue`; the flag stops the others while
packets are queued; `main` reads other lcores' counters. *Correct when* every mbuf
has one owner, packets leave in order, the printed totals are final and explained,
rings of the size used never overflow, and the process ends.

### Request and reply between processes: `inter_process_comm/ring_full_duplex`, `.../single_ring_full_duplex`

*State*: one or two rings in shared memory, message blocks allocated by one
process and freed by the other. *Operations*: creation and lookup of the rings,
ten requests, replies, one stop message. With a single ring each process may
dequeue the other's message and put it back. *Hard*: start order, unchecked
enqueues, ownership across processes, livelock by put-backs. *Correct when* every
request is answered once and in order, no block leaks or is freed twice, and both
processes end.

### Processes and messages: `inter_process_comm/Multi_Process_Messaging`, `.../sample_rte_mp`

*State*: the ready flag, registered actions, messages in the sockets, a ring.
*Operations*: the primary sends checks until the secondary answers, then enqueues
numbers; the sample sends one message after `sleep(2)`. *Hard*: messages to an
action that is not registered are dropped; checks and replies are duplicated;
callbacks run on a thread of their own. *Correct when* nothing is sent before the
secondary is there, and everything sent is consumed.

### Control/data segregation: `control_data_segregation`

*State*: two rings, two counters, the burst. *Operations*: set-up or exit, `classify_packet`,
enqueue by class (freed on a full ring), two drains per iteration. *Hard*: header
offsets depend on the frame; the drains ignore what the port refuses. *Correct
when* no byte behind the packet is read, rings are empty at the loop head, only
control overtakes data, mbufs have one owner.

### Single-lcore packet loops

`ports/begin`, `ports/port_mempool`, `ports/packet_parsing`, `NAT/static_nat`,
`ACL/l2fwd_acl`, `longest_prefix_match_lpm/simple`, `tranmit_packet/swap_addr`,
`inter_process_comm/virtu_vhost_ipc` (both ends), `packet_change`, `meter_dpdk`,
`rxtx_callbacks/sample`, `ACL/exp`, `ACL/real_packet_acl`.
*State*: a pool, a burst, the port's transmit descriptors. *Operations*: set-up,
receive, handle, transmit. *Hard*: a transmit queue at its limit, the mbufs it does
not take, an unchecked allocation, byte orders of ACL rule and key, NAT tests
that are not exclusive.
*Correct when* mbufs are conserved, a leak is bounded, translation is reversible,
each ACL recognises what its rule says.

### Graph applications

`graph/pipeline`, `graph/rx_drop_sample`, `graph/two_start_node`,
`graph/two_start_with_worker`, `graph/sample`, `graph/node_sched`,
`feature_arc/graph_arc`. *State*: a stream per node, the list of pending nodes,
counters that end the loop, feature flags. *Operations*: one per node function,
the walk, the signal handler, and a helper lcore that enqueues into the graph while
it is walked. *Hard*: splitting and joining of a burst, fixed arrays filled without
a check, an enqueue of zero objects on which the end of the program rests.

### Small applications

Each of these is a program of a page; a hazard or two is all there is to it.

| component | state and operations | hard | correct when |
|---|---|---|---|
| `telementry/advanced_stats` | a counter per lcore and a shared total; workers count, two telemetry commands report | the total is incremented without synchronisation, reports come from several moments | no report shows loops that did not happen |
| `rings/sample`, `practice/ring.c`, `inter_process_comm/through_rte_ring` | one ring; a producer and a consumer, lcores or processes | full ring, stop signal, a ring freed before its consumer has returned | each block arrives or is freed once, in order; the programs end |
| `eventdev/01project`, `02practice`, `practice`, `parsing_event`, `inter_process_comm/eventdev` | an event device, its ports and flows; producers, workers, an RX adapter | the scheduler chooses ports, the device is full, an enqueue is not checked, a linked port nobody polls | no event or mbuf is duplicated, flows stay in order, a fixed number of events is received |
| `rss_dpdk`, `rss_dpdk/af_packet_rss` | RX queues and the lcore that polls each | fewer lcores than queues | no queue has two pollers, and the pool stays usable |
| `reordering/*` | a reorder buffer, a wrapping counter | window and burst of the same size, wrap-around | every packet is drained once, in order, with its own burst |
| `feature_arc/sample` | links between nodes, enabled flags; register, enable, disable, rebuild, walk | links of disabled features stay | a walk passes exactly the enabled features |
| `l2_forwarding`, `hashing/mac_learning` | a MAC table; learn and look up | full table, stations that move | a packet goes where its destination was seen last, or everywhere |

### Not modelled

| part | why |
|---|---|
| graph with private context | does not build against the graph library's interface: it has no behaviour |
| packet generator (`tranmit_packet/packet_creation`) | keeps using an mbuf it no longer owns: from the second round on its behaviour is undefined |
| `ACL/dual_rule_implementation`, `ACL/muti_rule` | one classifies a constant key, the other classifies nothing: no state and no input |
| hello world, lcore samples, mempool/mbuf samples, LPM table sample, `practice/sample.c`, `hashing/sample`, `telementry/sample`, `ports/begin/sample.c` | straight-line calls that print; no state shared between steps |
| `important_commands` | notes and scripts |

## Modules

| module | models | variables and actions |
|---|---|---|
| `RteRing` | rte_ring (external) | no state: how many objects a call moves. A ring of size *n* stores *n* - 1 |
| `ThreadedPipeline` | the pipelines | one pc per loop and for main; an action is the piece of a loop between two accesses to state other lcores see (flag, port call, ring call). `accepted`, `sent`, `dropped`, `unsent`, `leaked` record where mbufs went |
| `LossyFifo` | abstract | a queue that hands on packets in order and may lose some |
| `MCThreadedPipeline` | - | the refinement mapping from the pipeline to `LossyFifo` |
| `RequestReply` | abstract | requests asked, served, answered; the server leaves last |
| `RingFullDuplex`, `SingleRingDuplex` | the two request-reply programs | `p_pc`, `s_pc` for the two processes, the rings, `live` blocks; both implement `RequestReply` |
| `ReadyHandshake`, `SampleMp` | the two message programs | mains and callbacks as separate actors, messages in flight as counts |
| `ControlDataSegregation`, `MC...` | the segregation loop | `pc` within the iteration, `ring_size` is `RING_SIZE` of the build; frames are records of the fields `classify_packet` reads, offsets in bytes |
| `PacketLoops`, `MC...` | fourteen packet loops | `app` chooses the program; set-up, receive and per-burst or per-packet work are actions; `Complete` is the port finishing a transmission |
| `GraphWalk`, `MC...` | seven graph programs | `app` chooses the program; `stream` and `pending` are the graph; one action per node function |
| `Telemetry` | `telementry/advanced_stats` | a worker's loop is three accesses: own counter, read and write of the total; the array answer is filled element by element |
| `RingApps` | three one-way ring programs | `ring_app` chooses; `producer_pc`, `consumer_pc` are lcores or processes; `ring_state` says whether the ring's memory is still there |
| `EventApps` | five event device programs | `ev_app` chooses; `waiting`, `cq`, `context`, `links` are the device (external), `Schedule` its scheduler; one action per call of main, worker or secondary |
| `RssWorkers` | the two RSS receivers | `polls` is the queue of each launched lcore; the numbers of workers and supported queues are chosen at the start |
| `Reorder` | four reordering programs | `buf` is the reorder buffer (external); one action inserts a burst, one drains |
| `FeatureArc` | the feature chain | the C functions under their names, called in any order, each name registered once |
| `MacTable` | the two MAC table programs | the C functions under their names; `seen` records where each address was last seen |
| `MCSmallApps` | - | puts the seven modules above side by side: a behaviour runs one of them |

Proofs are kept apart from the models: `XProofs` extends `X` and holds the inductive
invariant and the theorems, for `ThreadedPipeline`, `RingFullDuplex`,
`SingleRingDuplex`, `ReadyHandshake`, `ControlDataSegregation`, `PacketLoops` and
`GraphWalk`. `SmallAppsProofs` does so for the seven modules that `MCSmallApps`
puts side by side.

`PROJECT.json` maps each definition to its lines. Definitions whose names have a
suffix (`ParserEnqueue_FreesWholeBurst`) are plausible errors, used to show that
the properties notice them; no specification contains them.

`RteRing` is used wherever objects go through a ring, a burst or a queue.
`ThreadedPipeline` composes the three loops,
main and two rings in one module, since each action touches a loop and a ring;
likewise the process pairs.

## Runs

All runs check deadlock. A program that may end has an explicit stuttering action
(`Ended`) for its final states, so any other stop would be reported.

| run | bounds | checks and result |
|---|---|---|
| `pipeline_small` | limit 4, burst 3, both rings hold 3 | `Custody`, `CountersAgree`, `ReportIsFinal`, `ImplementsLossyFifo`. RX receives up to 6 packets, twice what a ring holds: both rings overflow, bursts are split, packets are stranded; each of the three launches may fail |
| `pipeline_sized` | limit 5, burst 3, rings of 8 | `SizedRingsLoseNothing`, `Termination`. The ratio of the code (10 + 32 <= 1024) at its tightest. Without the RX lcore nobody sets `force_quit`; in every other case the process ends |
| `ring_full_duplex` | 20 requests (10 in the code), rings that hold one message | `PingPong`, `BothFinish`, `ImplementsRequestReply`. One slot is enough: never more than one message exists, so the unchecked enqueues are safe for every ring size, and its block is the only one allocated |
| `single_ring_duplex` | the same | `OneMessage`, `OnlyPutBacksDelay`, `ImplementsRequestReply`. The put-backs are safe too. Request and answer are both allocated for a moment, while the secondary holds them. Either the two processes finish or put-backs go on for ever: nothing else can hold them up |
| `segregation` | burst 3, rings that hold 2 or 7, 6 packets, 5400 frames | `Custody` (with the counters), `RingsEmptyAtLoopHead`, `OnlyControlOvertakes`, `ReadsInBounds`, `VlanTransparent`. The ring size is chosen at the start. In the smaller rings a burst of one class overflows its ring and one of two classes fills both. The larger ones hold a whole burst, as in the code (32 and 2047): three packets of one class are in a ring together, in two iterations and more. The two packets that arrive (`Traffic`) are one control and one data packet; the two properties of the classifier range over all of `Frames`, with lengths on both sides of each header end, the smallest, usual and largest `ihl`, with and without tag |
| `segregation_resend` | burst 2, rings that hold 3, 4 packets | violation of `DrainedPacketsAreSent`, see findings |
| `handshake` | 7 numbers, ring of 8, 2 messages per socket | `DeliveredInOrder` (and nothing sent early), `AllConsumed`, unless a registration failed. The ring just holds all numbers; two messages in a socket give duplicates and late ones |
| `packet_loops` | pool 5, burst 3, 2 descriptors, 2 to 6 frames per program | `MbufsConserved` (with the bound on the leak), `NatRoundTrip`, `AclForwardsTheRule`, `OnlyFullQueueLoses`, `PoolRecovers`. A burst is larger than the transmit queue, a second one meets a full queue, a third an empty pool; the frames take every branch of NAT and of the three ACL programs |
| `graph_walk` | burst 3, pools 3 (1 for two_start_node), 4 packets | `GraphCustody`, `StreamsFit`, `FamilyOrder`, `OnlyEnabledFeatures`, `LimitedAppsEnd`. A burst has packets of all three kinds; the second source can find the pool empty |
| `small_apps` | see below | `SummaryNeverAhead`, `RingCustody`, `EventsConserved`, `FlowsInOrder`, `StuckFlowDrainsPool`, `QueuesCovered`, `DrainedInOrder`, `ChainIsEnabled`, `ForwardsWhereLastSeen`, `SmallAppsEnd`. One run for the seven modules of the small applications |
| `acl_exp_comment` | as `packet_loops`, ACL/exp alone, pool 4, burst 2 | violation of `ExpMatchesSsdp`, see findings |
| `sample_mp_lost` | none needed | violation of `MessageHandled`, see findings |

Bounds of `small_apps`:

- `Telemetry`: 2 workers, 2 loops each. Two are enough to lose an update, and a
  second loop to turn the total back.
- `RingApps`: a ring that holds 3 blocks, at most 6 blocks: it is filled and
  emptied twice over; one_way sends 6 blocks (10 in the code).
- `EventApps`: 4 events of two flows, two per flow; the device takes 4, a port holds
  3, the pool has 6 mbufs. The code's ten events are also fewer than its device
  takes (4096). The pool is larger than what the device takes, as in parsing_event
  (8192 and 4096); in `inter_process_comm/eventdev` both are 1024, but the driver
  hands out credits in batches and refuses events before the last one.
- `RssWorkers`: up to 3 workers, 3 queues, rings of 2, 5 mbufs; fewer workers than
  queues, more, and as many. As in the code (3 * 1024 < 8191), the queues but one
  cannot hold the whole pool; `SmallAppsAssumption` states this.
- `Reorder`: the code's burst and window of 8 and its 10 numbers. The counter wraps
  at 64 instead of 2^32, twice the largest window, so that it does wrap.
  dynamic_seqno receives bursts of up to 8 here (32 in the code).
- `FeatureArc`: the three features of main. `MacTable`: 3 addresses, 2 entries, 3
  ports, so that the table is full while an address is still unknown.

No run checks a type invariant: those of the pipeline, the process pairs and the
segregation loop are there for the proofs, and are proved.

The remaining bounds (`MaxPackets` in two modules, `SocketDepth`) are in guards of
the port or the sender. Limits of the code itself (such as 10 counts) have
their real values where they are constants of the program.

### Fairness

- Polling loops, mains and message threads get weak fairness: none of them blocks
  for ever outside the calls that are modelled, and the operating system schedules
  them all.
- `ThreadedPipeline!FairSpec` adds strong fairness of receiving at least one
  packet. The program ends only because traffic arrives, so this is an assumption
  about the traffic; parser, TX and main need no more than weak fairness.
- `SingleRingDuplex!FairSpec` is weak fairness of the two processes as well. It does not
  make them finish: the wrong process may dequeue the message and put it back each time
  before the right one looks, and nothing in the code prevents that. `OnlyPutBacksDelay`
  states what is left: they finish, or one of them puts messages back for ever.
- `PacketLoops!FairSpec` assumes that work goes on, that a poll which finds nothing
  returns, and that the port transmits; packets need not arrive.
  `GraphWalk!FairSpec` only that main runs, not that the helper lcore does.
- `MCSmallApps!FairSpec` gives weak fairness to the lcores and processes of the ring
  and event programs, and to the event scheduler: the software event device needs a
  service core, and `important_commands/dpdk_run_commands.md` starts these programs
  with one. Neither a signal nor a packet nor a second process is assumed to come;
  `RingAppsEnd` speaks of one_way only once both processes are there. An action that
  may fail (a launch, a link, a registration) is fair as a whole: success is never assumed.

## Proofs

The theorems hold of `Spec`, without fairness, for every value of the constants that
satisfies the assumption of the model's module. Unless said otherwise below, an assumption
only says that sizes are (positive) natural numbers, and those of `MCSmallApps` that names
of nodes are not names of features either (`ArcAssumption`). Each proof module has the same
layout: facts about the sequences and sets the model uses; the inductive invariant as
a conjunction of named parts; `InitInv` and `NextInv`, the latter with one step or one lemma
per action; the theorems.

| module | theorems | state, for every value of the constants |
|---|---|---|
| `ThreadedPipelineProofs` | `PipelineInvariant`, `PipelineTypeCorrect`, `PipelineCountersAgree`, `PipelineSizedRingsLoseNothing`, `PipelineReportIsFinal` | rings never above their capacity; the counters equal what left the port and the two rings; rings of at least limit + burst never overflow, which covers the code's 10, 32 and 1024; what main prints is final and accounts for every packet |
| | `FifoInvariant`, `PipelineCustody`, `PipelineRefinement` | every received packet is in exactly one place; the pipeline implements `LossyFifo` |
| `RingFullDuplexProofs` | `DuplexInvariant`, `DuplexTypeCorrect`, `DuplexPingPong`, `DuplexRefinement` | at most one message exists, its block is the only one allocated, replies match requests; the two programs implement `RequestReply` |
| `SingleRingDuplexProofs` | `SingleRingInvariant`, `SingleRingTypeCorrect`, `SingleRingOneMessage`, `SingleRingRefinement` | the same with one ring and put-backs, except that the secondary has two blocks while it holds a request with its answer |
| `ReadyHandshakeProofs` | `HandshakeInvariant`, `HandshakeTypeCorrect`, `HandshakeDelivers` | no number enters the ring before both processes have registered their callbacks, whatever checks are dropped or repeated; a ring with room for all numbers loses none and keeps their order |
| `ControlDataSegregationProofs` | `SegregationInvariant`, `SegregationTypeCorrect`, `SegregationCustody`, `SegregationLeavesNothing`, `SegregationOrder` | every mbuf has one owner and the counters count what went through each ring; both rings are empty at the loop head; only control packets overtake |
| | `ClassifierReadsInBounds`, `ClassifierVlanTransparent` | `classify_packet` never reads behind the frame and does not depend on a VLAN tag, for any set of frames with fields of the width they have in the headers (`SegregationAssumption`) |
| `PacketLoopsProofs` | `LoopsInvariant`, `LoopsConserveMbufs`, `LoopsLoseForAReason` | mbufs are conserved in fourteen programs; a step loses one only if the program does not free what the port refuses and the queue is full, or for the two other reasons listed there |
| | `NatTranslates`, `AclFollowsTheRule` | nothing leaves the NAT with the private address, and the answer to a translated packet is translated back to its sender; the three ACL programs decide by their rules. The frames may be any with fields of the width they have in the headers (`FramesAssumption`) |
| `GraphWalkProofs` | `GraphInvariant`, `GraphKeepsCustody` | every mbuf has exactly one owner throughout a walk, no stream keeps one after it, only rx_drop_sample loses any; two_start_node ends with its ten mbufs made and freed, however often the pool was empty |
| | `GraphStreamsFit` | no stream outgrows a burst, so the unchecked arrays of `l2_node_process` suffice; no node is pending twice |
| | `GraphFamilyOrder` | what is sent is reordered in one way only: IPv4 before IPv6 within a burst |
| | `ArcRunsWhatIsEnabled` | graph_arc runs only sinks whose flag is set, and at its end the sink that the flags select has run |
| `SmallAppsProofs` | `TelemetryNeverAhead` | the total and the reported summary are never above the sum of the lcores' counters, whatever updates are lost |
| | `RingProgramsCustody` | every block made and not refused is in one place, and blocks keep their order; only practice's consumer can meet a freed ring, and only before it has its block |
| | `RssQueuesCovered` | no two lcores poll one queue, the first queues are polled, and the queues nobody polls never fill the pool |
| | `MacForwards` | a frame leaves at the port where its destination was last seen, or at all others if the table has no entry |
| | `EventsAreConserved`, `FlowsStayInOrder` | in the programs that count events each one sent is queued or received, once; in the others each mbuf is free, held, in the device or lost, and what is lost is bounded; the events of a flow are received in their order from two ports, wherever the scheduler puts them |
| | `ReorderDrainsInOrder` | no insert is refused and every number is drained once, in order, with its own burst, also where the counter wraps (`ReorderAssumption`: bursts of 8 or more, and `SmallAppsAssumption`: a counter that wraps after twice the widest window or later) |
| | `ArcChainIsEnabled` | a walk passes exactly the features that were on at the last rebuild, in order of registration, and ends, whatever links are left over |

### Inductive invariants

Few of the properties are inductive alone. What had to be added:

- *Pipeline*: `PipelineInv == TypeOK /\ CountersAgree /\ LoopState /\ MainState /\
  SizedRingsLoseNothing`. The loops reset their counters when they start, which is
  harmless only because a loop that has not started counted nothing (`LoopState`) and
  main launches each loop at most once (`MainState`). Sized rings lose nothing because what is in a
  ring is at most `rx_count`, and RX returns to the receive call only below the limit.
  `ReportIsFinal` follows since main leaves its wait only when all loops have stopped,
  and a stopped loop holds no packet.
- *Pipeline, contents*: `FifoInv` adds that all packets are somewhere, and `FifoOrder`:
  each stage is in order, and all its packets are older than those of the stages behind it.
  That no packet is in two places then follows by counting: the lengths of all places add
  up to the number of packets (`CountersAgree`). For the refinement, a step between
  stages takes nothing from the front of the abstract queue and adds nothing
  (`StagesLose`, `QuietStep`), and a transmission is an `Advance` of its front
  (`AdvanceStep`).
- *Request and reply*: `Conversation` lists the phases of one exchange and says where
  the only message is in each (`RequestQueued` and so on); `Progress` ties the loop
  counter to it. With one ring there is also `BlocksInUse`, and the phases in
  which a process holds a message it will put back. Rings hold at least one message
  (size 2 or more; 1024 in the code).
- *Handshake*: `Chain`, from the registered callbacks to the first number in the ring: a
  reply implies that the secondary's is registered, the flag and the sending loop that
  both are.
- *Segregation*: `Flow` (what is empty at each point of the iteration, and that an
  iteration never holds more than one burst), `Numbering` (what is left of the burst is
  newer than everything else), `RingOrder` (a ring has its class in order, newer than
  what was sent, except that control may have passed data).
- *Packet loops*: `Places`: between bursts no mbuf is held, before set-up none is
  lost. The fourteen programs reduce to two lemmas, `BurstStep` and `PacketStep`: what
  happens to the rest of a burst that the port did not take, and to a single packet.
- *graph_arc*: `ArcDue` speaks of nodes visited or still pending: each is enabled, and
  once hello has run a sink that must run is among them. `ArcControl` says that nothing
  is pending when the walk is over.
- *Graphs*: `GraphInv == WalkInv /\ CustodyInv /\ BurstInv /\ FamilyInv`. `WalkInv`: a node
  is pending once, and those with objects are pending, so that an empty list means
  empty streams. `CustodyInv` is `OneOwner` with the counter of two_start_node; most
  node functions are an instance of `Hands`, which gives what one owner holds to
  others. `BurstInv`: the first nodes of the graph have a burst to themselves, and
  all in the graph is of the last burst and newer than what was sent. `FamilyInv`: the
  pipeline visits its nodes in the order of `Rank`, so the transmit stream is empty when
  the IPv4 node is still due and has only IPv4 when the IPv6 node is. `StreamsFit` then
  follows by counting: the packets of a stream have different numbers, of which the last
  burst has no more than `BURST`.
- *Small applications*: `OwnSteps` says that a step of another program leaves the state
  alone. `TelInv` counts a worker's loop only once the total may know of it, and
  compares totals with the set of these loops. `RssMbufs` says that an mbuf is free or
  fills a slot of a queue, and counts slots; the pool is larger than all queues but one,
  as in the code (`SmallAppsAssumption`: 3 * 1024 < 8191). `RingControl` says who may
  still use the ring, and that before its launch the producer holds nothing. `MacInv` adds that only addresses seen are in the table.
- *Event programs*: `EvControl` says which mbuf a program holds at each point and that only
  the polled port has a context. `EvOrder`: the events of one flow that were scheduled are
  all at one port (the flow is pinned there), in order, older than those that still
  wait and newer than those received.
- *Reordering*: `SeqInv`: the least number the buffer expects is the one due, and the buffer
  is empty except between insert and drain, when it has exactly the numbers of one burst
  (`BurstHeld`). `Wrap` and `AfterIs` are the facts about numbers modulo `SEQ_MOD`.
- *Feature chain*: `ArcInv`: distinct features, and a `Chain` from the start through the
  enabled ones in links that are otherwise arbitrary. `LoopsBuild` says that the rebuild
  makes such a chain from any links, `WalkPrints` that a walk follows it to its end.

Loops over data (filtering a stream, inserting a burst, rebuilding the chain, the
walk) are recursive functions in the models. What a loop computes is a claim for every number of
rounds, and the induction theorems of the library cannot be used. The proofs take the
least round for which the claim fails instead. It exists (`LeastNumber`) because proper
inclusion of finite sets is well-founded, a fact of the library without such a
parameter; `UpTo` and `Loop` put it in the form the proofs use.

TLC finds no violation of these invariants either, on the bounds of the run of each model.

### Only model-checked

- Liveness (`Termination`, `BothFinish`, `OnlyPutBacksDelay`, `AllConsumed`, `PoolRecovers`, `LimitedAppsEnd`,
  `StuckFlowDrainsPool`, `SmallAppsEnd`): fairness is outside what the proof system
  handles.

Every safety invariant and action property of a passing run is a theorem.

## Findings

- `segregation_resend`: the README of `control_data_segregation` says "Drain both
  rings and re-transmit on the same port". The code ignores the result of
  `rte_eth_tx_burst` for both rings, so packets the port does not take are neither
  sent nor freed.
- `sample_mp_lost`: `sample_rte_mp/secondary.c` sleeps two seconds "to ensure
  primary is ready"; nothing ties the sleep to the registration, the only message
  can be dropped, and then the primary waits for ever.
- `acl_exp_comment`: `ACL/exp/main.c` has "Rule: match SSDP multicast traffic" above its
  rule. SSDP is UDP to 239.255.255.250, port 1900; the rule asks for TCP from
  172.17.166.200 and leaves the destination open. The comment fits the rule of
  `ACL/real_packet_acl`. `AclForwardsTheRule` is about the rules as they are coded, this run
  about what the comment says.

Observations that contradict no statement of the repository, visible in the models:

- NAT, ACL forwarder and both ends of the vhost echo lose mbufs at a full transmit
  queue; as many mbufs as there are descriptors stay in circulation
  (`MbufsConserved`), so they recover (`PoolRecovers`). The LPM router also keeps
  every packet that is not IPv4 and can lose its whole pool.
- `init_acl` and the key both apply a byte swap to a value; the two cancel, so the
  rule matches the address it names (`AclForwardsTheRule`).
- With both features on, `graph_arc` may miss the second one: it is enqueued by an
  lcore that races with the walk and reads a stack frame that may be gone.
- The vhost frontend passes no configuration to `rte_eth_dev_configure` and ignores
  the result. If the port is not up, every round loses an mbuf, and the empty pool
  crashes it.
- `ACL/exp` and `ACL/real_packet_acl` convert no byte orders, unlike the forwarder; all
  three match the fields that their rule is made of.
- With one ring for both directions nothing keeps the two processes from passing one
  message back and forth for ever (`OnlyPutBacksDelay`), only that it is unlikely.
- `practice/ring.c` ignores whether its producer could be launched. Without it the ring is
  freed at once, under a consumer that polls it.
- `g_total_loops` may lose loops and even decrease, but never exceeds the sum of the
  lcores' counters, not even when the telemetry client's two answers are compared.
- `practice/ring.c` may free the ring under its polling consumer. `RingCustody` says
  exactly when: the producer is done, and the consumer has not got its block.
- In `inter_process_comm/eventdev` the primary links its own port to the queue and
  never dequeues. All events are of one flow; once one is scheduled to that port the
  secondary receives nothing more and the pool runs empty for good
  (`StuckFlowDrainsPool`).
- In `eventdev/parsing_event` no port takes events to the TX adapter: the worker's
  own port is linked to the transmit queue, so packets circulate between worker and
  device and are never freed.
- `rss_dpdk`: "Main lcore can also handle RX if there are more queues than workers"
  holds for one queue. With fewer than three workers some of the four queues are never
  polled; they keep their packets, but the pool is large enough for the others.

## Abstractions

- A packet is its number, or the fields a decision depends on. Printing, checksums
  (recomputed after every NAT change), swapped MAC addresses and payloads are left
  out.
- Set-up succeeds or exits, as the code's checks say; where it ignores the result
  of bringing up the port, the port may deliver nothing. The set-up of a program is one
  step where no other process can see a part of it.
- Calls whose result is ignored may fail: `rte_eal_remote_launch` in the pipeline and the
  ring programs (the lcore stays off, and a join does not wait for it),
  `rte_mp_action_register` in the handshake (messages to that name are dropped),
  `rte_event_port_link` (the scheduler never chooses that port; a device with a queue that
  has no port does not start). `rte_event_port_default_conf_get` is taken to succeed: it
  fails only for a device or port that does not exist, and then the checked set-up call that
  follows fails too.
- `force_quit` and the counters are plain variables in C. Each counter is written by
  one lcore and read after the join, and the flag only ever becomes true, so reads
  and writes are taken as single steps.
- In the request-reply and ring programs allocation of a block is taken to succeed: their results
  are not checked, and a failing `rte_malloc` would end the process.
- The ACL forwarder is modelled with one port of its mask.
- The total of `Telemetry` is read before or after the lcore's own counter is stored:
  the first counter is not volatile, and compilers do move the load (gcc does from -O2
  on). The two stores keep the order of the program, although nothing in C says so: gcc
  emits them in this order from -O0 to -O3, a call follows them in every round, and x86
  does not reorder stores. On a processor that does, or with a compiler that swaps them, a
  client could see the total one ahead for each worker between its two stores; the
  mutant `WriteTotal_First` is that program.
- The event device is as general as its interface: any port that is linked may get
  an event, atomic flows stay at one port until released, ports have finite queues.
  In `eventdev/practice` main and the worker use one port at the same time, which the
  library does not allow. The two calls are taken as atomic: in the software device an
  enqueue touches the port's credits and its ring to the scheduler, a dequeue that finds
  nothing only statistics and the ring from the scheduler, and main makes one successful enqueue, before
  which there is nothing for the worker to find. In `parsing_event` the
  adapter takes the flow from the packet's RSS hash, any of two here.
  What an enqueue does at the limit depends on the operation and the driver's
  credits; for new events it fails, for the worker's re-enqueue it may do either.
- A dequeue on a freed ring has any outcome: nothing, garbage, or a fault.
- `rte_reorder` can make room beyond its window by giving up gaps. The model refuses
  such an insert instead, and `DrainedInOrder` shows that none is attempted.
  `reordering/rx_burst` defines a `rte_reorder_seqn_dynfield_offset` of its own. The model
  takes it to be the library's, as it is when the program exports it to a shared
  library; otherwise the program would write its numbers at the initial offset of its own
  copy, and the library would read others. dynamic_seqno only numbers packets and drains
  nothing, so `DrainedInOrder` says nothing of it.
- `feature_arc/sample` and the MAC programs call their functions in a fixed order
  with fixed arguments; the models call them in every order. `feature_register` checks
  neither for a name that is there nor for a full table; `Unregistered`, in `Next`, says
  that main, with three calls for eight places, gives it no such name.

## Plan

Done: survey; the pipelines with their abstract specification; the process pairs;
segregation; the packet loops; the graph applications; the small applications. Every
program that has state, interleavings or inputs of its own is modelled. Proved: the
safety properties and refinements of the table under Proofs.

Nothing of the safety properties is left to prove. Liveness stays with TLC. Of the programs
under *Not modelled*, the packet generator would be worth a model once it stops using
the mbuf it gave away.
