----------------------------- MODULE EventApps -----------------------------
(***************************************************************************)
(* The applications over one event device:                                 *)
(*   one_event     eventdev/01project: one event, port 0 to port 1;        *)
(*   two_ports     eventdev/02practice: Events events of two flows, taken  *)
(*                 in turn from ports 1 and 2;                             *)
(*   one_worker    eventdev/practice: one event to a worker lcore;         *)
(*   parsing       eventdev/parsing_event: received packets come to a      *)
(*                 worker and are enqueued again;                          *)
(*   processes     inter_process_comm/eventdev: a primary process fills    *)
(*                 mbufs, a secondary frees them.                          *)
(*                                                                         *)
(* The device is external: an event waits until the scheduler moves it to  *)
(* the queue of a port that is linked to its event queue.  The queues are  *)
(* atomic: while events of a flow are at a port, dequeued and not released *)
(* ones included, the flow's next events go to the same port.  A port's    *)
(* next dequeue call releases what the last one returned.                  *)
(***************************************************************************)
EXTENDS RteRing

CONSTANTS Events,     \* events of two_ports (10)
          LIMIT,      \* events the device takes (1024 or 4096)
          CQ_DEPTH,   \* events at a port (dequeue depth 32)
          EV_MBUFS    \* mbufs of parsing (8192) and processes (1024)

VARIABLES
  ev_app,      \* the application that runs
  ev_pc,       \* main, or the primary process
  worker_pc,   \* the worker lcore, or the secondary process
  dev_up,      \* the device was configured and started
  links,       \* the ports whose link to the event queues was made
  waiting,     \* events enqueued and not scheduled
  cq,          \* events at each port
  context,     \* what each port's last dequeue returned: at most one event
  sent,        \* events enqueued so far by the applications that count them
  got,         \* numbers of the events they have received
  ev_mbuf,     \* whether the primary process holds an mbuf
  ev_pool, ev_lost   \* free mbufs, mbufs nobody will free

vars == <<ev_app, ev_pc, worker_pc, dev_up, links, waiting, cq, context, sent, got, ev_mbuf,
          ev_pool, ev_lost>>

device == <<waiting, cq, context>>
mbufs  == <<ev_mbuf, ev_pool, ev_lost>>

Counting == {"one_event", "two_ports", "one_worker"}
Total    == IF ev_app = "two_ports" THEN Events ELSE 1

Init ==
  /\ ev_app \in Counting \cup {"parsing", "processes"}
  /\ ev_pc = "setup"
  /\ worker_pc = "off"
  /\ dev_up = FALSE /\ links = {}
  /\ waiting = <<>>
  /\ cq = [p \in 0..2 |-> <<>>] /\ context = [p \in 0..2 |-> <<>>]
  /\ sent = 0 /\ got = <<>>
  /\ ev_mbuf = FALSE
  /\ ev_pool = EV_MBUFS /\ ev_lost = 0

-----------------------------------------------------------------------------
(* The event device *)

\* The ports main links to the event queues.
Linked == CASE ev_app = "one_event"                  -> {1}
            [] ev_app = "two_ports"                  -> {1, 2}
            [] ev_app \in {"one_worker", "parsing"} -> {0}
            [] ev_app = "processes"                  -> {0, 1}

AtPort(p) == Len(cq[p]) + Len(context[p])
InDevice == Len(waiting) + AtPort(0) + AtPort(1) + AtPort(2)

SameFlow(e, f) == e.queue = f.queue /\ e.flow = f.flow

\* The ports that hold events of e's flow: one at most.
Pinned(e) == {p \in 0..2 : \E i \in 1..Len(cq[p] \o context[p]) :
                             SameFlow(e, (cq[p] \o context[p])[i])}

\* One event leaves the waiting ones, the oldest of its flow.
Schedule ==
  \E i \in DOMAIN waiting, p \in Linked :
    LET e == waiting[i] IN
      /\ dev_up /\ p \in links
      /\ \A j \in 1..(i - 1) : ~SameFlow(waiting[j], e)
      /\ Pinned(e) \subseteq {p}
      /\ Len(cq[p]) < CQ_DEPTH
      /\ cq' = [cq EXCEPT ![p] = Append(@, e)]
      /\ waiting' = Taken(waiting, i - 1) \o Rest(waiting, i)
      /\ UNCHANGED <<ev_app, ev_pc, worker_pc, dev_up, links, context, sent, got, mbufs>>

\* A call of rte_event_dequeue_burst for one event.
DequeueAt(p) == /\ context' = [context EXCEPT ![p] = Taken(cq[p], Least(1, Len(cq[p])))]
                /\ cq' = [cq EXCEPT ![p] = Rest(@, 1)]

Event(q, f, n) == [queue |-> q, flow |-> f, data |-> n]

-----------------------------------------------------------------------------
(* Set-up.  one_event, two_ports and one_worker exit when the device cannot *)
(* be configured or started, parsing without an RX adapter, and processes  *)
(* only without EAL or mbufs.  A link may fail unnoticed; but a device     *)
(* with an event queue that no port is linked to does not start.           *)

\* The device as the calls left it, up or not.
Configured(up) == /\ links' \in SUBSET Linked
                  /\ dev_up' = up /\ (up => links' # {})

SetupExits == ev_pc' = "exited" /\ UNCHANGED <<dev_up, links, worker_pc>>

SetupChecked ==
  /\ ev_pc = "setup" /\ ev_app \in {"one_event", "two_ports"}
  /\ \/ ev_pc' = "enqueue" /\ Configured(TRUE) /\ UNCHANGED worker_pc
     \/ SetupExits
  /\ UNCHANGED <<ev_app, device, sent, got, mbufs>>

\* One worker is launched, if there is a lcore for it.
SetupWorker ==
  /\ ev_pc = "setup" /\ ev_app = "one_worker"
  /\ \/ ev_pc' = "enqueue" /\ Configured(TRUE) /\ worker_pc' \in {"off", "poll"}
     \/ SetupExits
  /\ UNCHANGED <<ev_app, device, sent, got, mbufs>>

SetupParsing ==
  /\ ev_pc = "setup" /\ ev_app = "parsing"
  /\ \/ /\ ev_pc' = "wait" /\ \E up \in BOOLEAN : Configured(up)
        /\ worker_pc' \in {"off", "poll"}
     \/ SetupExits
  /\ UNCHANGED <<ev_app, device, sent, got, mbufs>>

SetupPrimary ==
  /\ ev_pc = "setup" /\ ev_app = "processes"
  /\ \/ /\ ev_pc' = "alloc" /\ \E up \in BOOLEAN : Configured(up)
        /\ UNCHANGED worker_pc
     \/ SetupExits
  /\ UNCHANGED <<ev_app, device, sent, got, mbufs>>

\* The secondary's EAL needs a primary.
SecondaryInit ==
  /\ ev_app = "processes" /\ worker_pc = "off"
  /\ worker_pc' \in IF ev_pc \in {"setup", "exited"} THEN {"exited"} ELSE {"poll", "exited"}
  /\ UNCHANGED <<ev_app, ev_pc, dev_up, links, device, sent, got, mbufs>>

-----------------------------------------------------------------------------
(* one_event, two_ports and one_worker *)

\* A flow of its own for every event.
FlowId_Distinct(n) == n

\* The flow of the n-th event; processes leaves it zero.
FlowId(n) == CASE ev_app = "two_ports" -> n % 2
               [] ev_app = "processes" -> 0
               [] OTHER                -> 1

\* The enqueue is repeated until the device takes the event.
EnqueueCounted ==
  /\ ev_pc = "enqueue" /\ ev_app \in Counting
  /\ InDevice < LIMIT
  /\ waiting' = Append(waiting, Event(0, FlowId(sent), sent))
  /\ sent' = sent + 1
  /\ ev_pc' = CASE sent' < Total          -> "enqueue"
                [] ev_app = "one_worker"  -> "wait"
                [] OTHER                  -> "poll1"
  /\ UNCHANGED <<ev_app, worker_pc, dev_up, links, cq, context, got, mbufs>>

\* Only port 1 is polled.
Poll_FirstOnly(p, pc) ==
  /\ ev_pc = pc
  /\ DequeueAt(p)
  /\ got' = got \o [i \in DOMAIN context'[p] |-> context'[p][i].data]
  /\ ev_pc' = IF Len(got') = Total THEN "stop" ELSE "poll1"
  /\ UNCHANGED <<ev_app, worker_pc, dev_up, links, waiting, sent, mbufs>>

\* main polls port 1 and, in two_ports, port 2, in turn.
Poll(p, pc) ==
  /\ ev_pc = pc
  /\ DequeueAt(p)
  /\ got' = got \o [i \in DOMAIN context'[p] |-> context'[p][i].data]
  /\ ev_pc' = CASE ev_app = "two_ports" /\ p = 1 -> "poll2"
                [] Len(got') = Total             -> "stop"
                [] OTHER                         -> "poll1"
  /\ UNCHANGED <<ev_app, worker_pc, dev_up, links, waiting, sent, mbufs>>

Poll1 == Poll(1, "poll1")
Poll2 == Poll(2, "poll2")

\* The device is stopped and closed.
Stop == /\ ev_pc = "stop"
        /\ ev_pc' = "done" /\ dev_up' = FALSE
        /\ UNCHANGED <<ev_app, worker_pc, links, device, sent, got, mbufs>>

\* event_worker of eventdev/practice leaves with its first event.
WorkerPoll ==
  /\ ev_app = "one_worker" /\ worker_pc = "poll"
  /\ DequeueAt(0)
  /\ got' = got \o [i \in DOMAIN context'[0] |-> context'[0][i].data]
  /\ worker_pc' = IF got' # <<>> THEN "done" ELSE "poll"
  /\ UNCHANGED <<ev_app, ev_pc, dev_up, links, waiting, sent, mbufs>>

\* rte_eal_mp_wait_lcore; without a worker there is nothing to wait for.
WaitWorker ==
  /\ ev_app \in {"one_worker", "parsing"} /\ ev_pc = "wait"
  /\ worker_pc \in {"off", "done"}
  /\ ev_pc' = "done"
  /\ UNCHANGED <<ev_app, worker_pc, dev_up, links, device, sent, got, mbufs>>

-----------------------------------------------------------------------------
(* parsing *)

\* The RX adapter takes a packet from the port, as long as the device takes
\* new events.  The queue's configuration names no flow: it comes from the
\* packet's RSS hash, so that packets may or may not be of one flow.
RxAdapter ==
  /\ ev_app = "parsing" /\ ev_pc = "wait" /\ dev_up
  /\ ev_pool > 0 /\ InDevice < LIMIT
  /\ \E flow \in {0, 1} : waiting' = Append(waiting, Event(0, flow, 0))
  /\ ev_pool' = ev_pool - 1
  /\ UNCHANGED <<ev_app, ev_pc, worker_pc, dev_up, links, cq, context, sent, got, ev_mbuf, ev_lost>>

ParserPoll ==
  /\ ev_app = "parsing" /\ worker_pc = "poll"
  /\ DequeueAt(0)
  /\ worker_pc' = IF context'[0] # <<>> THEN "forward" ELSE "poll"
  /\ UNCHANGED <<ev_app, ev_pc, dev_up, links, waiting, sent, got, mbufs>>

\* The packet is freed although the device took it.
ParserForward_Frees ==
  /\ worker_pc = "forward"
  /\ \E i \in DOMAIN context[0] : waiting' = Append(waiting, [context[0][i] EXCEPT !.queue = 1])
  /\ ev_pool' = ev_pool + 1
  /\ worker_pc' = "poll"
  /\ context' = [context EXCEPT ![0] = <<>>]
  /\ UNCHANGED <<ev_app, ev_pc, dev_up, links, cq, sent, got, ev_mbuf, ev_lost>>

\* The packet, parsed and printed, goes to queue 1, to which the worker's
\* own port is linked.  A full device may refuse it; the result is ignored.
ParserForward ==
  /\ worker_pc = "forward"
  /\ \/ /\ \E i \in DOMAIN context[0] :
             waiting' = Append(waiting, [context[0][i] EXCEPT !.queue = 1])
        /\ UNCHANGED ev_lost
     \/ InDevice >= LIMIT /\ ev_lost' = ev_lost + 1 /\ UNCHANGED waiting
  /\ worker_pc' = "poll"
  /\ context' = [context EXCEPT ![0] = <<>>]
  /\ UNCHANGED <<ev_app, ev_pc, dev_up, links, cq, sent, got, ev_mbuf, ev_pool>>

-----------------------------------------------------------------------------
(* processes *)

PrimaryAlloc ==
  /\ ev_app = "processes" /\ ev_pc = "alloc"
  /\ ev_pool > 0
  /\ ev_pool' = ev_pool - 1 /\ ev_mbuf' = TRUE
  /\ ev_pc' = "send"
  /\ UNCHANGED <<ev_app, worker_pc, dev_up, links, device, sent, got, ev_lost>>

\* An empty pool: the primary tries again.
PrimaryRetry ==
  /\ ev_app = "processes" /\ ev_pc = "alloc"
  /\ ev_pool = 0
  /\ UNCHANGED vars

\* The flow depends on the mbuf.
PrimarySend_TwoFlows ==
  /\ ev_app = "processes" /\ ev_pc = "send"
  /\ \/ /\ dev_up /\ InDevice < LIMIT
        /\ waiting' = Append(waiting, Event(0, ev_pool % 2, 0))
        /\ UNCHANGED ev_lost
     \/ /\ ~dev_up \/ InDevice >= LIMIT
        /\ ev_lost' = ev_lost + 1
        /\ UNCHANGED waiting
  /\ ev_mbuf' = FALSE
  /\ ev_pc' = "alloc"
  /\ UNCHANGED <<ev_app, worker_pc, dev_up, links, cq, context, sent, got, ev_pool>>

\* The result is ignored: an mbuf the device does not take is forgotten.
PrimarySend ==
  /\ ev_app = "processes" /\ ev_pc = "send"
  /\ \/ /\ dev_up /\ InDevice < LIMIT
        /\ waiting' = Append(waiting, Event(0, FlowId(0), 0))
        /\ UNCHANGED ev_lost
     \/ /\ ~dev_up \/ InDevice >= LIMIT
        /\ ev_lost' = ev_lost + 1
        /\ UNCHANGED waiting
  /\ ev_mbuf' = FALSE
  /\ ev_pc' = "alloc"
  /\ UNCHANGED <<ev_app, worker_pc, dev_up, links, cq, context, sent, got, ev_pool>>

\* The secondary polls port 1 and frees what it gets.
SecondaryPoll ==
  /\ ev_app = "processes" /\ worker_pc = "poll"
  /\ DequeueAt(1)
  /\ ev_pool' = ev_pool + Len(context'[1])
  /\ UNCHANGED <<ev_app, ev_pc, worker_pc, dev_up, links, waiting, sent, got, ev_mbuf, ev_lost>>

-----------------------------------------------------------------------------
Main   == SetupChecked \/ SetupWorker \/ SetupParsing \/ SetupPrimary \/ EnqueueCounted
            \/ Poll1 \/ Poll2 \/ Stop \/ WaitWorker \/ PrimaryAlloc \/ PrimaryRetry
            \/ PrimarySend
Worker == SecondaryInit \/ WorkerPoll \/ ParserPoll \/ ParserForward \/ SecondaryPoll

\* The process has ended.
Ended == ev_pc \in {"done", "exited"} /\ UNCHANGED vars

Next == Main \/ Worker \/ Schedule \/ RxAdapter \/ Ended

Spec == Init /\ [][Next]_vars

\* The lcores and processes run, and a service core runs the scheduler; packets
\* need not arrive.
FairSpec == Spec /\ WF_vars(Main) /\ WF_vars(Worker) /\ WF_vars(Schedule)

-----------------------------------------------------------------------------
(* Properties *)

Queued == Len(waiting) + Len(cq[0]) + Len(cq[1]) + Len(cq[2])
QueuedData == {waiting[i].data : i \in DOMAIN waiting}
                \cup UNION {{cq[p][i].data : i \in DOMAIN cq[p]} : p \in 0..2}
Held == (IF ev_mbuf THEN 1 ELSE 0) + (IF worker_pc = "forward" THEN 1 ELSE 0)

\* No event is received twice or vanishes, whatever ports it could go to, and
\* every mbuf is free, in the device, held or lost.  mbufs are lost at a full
\* device only, so that the loss stops when all others are in the device.
EventsConserved ==
  /\ ev_app \in Counting =>
       /\ Queued + Len(got) = sent
       /\ QueuedData \cup {got[i] : i \in DOMAIN got} = 0 .. sent - 1
  /\ ev_app \notin Counting => ev_pool + Queued + Held + ev_lost = EV_MBUFS
  /\ dev_up /\ ev_lost > 0 => ev_lost + LIMIT - 1 <= EV_MBUFS

\* "SAME flow_ids will serialize": although main takes events from two ports in
\* turn, it sees those of one flow in the order it sent them.
FlowsInOrder ==
  ev_app = "two_ports" =>
    \A i, j \in DOMAIN got : i < j /\ got[i] % 2 = got[j] % 2 => got[i] < got[j]

\* The primary's own port is linked to the queue, all events belong to one
\* flow, and the primary never dequeues: once the scheduler chooses that port
\* the secondary gets nothing any more, and the pool is soon empty for good.
StuckFlowDrainsPool ==
  (ev_app = "processes" /\ cq[0] # <<>>) ~> [](ev_pool = 0)

\* The applications with a fixed number of events receive all of them and end;
\* one_worker ends without its event if there is no worker lcore.
EventAppsEnd ==
  (ev_app \in Counting) ~>
    \/ ev_pc = "exited"
    \/ ev_pc = "done" /\ Len(got) = Total
    \/ ev_pc = "done" /\ ev_app = "one_worker" /\ worker_pc = "off"
=============================================================================
