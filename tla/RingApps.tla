------------------------------ MODULE RingApps ------------------------------
(***************************************************************************)
(* The programs that pass blocks of memory through one ring, one way:      *)
(*   rings_sample  rings/sample: producer and consumer lcores, stopped by  *)
(*                 a signal;                                               *)
(*   practice      practice/ring.c: one block from lcore 1 to lcore 2,     *)
(*                 while main waits for lcores 0 and 1 and frees the ring; *)
(*   one_way       inter_process_comm/through_rte_ring: a primary process  *)
(*                 sends Messages blocks to a secondary.                   *)
(* A block is the number its producer writes into it.                      *)
(***************************************************************************)
EXTENDS RteRing, Functions

CONSTANTS RING_SIZE,   \* size of the ring (1024)
          Messages,    \* blocks of one_way (10)
          MaxBlocks    \* bound: blocks rings_sample produces

VARIABLES
  ring_app,       \* the program that runs
  ring_main,      \* main of a one-process program
  producer_pc,    \* lcore 1, or the primary process
  consumer_pc,    \* lcore 2, or the secondary process
  ring_state,     \* "none", "live" or "freed"
  ring,           \* blocks in the ring
  made,           \* blocks allocated so far, numbered from 0
  hand,           \* the block the producer is about to enqueue
  refused,        \* blocks freed by the producer at a full ring
  taken,          \* blocks the consumer has printed
  keep_running

vars == <<ring_app, ring_main, producer_pc, consumer_pc, ring_state, ring, made, hand,
          refused, taken, keep_running>>

blocks == <<ring, made, hand, refused, taken>>

Init ==
  /\ ring_app \in {"rings_sample", "practice", "one_way"}
  /\ ring_main = IF ring_app = "one_way" THEN "none" ELSE "init"
  /\ producer_pc = IF ring_app = "one_way" THEN "init" ELSE "off"
  /\ consumer_pc = IF ring_app = "one_way" THEN "init" ELSE "off"
  /\ ring_state = "none"
  /\ ring = <<>> /\ hand = <<>> /\ taken = <<>>
  /\ made = 0
  /\ refused = {}
  /\ keep_running = TRUE

-----------------------------------------------------------------------------
(* Set-up: EAL and ring, or exit. *)

MainCreate ==
  /\ ring_main = "init"
  /\ \/ ring_main' = "launch_producer" /\ ring_state' = "live"
     \/ ring_main' = "exited" /\ UNCHANGED ring_state
  /\ UNCHANGED <<ring_app, producer_pc, consumer_pc, blocks, keep_running>>

\* The results of rte_eal_remote_launch are ignored: a lcore that cannot be
\* launched stays off.
LaunchProducer ==
  /\ ring_main = "launch_producer"
  /\ producer_pc' \in {"loop", "off"}
  /\ ring_main' = "launch_consumer"
  /\ UNCHANGED <<ring_app, consumer_pc, ring_state, blocks, keep_running>>

LaunchConsumer ==
  /\ ring_main = "launch_consumer"
  /\ consumer_pc' \in {"loop", "off"}
  /\ ring_main' = "wait"
  /\ UNCHANGED <<ring_app, producer_pc, ring_state, blocks, keep_running>>

PrimaryCreate ==
  /\ ring_app = "one_way" /\ producer_pc = "init"
  /\ \/ producer_pc' = "loop" /\ ring_state' = "live"
     \/ producer_pc' = "exited" /\ UNCHANGED ring_state
  /\ UNCHANGED <<ring_app, ring_main, consumer_pc, blocks, keep_running>>

\* The secondary's EAL may fail, without a primary above all.
SecondaryInit ==
  /\ ring_app = "one_way" /\ consumer_pc = "init"
  /\ consumer_pc' \in {"lookup", "exited"}
  /\ UNCHANGED <<ring_app, ring_main, producer_pc, ring_state, blocks, keep_running>>

SecondaryLookup ==
  /\ consumer_pc = "lookup" /\ ring_state = "live"
  /\ consumer_pc' = "loop"
  /\ UNCHANGED <<ring_app, ring_main, producer_pc, ring_state, blocks, keep_running>>

-----------------------------------------------------------------------------
(* The producers.  malloc and rte_malloc of a few bytes succeed. *)

\* Whether the producer goes round its loop once more.
More == CASE ring_app = "rings_sample" -> keep_running
          [] ring_app = "practice"     -> made = 0
          [] ring_app = "one_way"      -> made < Messages

Allocate ==
  /\ producer_pc = "loop" /\ hand = <<>> /\ More
  /\ made < MaxBlocks
  /\ hand' = <<made>>
  /\ made' = made + 1
  /\ UNCHANGED <<ring_app, ring_main, producer_pc, consumer_pc, ring_state, ring, refused,
                 taken, keep_running>>

Enqueue ==
  /\ hand # <<>>
  /\ ~Full(ring, RING_SIZE)
  /\ ring' = ring \o hand
  /\ hand' = <<>>
  /\ UNCHANGED <<ring_app, ring_main, producer_pc, consumer_pc, ring_state, made, refused,
                 taken, keep_running>>

\* A full ring: rings_sample frees the block.  (one_way waits for room;
\* practice has one block for 1023 places.)
FreeRefused ==
  /\ ring_app = "rings_sample"
  /\ hand # <<>>
  /\ Full(ring, RING_SIZE)
  /\ refused' = refused \cup Range(hand)
  /\ hand' = <<>>
  /\ UNCHANGED <<ring_app, ring_main, producer_pc, consumer_pc, ring_state, ring, made,
                 taken, keep_running>>

ProducerReturn ==
  /\ producer_pc = "loop" /\ hand = <<>> /\ ~More
  /\ producer_pc' = "done"
  /\ UNCHANGED <<ring_app, ring_main, consumer_pc, ring_state, blocks, keep_running>>

-----------------------------------------------------------------------------
(* The consumers.  The loop of rings_sample reads the flag, then dequeues  *)
(* once; practice polls until it has its block; one_way polls for ever.    *)

ConsumerCheck ==
  /\ ring_app = "rings_sample" /\ consumer_pc = "loop"
  /\ consumer_pc' = IF keep_running THEN "dequeue" ELSE "done"
  /\ UNCHANGED <<ring_app, ring_main, producer_pc, ring_state, blocks, keep_running>>

\* One attempt; a block that is there is printed (and freed).
Dequeue ==
  /\ consumer_pc = IF ring_app = "rings_sample" THEN "dequeue" ELSE "loop"
  /\ ring_state = "live"
  /\ \/ ring = <<>> /\ UNCHANGED <<ring, taken>>
     \/ ring # <<>> /\ ring' = Tail(ring) /\ taken' = Append(taken, Head(ring))
  /\ consumer_pc' = IF ring_app = "practice" /\ ring # <<>> THEN "done" ELSE "loop"
  /\ UNCHANGED <<ring_app, ring_main, producer_pc, ring_state, made, hand, refused, keep_running>>

\* An attempt on freed memory finds nothing, finds something, or faults.
DequeueFreed ==
  /\ consumer_pc = "loop" /\ ring_state = "freed"
  /\ consumer_pc' \in {"loop", "garbage", "crashed"}
  /\ UNCHANGED <<ring_app, ring_main, producer_pc, ring_state, blocks, keep_running>>

-----------------------------------------------------------------------------
(* main, and the signal *)

handle_signal ==
  /\ ring_app = "rings_sample" /\ ring_main \notin {"exited", "returned"}
  /\ keep_running' = FALSE
  /\ UNCHANGED <<ring_app, ring_main, producer_pc, consumer_pc, ring_state, blocks>>

\* main of rings_sample waits for both lcores; one that is off is waited for
\* already.
MainWait ==
  /\ ring_app = "rings_sample" /\ ring_main = "wait"
  /\ {producer_pc, consumer_pc} \subseteq {"done", "off"}
  /\ ring_main' = "returned"
  /\ UNCHANGED <<ring_app, producer_pc, consumer_pc, ring_state, blocks, keep_running>>

\* main waits for no lcore.
MainFree_NoWait ==
  /\ ring_app = "practice" /\ ring_main = "wait"
  /\ ring_state' = "freed" /\ ring' = <<>>
  /\ ring_main' = "freed"
  /\ UNCHANGED <<ring_app, producer_pc, consumer_pc, made, hand, refused, taken, keep_running>>

\* main of practice waits for lcores 0 (itself) and 1 (the producer) only.
MainFree ==
  /\ ring_app = "practice" /\ ring_main = "wait"
  /\ producer_pc \in {"done", "off"}
  /\ ring_state' = "freed" /\ ring' = <<>>
  /\ ring_main' = "freed"
  /\ UNCHANGED <<ring_app, producer_pc, consumer_pc, made, hand, refused, taken, keep_running>>

\* The process ends, and with it a consumer that still polls.
MainReturn ==
  /\ ring_main = "freed" /\ consumer_pc # "crashed"
  /\ ring_main' = "returned"
  /\ consumer_pc' = IF consumer_pc = "loop" THEN "killed" ELSE consumer_pc
  /\ UNCHANGED <<ring_app, producer_pc, ring_state, blocks, keep_running>>

-----------------------------------------------------------------------------
Main     == MainCreate \/ LaunchProducer \/ LaunchConsumer \/ MainWait \/ MainFree \/ MainReturn
Producer == PrimaryCreate \/ Allocate \/ Enqueue \/ FreeRefused \/ ProducerReturn
Consumer == SecondaryInit \/ SecondaryLookup \/ ConsumerCheck \/ Dequeue \/ DequeueFreed

Finished ==
  \/ ring_main \in {"exited", "returned"}
  \/ consumer_pc = "crashed"
  \/ /\ ring_app = "one_way"
     /\ producer_pc \in {"exited", "done"} \/ consumer_pc = "exited"
     /\ consumer_pc = "exited" \/ ring = <<>>

\* Nothing is left to do: the secondary of one_way polls an empty ring, or the
\* primary a full one.
Ended == Finished /\ UNCHANGED vars

Next == Main \/ Producer \/ Consumer \/ handle_signal \/ Ended

Spec == Init /\ [][Next]_vars

\* Every lcore and process runs; a signal need not come.
FairSpec == Spec /\ WF_vars(Main) /\ WF_vars(Producer) /\ WF_vars(Consumer)

-----------------------------------------------------------------------------
(* Properties *)

Ascending(s) == \A j, k \in DOMAIN s : j < k => s[j] < s[k]

\* The blocks that are not freed, from the oldest on.
Blocks == taken \o ring \o hand

\* What was allocated and not refused at a full ring is taken, in the ring or
\* in the producer's hand, in the order of allocation and each block once.
\* practice frees the ring under its consumer, which may then print anything
\* or fault, but only a consumer that has not got its block: the producer
\* is past its last use of the ring (or never ran), and a consumer that has its block is too.
RingCustody ==
  /\ ring_state # "freed" => Range(Blocks) = (0 .. made - 1) \ refused /\ Ascending(Blocks)
  /\ ring_state = "freed" => producer_pc \in {"done", "off"} /\ hand = <<>>
  /\ consumer_pc \in {"garbage", "crashed", "killed"} =>
       ring_app = "practice" /\ taken = <<>>

\* The programs come to their end: rings_sample once it is told to stop, however
\* full or empty the ring is then, practice whether or not its consumer gets
\* the block, and one_way with every block received if both processes run.
RingAppsEnd ==
  /\ ~keep_running ~> ring_main \in {"exited", "returned"}
  /\ (ring_app = "practice") ~> (ring_main \in {"exited", "returned"} \/ consumer_pc = "crashed")
  /\ (ring_app = "one_way" /\ producer_pc = "loop" /\ consumer_pc = "loop")
       ~> (Len(taken) = Messages)
=============================================================================
