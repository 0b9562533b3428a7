----------------------- MODULE ControlDataSegregation -----------------------
(***************************************************************************)
(* control_data_segregation/main.c: one loop receives a burst, classifies  *)
(* every packet as control or data by its headers, queues it in            *)
(* control_ring or data_ring, then drains up to a burst of each ring to    *)
(* the same port.                                                          *)
(*                                                                         *)
(* A packet is its arrival number with the parts of its frame the          *)
(* classifier looks at.  Ether types are symbolic; the destination port    *)
(* is kept as the two bytes on the wire.                                   *)
(***************************************************************************)
EXTENDS RteRing, Functions, FiniteSets

CONSTANTS BURST_SIZE,   \* most packets per receive call and per drain (32)
          RING_SIZES,   \* sizes a build may give both rings (RING_SIZE, 2048)
          Frames,       \* frames there are
          Traffic,      \* bound: the frames among them that arrive in a run
          MaxPackets    \* bound: packets delivered in a run

\* The header fields the classifier reads, as wide as they are on the wire.
FrameType == [data_len : Nat, ether_type : STRING, eth_proto : STRING, ihl : 0..15,
              proto : 0..255, dst_port : [1..2 -> 0..255]]

ASSUME SegregationAssumption == /\ BURST_SIZE \in Nat \ {0}
                                /\ RING_SIZES \subseteq Nat \ {0}
                                /\ MaxPackets \in Nat
                                /\ Frames \subseteq FrameType /\ Traffic \subseteq Frames

-----------------------------------------------------------------------------
(* classify_packet *)

ETHER_HDR == 14
VLAN_HDR  == 4
IPV4_HDR  == 20
UDP_HDR   == 8
TCP_HDR   == 20

ICMP == 1
TCP  == 6
UDP  == 17
OSPF == 89

be_to_cpu_16(b) == 256 * b[1] + b[2]

is_control_tcp_port(port_be) == be_to_cpu_16(port_be) \in {22, 53, 179, 389}
is_control_udp_port(port_be) == be_to_cpu_16(port_be) \in {53, 67, 68, 123, 161}

\* The VLAN tag is skipped for the type but not for the offset.
L3Offset_ForgetsTag(f) == ETHER_HDR

\* Where the layer-3 header starts and its type, after an optional VLAN tag.
L3Offset(f) == IF f.ether_type = "vlan" THEN ETHER_HDR + VLAN_HDR ELSE ETHER_HDR
L3Type(f)   == IF f.ether_type = "vlan" THEN f.eth_proto ELSE f.ether_type

\* ihl is the low nibble of version_ihl, whatever the frame says it is.
L4Offset(f) == L3Offset(f) + 4 * f.ihl

\* The bounds checks, in the order the code makes them.
L2Complete(f) == /\ f.data_len >= ETHER_HDR
                 /\ f.ether_type = "vlan" => f.data_len >= ETHER_HDR + VLAN_HDR
L3Complete(f) == f.data_len >= L3Offset(f) + IPV4_HDR
\* The length check of the transport header forgets the length of the IP
\* options.
L4Complete_IgnoresOptions(f) ==
  f.data_len >= L3Offset(f) + IPV4_HDR + (IF f.proto = UDP THEN UDP_HDR ELSE TCP_HDR)

L4Complete(f) == f.data_len >= L4Offset(f) + (IF f.proto = UDP THEN UDP_HDR ELSE TCP_HDR)

classify_packet(f) ==
  /\ L2Complete(f)
  /\ L3Type(f) = "ipv4"
  /\ L3Complete(f)
  /\ \/ f.proto = ICMP
     \/ f.proto = OSPF
     \/ f.proto = UDP /\ L4Complete(f) /\ is_control_udp_port(f.dst_port)
     \/ f.proto = TCP /\ L4Complete(f) /\ is_control_tcp_port(f.dst_port)

-----------------------------------------------------------------------------
(* The loop *)

VARIABLES
  ring_size,                 \* RING_SIZE of this build
  pc,                        \* which part of the loop comes next
  bufs,                      \* rest of the received burst
  control_ring, data_ring,
  control_count, data_count,
  accepted,                  \* packets received so far
  sent,                      \* packets the port took for transmission
  freed,                     \* packets freed because their ring was full
  forgotten                  \* packets the port did not take; nobody frees them

queues == <<control_ring, data_ring>>
counters == <<control_count, data_count>>
vars == <<ring_size, pc, bufs, queues, counters, accepted, sent, freed, forgotten>>

Init ==
  /\ ring_size \in RING_SIZES
  /\ pc = "setup"
  /\ bufs = <<>>
  /\ control_ring = <<>> /\ data_ring = <<>>
  /\ control_count = 0 /\ data_count = 0
  /\ accepted = 0
  /\ sent = <<>> /\ freed = <<>> /\ forgotten = <<>>

\* EAL, pool, both rings and the port; whatever fails is rte_exit.
Setup ==
  /\ pc = "setup"
  /\ pc' \in {"rx", "exited"}
  /\ UNCHANGED <<ring_size, bufs, queues, counters, accepted, sent, freed, forgotten>>

Packet == [id : Nat, frame : Frames]
Burst(n) == {[j \in 1..n |-> [id |-> accepted + j, frame |-> fs[j]]] : fs \in [1..n -> Traffic]}

Receive(n) ==
  /\ pc = "rx"
  /\ accepted + n <= MaxPackets
  /\ bufs' \in Burst(n)
  /\ accepted' = accepted + n
  /\ pc' = IF n > 0 THEN "enqueue" ELSE "control"
  /\ UNCHANGED <<ring_size, queues, counters, sent, freed, forgotten>>

Advance == /\ bufs' = Tail(bufs)
           /\ pc' = IF Len(bufs) = 1 THEN "control" ELSE "enqueue"

\* The branch for data is taken as well: the else is missing.
EnqueueControl_FallsThrough ==
  /\ pc = "enqueue"
  /\ classify_packet(Head(bufs).frame)
  /\ ~Full(control_ring, ring_size) /\ ~Full(data_ring, ring_size)
  /\ control_ring' = Append(control_ring, Head(bufs))
  /\ data_ring' = Append(data_ring, Head(bufs))
  /\ control_count' = control_count + 1
  /\ data_count' = data_count + 1
  /\ Advance
  /\ UNCHANGED <<ring_size, accepted, sent, freed, forgotten>>

EnqueueControl ==
  /\ pc = "enqueue"
  /\ classify_packet(Head(bufs).frame)
  /\ IF Full(control_ring, ring_size)
     THEN freed' = Append(freed, Head(bufs)) /\ UNCHANGED <<control_ring, control_count>>
     ELSE /\ control_ring' = Append(control_ring, Head(bufs))
          /\ control_count' = control_count + 1
          /\ UNCHANGED freed
  /\ Advance
  /\ UNCHANGED <<ring_size, data_ring, data_count, accepted, sent, forgotten>>

EnqueueData ==
  /\ pc = "enqueue"
  /\ ~classify_packet(Head(bufs).frame)
  /\ IF Full(data_ring, ring_size)
     THEN freed' = Append(freed, Head(bufs)) /\ UNCHANGED <<data_ring, data_count>>
     ELSE /\ data_ring' = Append(data_ring, Head(bufs))
          /\ data_count' = data_count + 1
          /\ UNCHANGED freed
  /\ Advance
  /\ UNCHANGED <<ring_size, control_ring, control_count, accepted, sent, forgotten>>

\* rte_eth_tx_burst takes the first k of the n packets.  Its result is
\* ignored: the others are neither sent again nor freed.
Transmit(out, k) == /\ sent' = sent \o Taken(out, k)
                    /\ forgotten' = forgotten \o Rest(out, k)

\* The drain takes one packet less than a burst may bring.
DrainControl_OneShort(k) ==
  /\ pc = "control"
  /\ LET n == DequeueCount(control_ring, BURST_SIZE - 1) IN
       /\ k <= n
       /\ Transmit(Taken(control_ring, n), k)
       /\ control_ring' = Rest(control_ring, n)
  /\ pc' = "data"
  /\ UNCHANGED <<ring_size, bufs, data_ring, counters, accepted, freed>>

DrainControl(k) ==
  /\ pc = "control"
  /\ LET n == DequeueCount(control_ring, BURST_SIZE) IN
       /\ k <= n
       /\ Transmit(Taken(control_ring, n), k)
       /\ control_ring' = Rest(control_ring, n)
  /\ pc' = "data"
  /\ UNCHANGED <<ring_size, bufs, data_ring, counters, accepted, freed>>

\* The same for the data ring.
DrainData_OneShort(k) ==
  /\ pc = "data"
  /\ LET n == DequeueCount(data_ring, BURST_SIZE - 1) IN
       /\ k <= n
       /\ Transmit(Taken(data_ring, n), k)
       /\ data_ring' = Rest(data_ring, n)
  /\ pc' = "rx"
  /\ UNCHANGED <<ring_size, bufs, control_ring, counters, accepted, freed>>

DrainData(k) ==
  /\ pc = "data"
  /\ LET n == DequeueCount(data_ring, BURST_SIZE) IN
       /\ k <= n
       /\ Transmit(Taken(data_ring, n), k)
       /\ data_ring' = Rest(data_ring, n)
  /\ pc' = "rx"
  /\ UNCHANGED <<ring_size, bufs, control_ring, counters, accepted, freed>>

Exited == pc = "exited" /\ UNCHANGED vars

Next == \/ Setup \/ Exited
        \/ EnqueueControl
        \/ EnqueueData
        \/ \E n \in 0..BURST_SIZE : Receive(n)
        \/ \E k \in 0..BURST_SIZE : DrainControl(k) \/ DrainData(k)

Spec == Init /\ [][Next]_vars

-----------------------------------------------------------------------------
(* Properties *)

\* Types, and no ring holds more than its size allows.
TypeOK ==
  /\ ring_size \in Nat \ {0}
  /\ pc \in {"setup", "exited", "rx", "enqueue", "control", "data"}
  /\ bufs \in Seq(Packet) /\ control_ring \in Seq(Packet) /\ data_ring \in Seq(Packet)
  /\ Len(control_ring) <= Usable(ring_size) /\ Len(data_ring) <= Usable(ring_size)
  /\ control_count \in Nat /\ data_count \in Nat /\ accepted \in Nat
  /\ sent \in Seq(Packet) /\ freed \in Seq(Packet) /\ forgotten \in Seq(Packet)

Everywhere == sent \o forgotten \o freed \o control_ring \o data_ring \o bufs

Through        == sent \o forgotten \o control_ring \o data_ring
ControlThrough == {p \in Range(Through) : classify_packet(p.frame)}

\* Every received mbuf has exactly one owner in every part of the loop, and
\* the counters count what went through each ring, also when the port refuses
\* packets and when a ring is full.
Custody == /\ Len(Everywhere) = accepted
           /\ {p.id : p \in Range(Everywhere)} = 1..accepted
           /\ control_count = Cardinality(ControlThrough)
           /\ control_count + data_count = Len(Through)

\* A loop iteration leaves nothing behind: whatever the mix of the burst, the
\* two drains of BURST_SIZE empty both rings before the next receive.
RingsEmptyAtLoopHead == pc = "rx" => control_ring = <<>> /\ data_ring = <<>>

\* Segregation reorders packets in one way only: a control packet may leave
\* before a data packet that was received earlier.
OnlyControlOvertakes ==
  \A j, k \in DOMAIN sent :
    j < k /\ sent[j].id > sent[k].id =>
      classify_packet(sent[j].frame) /\ ~classify_packet(sent[k].frame)

\* The README, step 4: "Drain both rings and re-transmit on the same port".
DrainedPacketsAreSent == pc = "rx" => forgotten = <<>>

\* Ends of the headers classify_packet dereferences on its way to a verdict.
HeadersRead(f) ==
  LET l3 == L2Complete(f) /\ L3Type(f) = "ipv4" /\ L3Complete(f) IN
    (IF f.data_len >= ETHER_HDR THEN {ETHER_HDR} ELSE {})
      \union (IF L2Complete(f) THEN {L3Offset(f)} ELSE {})
      \union (IF l3 THEN {L3Offset(f) + IPV4_HDR} ELSE {})
      \union (IF l3 /\ f.proto = UDP /\ L4Complete(f) THEN {L4Offset(f) + UDP_HDR} ELSE {})
      \union (IF l3 /\ f.proto = TCP /\ L4Complete(f) THEN {L4Offset(f) + TCP_HDR} ELSE {})

ReadBehind == {f \in Frames : \E end \in HeadersRead(f) : ~(end <= f.data_len)}

\* Whatever frame is classified, and whatever it claims about its VLAN tag and
\* IP header length, no byte behind the packet's data is read.
ReadsInBounds == pc = "enqueue" => ReadBehind = {}

Tagged(f) == [f EXCEPT !.ether_type = "vlan", !.eth_proto = f.ether_type,
                       !.data_len = f.data_len + VLAN_HDR]

ChangedByTag == {f \in Frames : /\ f.ether_type # "vlan" /\ f.data_len >= ETHER_HDR
                                /\ classify_packet(Tagged(f)) # classify_packet(f)}

\* Whatever frame is classified, the verdict does not depend on a VLAN tag: the
\* same packet with a tag in front of its layer-3 header goes to the same ring.
VlanTransparent == pc = "enqueue" => ChangedByTag = {}
=============================================================================
