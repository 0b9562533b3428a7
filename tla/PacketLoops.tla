---------------------------- MODULE PacketLoops ----------------------------
(***************************************************************************)
(* The applications that receive, handle and transmit packets in one loop  *)
(* on one lcore: the echo servers of ports/, static NAT, the ACL forwarder,*)
(* the LPM router, the MAC swapper, the two ends of the vhost echo, and    *)
(* those that only receive: the packet changer, the metered receiver, the  *)
(* one with a receive callback and the two that print an ACL's verdict.    *)
(* They differ in what they do to a packet and in what becomes of a packet *)
(* the port does not take.  A behaviour runs one of them, `app`.           *)
(*                                                                         *)
(* All mbufs come from one pool: the port takes a free one for a packet it *)
(* receives and returns it when the packet has been transmitted.  An mbuf  *)
(* that is neither sent nor freed is gone for good.  A packet is the part  *)
(* of its frame an application decides on.                                 *)
(***************************************************************************)
EXTENDS RteRing

CONSTANTS Apps,        \* the applications to run
          NUM_MBUFS,   \* size of the pool (8192)
          BURST_SIZE,  \* most packets per burst (32)
          TX_DESC,     \* transmit descriptors of the port (1024)
          Frames       \* the frames each application may receive

ASSUME LoopsAssumption == /\ NUM_MBUFS \in Nat \ {0}
                          /\ BURST_SIZE \in Nat \ {0}
                          /\ TX_DESC \in Nat \ {0}

\* The fields an application decides on, as wide as they are in the headers.
Bytes(n) == [1..n -> 0..255]
FrameType == [ether_type : STRING, inner_type : STRING, proto : 0..255,
              src_addr : Bytes(4), dst_addr : Bytes(4), dst_port : Bytes(2)]

ASSUME FramesAssumption ==
  \A a \in Apps \union {"static_nat", "l2fwd_acl"} : Frames[a] \subseteq FrameType

VARIABLES
  app,         \* the application that runs
  pc,          \* "setup", "send" and "rx" (loop heads), "work", "exited", "crashed"
  port_up,     \* the port was configured and started
  bufs,        \* packets of the burst not handled yet
  tx_queue,    \* packets in the port's transmit descriptors
  pool,        \* free mbufs
  lost,        \* mbufs nobody will ever free
  force_quit   \* set by l2fwd_acl's signal handler

vars == <<app, pc, port_up, bufs, tx_queue, pool, lost, force_quit>>

Init ==
  /\ app \in Apps
  /\ pc = "setup"
  /\ port_up = FALSE
  /\ bufs = <<>> /\ tx_queue = <<>>
  /\ pool = NUM_MBUFS
  /\ lost = 0
  /\ force_quit = FALSE

-----------------------------------------------------------------------------
(* Set-up.  An application that cannot get its pool, table or socket exits.*)
(* Some also exit when the port does not come up; others ignore the results*)
(* of these calls, and the ACL forwarder runs on when its port mask selects*)
(* no port.                                                                *)

NothingElse == UNCHANGED <<app, bufs, tx_queue, pool, lost, force_quit>>

\* The frontend sends before it receives.
LoopHead == IF app = "vhost_frontend" THEN "send" ELSE "rx"

PortChecked == /\ pc = "setup"
               /\ \/ pc' = LoopHead /\ port_up' = TRUE
                  \/ pc' = "exited" /\ UNCHANGED port_up
               /\ NothingElse

PortUnchecked == /\ pc = "setup"
                 /\ \/ pc' = LoopHead /\ port_up' \in BOOLEAN
                    \/ pc' = "exited" /\ UNCHANGED port_up
                 /\ NothingElse

PortMempoolSetup   == app = "port_mempool" /\ PortChecked
PacketParsingSetup == app = "packet_parsing" /\ PortChecked
LpmSetup           == app = "lpm" /\ PortChecked
BackendSetup       == app = "vhost_backend" /\ PortChecked
PacketChangeSetup  == app = "packet_change" /\ PortChecked
MeterSetup         == app = "meter" /\ PortChecked
TunEchoSetup       == app = "tun_echo" /\ PortUnchecked
NatSetup           == app = "static_nat" /\ PortUnchecked
SwapSetup          == app = "swap_addr" /\ PortUnchecked
AclSetup           == app = "l2fwd_acl" /\ PortUnchecked
FrontendSetup      == app = "vhost_frontend" /\ PortUnchecked
CallbackSetup      == app = "rx_callback" /\ PortUnchecked
AclExpSetup        == app = "acl_exp" /\ PortChecked
AclRealSetup       == app = "acl_real" /\ PortChecked

-----------------------------------------------------------------------------
(* The port *)

\* rte_eth_rx_burst returns n packets in mbufs from the pool.  A port that is
\* not up returns none.
Receive(n) ==
  /\ pc = "rx"
  /\ ~force_quit
  /\ n <= pool
  /\ n > 0 => port_up
  /\ bufs' \in [1..n -> Frames[app]]
  /\ pool' = pool - n
  /\ pc' = IF n > 0 THEN "work" ELSE LoopHead
  /\ UNCHANGED <<app, port_up, tx_queue, lost, force_quit>>

\* A queued packet is transmitted and its mbuf returned to the pool.
Complete ==
  /\ tx_queue # <<>>
  /\ tx_queue' = Tail(tx_queue)
  /\ pool' = pool + 1
  /\ UNCHANGED <<app, pc, port_up, bufs, lost, force_quit>>

\* How many of n packets rte_eth_tx_burst takes.
Accepted(n) == IF port_up THEN Least(n, TX_DESC - Len(tx_queue)) ELSE 0

\* The whole burst, as `out`, is offered to the port; what it does not take
\* is freed, or forgotten.
SendAllFreeRest(out) ==
  LET k == Accepted(Len(out)) IN
    /\ tx_queue' = tx_queue \o Taken(out, k)
    /\ pool' = pool + (Len(out) - k)
    /\ UNCHANGED lost

SendAllForgetRest(out) ==
  LET k == Accepted(Len(out)) IN
    /\ tx_queue' = tx_queue \o Taken(out, k)
    /\ lost' = lost + (Len(out) - k)
    /\ UNCHANGED pool

BurstDone == bufs' = <<>> /\ pc' = LoopHead /\ UNCHANGED <<app, port_up, force_quit>>

\* One packet of the burst is sent, freed or forgotten.
SendOrFree(p)   == SendAllFreeRest(<<p>>)
SendOrForget(p) == SendAllForgetRest(<<p>>)
Free            == pool' = pool + 1 /\ UNCHANGED <<tx_queue, lost>>
Forget          == lost' = lost + 1 /\ UNCHANGED <<tx_queue, pool>>

PacketDone == /\ bufs' = Tail(bufs)
              /\ pc' = IF Len(bufs) = 1 THEN LoopHead ELSE "work"
              /\ UNCHANGED <<app, port_up, force_quit>>

-----------------------------------------------------------------------------
(* The echo servers print the packets, send them back and free the rest. *)

\* The unsent packets are not freed.
EchoBurst_ForgetsRest(a) == app = a /\ pc = "work" /\ SendAllForgetRest(bufs) /\ BurstDone

EchoBurst(a) == app = a /\ pc = "work" /\ SendAllFreeRest(bufs) /\ BurstDone

TunEchoBurst       == EchoBurst("tun_echo")
PortMempoolBurst   == EchoBurst("port_mempool")
PacketParsingBurst == EchoBurst("packet_parsing")

\* The vhost backend does not look at the result.
BackendBurst == /\ app = "vhost_backend" /\ pc = "work"
                /\ SendAllForgetRest(bufs)
                /\ BurstDone

\* The vhost frontend sends a packet of its own in every round, whatever the
\* port does with it.  rte_pktmbuf_append does not survive a failed
\* allocation.
FrontendSend ==
  /\ app = "vhost_frontend" /\ pc = "send"
  /\ pool > 0
  /\ \E f \in Frames[app] : LET k == Accepted(1) IN
       /\ tx_queue' = tx_queue \o Taken(<<f>>, k)
       /\ lost' = lost + 1 - k
  /\ pool' = pool - 1
  /\ pc' = "rx"
  /\ UNCHANGED <<app, port_up, bufs, force_quit>>

FrontendCrash ==
  /\ app = "vhost_frontend" /\ pc = "send"
  /\ pool = 0
  /\ pc' = "crashed"
  /\ UNCHANGED <<app, port_up, bufs, tx_queue, pool, lost, force_quit>>

\* The mbuf is freed although the port has taken it.
SwapPacket_FreesSent == /\ app = "swap_addr" /\ pc = "work"
                        /\ tx_queue' = tx_queue \o Taken(bufs, Accepted(1))
                        /\ pool' = pool + 1
                        /\ PacketDone
                        /\ UNCHANGED lost

\* The MAC swapper sends packet by packet.  (The addresses it swaps are not
\* part of the model's frames.)
SwapPacket == /\ app = "swap_addr" /\ pc = "work"
              /\ SendOrFree(Head(bufs))
              /\ PacketDone

-----------------------------------------------------------------------------
(* Static NAT.  An IPv4 address is the sequence of its bytes. *)

PRIVATE_IP == <<172, 22, 116, 70>>
PUBLIC_IP  == <<203, 0, 113, 10>>

Outbound(f) == IF f.src_addr = PRIVATE_IP THEN [f EXCEPT !.src_addr = PUBLIC_IP] ELSE f
Inbound(f)  == IF f.dst_addr = PUBLIC_IP THEN [f EXCEPT !.dst_addr = PRIVATE_IP] ELSE f

\* Only the outbound half.
simulate_nat_OneWay(f) == IF f.ether_type = "ipv4" THEN Outbound(f) ELSE f

\* The two tests are not exclusive.
simulate_nat(f) == IF f.ether_type = "ipv4" THEN Inbound(Outbound(f)) ELSE f

NatBurst == /\ app = "static_nat" /\ pc = "work"
            /\ SendAllForgetRest([i \in DOMAIN bufs |-> simulate_nat(bufs[i])])
            /\ BurstDone

-----------------------------------------------------------------------------
(* The ACL forwarder.  A 32-bit value is the sequence of its bytes, most   *)
(* significant first; the host is little endian.                           *)

Swapped(v) == <<v[4], v[3], v[2], v[1]>>

\* A value as the bytes it has in memory, and back, on this host.
InMemory(v) == Swapped(v)
FromMemory(b) == Swapped(b)
be_to_cpu_32(v) == Swapped(v)

RTE_IPV4(a, b, c, d) == <<a, b, c, d>>
TCP == 6
UDP == 17
ANY == <<>>

\* The rule holds the address as it is written.
RuleSource_NotConverted == RTE_IPV4(172, 17, 166, 200)

\* init_acl of l2fwd_acl: the one rule, TCP from one address, any destination
\* and ports.
RuleSource == be_to_cpu_32(RTE_IPV4(172, 17, 166, 200))
ForwarderRule == [proto |-> TCP, src_ip |-> RuleSource, dst_ip |-> ANY, dst_port |-> ANY]

\* The rules of the two that only print their verdict.  1900 is 7 * 256 + 108.
ExpRule  == [proto |-> TCP, src_ip |-> RTE_IPV4(172, 17, 166, 200), dst_ip |-> ANY,
             dst_port |-> ANY]
RealRule == [proto |-> UDP, src_ip |-> ANY, dst_ip |-> RTE_IPV4(239, 255, 255, 250),
             dst_port |-> <<7, 108>>]

\* The key of a frame in memory: l2fwd_acl converts the addresses, the others
\* leave them as they are.  Only TCP and UDP have ports.
Stored(f, convert(_)) ==
  [proto    |-> f.proto,
   src_ip   |-> InMemory(convert(FromMemory(f.src_addr))),
   dst_ip   |-> InMemory(convert(FromMemory(f.dst_addr))),
   dst_port |-> IF f.proto \in {TCP, UDP} THEN f.dst_port ELSE <<0, 0>>]
key(f)      == Stored(f, be_to_cpu_32)
RawKey(f)   == Stored(f, LAMBDA v : v)

\* rte_acl_classify reads the key's fields in network byte order.
acl_classify(k, rule) == /\ k.proto = rule.proto
                         /\ \A field \in {"src_ip", "dst_ip", "dst_port"} :
                              rule[field] \in {ANY, k[field]}

\* The type of the network header, behind a VLAN tag too.
EthType(f) == IF f.ether_type = "vlan" THEN f.inner_type ELSE f.ether_type

\* What acl_exp and acl_real print about a frame.
Verdict(f, rule) == EthType(f) = "ipv4" /\ acl_classify(RawKey(f), rule)

\* A packet that matches no rule is skipped without being freed.
AclPacket_ForgetsDropped ==
  /\ app = "l2fwd_acl" /\ pc = "work"
  /\ IF Head(bufs).ether_type = "ipv4" /\ acl_classify(key(Head(bufs)), ForwarderRule)
     THEN SendOrForget(Head(bufs))
     ELSE Forget
  /\ PacketDone

AclPacket ==
  /\ app = "l2fwd_acl" /\ pc = "work"
  /\ IF Head(bufs).ether_type = "ipv4" /\ acl_classify(key(Head(bufs)), ForwarderRule)
     THEN SendOrForget(Head(bufs))
     ELSE Free
  /\ PacketDone

signal_handler ==
  /\ app = "l2fwd_acl" /\ pc # "exited"
  /\ force_quit' = TRUE
  /\ UNCHANGED <<app, pc, port_up, bufs, tx_queue, pool, lost>>

AclQuit == /\ app = "l2fwd_acl" /\ pc = "rx"
           /\ force_quit
           /\ pc' = "exited"
           /\ UNCHANGED <<port_up, app, bufs, tx_queue, pool, lost, force_quit>>

-----------------------------------------------------------------------------
(* The LPM router.  The next hop is only printed: every IPv4 packet goes   *)
(* back to the port, any other is ignored without being freed.             *)

LpmPacket ==
  /\ app = "lpm" /\ pc = "work"
  /\ IF Head(bufs).ether_type = "ipv4" THEN SendOrForget(Head(bufs)) ELSE Forget
  /\ PacketDone

-----------------------------------------------------------------------------
(* The applications that free every packet.  packet_change first appends   *)
(* to the packet, prepends, and cuts both ends; it exits when the mbuf has *)
(* no room left to append.  The meter drops packets before they arrive.    *)

\* rte_pktmbuf_append failed.
AppendFails == /\ pc' = "exited"
               /\ UNCHANGED <<app, port_up, bufs, tx_queue, pool, lost, force_quit>>

PacketChange ==
  /\ app = "packet_change" /\ pc = "work"
  /\ AppendFails \/ (Free /\ PacketDone)

MeterPacket == app = "meter" /\ pc = "work" /\ Free /\ PacketDone

\* The callback counts the packets, the loop frees them.
CallbackPacket == app = "rx_callback" /\ pc = "work" /\ Free /\ PacketDone

FrontendEcho == app = "vhost_frontend" /\ pc = "work" /\ Free /\ PacketDone

\* The verdict (Verdict) is only printed.
AclPrint == app \in {"acl_exp", "acl_real"} /\ pc = "work" /\ Free /\ PacketDone

-----------------------------------------------------------------------------
Setup == PortMempoolSetup \/ PacketParsingSetup \/ AclSetup \/ LpmSetup
           \/ BackendSetup \/ PacketChangeSetup \/ MeterSetup \/ TunEchoSetup \/ NatSetup
           \/ SwapSetup \/ FrontendSetup \/ CallbackSetup \/ AclExpSetup \/ AclRealSetup
Work  == TunEchoBurst \/ PortMempoolBurst \/ PacketParsingBurst \/ BackendBurst
           \/ SwapPacket \/ NatBurst \/ AclPacket \/ LpmPacket \/ AclQuit
           \/ PacketChange \/ MeterPacket \/ FrontendSend \/ FrontendCrash \/ FrontendEcho
           \/ CallbackPacket \/ AclPrint
Poll  == \E n \in 0..BURST_SIZE : Receive(n)

\* The process has ended; the port keeps what it was given.
Ended == pc \in {"exited", "crashed"} /\ UNCHANGED vars

Next == Setup \/ Poll \/ Work \/ Complete \/ signal_handler \/ Ended

Spec == Init /\ [][Next]_vars

\* The loop runs, also when a poll returns nothing, and the port transmits what
\* it has queued; packets need not arrive.
FairSpec == Spec /\ WF_vars(Work) /\ WF_vars(Receive(0)) /\ WF_vars(Complete)

-----------------------------------------------------------------------------
(* Properties *)

\* The applications that free whatever they do not send.
FreesUnsent == {"tun_echo", "port_mempool", "packet_parsing", "swap_addr",
                "packet_change", "meter", "rx_callback", "acl_exp", "acl_real"}

\* Every mbuf is in exactly one place: free, in the burst at hand, in a
\* transmit descriptor, or lost.  No application frees an mbuf twice or
\* after the port took it.  The leak of those that ignore the result of
\* rte_eth_tx_burst limits itself: as many mbufs as there are transmit
\* descriptors stay in use, whatever the traffic.  The LPM router has no
\* such bound.
MbufsConserved ==
  /\ pool + Len(bufs) + Len(tx_queue) + lost = NUM_MBUFS
  /\ app # "lpm" /\ port_up /\ lost > 0 => lost + TX_DESC <= NUM_MBUFS

\* An mbuf is lost only at a full transmit queue, by an application that does
\* not look at the result of rte_eth_tx_burst; by the LPM router, which skips
\* packets that are not IPv4; or by the frontend of a port that is not up.
OnlyFullQueueLoses ==
  [][lost' > lost =>
       /\ app \notin FreesUnsent
       /\ \/ Len(tx_queue') = TX_DESC
          \/ app = "lpm" /\ Head(bufs).ether_type # "ipv4"
          \/ app = "vhost_frontend" /\ ~port_up]_vars

\* Nothing leaves the NAT from the private address, nor for the public one,
\* and translating the answer to a translated packet leads back to the
\* sender: the two halves are inverse, hosts other than these two being
\* involved.
Answer(f) == [f EXCEPT !.src_addr = f.dst_addr, !.dst_addr = f.src_addr]
NatRoundTrip ==
  /\ app = "static_nat" =>
       \A i \in DOMAIN tx_queue : tx_queue[i].ether_type = "ipv4" =>
         tx_queue[i].src_addr # PRIVATE_IP /\ tx_queue[i].dst_addr # PUBLIC_IP
  /\ \A f \in Frames["static_nat"] :
       f.ether_type = "ipv4" /\ f.src_addr = PRIVATE_IP
         /\ f.dst_addr \notin {PRIVATE_IP, PUBLIC_IP} =>
            simulate_nat(Answer(simulate_nat(f))) = Answer(f)

\* The forwarder lets through exactly TCP from 172.17.166.200, and acl_exp
\* recognises the same packets: the byte orders of rule, key and the library's
\* reading agree in the end, although the two convert differently.  acl_real
\* recognises UDP to 239.255.255.250, port 1900.  Both see through a VLAN tag.
\* This is about the fields the rules are made of; what a comment says the
\* rule of acl_exp is for is ExpMatchesSsdp.
ByTheRule(f) == f.proto = TCP /\ f.src_addr = <<172, 17, 166, 200>>
IsSsdp(f)    == /\ f.proto = UDP /\ f.dst_addr = <<239, 255, 255, 250>>
                /\ 256 * f.dst_port[1] + f.dst_port[2] = 1900
AclForwardsTheRule ==
  /\ \A f \in Frames["l2fwd_acl"] :
       /\ f.ether_type = "ipv4" => (acl_classify(key(f), ForwarderRule) <=> ByTheRule(f))
       /\ EthType(f) = "ipv4" => /\ Verdict(f, ExpRule) <=> ByTheRule(f)
                                 /\ Verdict(f, RealRule) <=> IsSsdp(f)
  /\ app = "l2fwd_acl" =>
       \A i \in DOMAIN tx_queue : tx_queue[i].ether_type = "ipv4" /\ ByTheRule(tx_queue[i])

\* The comment above the rule of acl_exp: "Rule: match SSDP multicast traffic".
\* Of the packet at hand it prints a match if and only if it is SSDP.
ExpMatchesSsdp ==
  app = "acl_exp" /\ pc = "work" => (Verdict(Head(bufs), ExpRule) <=> IsSsdp(Head(bufs)))

\* The pool never stays empty while the port transmits: every application but
\* the LPM router, unless it exits, is always able to receive again.  The
\* frontend may find the pool empty and crashes then.
PoolRecovers == (app # "lpm") => []<>(pool > 0 \/ pc \in {"exited", "crashed"})
=============================================================================
