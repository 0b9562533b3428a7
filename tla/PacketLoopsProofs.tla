-------------------------- MODULE PacketLoopsProofs --------------------------
(***************************************************************************)
(* Safety of the packet loops for every pool size, burst size, number of   *)
(* descriptors and set of frames.                                          *)
(***************************************************************************)
EXTENDS PacketLoops, TLAPS, SequenceTheorems

\* The packets an application hands to the port.
Out(a) ==
  CASE a = "static_nat" -> {simulate_nat(f) : f \in Frames[a]}
    [] a = "l2fwd_acl"  -> {f \in Frames[a] : f.ether_type = "ipv4"
                                              /\ acl_classify(key(f), ForwarderRule)}
    [] OTHER            -> Frames[a]

LoopsType ==
  /\ app \in Apps
  /\ pc \in {"setup", "send", "rx", "work", "exited", "crashed"}
  /\ port_up \in BOOLEAN /\ force_quit \in BOOLEAN
  /\ bufs \in Seq(Frames[app]) /\ tx_queue \in Seq(Out(app))
  /\ Len(tx_queue) <= TX_DESC
  /\ pool \in Nat /\ lost \in Nat

\* Nothing is in use before the loop starts, a burst is at hand only while it
\* is worked on, and only a port that is up delivers one.
Places ==
  /\ pc = "setup" => lost = 0 /\ tx_queue = <<>> /\ bufs = <<>>
  /\ pc \in {"rx", "send"} => bufs = <<>>
  /\ pc = "work" => bufs # <<>> /\ port_up

LoopsInv == LoopsType /\ Places /\ MbufsConserved

\* What OnlyFullQueueLoses says of a step.
LossHasCause ==
  lost' > lost =>
    /\ app \notin FreesUnsent
    /\ \/ Len(tx_queue') = TX_DESC
       \/ app = "lpm" /\ Head(bufs).ether_type # "ipv4"
       \/ app = "vhost_frontend" /\ ~port_up

-----------------------------------------------------------------------------
(* Facts about bursts and the transmit queue *)

\* A split of a sequence at n gives a front of length n and the rest.
LEMMA Split ==
  ASSUME NEW S, NEW s \in Seq(S), NEW n \in 0..Len(s)
  PROVE  Taken(s, n) \in Seq(S) /\ Len(Taken(s, n)) = n
BY SubSeqProperties DEF Taken

\* rte_eth_tx_burst takes no more than fits, and less than offered only when
\* the queue is full then or the port is down.
LEMMA AcceptedBound ==
  ASSUME LoopsType, NEW n \in Nat
  PROVE  /\ Accepted(n) \in 0..n
         /\ Len(tx_queue) + Accepted(n) <= TX_DESC
         /\ port_up /\ Accepted(n) < n => Len(tx_queue) + Accepted(n) = TX_DESC
<1>1. Len(tx_queue) \in Nat /\ Len(tx_queue) <= TX_DESC /\ TX_DESC \in Nat
  BY LenProperties, LoopsAssumption DEF LoopsType
<1>. QED  BY <1>1 DEF Accepted, Least

\* Offering `out` to the port, the rest freed: no mbuf appears or disappears.
LEMMA FreeRest ==
  ASSUME LoopsType, NEW out \in Seq(Out(app)), SendAllFreeRest(out)
  PROVE  /\ tx_queue' \in Seq(Out(app)) /\ Len(tx_queue') <= TX_DESC
         /\ pool' \in Nat /\ lost' = lost
         /\ pool' + Len(tx_queue') = pool + Len(tx_queue) + Len(out)
<1> DEFINE k == Accepted(Len(out))
<1>1. Len(out) \in Nat /\ Len(tx_queue) \in Nat /\ tx_queue \in Seq(Out(app)) /\ pool \in Nat
  BY LenProperties DEF LoopsType
<1>2. k \in 0..Len(out) /\ Len(tx_queue) + k <= TX_DESC
  BY <1>1, AcceptedBound
<1>3. tx_queue' = tx_queue \o Taken(out, k) /\ pool' = pool + (Len(out) - k) /\ lost' = lost
  BY DEF SendAllFreeRest
<1> HIDE DEF k
<1>4. Taken(out, k) \in Seq(Out(app)) /\ Len(Taken(out, k)) = k
  BY <1>2, Split
<1>5. tx_queue' \in Seq(Out(app)) /\ Len(tx_queue') = Len(tx_queue) + k
  BY <1>1, <1>3, <1>4, ConcatProperties
<1>. QED  BY <1>1, <1>2, <1>3, <1>5

\* Offering `out` to the port, the rest forgotten: what is forgotten is
\* counted, and with the port up it is forgotten at a full queue.
LEMMA ForgetRest ==
  ASSUME LoopsType, NEW out \in Seq(Out(app)), SendAllForgetRest(out)
  PROVE  /\ tx_queue' \in Seq(Out(app)) /\ Len(tx_queue') <= TX_DESC
         /\ lost' \in Nat /\ lost' >= lost /\ pool' = pool
         /\ lost' + Len(tx_queue') = lost + Len(tx_queue) + Len(out)
         /\ port_up /\ lost' > lost => Len(tx_queue') = TX_DESC
<1> DEFINE k == Accepted(Len(out))
<1>1. /\ Len(out) \in Nat /\ Len(tx_queue) \in Nat /\ tx_queue \in Seq(Out(app))
      /\ pool \in Nat /\ lost \in Nat
  BY LenProperties DEF LoopsType
<1>2. /\ k \in 0..Len(out) /\ Len(tx_queue) + k <= TX_DESC
      /\ port_up /\ k < Len(out) => Len(tx_queue) + k = TX_DESC
  BY <1>1, AcceptedBound
<1>3. tx_queue' = tx_queue \o Taken(out, k) /\ lost' = lost + (Len(out) - k) /\ pool' = pool
  BY DEF SendAllForgetRest
<1> HIDE DEF k
<1>4. Taken(out, k) \in Seq(Out(app)) /\ Len(Taken(out, k)) = k
  BY <1>2, Split
<1>5. tx_queue' \in Seq(Out(app)) /\ Len(tx_queue') = Len(tx_queue) + k
  BY <1>1, <1>3, <1>4, ConcatProperties
<1>. QED  BY <1>1, <1>2, <1>3, <1>5

\* The mbufs after a step that moves d of them out of the burst, and what is
\* left for the rest when the queue is full.
LEMMA Recount ==
  ASSUME NEW p \in Nat, NEW b \in Nat, NEW t \in Nat, NEW l \in Nat, NEW d \in Nat,
         NEW p1 \in Nat, NEW b1 \in Nat, NEW t1 \in Nat, NEW l1 \in Nat, NEW N \in Nat,
         p + b + t + l = N, b1 + d = b, p1 + t1 + l1 = p + t + d + l
  PROVE  p1 + b1 + t1 + l1 = N /\ l1 + t1 <= N
OBVIOUS

\* A whole burst handed to the port, as it came or rewritten.
LEMMA BurstStep ==
  ASSUME LoopsInv, pc = "work", BurstDone,
         NEW out \in Seq(Out(app)), Len(out) = Len(bufs),
         \/ SendAllFreeRest(out)
         \/ SendAllForgetRest(out) /\ app \notin FreesUnsent
  PROVE  LoopsInv' /\ LossHasCause
<1> USE LoopsAssumption
<1>1. /\ bufs' = <<>> /\ app' = app /\ port_up' = port_up /\ force_quit' = force_quit
      /\ pc' \in {"send", "rx"}
  BY DEF BurstDone, LoopHead
<1>2. /\ Len(bufs) \in Nat /\ Len(tx_queue) \in Nat /\ pool \in Nat /\ lost \in Nat
      /\ bufs' \in Seq(Frames[app]) /\ Len(bufs') = 0
      /\ pool + Len(bufs) + Len(tx_queue) + lost = NUM_MBUFS
      /\ port_up
  BY <1>1, LenProperties DEF LoopsInv, LoopsType, MbufsConserved, Places
<1>3. /\ tx_queue' \in Seq(Out(app)) /\ Len(tx_queue') <= TX_DESC
      /\ pool' \in Nat /\ lost' \in Nat /\ lost' >= lost
      /\ pool' + Len(tx_queue') + lost' = pool + Len(tx_queue) + Len(bufs) + lost
      /\ lost' > lost => Len(tx_queue') = TX_DESC /\ app \notin FreesUnsent
  <2>0. LoopsType
    BY DEF LoopsInv
  <2>1. CASE SendAllFreeRest(out)
    BY <1>2, <2>0, <2>1, FreeRest, LenProperties
  <2>2. CASE SendAllForgetRest(out) /\ app \notin FreesUnsent
    BY <1>2, <2>0, <2>2, ForgetRest, LenProperties
  <2>. QED  BY <2>1, <2>2
<1>4. Len(tx_queue') \in Nat
  BY <1>3, LenProperties
<1>5. LoopsType'
  BY <1>1, <1>2, <1>3 DEF LoopsInv, LoopsType
<1>6. Places'
  BY <1>1 DEF Places
<1>7. MbufsConserved'
  <2>1. pool' + Len(bufs') + Len(tx_queue') + lost' = NUM_MBUFS
        /\ lost' + Len(tx_queue') <= NUM_MBUFS
    BY <1>2, <1>3, <1>4, Recount
  <2>2. lost' = lost \/ Len(tx_queue') = TX_DESC
    BY <1>2, <1>3
  <2>. QED  BY <1>1, <1>2, <2>1, <2>2 DEF LoopsInv, MbufsConserved
<1>. QED  BY <1>3, <1>5, <1>6, <1>7 DEF LoopsInv, LossHasCause

\* One packet of the burst handed to the port, freed or forgotten.
Handled ==
  \/ Head(bufs) \in Out(app) /\ SendOrFree(Head(bufs))
  \/ Head(bufs) \in Out(app) /\ SendOrForget(Head(bufs)) /\ app \notin FreesUnsent
  \/ Free
  \/ Forget /\ app = "lpm" /\ Head(bufs).ether_type # "ipv4"

\* A step that handles one packet of the burst.
LEMMA PacketStep ==
  ASSUME LoopsInv, pc = "work", PacketDone, Handled
  PROVE  LoopsInv' /\ LossHasCause
<1> USE LoopsAssumption
<1>1. /\ bufs' = Tail(bufs) /\ app' = app /\ port_up' = port_up /\ force_quit' = force_quit
      /\ pc' = IF Len(bufs) = 1 THEN LoopHead ELSE "work"
      /\ LoopHead \in {"send", "rx"}
  BY DEF PacketDone, LoopHead
<1>2. /\ Len(bufs) \in Nat /\ Len(tx_queue) \in Nat /\ pool \in Nat /\ lost \in Nat
      /\ bufs \in Seq(Frames[app]) /\ bufs # <<>> /\ port_up
      /\ pool + Len(bufs) + Len(tx_queue) + lost = NUM_MBUFS
  BY LenProperties DEF LoopsInv, LoopsType, MbufsConserved, Places
<1>3. bufs' \in Seq(Frames[app]) /\ Len(bufs') = Len(bufs) - 1 /\ Len(bufs) > 0
  BY <1>1, <1>2, HeadTailProperties, EmptySeq
<1>t. LoopsType
  BY DEF LoopsInv
<1>o. ASSUME Head(bufs) \in Out(app)
      PROVE  <<Head(bufs)>> \in Seq(Out(app)) /\ Len(<<Head(bufs)>>) = 1
  BY <1>o
<1>4. /\ tx_queue' \in Seq(Out(app)) /\ Len(tx_queue') <= TX_DESC
      /\ pool' \in Nat /\ lost' \in Nat /\ lost' >= lost
      /\ pool' + Len(tx_queue') + lost' = pool + Len(tx_queue) + 1 + lost
      /\ lost' > lost => \/ Len(tx_queue') = TX_DESC /\ app \notin FreesUnsent
                         \/ app = "lpm" /\ Head(bufs).ether_type # "ipv4"
  <2>1. CASE Head(bufs) \in Out(app) /\ SendOrFree(Head(bufs))
    <3>1. /\ tx_queue' \in Seq(Out(app)) /\ Len(tx_queue') <= TX_DESC
          /\ pool' \in Nat /\ lost' = lost
          /\ pool' + Len(tx_queue') = pool + Len(tx_queue) + Len(<<Head(bufs)>>)
      BY <1>t, <1>o, <2>1, FreeRest DEF SendOrFree
    <3>2. Len(tx_queue') \in Nat
      BY <3>1, LenProperties
    <3>. QED  BY <1>2, <1>o, <2>1, <3>1, <3>2
  <2>2. CASE Head(bufs) \in Out(app) /\ SendOrForget(Head(bufs)) /\ app \notin FreesUnsent
    <3>1. /\ tx_queue' \in Seq(Out(app)) /\ Len(tx_queue') <= TX_DESC
          /\ lost' \in Nat /\ lost' >= lost /\ pool' = pool
          /\ lost' + Len(tx_queue') = lost + Len(tx_queue) + Len(<<Head(bufs)>>)
          /\ port_up /\ lost' > lost => Len(tx_queue') = TX_DESC
      BY <1>t, <1>o, <2>2, ForgetRest DEF SendOrForget
    <3>2. Len(tx_queue') \in Nat
      BY <3>1, LenProperties
    <3>3. /\ lost \in Nat /\ Len(tx_queue) \in Nat /\ pool \in Nat
          /\ Len(<<Head(bufs)>>) = 1 /\ port_up
      BY <1>2, <1>o, <2>2
    <3>4. pool' + Len(tx_queue') + lost' = pool + Len(tx_queue) + 1 + lost
      BY <3>1, <3>2, <3>3
    <3>. QED  BY <2>2, <3>1, <3>3, <3>4
  <2>3. CASE Free
    BY <1>2, <1>t, <2>3 DEF Free, LoopsType
  <2>4. CASE Forget /\ app = "lpm" /\ Head(bufs).ether_type # "ipv4"
    BY <1>2, <1>t, <2>4 DEF Forget, LoopsType
  <2>. QED  BY <2>1, <2>2, <2>3, <2>4 DEF Handled
<1>5. Len(tx_queue') \in Nat
  BY <1>4, LenProperties
<1>6. LoopsType'
  BY <1>1, <1>2, <1>3, <1>4 DEF LoopsInv, LoopsType
<1>7. Places'
  <2>1. Len(bufs) = 1 => bufs' = <<>>
    BY <1>3, EmptySeq
  <2>2. Len(bufs) # 1 => bufs' # <<>>
    BY <1>2, <1>3
  <2>. QED  BY <1>1, <1>2, <2>1, <2>2 DEF Places
<1>8. MbufsConserved'
  <2>1. Len(bufs') \in Nat /\ Len(bufs') = Len(bufs) - 1
    BY <1>2, <1>3
  <2>2. pool' + Len(bufs') + Len(tx_queue') + lost' = NUM_MBUFS
        /\ lost' + Len(tx_queue') <= NUM_MBUFS
    <3>1. /\ pool' \in Nat /\ Len(tx_queue') \in Nat /\ lost' \in Nat
          /\ pool \in Nat /\ Len(tx_queue) \in Nat /\ lost \in Nat /\ Len(bufs) \in Nat
      BY <1>2, <1>4, <1>5
    <3>2. pool' + Len(bufs') + Len(tx_queue') + lost' = (pool' + Len(tx_queue') + lost') + Len(bufs')
          /\ lost' + Len(tx_queue') <= (pool' + Len(tx_queue') + lost') + Len(bufs')
      BY <2>1, <3>1
    <3>3. (pool' + Len(tx_queue') + lost') + Len(bufs')
            = (pool + Len(tx_queue) + 1 + lost) + (Len(bufs) - 1)
      BY <1>4, <2>1
    <3>4. (pool + Len(tx_queue) + 1 + lost) + (Len(bufs) - 1) = pool + Len(bufs) + Len(tx_queue) + lost
      BY <3>1
    <3>. QED  BY <1>2, <3>2, <3>3, <3>4
  <2>3. lost' = lost \/ app = "lpm" \/ Len(tx_queue') = TX_DESC
    BY <1>2, <1>4
  <2>. QED  BY <1>1, <1>2, <2>2, <2>3 DEF LoopsInv, MbufsConserved
<1>9. app = "lpm" => app \notin FreesUnsent
  BY DEF FreesUnsent
<1>. QED  BY <1>4, <1>6, <1>7, <1>8, <1>9 DEF LoopsInv, LossHasCause
-----------------------------------------------------------------------------
(* What each application sends *)

\* A burst as it came, for the applications that neither rewrite nor filter.
LEMMA SendsWhatItGot ==
  ASSUME app \notin {"static_nat", "l2fwd_acl"}
  PROVE  Out(app) = Frames[app]
BY DEF Out

\* A rewritten burst has as many packets, each of them translated.
LEMMA NatOut ==
  ASSUME app = "static_nat", NEW s \in Seq(Frames[app])
  PROVE  /\ [i \in DOMAIN s |-> simulate_nat(s[i])] \in Seq(Out(app))
         /\ Len([i \in DOMAIN s |-> simulate_nat(s[i])]) = Len(s)
<1> DEFINE t == [i \in DOMAIN s |-> simulate_nat(s[i])]
<1>1. Len(s) \in Nat /\ DOMAIN s = 1..Len(s) /\ \A i \in 1..Len(s) : s[i] \in Frames[app]
  BY LenProperties, ElementOfSeq
<1>2. Out(app) = {simulate_nat(f) : f \in Frames[app]}
  BY DEF Out
<1>3. \A i \in 1..Len(s) : simulate_nat(s[i]) \in Out(app)
  BY <1>1, <1>2
<1>4. t \in [1..Len(s) -> Out(app)]
  BY <1>1, <1>3
<1>. QED  BY <1>1, <1>4

\* A translated packet keeps its type and neither comes from the private nor
\* goes to the public address.
LEMMA Translated ==
  ASSUME NEW f \in FrameType
  PROVE  /\ simulate_nat(f) \in FrameType
         /\ simulate_nat(f).ether_type = f.ether_type
         /\ f.ether_type = "ipv4" => /\ simulate_nat(f).src_addr # PRIVATE_IP
                                     /\ simulate_nat(f).dst_addr # PUBLIC_IP
<1>1. PRIVATE_IP \in Bytes(4) /\ PUBLIC_IP \in Bytes(4)
  BY DEF PRIVATE_IP, PUBLIC_IP, Bytes
<1>2. PRIVATE_IP # PUBLIC_IP
  BY DEF PRIVATE_IP, PUBLIC_IP
<1>3. /\ Outbound(f) \in FrameType /\ Outbound(f).ether_type = f.ether_type
      /\ Outbound(f).src_addr # PRIVATE_IP
  BY <1>1, <1>2 DEF Outbound, FrameType
<1>4. ASSUME NEW g \in FrameType
      PROVE  /\ Inbound(g) \in FrameType /\ Inbound(g).ether_type = g.ether_type
             /\ Inbound(g).src_addr = g.src_addr /\ Inbound(g).dst_addr # PUBLIC_IP
  BY <1>1, <1>2 DEF Inbound, FrameType
<1>. QED  BY <1>3, <1>4 DEF simulate_nat

\* Translating the answer to a translated packet leads back to the sender.
LEMMA RoundTrip ==
  ASSUME NEW f \in FrameType, f.ether_type = "ipv4", f.src_addr = PRIVATE_IP,
         f.dst_addr \notin {PRIVATE_IP, PUBLIC_IP}
  PROVE  simulate_nat(Answer(simulate_nat(f))) = Answer(f)
<1>1. PRIVATE_IP \in Bytes(4) /\ PUBLIC_IP \in Bytes(4) /\ PRIVATE_IP # PUBLIC_IP
  BY DEF PRIVATE_IP, PUBLIC_IP, Bytes
<1> DEFINE out == [f EXCEPT !.src_addr = PUBLIC_IP]
<1>2. simulate_nat(f) = out
  BY <1>1 DEF simulate_nat, Outbound, Inbound, FrameType
<1>3. /\ Answer(out).src_addr = f.dst_addr /\ Answer(out).dst_addr = PUBLIC_IP
      /\ Answer(out).ether_type = "ipv4" /\ Answer(out) \in FrameType
  BY <1>1 DEF Answer, FrameType
<1>4. simulate_nat(Answer(out)) = [Answer(out) EXCEPT !.dst_addr = PRIVATE_IP]
  BY <1>3 DEF simulate_nat, Outbound, Inbound
<1>5. [Answer(out) EXCEPT !.dst_addr = PRIVATE_IP] = Answer(f)
  BY <1>1 DEF Answer, FrameType
<1>. QED  BY <1>2, <1>4, <1>5

\* Four bytes are the tuple of their components, and swapping twice restores
\* them.
LEMMA FourBytes ==
  ASSUME NEW v \in Bytes(4)
  PROVE  /\ v = <<v[1], v[2], v[3], v[4]>>
         /\ Swapped(v) \in Bytes(4) /\ Swapped(Swapped(v)) = v
BY DEF Bytes, Swapped

\* The three ways of storing address and rule meet in the library's reading.
LEMMA ForwarderKey ==
  ASSUME NEW f \in FrameType
  PROVE  acl_classify(key(f), ForwarderRule) <=> ByTheRule(f)
<1>1. f.src_addr \in Bytes(4)
  BY DEF FrameType
<1>2. key(f).src_ip = Swapped(f.src_addr) /\ key(f).proto = f.proto
  BY <1>1, FourBytes DEF key, Stored, InMemory, FromMemory, be_to_cpu_32
<1>3. RuleSource = <<200, 166, 17, 172>> /\ RuleSource # ANY
  BY DEF RuleSource, be_to_cpu_32, Swapped, RTE_IPV4, ANY
<1>4. acl_classify(key(f), ForwarderRule) <=> f.proto = TCP /\ RuleSource = Swapped(f.src_addr)
  BY <1>2, <1>3 DEF acl_classify, ForwarderRule
<1>5. RuleSource = Swapped(f.src_addr) <=> f.src_addr = <<172, 17, 166, 200>>
  BY <1>1, <1>3, FourBytes DEF Swapped
<1>. QED  BY <1>4, <1>5 DEF ByTheRule

\* acl_exp and acl_real leave the addresses in network byte order.
LEMMA PrintedKeys ==
  ASSUME NEW f \in FrameType
  PROVE  /\ acl_classify(RawKey(f), ExpRule) <=> ByTheRule(f)
         /\ acl_classify(RawKey(f), RealRule) <=> IsSsdp(f)
<1>1. f.src_addr \in Bytes(4) /\ f.dst_addr \in Bytes(4) /\ f.dst_port \in Bytes(2)
  BY DEF FrameType
<1>2. /\ RawKey(f).src_ip = f.src_addr /\ RawKey(f).dst_ip = f.dst_addr
      /\ RawKey(f).proto = f.proto
      /\ RawKey(f).dst_port = IF f.proto \in {TCP, UDP} THEN f.dst_port ELSE <<0, 0>>
  BY <1>1, FourBytes DEF RawKey, Stored, InMemory, FromMemory
<1>3. acl_classify(RawKey(f), ExpRule) <=> ByTheRule(f)
  BY <1>2 DEF acl_classify, ExpRule, ByTheRule, RTE_IPV4, ANY
<1>4. acl_classify(RawKey(f), RealRule)
        <=> /\ f.proto = UDP /\ f.dst_addr = <<239, 255, 255, 250>>
            /\ f.dst_port = <<7, 108>>
  BY <1>2 DEF acl_classify, RealRule, RTE_IPV4, ANY
<1>5. f.dst_port = <<7, 108>> <=> 256 * f.dst_port[1] + f.dst_port[2] = 1900
  <2>1. ASSUME NEW a \in 0..255, NEW b \in 0..255
        PROVE  256 * a + b = 1900 <=> a = 7 /\ b = 108
    OBVIOUS
  <2>2. /\ f.dst_port[1] \in 0..255 /\ f.dst_port[2] \in 0..255
        /\ f.dst_port = <<f.dst_port[1], f.dst_port[2]>>
    BY <1>1 DEF Bytes
  <2>3. PICK a \in 0..255, b \in 0..255 : f.dst_port[1] = a /\ f.dst_port[2] = b
    BY <2>2
  <2>4. f.dst_port = <<7, 108>> <=> a = 7 /\ b = 108
    BY <2>2, <2>3
  <2>. QED  BY <2>1, <2>3, <2>4
<1>. QED  BY <1>3, <1>4, <1>5 DEF IsSsdp
-----------------------------------------------------------------------------
(* The inductive invariant *)

\* All mbufs are in the pool at the start.
LEMMA InitInv == Init => LoopsInv
<1> SUFFICES ASSUME Init PROVE LoopsInv
  OBVIOUS
<1> USE LoopsAssumption
<1>1. <<>> \in Seq(Frames[app]) /\ <<>> \in Seq(Out(app)) /\ Len(<<>>) = 0
  OBVIOUS
<1>2. port_up \in BOOLEAN /\ force_quit \in BOOLEAN
  BY DEF Init
<1>3. LoopsType
  BY <1>1, <1>2 DEF Init, LoopsType
<1>4. Places /\ MbufsConserved
  BY <1>1 DEF Init, Places, MbufsConserved
<1>. QED  BY <1>3, <1>4 DEF LoopsInv

\* The end of a set-up, whatever became of the port.
LEMMA SetupInv == LoopsInv /\ Setup => LoopsInv' /\ LossHasCause
<1> SUFFICES ASSUME LoopsInv, Setup PROVE LoopsInv' /\ LossHasCause
  OBVIOUS
<1>1. /\ pc = "setup" /\ pc' \in {"send", "rx", "exited"} /\ port_up' \in BOOLEAN
      /\ UNCHANGED <<app, bufs, tx_queue, pool, lost, force_quit>>
  <2>1. port_up \in BOOLEAN
    BY DEF LoopsInv, LoopsType
  <2>2. PortChecked \/ PortUnchecked
    BY DEF Setup, PortMempoolSetup, PacketParsingSetup, LpmSetup, BackendSetup,
           PacketChangeSetup, MeterSetup, TunEchoSetup, NatSetup, SwapSetup, AclSetup,
           FrontendSetup, CallbackSetup, AclExpSetup, AclRealSetup
  <2>. QED  BY <2>1, <2>2 DEF PortChecked, PortUnchecked, LoopHead, NothingElse
<1>2. lost = 0 /\ tx_queue = <<>> /\ bufs = <<>>
  BY <1>1 DEF LoopsInv, Places
<1>3. LoopsType'
  BY <1>1 DEF LoopsInv, LoopsType
<1>4. Places'
  BY <1>1, <1>2 DEF Places
<1>5. MbufsConserved'
  BY <1>1, <1>2 DEF LoopsInv, MbufsConserved
<1>. QED  BY <1>1, <1>2, <1>3, <1>4, <1>5 DEF LoopsInv, LossHasCause

\* The port delivers a burst, or none.
LEMMA PollInv == LoopsInv /\ Poll => LoopsInv' /\ LossHasCause
<1> SUFFICES ASSUME LoopsInv, NEW n \in 0..BURST_SIZE, Receive(n)
             PROVE  LoopsInv' /\ LossHasCause
  BY DEF Poll
<1> USE LoopsAssumption
<1>1. /\ pc = "rx" /\ n <= pool /\ (n > 0 => port_up) /\ pool' = pool - n
      /\ pc' \in {"work", "send", "rx"} /\ (pc' = "work" <=> n > 0)
      /\ bufs' \in [1..n -> Frames[app]]
      /\ UNCHANGED <<app, port_up, tx_queue, lost, force_quit>>
  BY DEF Receive, LoopHead
<1>2. bufs' \in Seq(Frames[app]) /\ Len(bufs') = n
  BY <1>1
<1>3. bufs' = <<>> <=> n = 0
  BY <1>2, EmptySeq
<1>4. /\ pool \in Nat /\ lost \in Nat /\ Len(tx_queue) \in Nat /\ bufs = <<>> /\ Len(bufs) = 0
      /\ pool + Len(bufs) + Len(tx_queue) + lost = NUM_MBUFS
  BY <1>1, LenProperties DEF LoopsInv, LoopsType, Places, MbufsConserved
<1>5. LoopsType'
  BY <1>1, <1>2, <1>4 DEF LoopsInv, LoopsType
<1>6. Places'
  BY <1>1, <1>3 DEF Places
<1>7. MbufsConserved'
  <2>1. (pool - n) + n + Len(tx_queue) + lost = NUM_MBUFS
    BY <1>4
  <2>. QED  BY <1>1, <1>2, <2>1 DEF LoopsInv, MbufsConserved
<1>. QED  BY <1>1, <1>4, <1>5, <1>6, <1>7 DEF LoopsInv, LossHasCause

\* The port transmits a queued packet and returns its mbuf.
LEMMA CompleteInv == LoopsInv /\ Complete => LoopsInv' /\ LossHasCause
<1> SUFFICES ASSUME LoopsInv, Complete PROVE LoopsInv' /\ LossHasCause
  OBVIOUS
<1> USE LoopsAssumption
<1>1. /\ tx_queue # <<>> /\ tx_queue' = Tail(tx_queue) /\ pool' = pool + 1
      /\ UNCHANGED <<app, pc, port_up, bufs, lost, force_quit>>
  BY DEF Complete
<1>2. /\ pool \in Nat /\ lost \in Nat /\ Len(tx_queue) \in Nat /\ Len(bufs) \in Nat
      /\ tx_queue \in Seq(Out(app)) /\ Len(tx_queue) <= TX_DESC
      /\ pool + Len(bufs) + Len(tx_queue) + lost = NUM_MBUFS
  BY LenProperties DEF LoopsInv, LoopsType, MbufsConserved
<1>3. tx_queue' \in Seq(Out(app)) /\ Len(tx_queue') = Len(tx_queue) - 1
  BY <1>1, <1>2, HeadTailProperties
<1>4. LoopsType'
  BY <1>1, <1>2, <1>3 DEF LoopsInv, LoopsType
<1>5. Places'
  BY <1>1 DEF LoopsInv, Places
<1>6. MbufsConserved'
  <2>1. (pool + 1) + Len(bufs) + (Len(tx_queue) - 1) + lost = NUM_MBUFS
    BY <1>2
  <2>. QED  BY <1>1, <1>3, <2>1 DEF LoopsInv, MbufsConserved
<1>. QED  BY <1>1, <1>2, <1>4, <1>5, <1>6 DEF LoopsInv, LossHasCause

\* The step of each application, and the end of the ACL forwarder.
LEMMA WorkInv == LoopsInv /\ Work => LoopsInv' /\ LossHasCause
<1> SUFFICES ASSUME LoopsInv, Work PROVE LoopsInv' /\ LossHasCause
  OBVIOUS
<1> USE LoopsAssumption
<1>b. bufs \in Seq(Frames[app])
  BY DEF LoopsInv, LoopsType
<1>h. pc = "work" => Head(bufs) \in Frames[app]
  BY <1>b, HeadTailProperties DEF LoopsInv, Places
<1>1. CASE TunEchoBurst \/ PortMempoolBurst \/ PacketParsingBurst
  <2>1. /\ app \in {"tun_echo", "port_mempool", "packet_parsing"}
        /\ pc = "work" /\ SendAllFreeRest(bufs) /\ BurstDone
    BY <1>1 DEF TunEchoBurst, PortMempoolBurst, PacketParsingBurst, EchoBurst
  <2>2. bufs \in Seq(Out(app))
    BY <1>b, <2>1, SendsWhatItGot
  <2>. QED  BY <2>1, <2>2, BurstStep
<1>2. CASE BackendBurst
  <2>1. app = "vhost_backend" /\ pc = "work" /\ SendAllForgetRest(bufs) /\ BurstDone
    BY <1>2 DEF BackendBurst
  <2>2. bufs \in Seq(Out(app)) /\ app \notin FreesUnsent
    BY <1>b, <2>1, SendsWhatItGot DEF FreesUnsent
  <2>. QED  BY <2>1, <2>2, BurstStep
<1>3. CASE SwapPacket
  <2>1. app = "swap_addr" /\ pc = "work" /\ SendOrFree(Head(bufs)) /\ PacketDone
    BY <1>3 DEF SwapPacket
  <2>2. Head(bufs) \in Out(app)
    BY <1>h, <2>1, SendsWhatItGot
  <2>. QED  BY <2>1, <2>2, PacketStep DEF Handled
<1>4. CASE NatBurst
  <2> DEFINE out == [i \in DOMAIN bufs |-> simulate_nat(bufs[i])]
  <2>1. app = "static_nat" /\ pc = "work" /\ SendAllForgetRest(out) /\ BurstDone
    BY <1>4 DEF NatBurst
  <2>2. out \in Seq(Out(app)) /\ Len(out) = Len(bufs)
    BY <1>b, <2>1, NatOut
  <2>3. app \notin FreesUnsent
    BY <2>1 DEF FreesUnsent
  <2> HIDE DEF out
  <2>. QED  BY <2>1, <2>2, <2>3, BurstStep
<1>5. CASE AclPacket
  <2>1. app = "l2fwd_acl" /\ pc = "work" /\ PacketDone
    BY <1>5 DEF AclPacket
  <2>2. app \notin FreesUnsent
    BY <2>1 DEF FreesUnsent
  <2>3. CASE Head(bufs).ether_type = "ipv4" /\ acl_classify(key(Head(bufs)), ForwarderRule)
    <3>1. Head(bufs) \in Out(app)
      BY <1>h, <2>1, <2>3 DEF Out
    <3>2. SendOrForget(Head(bufs))
      BY <1>5, <2>3 DEF AclPacket
    <3>. QED  BY <2>1, <2>2, <3>1, <3>2, PacketStep DEF Handled
  <2>4. CASE ~(Head(bufs).ether_type = "ipv4" /\ acl_classify(key(Head(bufs)), ForwarderRule))
    <3>1. Free
      BY <1>5, <2>4 DEF AclPacket
    <3>. QED  BY <2>1, <3>1, PacketStep DEF Handled
  <2>. QED  BY <2>3, <2>4
<1>6. CASE LpmPacket
  <2>1. app = "lpm" /\ pc = "work" /\ PacketDone /\ app \notin FreesUnsent
    BY <1>6 DEF LpmPacket, FreesUnsent
  <2>2. Head(bufs) \in Out(app)
    BY <1>h, <2>1, SendsWhatItGot
  <2>3. \/ SendOrForget(Head(bufs))
        \/ Forget /\ Head(bufs).ether_type # "ipv4"
    BY <1>6 DEF LpmPacket
  <2>. QED  BY <2>1, <2>2, <2>3, PacketStep DEF Handled
<1>7. CASE Free /\ PacketDone /\ pc = "work"
  BY <1>7, PacketStep DEF Handled
<1>8. CASE /\ pc' \in {"exited", "crashed"}
           /\ UNCHANGED <<app, port_up, bufs, tx_queue, pool, lost, force_quit>>
  <2>1. LoopsType'
    BY <1>8 DEF LoopsInv, LoopsType
  <2>2. Places' /\ MbufsConserved'
    BY <1>8 DEF LoopsInv, Places, MbufsConserved
  <2>3. lost' = lost /\ lost \in Nat
    BY <1>8 DEF LoopsInv, LoopsType
  <2>. QED  BY <2>1, <2>2, <2>3 DEF LoopsInv, LossHasCause
<1>9. CASE FrontendSend
  <2> DEFINE k == Accepted(1)
  <2>1. PICK f \in Frames[app] : /\ tx_queue' = tx_queue \o Taken(<<f>>, k)
                                 /\ lost' = lost + 1 - k
    BY <1>9 DEF FrontendSend
  <2>2. /\ app = "vhost_frontend" /\ pc = "send" /\ pool > 0 /\ pool' = pool - 1 /\ pc' = "rx"
        /\ UNCHANGED <<app, port_up, bufs, force_quit>>
    BY <1>9 DEF FrontendSend
  <2>3. /\ pool \in Nat /\ lost \in Nat /\ Len(tx_queue) \in Nat /\ bufs = <<>> /\ Len(bufs) = 0
        /\ tx_queue \in Seq(Out(app)) /\ port_up \in BOOLEAN
        /\ pool + Len(bufs) + Len(tx_queue) + lost = NUM_MBUFS
    BY <2>2, LenProperties DEF LoopsInv, LoopsType, Places, MbufsConserved
  <2>4. /\ k \in 0..1 /\ Len(tx_queue) + k <= TX_DESC
        /\ port_up /\ k < 1 => Len(tx_queue) + k = TX_DESC
    BY AcceptedBound DEF LoopsInv
  <2> HIDE DEF k
  <2>5. <<f>> \in Seq(Out(app)) /\ Len(<<f>>) = 1
    BY <2>2, SendsWhatItGot
  <2>6. Taken(<<f>>, k) \in Seq(Out(app)) /\ Len(Taken(<<f>>, k)) = k
    BY <2>4, <2>5, Split
  <2>7. tx_queue' \in Seq(Out(app)) /\ Len(tx_queue') = Len(tx_queue) + k
    <3> DEFINE front == Taken(<<f>>, k)
    <3>1. tx_queue' = tx_queue \o front /\ front \in Seq(Out(app)) /\ Len(front) = k
      BY <2>1, <2>6
    <3> HIDE DEF front
    <3>. QED  BY <2>3, <3>1, ConcatProperties
  <2>8. pool' \in Nat /\ lost' \in Nat
    BY <2>1, <2>2, <2>3, <2>4
  <2>9. LoopsType'
    BY <2>2, <2>4, <2>7, <2>8 DEF LoopsInv, LoopsType
  <2>10. Places'
    BY <2>2, <2>3 DEF Places
  <2>11. (pool - 1) + 0 + (Len(tx_queue) + k) + (lost + 1 - k) = NUM_MBUFS
    BY <2>3, <2>4
  <2>12. pool' + Len(bufs') + Len(tx_queue') + lost' = NUM_MBUFS
    BY <2>1, <2>2, <2>3, <2>7, <2>11
  <2>13. CASE k = 1
    <3>1. lost' = lost
      BY <2>1, <2>3, <2>13
    <3>. QED  BY <2>2, <2>3, <2>9, <2>10, <2>12, <3>1 DEF LoopsInv, MbufsConserved, LossHasCause
  <2>14. CASE k = 0
    <3>1. port_up => Len(tx_queue') = TX_DESC
      BY <2>3, <2>4, <2>7, <2>14
    <3>2. app \notin FreesUnsent
      BY <2>2 DEF FreesUnsent
    <3>3. lost' + Len(tx_queue') <= NUM_MBUFS
      BY <2>1, <2>2, <2>3, <2>7, <2>14
    <3>4. MbufsConserved'
      BY <2>2, <2>12, <3>1, <3>3 DEF MbufsConserved
    <3>. QED  BY <2>2, <2>9, <2>10, <3>1, <3>2, <3>4 DEF LoopsInv, LossHasCause
  <2>. QED  BY <2>4, <2>13, <2>14
<1>. QED
  BY <1>1, <1>2, <1>3, <1>4, <1>5, <1>6, <1>7, <1>8, <1>9
  DEF Work, AclQuit, PacketChange, AppendFails, MeterPacket, FrontendCrash, FrontendEcho, CallbackPacket,
      AclPrint

\* Every step preserves the invariant and loses an mbuf only for a reason.
LEMMA NextInv == LoopsInv /\ [Next]_vars => LoopsInv' /\ (LossHasCause \/ UNCHANGED vars)
<1> SUFFICES ASSUME LoopsInv, [Next]_vars PROVE LoopsInv' /\ (LossHasCause \/ UNCHANGED vars)
  OBVIOUS
<1>1. CASE signal_handler
  <2>1. LoopsType'
    <3>1. force_quit' \in BOOLEAN
      BY <1>1 DEF signal_handler
    <3>. QED  BY <1>1, <3>1 DEF signal_handler, LoopsInv, LoopsType
  <2>2. Places' /\ MbufsConserved'
    BY <1>1 DEF signal_handler, LoopsInv, Places, MbufsConserved
  <2>3. lost' = lost /\ lost \in Nat
    BY <1>1 DEF signal_handler, LoopsInv, LoopsType
  <2>. QED  BY <2>1, <2>2, <2>3 DEF LoopsInv, LossHasCause
<1>2. CASE UNCHANGED vars
  BY <1>2 DEF vars, LoopsInv, LoopsType, Places, MbufsConserved
<1>. QED
  BY <1>1, <1>2, SetupInv, PollInv, WorkInv, CompleteInv DEF Next, Ended

-----------------------------------------------------------------------------
(* Theorems *)

\* The invariant holds in every behaviour of every application.
THEOREM LoopsInvariant == Spec => []LoopsInv
<1>1. LoopsInv /\ [Next]_vars => LoopsInv'
  BY NextInv
<1>. QED  BY <1>1, InitInv, PTL DEF Spec

\* Every mbuf is in exactly one place, and an application that forgets
\* packets the port refused keeps TX_DESC mbufs in use all the same.
THEOREM LoopsConserveMbufs == Spec => []MbufsConserved
<1>1. LoopsInv => MbufsConserved
  BY DEF LoopsInv
<1>. QED  BY <1>1, LoopsInvariant, PTL

\* An mbuf is lost only at a full transmit queue, by the LPM router's skip, or
\* by the vhost frontend of a port that is not up.
THEOREM LoopsLoseForAReason == Spec => OnlyFullQueueLoses
<1>1. LoopsInv /\ [Next]_vars => [LossHasCause]_vars
  BY NextInv
<1>. QED  BY <1>1, LoopsInvariant, PTL DEF Spec, OnlyFullQueueLoses, LossHasCause

\* Nothing leaves the NAT with the private source or the public destination,
\* and answers to translated packets are translated back, for all frames.
THEOREM NatTranslates == Spec => []NatRoundTrip
<1>1. ASSUME LoopsInv PROVE NatRoundTrip
  <2>1. ASSUME app = "static_nat", NEW i \in DOMAIN tx_queue, tx_queue[i].ether_type = "ipv4"
        PROVE  tx_queue[i].src_addr # PRIVATE_IP /\ tx_queue[i].dst_addr # PUBLIC_IP
    <3>1. tx_queue[i] \in Out(app)
      BY <1>1, <2>1, LenProperties, ElementOfSeq DEF LoopsInv, LoopsType
    <3>2. PICK f \in Frames["static_nat"] : tx_queue[i] = simulate_nat(f)
      BY <2>1, <3>1 DEF Out
    <3>3. f \in FrameType
      BY <3>2, FramesAssumption
    <3>. QED  BY <2>1, <3>2, <3>3, Translated
  <2>2. ASSUME NEW f \in Frames["static_nat"], f.ether_type = "ipv4", f.src_addr = PRIVATE_IP,
               f.dst_addr \notin {PRIVATE_IP, PUBLIC_IP}
        PROVE  simulate_nat(Answer(simulate_nat(f))) = Answer(f)
    BY <2>2, RoundTrip, FramesAssumption
  <2>. QED  BY <2>1, <2>2 DEF NatRoundTrip
<1>. QED  BY <1>1, LoopsInvariant, PTL

\* The forwarder sends exactly what its rule says, and the two printers
\* recognise the packets they mean, for all frames.
THEOREM AclFollowsTheRule == Spec => []AclForwardsTheRule
<1>1. ASSUME LoopsInv PROVE AclForwardsTheRule
  <2>0. Frames["l2fwd_acl"] \subseteq FrameType
    BY FramesAssumption
  <2>1. ASSUME NEW f \in Frames["l2fwd_acl"]
        PROVE  /\ acl_classify(key(f), ForwarderRule) <=> ByTheRule(f)
               /\ EthType(f) = "ipv4" => /\ Verdict(f, ExpRule) <=> ByTheRule(f)
                                         /\ Verdict(f, RealRule) <=> IsSsdp(f)
    BY <2>0, ForwarderKey, PrintedKeys DEF Verdict
  <2>2. ASSUME app = "l2fwd_acl", NEW i \in DOMAIN tx_queue
        PROVE  tx_queue[i].ether_type = "ipv4" /\ ByTheRule(tx_queue[i])
    <3>1. tx_queue[i] \in Out(app)
      BY <1>1, LenProperties, ElementOfSeq DEF LoopsInv, LoopsType
    <3>2. /\ tx_queue[i] \in Frames["l2fwd_acl"] /\ tx_queue[i].ether_type = "ipv4"
          /\ acl_classify(key(tx_queue[i]), ForwarderRule)
      BY <2>2, <3>1 DEF Out
    <3>. QED  BY <2>1, <3>2
  <2>. QED  BY <2>1, <2>2 DEF AclForwardsTheRule
<1>. QED  BY <1>1, LoopsInvariant, PTL
=============================================================================
