-------------------- MODULE ControlDataSegregationProofs --------------------
(***************************************************************************)
(* Safety of the segregation loop for every burst, ring size, number of    *)
(* packets and set of frames.                                              *)
(***************************************************************************)
EXTENDS ControlDataSegregation, TLAPS, SequenceTheorems, FiniteSetTheorems

\* Which part of the loop runs tells what is queued.  No iteration holds more
\* than the burst it received, so each drain empties its ring.
Flow ==
  /\ (pc = "enqueue") <=> (bufs # <<>>)
  /\ RingsEmptyAtLoopHead
  /\ pc \in {"setup", "exited"} => control_ring = <<>> /\ data_ring = <<>>
  /\ pc = "data" => control_ring = <<>>
  /\ Len(bufs) + Len(control_ring) + Len(data_ring) <= BURST_SIZE

\* The packets still in the burst are the newest ones, in order; all others
\* are older.
Numbering ==
  /\ \A j \in 1..Len(bufs) : bufs[j].id = accepted - Len(bufs) + j
  /\ \A p \in Range(Through) : p.id + Len(bufs) <= accepted

Ascending(s) == \A j, k \in DOMAIN s : j < k => s[j].id < s[k].id

\* Each ring holds its class in order of arrival.  What was sent is older than
\* what is queued, except that control packets may have passed queued data.
RingOrder ==
  /\ \A p \in Range(control_ring) : classify_packet(p.frame)
  /\ \A p \in Range(data_ring) : ~classify_packet(p.frame)
  /\ Ascending(control_ring) /\ Ascending(data_ring)
  /\ \A p \in Range(sent), q \in Range(control_ring) : p.id < q.id
  /\ \A p \in Range(sent), q \in Range(data_ring) : p.id < q.id \/ classify_packet(p.frame)

SegregationInv ==
  /\ TypeOK /\ Flow /\ Numbering /\ RingOrder /\ OnlyControlOvertakes
  /\ Custody /\ IsFiniteSet(ControlThrough)

\* p may leave before q.
MayPrecede(p, q) == p.id > q.id => classify_packet(p.frame) /\ ~classify_packet(q.frame)
Ordered(s) == \A j, k \in DOMAIN s : j < k => MayPrecede(s[j], s[k])

-----------------------------------------------------------------------------
(* Facts about sequences *)

\* Concatenation adds lengths and unites elements.
LEMMA Join ==
  ASSUME NEW S, NEW s \in Seq(S), NEW t \in Seq(S)
  PROVE  /\ s \o t \in Seq(S) /\ Len(s \o t) = Len(s) + Len(t)
         /\ Range(s \o t) = Range(s) \union Range(t)
BY ConcatProperties, RangeConcatenation

\* A sequence of one element.
LEMMA Single ==
  ASSUME NEW S, NEW e \in S
  PROVE  <<e>> \in Seq(S) /\ Range(<<e>>) = {e}
<1>1. <<e>> \in Seq(S) /\ DOMAIN <<e>> = {1} /\ <<e>>[1] = e
  OBVIOUS
<1>2. Range(<<e>>) = {<<e>>[x] : x \in {1}}
  BY <1>1, Zenon DEF Range
<1>. QED  BY <1>1, <1>2

\* What the elements of a sequence are after an append, a dequeue, a split.
LEMMA RangeFacts ==
  ASSUME NEW S, NEW s \in Seq(S)
  PROVE  /\ Range(s) \subseteq S /\ Range(<<>>) = {}
         /\ \A e \in S : Range(Append(s, e)) = Range(s) \union {e}
         /\ s # <<>> => Range(s) = {Head(s)} \union Range(Tail(s))
         /\ \A n \in 0..Len(s) : Range(s) = Range(Taken(s, n)) \union Range(Rest(s, n))
<1>1. Range(s) \subseteq S /\ Range(<<>>) = {}
  BY RangeOfSeq DEF Range
<1>2. ASSUME NEW e \in S PROVE Range(Append(s, e)) = Range(s) \union {e}
  <2>1. Append(s, e) = s \o <<e>>
    BY AppendIsConcat
  <2>2. <<e>> \in Seq(S)
    BY Single
  <2>3. Range(s \o <<e>>) = Range(s) \union Range(<<e>>)
    BY <2>2, Join
  <2>4. Range(<<e>>) = {e}
    BY Single
  <2>. QED  BY <2>1, <2>3, <2>4
<1>3. ASSUME s # <<>> PROVE Range(s) = {Head(s)} \union Range(Tail(s))
  <2>1. Head(s) \in S /\ Tail(s) \in Seq(S)
    BY <1>3, HeadTailProperties
  <2>2. s = <<Head(s)>> \o Tail(s)
    BY <1>3
  <2>3. <<Head(s)>> \in Seq(S)
    BY <2>1, Single
  <2>4. Range(<<Head(s)>> \o Tail(s)) = Range(<<Head(s)>>) \union Range(Tail(s))
    BY <2>1, <2>3, Join
  <2>5. Range(<<Head(s)>>) = {Head(s)}
    BY <2>1, Single
  <2>. QED  BY <2>2, <2>4, <2>5
<1>4. ASSUME NEW n \in 0..Len(s)
      PROVE  Range(s) = Range(Taken(s, n)) \union Range(Rest(s, n))
  <2>1. Taken(s, n) \in Seq(S) /\ Rest(s, n) \in Seq(S)
    BY SubSeqProperties DEF Taken, Rest
  <2>2. 1 \in 1..(Len(s) + 1) /\ n \in (1 - 1)..Len(s) /\ Len(s) \in n..Len(s)
    BY LenProperties
  <2>3. SubSeq(s, 1, n) \o SubSeq(s, n + 1, Len(s)) = SubSeq(s, 1, Len(s))
    BY <2>2, ConcatAdjacentSubSeq
  <2>4. SubSeq(s, 1, Len(s)) = s
    BY SubSeqFull
  <2>5. Taken(s, n) \o Rest(s, n) = s
    BY <2>3, <2>4 DEF Taken, Rest
  <2>. QED  BY <2>1, <2>5, Join
<1>. QED  BY <1>1, <1>2, <1>3, <1>4

\* A split of a sequence at n.
LEMMA Split ==
  ASSUME NEW S, NEW s \in Seq(S), NEW n \in 0..Len(s)
  PROVE  /\ Taken(s, n) \in Seq(S) /\ Len(Taken(s, n)) = n
         /\ Rest(s, n) \in Seq(S)  /\ Len(Rest(s, n)) = Len(s) - n
         /\ \A j \in 1..n : Taken(s, n)[j] = s[j]
BY SubSeqProperties, LenProperties DEF Taken, Rest

\* A ring with at most a burst in it is emptied by a drain.
LEMMA DrainAll ==
  ASSUME NEW S, NEW r \in Seq(S), NEW b \in Nat, Len(r) <= b
  PROVE  /\ DequeueCount(r, b) = Len(r)
         /\ Taken(r, Len(r)) = r /\ Rest(r, Len(r)) = <<>>
<1>1. Len(r) \in Nat
  BY LenProperties
<1>2. DequeueCount(r, b) = Len(r)
  BY <1>1 DEF DequeueCount, Least
<1>3. Taken(r, Len(r)) = r
  BY SubSeqFull DEF Taken
<1>4. Rest(r, Len(r)) = <<>>
  BY <1>1, SubSeqEmpty DEF Rest
<1>. QED  BY <1>2, <1>3, <1>4

\* The elements of four sequences in a row.
LEMMA FourPlaces ==
  ASSUME NEW S, NEW a \in Seq(S), NEW b \in Seq(S), NEW c \in Seq(S), NEW d \in Seq(S)
  PROVE  /\ a \o b \o c \o d \in Seq(S)
         /\ Len(a \o b \o c \o d) = Len(a) + Len(b) + Len(c) + Len(d)
         /\ Range(a \o b \o c \o d) = Range(a) \union Range(b) \union Range(c) \union Range(d)
<1> DEFINE ab == a \o b
           abc == ab \o c
           abcd == abc \o d
<1>1. ab \in Seq(S)
  BY Join
<1>2. Len(ab) = Len(a) + Len(b) /\ Range(ab) = Range(a) \union Range(b)
  BY Join
<1> HIDE DEF ab
<1>3. abc \in Seq(S)
  BY <1>1, Join
<1>4. Len(abc) = Len(ab) + Len(c) /\ Range(abc) = Range(ab) \union Range(c)
  BY <1>1, Join
<1> HIDE DEF abc
<1>5. abcd \in Seq(S)
  BY <1>3, Join
<1>6. Len(abcd) = Len(abc) + Len(d) /\ Range(abcd) = Range(abc) \union Range(d)
  BY <1>3, Join
<1> HIDE DEF abcd
<1>7. Len(abcd) = Len(a) + Len(b) + Len(c) + Len(d)
  BY <1>2, <1>4, <1>6
<1>8. Range(abcd) = Range(a) \union Range(b) \union Range(c) \union Range(d)
  BY <1>2, <1>4, <1>6
<1>. QED  BY <1>5, <1>7, <1>8 DEF ab, abc, abcd

\* A newer packet at the end keeps a ring in order of arrival.
LEMMA AscendingAppend ==
  ASSUME NEW s \in Seq(Packet), NEW e \in Packet, Ascending(s),
         \A p \in Range(s) : p.id < e.id
  PROVE  Ascending(Append(s, e))
<1> DEFINE t == Append(s, e)
<1>1. /\ t \in Seq(Packet) /\ Len(t) = Len(s) + 1 /\ Len(s) \in Nat
      /\ DOMAIN s = 1..Len(s) /\ DOMAIN t = 1..(Len(s) + 1)
      /\ \A i \in 1..Len(s) : t[i] = s[i]
      /\ t[Len(s) + 1] = e
  BY AppendProperties, LenProperties
<1> HIDE DEF t
<1>2. ASSUME NEW j \in DOMAIN t, NEW k \in DOMAIN t, j < k PROVE t[j].id < t[k].id
  <2>1. j \in 1..Len(s) /\ t[j] = s[j]
    BY <1>1, <1>2
  <2>2. CASE k \in 1..Len(s)
    BY <1>1, <1>2, <2>1, <2>2 DEF Ascending
  <2>3. CASE k = Len(s) + 1
    <3>1. s[j] \in Range(s)
      BY <1>1, <2>1 DEF Range
    <3>. QED  BY <1>1, <2>1, <2>3, <3>1
  <2>. QED  BY <1>1, <2>2, <2>3
<1>. QED  BY <1>2 DEF Ascending, t

\* What leaves in order of arrival overtakes nothing.
LEMMA AscendingOrdered ==
  ASSUME NEW s \in Seq(Packet), Ascending(s), NEW n \in 0..Len(s)
  PROVE  Ordered(Taken(s, n))
<1> DEFINE t == Taken(s, n)
<1>1. /\ DOMAIN s = 1..Len(s) /\ DOMAIN t = 1..n /\ Len(s) \in Nat
      /\ \A j \in 1..n : t[j] = s[j]
  BY Split, LenProperties
<1> HIDE DEF t
<1>2. ASSUME NEW j \in DOMAIN t, NEW k \in DOMAIN t, j < k PROVE MayPrecede(t[j], t[k])
  <2>1. t[j].id < t[k].id
    BY <1>1, <1>2 DEF Ascending
  <2>2. s[j] \in Packet /\ s[k] \in Packet
    BY <1>1, ElementOfSeq
  <2>3. t[j].id \in Nat /\ t[k].id \in Nat
    BY <1>1, <2>2 DEF Packet
  <2>. QED  BY <2>1, <2>3 DEF MayPrecede
<1>. QED  BY <1>2 DEF Ordered, t

\* Putting packets behind others they may follow.
LEMMA OrderedConcat ==
  ASSUME NEW s \in Seq(Packet), NEW t \in Seq(Packet), Ordered(s), Ordered(t),
         \A p \in Range(s), q \in Range(t) : MayPrecede(p, q)
  PROVE  Ordered(s \o t)
<1> DEFINE u == s \o t
<1>1. /\ Len(s) \in Nat /\ Len(t) \in Nat /\ DOMAIN s = 1..Len(s) /\ DOMAIN t = 1..Len(t)
      /\ u \in Seq(Packet) /\ DOMAIN u = 1..(Len(s) + Len(t))
      /\ \A i \in 1..(Len(s) + Len(t)) : u[i] = IF i <= Len(s) THEN s[i] ELSE t[i - Len(s)]
  BY ConcatProperties, LenProperties
<1> HIDE DEF u
<1>2. ASSUME NEW j \in DOMAIN u, NEW k \in DOMAIN u, j < k PROVE MayPrecede(u[j], u[k])
  <2>1. CASE k <= Len(s)
    <3>1. u[j] = s[j] /\ u[k] = s[k] /\ j \in DOMAIN s /\ k \in DOMAIN s
      BY <1>1, <1>2, <2>1
    <3>. QED  BY <1>2, <3>1 DEF Ordered
  <2>2. CASE j <= Len(s) /\ k > Len(s)
    <3>1. u[j] = s[j] /\ u[k] = t[k - Len(s)] /\ j \in DOMAIN s /\ k - Len(s) \in DOMAIN t
      BY <1>1, <1>2, <2>2
    <3>. QED  BY <3>1 DEF Range
  <2>3. CASE j > Len(s)
    <3>1. /\ u[j] = t[j - Len(s)] /\ u[k] = t[k - Len(s)] /\ j - Len(s) < k - Len(s)
          /\ j - Len(s) \in DOMAIN t /\ k - Len(s) \in DOMAIN t
      BY <1>1, <1>2, <2>3
    <3>. QED  BY <3>1 DEF Ordered
  <2>. QED  BY <1>1, <2>1, <2>2, <2>3
<1>. QED  BY <1>2 DEF Ordered, u
-----------------------------------------------------------------------------
(* The inductive invariant *)

\* How many packets there are and which, place by place, in a state and in the
\* next.
LEMMA PlacesNow ==
  ASSUME TypeOK
  PROVE  /\ Len(Everywhere) = Len(sent) + Len(forgotten) + Len(freed) + Len(control_ring)
                                + Len(data_ring) + Len(bufs)
         /\ Range(Everywhere) = Range(sent) \union Range(forgotten) \union Range(freed)
                                  \union Range(control_ring) \union Range(data_ring)
                                  \union Range(bufs)
         /\ Len(Through) = Len(sent) + Len(forgotten) + Len(control_ring) + Len(data_ring)
         /\ Range(Through) = Range(sent) \union Range(forgotten) \union Range(control_ring)
                               \union Range(data_ring)
<1>1. /\ sent \in Seq(Packet) /\ forgotten \in Seq(Packet) /\ freed \in Seq(Packet)
      /\ control_ring \in Seq(Packet) /\ data_ring \in Seq(Packet) /\ bufs \in Seq(Packet)
  BY DEF TypeOK
<1>2. /\ Len(Everywhere) = Len(sent) + Len(forgotten) + Len(freed) + Len(control_ring)
                             + Len(data_ring) + Len(bufs)
      /\ Range(Everywhere) = Range(sent) \union Range(forgotten) \union Range(freed)
                               \union Range(control_ring) \union Range(data_ring)
                               \union Range(bufs)
  <2> DEFINE four == sent \o forgotten \o freed \o control_ring
             five == four \o data_ring
             six  == five \o bufs
  <2>1. four \in Seq(Packet)
    BY <1>1, FourPlaces
  <2>2. /\ Len(four) = Len(sent) + Len(forgotten) + Len(freed) + Len(control_ring)
        /\ Range(four) = Range(sent) \union Range(forgotten) \union Range(freed)
                           \union Range(control_ring)
    BY <1>1, FourPlaces
  <2> HIDE DEF four
  <2>3. five \in Seq(Packet)
    BY <1>1, <2>1, Join
  <2>4. Len(five) = Len(four) + Len(data_ring) /\ Range(five) = Range(four) \union Range(data_ring)
    BY <1>1, <2>1, Join
  <2> HIDE DEF five
  <2>5. Len(six) = Len(five) + Len(bufs) /\ Range(six) = Range(five) \union Range(bufs)
    BY <1>1, <2>3, Join
  <2>6. Everywhere = six
    BY DEF Everywhere, four, five
  <2> HIDE DEF six
  <2>7. Len(six) = Len(sent) + Len(forgotten) + Len(freed) + Len(control_ring)
                     + Len(data_ring) + Len(bufs)
    BY <2>2, <2>4, <2>5
  <2>8. Range(six) = Range(sent) \union Range(forgotten) \union Range(freed)
                       \union Range(control_ring) \union Range(data_ring)
                       \union Range(bufs)
    BY <2>2, <2>4, <2>5
  <2>. QED  BY <2>6, <2>7, <2>8
<1>3. /\ Len(Through) = Len(sent) + Len(forgotten) + Len(control_ring) + Len(data_ring)
      /\ Range(Through) = Range(sent) \union Range(forgotten) \union Range(control_ring)
                            \union Range(data_ring)
  BY <1>1, FourPlaces DEF Through
<1>. QED  BY <1>2, <1>3

LEMMA PlacesNext ==
  ASSUME TypeOK'
  PROVE  /\ Len(Everywhere') = Len(sent') + Len(forgotten') + Len(freed') + Len(control_ring')
                                 + Len(data_ring') + Len(bufs')
         /\ Range(Everywhere') = Range(sent') \union Range(forgotten') \union Range(freed')
                                   \union Range(control_ring') \union Range(data_ring')
                                   \union Range(bufs')
         /\ Len(Through') = Len(sent') + Len(forgotten') + Len(control_ring') + Len(data_ring')
         /\ Range(Through') = Range(sent') \union Range(forgotten') \union Range(control_ring')
                                \union Range(data_ring')
<1>1. /\ sent' \in Seq(Packet) /\ forgotten' \in Seq(Packet) /\ freed' \in Seq(Packet)
      /\ control_ring' \in Seq(Packet) /\ data_ring' \in Seq(Packet) /\ bufs' \in Seq(Packet)
  BY DEF TypeOK
<1>2. /\ Len(Everywhere') = Len(sent') + Len(forgotten') + Len(freed') + Len(control_ring')
                             + Len(data_ring') + Len(bufs')
      /\ Range(Everywhere') = Range(sent') \union Range(forgotten') \union Range(freed')
                               \union Range(control_ring') \union Range(data_ring')
                               \union Range(bufs')
  <2> DEFINE four == sent' \o forgotten' \o freed' \o control_ring'
             five == four \o data_ring'
             six  == five \o bufs'
  <2>1. four \in Seq(Packet)
    BY <1>1, FourPlaces
  <2>2. /\ Len(four) = Len(sent') + Len(forgotten') + Len(freed') + Len(control_ring')
        /\ Range(four) = Range(sent') \union Range(forgotten') \union Range(freed')
                           \union Range(control_ring')
    BY <1>1, FourPlaces
  <2> HIDE DEF four
  <2>3. five \in Seq(Packet)
    BY <1>1, <2>1, Join
  <2>4. Len(five) = Len(four) + Len(data_ring') /\ Range(five) = Range(four) \union Range(data_ring')
    BY <1>1, <2>1, Join
  <2> HIDE DEF five
  <2>5. Len(six) = Len(five) + Len(bufs') /\ Range(six) = Range(five) \union Range(bufs')
    BY <1>1, <2>3, Join
  <2>6. Everywhere' = six
    BY DEF Everywhere, four, five
  <2> HIDE DEF six
  <2>7. Len(six) = Len(sent') + Len(forgotten') + Len(freed') + Len(control_ring')
                     + Len(data_ring') + Len(bufs')
    BY <2>2, <2>4, <2>5
  <2>8. Range(six) = Range(sent') \union Range(forgotten') \union Range(freed')
                       \union Range(control_ring') \union Range(data_ring')
                       \union Range(bufs')
    BY <2>2, <2>4, <2>5
  <2>. QED  BY <2>6, <2>7, <2>8
<1>3. /\ Len(Through') = Len(sent') + Len(forgotten') + Len(control_ring') + Len(data_ring')
      /\ Range(Through') = Range(sent') \union Range(forgotten') \union Range(control_ring')
                            \union Range(data_ring')
  BY <1>1, FourPlaces DEF Through
<1>. QED  BY <1>2, <1>3

\* Nothing has been received.
LEMMA InitInv == Init => SegregationInv
<1> SUFFICES ASSUME Init PROVE SegregationInv
  OBVIOUS
<1> USE SegregationAssumption
<1>1. <<>> \in Seq(Packet) /\ Len(<<>>) = 0 /\ Range(<<>>) = {} /\ DOMAIN <<>> = {}
  BY DEF Range
<1>2. TypeOK
  BY <1>1 DEF Init, TypeOK, Usable
<1>3. Range(Through) = {} /\ Len(Through) = 0 /\ Range(Everywhere) = {} /\ Len(Everywhere) = 0
  BY <1>1, <1>2, PlacesNow DEF Init
<1>4. Flow
  BY <1>1 DEF Init, Flow, RingsEmptyAtLoopHead
<1>5. Numbering
  BY <1>1, <1>3 DEF Init, Numbering
<1>6. RingOrder /\ OnlyControlOvertakes
  BY <1>1 DEF Init, RingOrder, Ascending, OnlyControlOvertakes
<1>7. ControlThrough = {}
  BY <1>3 DEF ControlThrough
<1>8. Custody
  <2>1. {p.id : p \in Range(Everywhere)} = {} /\ 1..0 = {}
    BY <1>3
  <2>. QED  BY <1>3, <1>7, <2>1, FS_EmptySet DEF Init, Custody
<1>. QED  BY <1>2, <1>4, <1>5, <1>6, <1>7, <1>8, FS_EmptySet DEF SegregationInv

\* A step that only moves packets keeps the account of them.
LEMMA SamePackets ==
  ASSUME Custody, accepted' = accepted,
         Len(Everywhere') = Len(Everywhere), Range(Everywhere') = Range(Everywhere),
         control_count' = Cardinality(ControlThrough'),
         control_count' + data_count' = Len(Through')
  PROVE  Custody'
BY DEF Custody

\* The next packet of the burst: it is newer than all that left the burst.
LEMMA NextPacket ==
  ASSUME SegregationInv, pc = "enqueue", Advance
  PROVE  /\ Head(bufs) \in Packet /\ Head(bufs).id \in Nat
         /\ Head(bufs).id = accepted - Len(bufs) + 1
         /\ \A q \in Range(Through) : q \in Packet /\ q.id < Head(bufs).id
         /\ bufs' \in Seq(Packet) /\ Len(bufs') = Len(bufs) - 1 /\ Len(bufs) \in Nat \ {0}
         /\ Range(bufs) = {Head(bufs)} \union Range(bufs')
         /\ \A j \in 1..Len(bufs') : bufs'[j].id = accepted - Len(bufs') + j
         /\ pc' \in {"enqueue", "control"} /\ ((pc' = "enqueue") <=> (bufs' # <<>>))
<1>1. bufs \in Seq(Packet) /\ bufs # <<>> /\ bufs' = Tail(bufs)
  BY DEF SegregationInv, TypeOK, Flow, Advance
<1>2. /\ Head(bufs) \in Packet /\ bufs' \in Seq(Packet) /\ Len(bufs') = Len(bufs) - 1
      /\ \A j \in 1..Len(bufs') : bufs'[j] = bufs[j + 1]
  BY <1>1, HeadTailProperties
<1>3. Len(bufs) \in Nat \ {0}
  BY <1>1, EmptySeq
<1>4. Head(bufs) = bufs[1]
  BY <1>1
<1>5. Head(bufs).id \in Nat
  BY <1>2 DEF Packet
<1>6. accepted \in Nat /\ \A j \in 1..Len(bufs) : bufs[j].id = accepted - Len(bufs) + j
  BY DEF SegregationInv, TypeOK, Numbering
<1>7. Head(bufs).id = accepted - Len(bufs) + 1
  BY <1>3, <1>4, <1>6
<1>8. ASSUME NEW j \in 1..Len(bufs') PROVE bufs'[j].id = accepted - Len(bufs') + j
  <2>1. j + 1 \in 1..Len(bufs) /\ bufs'[j] = bufs[j + 1]
    BY <1>2, <1>3, <1>8
  <2>2. bufs[j + 1].id = accepted - Len(bufs) + (j + 1)
    BY <1>6, <2>1
  <2>. QED  BY <1>2, <1>3, <1>6, <2>1, <2>2
<1>9. ASSUME NEW q \in Range(Through) PROVE q \in Packet /\ q.id < Head(bufs).id
  <2>1. /\ sent \in Seq(Packet) /\ forgotten \in Seq(Packet)
        /\ control_ring \in Seq(Packet) /\ data_ring \in Seq(Packet)
    BY DEF SegregationInv, TypeOK
  <2>2. /\ Range(sent) \subseteq Packet /\ Range(forgotten) \subseteq Packet
        /\ Range(control_ring) \subseteq Packet /\ Range(data_ring) \subseteq Packet
    BY <2>1, RangeFacts
  <2>3. q \in Packet
    BY <2>2, PlacesNow DEF SegregationInv
  <2>4. q.id \in Nat
    BY <2>3 DEF Packet
  <2>5. q.id + Len(bufs) <= accepted
    BY DEF SegregationInv, Numbering
  <2>. QED  BY <1>3, <1>6, <1>7, <2>3, <2>4, <2>5
<1>10. Range(bufs) = {Head(bufs)} \union Range(bufs')
  BY <1>1, RangeFacts
<1>11. pc' \in {"enqueue", "control"} /\ ((pc' = "enqueue") <=> (Len(bufs) # 1))
  BY DEF Advance
<1>12. (bufs' # <<>>) <=> (Len(bufs) # 1)
  BY <1>2, <1>3, EmptySeq
<1>. QED  BY <1>2, <1>3, <1>5, <1>7, <1>8, <1>9, <1>10, <1>11, <1>12

\* A control packet goes to its ring, or is freed.
LEMMA EnqueueControlInv == SegregationInv /\ EnqueueControl => SegregationInv'
<1> SUFFICES ASSUME SegregationInv, EnqueueControl PROVE SegregationInv'
  OBVIOUS
<1> USE SegregationAssumption
<1> DEFINE p == Head(bufs)
<1>1. /\ pc = "enqueue" /\ Advance /\ classify_packet(p.frame)
      /\ UNCHANGED <<ring_size, data_ring, data_count, accepted, sent, forgotten>>
  BY DEF EnqueueControl
<1>2. /\ p \in Packet /\ p.id \in Nat /\ p.id = accepted - Len(bufs) + 1
      /\ \A q \in Range(Through) : q \in Packet /\ q.id < p.id
  BY <1>1, NextPacket
<1>3. /\ bufs' \in Seq(Packet) /\ Len(bufs') = Len(bufs) - 1 /\ Len(bufs) \in Nat \ {0}
      /\ pc' \in {"enqueue", "control"} /\ ((pc' = "enqueue") <=> (bufs' # <<>>))
  BY <1>1, NextPacket
<1>4. Range(bufs) = {p} \union Range(bufs')
  BY <1>1, NextPacket
<1>5. \A j \in 1..Len(bufs') : bufs'[j].id = accepted' - Len(bufs') + j
  BY <1>1, NextPacket
<1> HIDE DEF p
<1>6. /\ control_ring \in Seq(Packet) /\ data_ring \in Seq(Packet) /\ freed \in Seq(Packet)
      /\ sent \in Seq(Packet) /\ forgotten \in Seq(Packet)
  BY DEF SegregationInv, TypeOK
<1>7. /\ Len(control_ring) \in Nat /\ Len(data_ring) \in Nat /\ Len(freed) \in Nat
      /\ Len(sent) \in Nat /\ Len(forgotten) \in Nat
      /\ ring_size \in Nat \ {0}
      /\ Len(control_ring) <= Usable(ring_size) /\ Len(data_ring) <= Usable(ring_size)
      /\ control_count \in Nat /\ data_count \in Nat /\ accepted \in Nat
      /\ Len(bufs) + Len(control_ring) + Len(data_ring) <= BURST_SIZE
  BY <1>6, LenProperties DEF SegregationInv, TypeOK, Flow
<1>8. TypeOK /\ Custody /\ IsFiniteSet(ControlThrough)
  BY DEF SegregationInv
<1>9. CASE Full(control_ring, ring_size)
  <2>1. freed' = Append(freed, p) /\ UNCHANGED <<control_ring, control_count>>
    BY <1>9 DEF EnqueueControl, p
  <2>2. freed' \in Seq(Packet) /\ Len(freed') = Len(freed) + 1
    BY <1>2, <1>6, <2>1, AppendProperties
  <2>3. Range(freed') = Range(freed) \union {p}
    BY <1>2, <1>6, <2>1, RangeFacts
  <2>4. TypeOK'
    BY <1>1, <1>3, <1>6, <1>7, <2>1, <2>2 DEF TypeOK
  <2>5. Through' = Through
    BY <1>1, <2>1 DEF Through
  <2>6. ControlThrough' = ControlThrough
    BY <2>5 DEF ControlThrough
  <2>7. Flow'
    BY <1>1, <1>3, <1>7, <2>1 DEF Flow, RingsEmptyAtLoopHead
  <2>8. Numbering'
    <3>1. ASSUME NEW q \in Range(Through) PROVE q.id + Len(bufs') <= accepted
      BY <1>2, <1>3, <1>7, <3>1 DEF Packet
    <3>. QED  BY <1>1, <1>5, <2>5, <3>1 DEF Numbering
  <2>9. RingOrder' /\ OnlyControlOvertakes'
    BY <1>1, <2>1 DEF SegregationInv, RingOrder, Ascending, OnlyControlOvertakes
  <2>10. Len(Everywhere') = Len(Everywhere)
    BY <1>1, <1>3, <1>7, <1>8, <2>1, <2>2, <2>4, PlacesNow, PlacesNext
  <2>11. Range(Everywhere') = Range(Everywhere)
    BY <1>1, <1>4, <1>8, <2>1, <2>3, <2>4, PlacesNow, PlacesNext
  <2>12. Custody'
    BY <1>1, <1>8, <2>1, <2>5, <2>6, <2>10, <2>11 DEF Custody
  <2>. QED  BY <1>8, <2>4, <2>6, <2>7, <2>8, <2>9, <2>12 DEF SegregationInv
<1>10. CASE ~Full(control_ring, ring_size)
  <2>1. control_ring' = Append(control_ring, p) /\ control_count' = control_count + 1 /\ UNCHANGED freed
    BY <1>10 DEF EnqueueControl, p
  <2>2. control_ring' \in Seq(Packet) /\ Len(control_ring') = Len(control_ring) + 1
    BY <1>2, <1>6, <2>1, AppendProperties
  <2>3. Range(control_ring') = Range(control_ring) \union {p}
    BY <1>2, <1>6, <2>1, RangeFacts
  <2>4. TypeOK'
    BY <1>1, <1>3, <1>6, <1>7, <1>10, <2>1, <2>2 DEF TypeOK, Full, Usable
  <2>5. Range(Through') = Range(Through) \union {p}
    BY <1>1, <1>8, <2>3, <2>4, PlacesNow, PlacesNext
  <2>6. Len(Through') = Len(Through) + 1
    BY <1>1, <1>7, <1>8, <2>2, <2>4, PlacesNow, PlacesNext
  <2>7. ControlThrough' = ControlThrough \union {p} /\ p \notin ControlThrough
    BY <1>1, <1>2, <2>5 DEF ControlThrough
  <2>8. IsFiniteSet(ControlThrough') /\ control_count' = Cardinality(ControlThrough')
    BY <1>8, <2>1, <2>7, FS_AddElement DEF Custody
  <2>9. Flow'
    BY <1>1, <1>3, <1>7, <2>1, <2>2 DEF Flow, RingsEmptyAtLoopHead
  <2>10. Numbering'
    <3>1. ASSUME NEW q \in Range(Through') PROVE q.id + Len(bufs') <= accepted
      <4>1. CASE q = p
        BY <1>2, <1>3, <1>7, <4>1
      <4>2. CASE q \in Range(Through)
        BY <1>2, <1>3, <1>7, <4>2 DEF Packet
      <4>. QED  BY <2>5, <3>1, <4>1, <4>2
    <3>. QED  BY <1>1, <1>5, <3>1 DEF Numbering
  <2>11. RingOrder'
    <3>1. \A q \in Range(sent) \union Range(control_ring) : q.id < p.id
      BY <1>2, <1>8, PlacesNow
    <3>2. Ascending(control_ring)
      BY DEF SegregationInv, RingOrder
    <3>3. Ascending(control_ring')
      BY <1>2, <1>6, <2>1, <3>1, <3>2, AscendingAppend
    <3>. QED  BY <1>1, <2>3, <3>1, <3>3 DEF SegregationInv, RingOrder, Ascending
  <2>12. OnlyControlOvertakes'
    BY <1>1 DEF SegregationInv, OnlyControlOvertakes
  <2>13. Len(Everywhere') = Len(Everywhere)
    BY <1>1, <1>3, <1>7, <1>8, <2>1, <2>2, <2>4, PlacesNow, PlacesNext
  <2>14. Range(Everywhere') = Range(Everywhere)
    BY <1>1, <1>4, <1>8, <2>1, <2>3, <2>4, PlacesNow, PlacesNext
  <2>15. control_count' + data_count' = Len(Through')
    <3>1. control_count + data_count = Len(Through)
      BY <1>8 DEF Custody
    <3>2. control_count' + data_count' = (control_count + data_count) + 1
      BY <1>1, <1>7, <2>1
    <3>. QED  BY <2>6, <3>1, <3>2
  <2>16. Custody'
    BY <1>1, <1>8, <2>8, <2>13, <2>14, <2>15, SamePackets
  <2>. QED  BY <2>4, <2>8, <2>9, <2>10, <2>11, <2>12, <2>16 DEF SegregationInv
<1>. QED  BY <1>9, <1>10

\* A data packet goes to its ring, or is freed.
LEMMA EnqueueDataInv == SegregationInv /\ EnqueueData => SegregationInv'
<1> SUFFICES ASSUME SegregationInv, EnqueueData PROVE SegregationInv'
  OBVIOUS
<1> USE SegregationAssumption
<1> DEFINE p == Head(bufs)
<1>1. /\ pc = "enqueue" /\ Advance /\ ~classify_packet(p.frame)
      /\ UNCHANGED <<ring_size, control_ring, control_count, accepted, sent, forgotten>>
  BY DEF EnqueueData
<1>2. /\ p \in Packet /\ p.id \in Nat /\ p.id = accepted - Len(bufs) + 1
      /\ \A q \in Range(Through) : q \in Packet /\ q.id < p.id
  BY <1>1, NextPacket
<1>3. /\ bufs' \in Seq(Packet) /\ Len(bufs') = Len(bufs) - 1 /\ Len(bufs) \in Nat \ {0}
      /\ pc' \in {"enqueue", "control"} /\ ((pc' = "enqueue") <=> (bufs' # <<>>))
  BY <1>1, NextPacket
<1>4. Range(bufs) = {p} \union Range(bufs')
  BY <1>1, NextPacket
<1>5. \A j \in 1..Len(bufs') : bufs'[j].id = accepted' - Len(bufs') + j
  BY <1>1, NextPacket
<1> HIDE DEF p
<1>6. /\ control_ring \in Seq(Packet) /\ data_ring \in Seq(Packet) /\ freed \in Seq(Packet)
      /\ sent \in Seq(Packet) /\ forgotten \in Seq(Packet)
  BY DEF SegregationInv, TypeOK
<1>7. /\ Len(control_ring) \in Nat /\ Len(data_ring) \in Nat /\ Len(freed) \in Nat
      /\ Len(sent) \in Nat /\ Len(forgotten) \in Nat
      /\ ring_size \in Nat \ {0}
      /\ Len(control_ring) <= Usable(ring_size) /\ Len(data_ring) <= Usable(ring_size)
      /\ control_count \in Nat /\ data_count \in Nat /\ accepted \in Nat
      /\ Len(bufs) + Len(control_ring) + Len(data_ring) <= BURST_SIZE
  BY <1>6, LenProperties DEF SegregationInv, TypeOK, Flow
<1>8. TypeOK /\ Custody /\ IsFiniteSet(ControlThrough)
  BY DEF SegregationInv
<1>9. CASE Full(data_ring, ring_size)
  <2>1. freed' = Append(freed, p) /\ UNCHANGED <<data_ring, data_count>>
    BY <1>9 DEF EnqueueData, p
  <2>2. freed' \in Seq(Packet) /\ Len(freed') = Len(freed) + 1
    BY <1>2, <1>6, <2>1, AppendProperties
  <2>3. Range(freed') = Range(freed) \union {p}
    BY <1>2, <1>6, <2>1, RangeFacts
  <2>4. TypeOK'
    BY <1>1, <1>3, <1>6, <1>7, <2>1, <2>2 DEF TypeOK
  <2>5. Through' = Through
    BY <1>1, <2>1 DEF Through
  <2>6. ControlThrough' = ControlThrough
    BY <2>5 DEF ControlThrough
  <2>7. Flow'
    BY <1>1, <1>3, <1>7, <2>1 DEF Flow, RingsEmptyAtLoopHead
  <2>8. Numbering'
    <3>1. ASSUME NEW q \in Range(Through) PROVE q.id + Len(bufs') <= accepted
      BY <1>2, <1>3, <1>7, <3>1 DEF Packet
    <3>. QED  BY <1>1, <1>5, <2>5, <3>1 DEF Numbering
  <2>9. RingOrder' /\ OnlyControlOvertakes'
    BY <1>1, <2>1 DEF SegregationInv, RingOrder, Ascending, OnlyControlOvertakes
  <2>10. Len(Everywhere') = Len(Everywhere)
    BY <1>1, <1>3, <1>7, <1>8, <2>1, <2>2, <2>4, PlacesNow, PlacesNext
  <2>11. Range(Everywhere') = Range(Everywhere)
    BY <1>1, <1>4, <1>8, <2>1, <2>3, <2>4, PlacesNow, PlacesNext
  <2>12. Custody'
    BY <1>1, <1>8, <2>1, <2>5, <2>6, <2>10, <2>11 DEF Custody
  <2>. QED  BY <1>8, <2>4, <2>6, <2>7, <2>8, <2>9, <2>12 DEF SegregationInv
<1>10. CASE ~Full(data_ring, ring_size)
  <2>1. data_ring' = Append(data_ring, p) /\ data_count' = data_count + 1 /\ UNCHANGED freed
    BY <1>10 DEF EnqueueData, p
  <2>2. data_ring' \in Seq(Packet) /\ Len(data_ring') = Len(data_ring) + 1
    BY <1>2, <1>6, <2>1, AppendProperties
  <2>3. Range(data_ring') = Range(data_ring) \union {p}
    BY <1>2, <1>6, <2>1, RangeFacts
  <2>4. TypeOK'
    BY <1>1, <1>3, <1>6, <1>7, <1>10, <2>1, <2>2 DEF TypeOK, Full, Usable
  <2>5. Range(Through') = Range(Through) \union {p}
    BY <1>1, <1>8, <2>3, <2>4, PlacesNow, PlacesNext
  <2>6. Len(Through') = Len(Through) + 1
    BY <1>1, <1>7, <1>8, <2>2, <2>4, PlacesNow, PlacesNext
  <2>7. ControlThrough' = ControlThrough
    BY <1>1, <1>2, <2>5 DEF ControlThrough
  <2>8. IsFiniteSet(ControlThrough') /\ control_count' = Cardinality(ControlThrough')
    BY <1>1, <1>8, <2>7 DEF Custody
  <2>9. Flow'
    BY <1>1, <1>3, <1>7, <2>1, <2>2 DEF Flow, RingsEmptyAtLoopHead
  <2>10. Numbering'
    <3>1. ASSUME NEW q \in Range(Through') PROVE q.id + Len(bufs') <= accepted
      <4>1. CASE q = p
        BY <1>2, <1>3, <1>7, <4>1
      <4>2. CASE q \in Range(Through)
        BY <1>2, <1>3, <1>7, <4>2 DEF Packet
      <4>. QED  BY <2>5, <3>1, <4>1, <4>2
    <3>. QED  BY <1>1, <1>5, <3>1 DEF Numbering
  <2>11. RingOrder'
    <3>1. \A q \in Range(sent) \union Range(data_ring) : q.id < p.id
      BY <1>2, <1>8, PlacesNow
    <3>2. Ascending(data_ring)
      BY DEF SegregationInv, RingOrder
    <3>3. Ascending(data_ring')
      BY <1>2, <1>6, <2>1, <3>1, <3>2, AscendingAppend
    <3>. QED  BY <1>1, <2>3, <3>1, <3>3 DEF SegregationInv, RingOrder, Ascending
  <2>12. OnlyControlOvertakes'
    BY <1>1 DEF SegregationInv, OnlyControlOvertakes
  <2>13. Len(Everywhere') = Len(Everywhere)
    BY <1>1, <1>3, <1>7, <1>8, <2>1, <2>2, <2>4, PlacesNow, PlacesNext
  <2>14. Range(Everywhere') = Range(Everywhere)
    BY <1>1, <1>4, <1>8, <2>1, <2>3, <2>4, PlacesNow, PlacesNext
  <2>15. control_count' + data_count' = Len(Through')
    <3>1. control_count + data_count = Len(Through)
      BY <1>8 DEF Custody
    <3>2. control_count' + data_count' = (control_count + data_count) + 1
      BY <1>1, <1>7, <2>1
    <3>. QED  BY <2>6, <3>1, <3>2
  <2>16. Custody'
    BY <1>1, <1>8, <2>8, <2>13, <2>14, <2>15, SamePackets
  <2>. QED  BY <2>4, <2>8, <2>9, <2>10, <2>11, <2>12, <2>16 DEF SegregationInv
<1>. QED  BY <1>9, <1>10

\* The port delivers a burst of n packets, the newest ones.
LEMMA ReceiveInv ==
  ASSUME SegregationInv, NEW n \in 0..BURST_SIZE, Receive(n)
  PROVE  SegregationInv'
<1> USE SegregationAssumption
<1>1. /\ pc = "rx" /\ accepted' = accepted + n /\ pc' = IF n > 0 THEN "enqueue" ELSE "control"
      /\ UNCHANGED <<ring_size, control_ring, data_ring, control_count, data_count, sent, freed, forgotten>>
  BY DEF Receive, queues, counters
<1>2. PICK fs \in [1..n -> Traffic] :
        bufs' = [j \in 1..n |-> [id |-> accepted + j, frame |-> fs[j]]]
  BY DEF Receive, Burst
<1>3. accepted \in Nat /\ bufs = <<>> /\ control_ring = <<>> /\ data_ring = <<>>
  BY <1>1 DEF SegregationInv, TypeOK, Flow, RingsEmptyAtLoopHead
<1>4. \A j \in 1..n : [id |-> accepted + j, frame |-> fs[j]] \in Packet
  BY <1>3 DEF Packet
<1>5. bufs' \in Seq(Packet) /\ Len(bufs') = n /\ DOMAIN bufs' = 1..n
  BY <1>2, <1>4
<1>6. \A j \in 1..n : bufs'[j].id = accepted + j
  BY <1>2
<1>7. {p.id : p \in Range(bufs')} = (accepted + 1)..(accepted + n)
  <2>1. Range(bufs') = {bufs'[j] : j \in 1..n}
    BY <1>5 DEF Range
  <2>2. ASSUME NEW x \in (accepted + 1)..(accepted + n) PROVE \E p \in Range(bufs') : p.id = x
    <3>1. x - accepted \in 1..n /\ x = accepted + (x - accepted)
      BY <1>3, <2>2
    <3>2. bufs'[x - accepted].id = x
      BY <1>6, <3>1
    <3>. QED  BY <2>1, <3>1, <3>2
  <2>3. ASSUME NEW p \in Range(bufs') PROVE p.id \in (accepted + 1)..(accepted + n)
    BY <1>3, <1>6, <2>1, <2>3
  <2>. QED  BY <2>2, <2>3
<1>8. TypeOK /\ Custody /\ IsFiniteSet(ControlThrough)
  BY DEF SegregationInv
<1>9. TypeOK'
  BY <1>1, <1>3, <1>5, <1>8 DEF TypeOK
<1>10. Through' = Through
  BY <1>1 DEF Through
<1>11. ControlThrough' = ControlThrough
  BY <1>10 DEF ControlThrough
<1>12. Range(bufs) = {} /\ Len(bufs) = 0 /\ Len(control_ring) = 0 /\ Len(data_ring) = 0
  BY <1>3, RangeFacts, <<>> \in Seq(Packet)
<1>13. Range(Everywhere') = Range(Everywhere) \union Range(bufs')
  BY <1>1, <1>8, <1>9, <1>12, PlacesNow, PlacesNext
<1>14. Len(Everywhere') = Len(Everywhere) + n
  <2>1. /\ sent \in Seq(Packet) /\ forgotten \in Seq(Packet) /\ freed \in Seq(Packet)
    BY <1>8 DEF TypeOK
  <2>2. Len(sent) \in Nat /\ Len(forgotten) \in Nat /\ Len(freed) \in Nat
    BY <2>1, LenProperties
  <2>. QED  BY <1>1, <1>5, <1>8, <1>9, <1>12, <2>2, PlacesNow, PlacesNext
<1>15. Custody'
  <2>1. {p.id : p \in Range(Everywhere')}
          = {p.id : p \in Range(Everywhere)} \union {p.id : p \in Range(bufs')}
    BY <1>13
  <2>2. {p.id : p \in Range(Everywhere)} = 1..accepted
    BY <1>8 DEF Custody
  <2>3. 1..accepted \union (accepted + 1)..(accepted + n) = 1..(accepted + n)
    BY <1>3
  <2>4. {p.id : p \in Range(Everywhere')} = 1..accepted'
    BY <1>1, <1>7, <2>1, <2>2, <2>3
  <2>. QED  BY <1>1, <1>8, <1>10, <1>11, <1>14, <2>4 DEF Custody
<1>16. Flow'
  <2>1. bufs' = <<>> <=> n = 0
    BY <1>5, EmptySeq
  <2>. QED  BY <1>1, <1>5, <1>12, <2>1 DEF Flow, RingsEmptyAtLoopHead
<1>17. Numbering'
  <2>1. ASSUME NEW q \in Range(Through) PROVE q.id + n <= accepted + n
    <3>1. q.id + Len(bufs) <= accepted
      BY DEF SegregationInv, Numbering
    <3>2. q \in Packet
      <4>1. /\ sent \in Seq(Packet) /\ forgotten \in Seq(Packet)
            /\ control_ring \in Seq(Packet) /\ data_ring \in Seq(Packet)
        BY <1>8 DEF TypeOK
      <4>2. /\ Range(sent) \subseteq Packet /\ Range(forgotten) \subseteq Packet
            /\ Range(control_ring) \subseteq Packet /\ Range(data_ring) \subseteq Packet
        BY <4>1, RangeFacts
      <4>. QED  BY <1>8, <4>2, PlacesNow
    <3>3. q.id \in Nat
      BY <3>2 DEF Packet
    <3>. QED  BY <1>3, <1>12, <3>1, <3>3
  <2>2. \A j \in 1..n : bufs'[j].id = (accepted + n) - n + j
    BY <1>3, <1>6
  <2>. QED  BY <1>1, <1>5, <1>10, <2>1, <2>2 DEF Numbering
<1>18. RingOrder' /\ OnlyControlOvertakes'
  BY <1>1 DEF SegregationInv, RingOrder, Ascending, OnlyControlOvertakes
<1>. QED  BY <1>8, <1>9, <1>11, <1>15, <1>16, <1>17, <1>18 DEF SegregationInv

\* The control ring is drained: nothing queued earlier is left in it.
LEMMA DrainControlInv ==
  ASSUME SegregationInv, NEW k \in 0..BURST_SIZE, DrainControl(k)
  PROVE  SegregationInv'
<1> USE SegregationAssumption
<1> DEFINE r == control_ring
<1>1. /\ pc = "control" /\ pc' = "data"
      /\ UNCHANGED <<ring_size, bufs, data_ring, control_count, data_count, accepted, freed>>
  BY DEF DrainControl, counters
<1>2. r \in Seq(Packet) /\ Len(r) \in Nat /\ Len(r) <= BURST_SIZE
  <2>1. /\ bufs \in Seq(Packet) /\ control_ring \in Seq(Packet) /\ data_ring \in Seq(Packet)
        /\ Len(bufs) + Len(control_ring) + Len(data_ring) <= BURST_SIZE
    BY DEF SegregationInv, TypeOK, Flow
  <2>2. Len(bufs) \in Nat /\ Len(control_ring) \in Nat /\ Len(data_ring) \in Nat
    BY <2>1, LenProperties
  <2>. QED  BY <2>1, <2>2
<1>3. /\ k \in 0..Len(r) /\ sent' = sent \o Taken(r, k)
      /\ forgotten' = forgotten \o Rest(r, k) /\ control_ring' = <<>>
  <2>1. DequeueCount(r, BURST_SIZE) = Len(r) /\ Taken(r, Len(r)) = r /\ Rest(r, Len(r)) = <<>>
    BY <1>2, DrainAll
  <2>. QED  BY <1>2, <2>1 DEF DrainControl, Transmit
<1>4. /\ sent \in Seq(Packet) /\ forgotten \in Seq(Packet) /\ freed \in Seq(Packet)
      /\ data_ring \in Seq(Packet) /\ bufs \in Seq(Packet) /\ r \in Seq(Packet)
  BY <1>2 DEF SegregationInv, TypeOK
<1>5. Taken(r, k) \in Seq(Packet) /\ Rest(r, k) \in Seq(Packet)
  BY <1>2, <1>3, Split
<1>6. Range(r) = Range(Taken(r, k)) \union Range(Rest(r, k))
  BY <1>2, <1>3, RangeFacts
<1>7. sent' \in Seq(Packet) /\ forgotten' \in Seq(Packet)
  BY <1>3, <1>4, <1>5, Join
<1>8. /\ Len(sent') = Len(sent) + k /\ Len(forgotten') = Len(forgotten) + (Len(r) - k)
      /\ Range(sent') = Range(sent) \union Range(Taken(r, k))
      /\ Range(forgotten') = Range(forgotten) \union Range(Rest(r, k))
  <2>1. Len(Taken(r, k)) = k /\ Len(Rest(r, k)) = Len(r) - k
    BY <1>2, <1>3, Split
  <2>2. /\ Len(sent \o Taken(r, k)) = Len(sent) + Len(Taken(r, k))
        /\ Range(sent \o Taken(r, k)) = Range(sent) \union Range(Taken(r, k))
    BY <1>4, <1>5, Join
  <2>3. /\ Len(forgotten \o Rest(r, k)) = Len(forgotten) + Len(Rest(r, k))
        /\ Range(forgotten \o Rest(r, k)) = Range(forgotten) \union Range(Rest(r, k))
    BY <1>4, <1>5, Join
  <2>. QED  BY <1>3, <2>1, <2>2, <2>3
<1>9. control_ring' \in Seq(Packet) /\ Len(control_ring') = 0 /\ Range(control_ring') = {} /\ DOMAIN control_ring' = {}
  <2>1. <<>> \in Seq(Packet) /\ Len(<<>>) = 0 /\ Range(<<>>) = {} /\ DOMAIN <<>> = {}
    BY DEF Range
  <2>. QED  BY <1>3, <2>1
<1>10. /\ Len(sent) \in Nat /\ Len(forgotten) \in Nat /\ Len(data_ring) \in Nat
       /\ Len(freed) \in Nat /\ Len(bufs) \in Nat
  BY <1>4, LenProperties
<1>11. TypeOK /\ Custody /\ IsFiniteSet(ControlThrough)
  BY DEF SegregationInv
<1>12. TypeOK'
  BY <1>1, <1>7, <1>9, <1>11 DEF TypeOK, Usable
<1>13. Range(Through') = Range(Through)
  BY <1>1, <1>6, <1>8, <1>9, <1>11, <1>12, PlacesNow, PlacesNext DEF r
<1>14. Range(Everywhere') = Range(Everywhere)
  BY <1>1, <1>6, <1>8, <1>9, <1>11, <1>12, PlacesNow, PlacesNext DEF r
<1>15. Len(Through') = Len(Through) /\ Len(Everywhere') = Len(Everywhere)
  <2>1. Len(Through') = (Len(sent) + k) + (Len(forgotten) + (Len(r) - k)) + 0 + Len(data_ring)
    BY <1>1, <1>8, <1>9, <1>12, PlacesNext
  <2>2. Len(Everywhere') = (Len(sent) + k) + (Len(forgotten) + (Len(r) - k)) + Len(freed) + 0
                             + Len(data_ring) + Len(bufs)
    BY <1>1, <1>8, <1>9, <1>12, PlacesNext
  <2>3. k \in Nat
    BY <1>2, <1>3
  <2>4. /\ Len(Through) = Len(sent) + Len(forgotten) + Len(control_ring) + Len(data_ring)
        /\ Len(Everywhere) = Len(sent) + Len(forgotten) + Len(freed) + Len(control_ring)
                               + Len(data_ring) + Len(bufs)
    BY <1>11, PlacesNow
  <2>. QED  BY <1>2, <1>10, <2>1, <2>2, <2>3, <2>4
<1>16. ControlThrough' = ControlThrough
  BY <1>13 DEF ControlThrough
<1>17. Custody'
  BY <1>1, <1>11, <1>14, <1>15, <1>16 DEF Custody
<1>18. Flow'
  BY <1>1, <1>2, <1>3, <1>9, <1>10 DEF SegregationInv, Flow, RingsEmptyAtLoopHead, r
<1>19. Numbering'
  BY <1>1, <1>13 DEF SegregationInv, Numbering
<1>20. OnlyControlOvertakes'
  <2> HIDE DEF r
  <2>1. Ordered(sent) /\ Ascending(r)
    BY DEF SegregationInv, OnlyControlOvertakes, Ordered, MayPrecede, RingOrder, r
  <2>2. Ordered(Taken(r, k))
    BY <1>2, <1>3, <2>1, AscendingOrdered
  <2>3. \A p \in Range(sent), q \in Range(Taken(r, k)) : MayPrecede(p, q)
    <3>1. \A p \in Range(sent), q \in Range(r) : p \in Packet /\ q \in Packet /\ p.id < q.id
      BY <1>4, RangeFacts DEF SegregationInv, RingOrder, r
    <3>2. \A p \in Range(sent), q \in Range(Taken(r, k)) : MayPrecede(p, q)
      BY <1>6, <3>1 DEF MayPrecede, Packet
    <3>. QED  BY <3>2
  <2>4. Ordered(sent')
    BY <1>3, <1>4, <1>5, <2>1, <2>2, <2>3, OrderedConcat
  <2>. QED  BY <2>4 DEF OnlyControlOvertakes, Ordered, MayPrecede
<1>21. RingOrder'
  BY <1>1, <1>6, <1>8, <1>9 DEF SegregationInv, RingOrder, Ascending, r
<1>. QED  BY <1>11, <1>12, <1>16, <1>17, <1>18, <1>19, <1>20, <1>21 DEF SegregationInv

\* The data ring is drained, behind the control packets of this round.
LEMMA DrainDataInv ==
  ASSUME SegregationInv, NEW k \in 0..BURST_SIZE, DrainData(k)
  PROVE  SegregationInv'
<1> USE SegregationAssumption
<1> DEFINE r == data_ring
<1>1. /\ pc = "data" /\ pc' = "rx"
      /\ UNCHANGED <<ring_size, bufs, control_ring, control_count, data_count, accepted, freed>>
  BY DEF DrainData, counters
<1>2. r \in Seq(Packet) /\ Len(r) \in Nat /\ Len(r) <= BURST_SIZE
  <2>1. /\ bufs \in Seq(Packet) /\ control_ring \in Seq(Packet) /\ data_ring \in Seq(Packet)
        /\ Len(bufs) + Len(control_ring) + Len(data_ring) <= BURST_SIZE
    BY DEF SegregationInv, TypeOK, Flow
  <2>2. Len(bufs) \in Nat /\ Len(control_ring) \in Nat /\ Len(data_ring) \in Nat
    BY <2>1, LenProperties
  <2>. QED  BY <2>1, <2>2
<1>3. /\ k \in 0..Len(r) /\ sent' = sent \o Taken(r, k)
      /\ forgotten' = forgotten \o Rest(r, k) /\ data_ring' = <<>>
  <2>1. DequeueCount(r, BURST_SIZE) = Len(r) /\ Taken(r, Len(r)) = r /\ Rest(r, Len(r)) = <<>>
    BY <1>2, DrainAll
  <2>. QED  BY <1>2, <2>1 DEF DrainData, Transmit
<1>4. /\ sent \in Seq(Packet) /\ forgotten \in Seq(Packet) /\ freed \in Seq(Packet)
      /\ control_ring \in Seq(Packet) /\ bufs \in Seq(Packet) /\ r \in Seq(Packet)
  BY <1>2 DEF SegregationInv, TypeOK
<1>5. Taken(r, k) \in Seq(Packet) /\ Rest(r, k) \in Seq(Packet)
  BY <1>2, <1>3, Split
<1>6. Range(r) = Range(Taken(r, k)) \union Range(Rest(r, k))
  BY <1>2, <1>3, RangeFacts
<1>7. sent' \in Seq(Packet) /\ forgotten' \in Seq(Packet)
  BY <1>3, <1>4, <1>5, Join
<1>8. /\ Len(sent') = Len(sent) + k /\ Len(forgotten') = Len(forgotten) + (Len(r) - k)
      /\ Range(sent') = Range(sent) \union Range(Taken(r, k))
      /\ Range(forgotten') = Range(forgotten) \union Range(Rest(r, k))
  <2>1. Len(Taken(r, k)) = k /\ Len(Rest(r, k)) = Len(r) - k
    BY <1>2, <1>3, Split
  <2>2. /\ Len(sent \o Taken(r, k)) = Len(sent) + Len(Taken(r, k))
        /\ Range(sent \o Taken(r, k)) = Range(sent) \union Range(Taken(r, k))
    BY <1>4, <1>5, Join
  <2>3. /\ Len(forgotten \o Rest(r, k)) = Len(forgotten) + Len(Rest(r, k))
        /\ Range(forgotten \o Rest(r, k)) = Range(forgotten) \union Range(Rest(r, k))
    BY <1>4, <1>5, Join
  <2>. QED  BY <1>3, <2>1, <2>2, <2>3
<1>9. data_ring' \in Seq(Packet) /\ Len(data_ring') = 0 /\ Range(data_ring') = {} /\ DOMAIN data_ring' = {}
  <2>1. <<>> \in Seq(Packet) /\ Len(<<>>) = 0 /\ Range(<<>>) = {} /\ DOMAIN <<>> = {}
    BY DEF Range
  <2>. QED  BY <1>3, <2>1
<1>10. /\ Len(sent) \in Nat /\ Len(forgotten) \in Nat /\ Len(control_ring) \in Nat
       /\ Len(freed) \in Nat /\ Len(bufs) \in Nat
  BY <1>4, LenProperties
<1>11. TypeOK /\ Custody /\ IsFiniteSet(ControlThrough)
  BY DEF SegregationInv
<1>12. TypeOK'
  BY <1>1, <1>7, <1>9, <1>11 DEF TypeOK, Usable
<1>13. Range(Through') = Range(Through)
  BY <1>1, <1>6, <1>8, <1>9, <1>11, <1>12, PlacesNow, PlacesNext DEF r
<1>14. Range(Everywhere') = Range(Everywhere)
  BY <1>1, <1>6, <1>8, <1>9, <1>11, <1>12, PlacesNow, PlacesNext DEF r
<1>15. Len(Through') = Len(Through) /\ Len(Everywhere') = Len(Everywhere)
  <2>1. Len(Through') = (Len(sent) + k) + (Len(forgotten) + (Len(r) - k)) + Len(control_ring) + 0
    BY <1>1, <1>8, <1>9, <1>12, PlacesNext
  <2>2. Len(Everywhere') = (Len(sent) + k) + (Len(forgotten) + (Len(r) - k)) + Len(freed) + Len(control_ring)
                             + 0 + Len(bufs)
    BY <1>1, <1>8, <1>9, <1>12, PlacesNext
  <2>3. k \in Nat
    BY <1>2, <1>3
  <2>4. /\ Len(Through) = Len(sent) + Len(forgotten) + Len(control_ring) + Len(data_ring)
        /\ Len(Everywhere) = Len(sent) + Len(forgotten) + Len(freed) + Len(control_ring)
                               + Len(data_ring) + Len(bufs)
    BY <1>11, PlacesNow
  <2>. QED  BY <1>2, <1>10, <2>1, <2>2, <2>3, <2>4
<1>16. ControlThrough' = ControlThrough
  BY <1>13 DEF ControlThrough
<1>17. Custody'
  BY <1>1, <1>11, <1>14, <1>15, <1>16 DEF Custody
<1>18. Flow'
  BY <1>1, <1>2, <1>3, <1>9, <1>10 DEF SegregationInv, Flow, RingsEmptyAtLoopHead, r
<1>19. Numbering'
  BY <1>1, <1>13 DEF SegregationInv, Numbering
<1>20. OnlyControlOvertakes'
  <2> HIDE DEF r
  <2>1. Ordered(sent) /\ Ascending(r)
    BY DEF SegregationInv, OnlyControlOvertakes, Ordered, MayPrecede, RingOrder, r
  <2>2. Ordered(Taken(r, k))
    BY <1>2, <1>3, <2>1, AscendingOrdered
  <2>3. \A p \in Range(sent), q \in Range(Taken(r, k)) : MayPrecede(p, q)
    <3>1. \A p \in Range(sent), q \in Range(r) : p \in Packet /\ q \in Packet /\ (p.id < q.id \/ classify_packet(p.frame))
                                                /\ ~classify_packet(q.frame)
      BY <1>4, RangeFacts DEF SegregationInv, RingOrder, r
    <3>2. \A p \in Range(sent), q \in Range(Taken(r, k)) : MayPrecede(p, q)
      BY <1>6, <3>1 DEF MayPrecede, Packet
    <3>. QED  BY <3>2
  <2>4. Ordered(sent')
    BY <1>3, <1>4, <1>5, <2>1, <2>2, <2>3, OrderedConcat
  <2>. QED  BY <2>4 DEF OnlyControlOvertakes, Ordered, MayPrecede
<1>21. RingOrder'
  BY <1>1, <1>6, <1>8, <1>9 DEF SegregationInv, RingOrder, Ascending, Flow, r
<1>. QED  BY <1>11, <1>12, <1>16, <1>17, <1>18, <1>19, <1>20, <1>21 DEF SegregationInv

\* Every part of the loop preserves the invariant.
LEMMA NextInv == SegregationInv /\ [Next]_vars => SegregationInv'
<1> SUFFICES ASSUME SegregationInv, [Next]_vars PROVE SegregationInv'
  OBVIOUS
<1>1. CASE Setup \/ UNCHANGED vars
  <2>1. /\ UNCHANGED <<ring_size, bufs, control_ring, data_ring, control_count, data_count,
                       accepted, sent, freed, forgotten>>
        /\ pc' = pc \/ (pc = "setup" /\ pc' \in {"rx", "exited"})
    BY <1>1 DEF Setup, vars, queues, counters
  <2>2. Through' = Through /\ Everywhere' = Everywhere
    BY <2>1 DEF Through, Everywhere
  <2>3. ControlThrough' = ControlThrough
    BY <2>2 DEF ControlThrough
  <2>4. TypeOK' /\ Flow'
    BY <2>1 DEF SegregationInv, TypeOK, Flow, RingsEmptyAtLoopHead
  <2>5. Numbering' /\ Custody'
    BY <2>1, <2>2, <2>3 DEF SegregationInv, Numbering, Custody
  <2>6. RingOrder' /\ OnlyControlOvertakes'
    BY <2>1 DEF SegregationInv, RingOrder, Ascending, OnlyControlOvertakes
  <2>. QED  BY <2>3, <2>4, <2>5, <2>6 DEF SegregationInv
<1>2. CASE Exited
  BY <1>1, <1>2 DEF Exited
<1>. QED
  BY <1>1, <1>2, EnqueueControlInv, EnqueueDataInv, ReceiveInv, DrainControlInv, DrainDataInv
  DEF Next

-----------------------------------------------------------------------------
(* Facts about the classifier *)

\* Every header classify_packet dereferences lies within the packet's data.
LEMMA HeadersWithin ==
  ASSUME NEW f \in FrameType, NEW end \in HeadersRead(f)
  PROVE  end <= f.data_len
<1> DEFINE l3 == L2Complete(f) /\ L3Type(f) = "ipv4" /\ L3Complete(f)
<1>1. f.data_len \in Nat /\ f.ihl \in Nat
  BY DEF FrameType
<1>2. CASE f.data_len >= ETHER_HDR /\ end = ETHER_HDR
  BY <1>1, <1>2 DEF ETHER_HDR
<1>3. CASE L2Complete(f) /\ end = L3Offset(f)
  BY <1>1, <1>3 DEF L2Complete, L3Offset, ETHER_HDR, VLAN_HDR
<1>4. CASE L3Complete(f) /\ end = L3Offset(f) + IPV4_HDR
  BY <1>1, <1>4 DEF L3Complete, L3Offset, IPV4_HDR, ETHER_HDR, VLAN_HDR
<1>5. CASE f.proto = UDP /\ L4Complete(f) /\ end = L4Offset(f) + UDP_HDR
  BY <1>1, <1>5 DEF L4Complete, L4Offset, L3Offset, UDP_HDR, ETHER_HDR, VLAN_HDR
<1>6. CASE f.proto = TCP /\ L4Complete(f) /\ end = L4Offset(f) + TCP_HDR
  BY <1>1, <1>6 DEF L4Complete, L4Offset, L3Offset, TCP_HDR, TCP, UDP, ETHER_HDR, VLAN_HDR
<1>7. \/ f.data_len >= ETHER_HDR /\ end = ETHER_HDR
      \/ L2Complete(f) /\ end = L3Offset(f)
      \/ l3 /\ end = L3Offset(f) + IPV4_HDR
      \/ l3 /\ f.proto = UDP /\ L4Complete(f) /\ end = L4Offset(f) + UDP_HDR
      \/ l3 /\ f.proto = TCP /\ L4Complete(f) /\ end = L4Offset(f) + TCP_HDR
  BY Zenon DEF HeadersRead
<1>. QED  BY <1>2, <1>3, <1>4, <1>5, <1>6, <1>7

\* A tag shifts every offset and the length alike, so no check changes.
LEMMA TagShifts ==
  ASSUME NEW f \in FrameType, f.ether_type # "vlan", f.data_len >= ETHER_HDR
  PROVE  classify_packet(Tagged(f)) = classify_packet(f)
<1> DEFINE g == Tagged(f)
<1>1. /\ g.ether_type = "vlan" /\ g.eth_proto = f.ether_type /\ g.data_len = f.data_len + 4
      /\ g.ihl = f.ihl /\ g.proto = f.proto /\ g.dst_port = f.dst_port
      /\ f.data_len \in Nat /\ f.ihl \in Nat /\ f.data_len >= 14
  BY DEF Tagged, FrameType, VLAN_HDR, ETHER_HDR
<1> HIDE DEF g
<1>2. L3Type(g) = L3Type(f) /\ L3Offset(g) = 18 /\ L3Offset(f) = 14
  BY <1>1 DEF L3Type, L3Offset, ETHER_HDR, VLAN_HDR
<1>3. L2Complete(g) /\ L2Complete(f)
  BY <1>1 DEF L2Complete, ETHER_HDR, VLAN_HDR
<1>4. L3Complete(g) <=> L3Complete(f)
  BY <1>1, <1>2 DEF L3Complete, IPV4_HDR
<1>5. L4Complete(g) <=> L4Complete(f)
  BY <1>1, <1>2 DEF L4Complete, L4Offset, UDP_HDR, TCP_HDR
<1>. QED  BY <1>1, <1>2, <1>3, <1>4, <1>5 DEF classify_packet, g

-----------------------------------------------------------------------------
(* Theorems *)

\* The invariant holds in every behaviour of the loop.
THEOREM SegregationInvariant == Spec => []SegregationInv
<1>. QED  BY InitInv, NextInv, PTL DEF Spec

\* Types; in particular neither ring is ever overfilled.
THEOREM SegregationTypeCorrect == Spec => []TypeOK
<1>1. SegregationInv => TypeOK
  BY DEF SegregationInv
<1>. QED  BY <1>1, SegregationInvariant, PTL

\* Every received mbuf has exactly one owner, and the counters count what went
\* through each ring.
THEOREM SegregationCustody == Spec => []Custody
<1>1. SegregationInv => Custody
  BY DEF SegregationInv
<1>. QED  BY <1>1, SegregationInvariant, PTL

\* The two drains of an iteration empty both rings, for every burst size.
THEOREM SegregationLeavesNothing == Spec => []RingsEmptyAtLoopHead
<1>1. SegregationInv => RingsEmptyAtLoopHead
  BY DEF SegregationInv, Flow
<1>. QED  BY <1>1, SegregationInvariant, PTL

\* The only reordering is a control packet passing earlier data packets.
THEOREM SegregationOrder == Spec => []OnlyControlOvertakes
<1>1. SegregationInv => OnlyControlOvertakes
  BY DEF SegregationInv
<1>. QED  BY <1>1, SegregationInvariant, PTL

\* The classifier never reads behind the data of a packet, for all frames.
THEOREM ClassifierReadsInBounds == Spec => []ReadsInBounds
<1>1. ReadBehind = {}
  BY SegregationAssumption, HeadersWithin DEF ReadBehind
<1>2. ReadsInBounds
  BY <1>1 DEF ReadsInBounds
<1>. QED  BY <1>2, PTL

\* A VLAN tag in front of the layer-3 header never changes the verdict.
THEOREM ClassifierVlanTransparent == Spec => []VlanTransparent
<1>1. ChangedByTag = {}
  BY SegregationAssumption, TagShifts DEF ChangedByTag
<1>2. VlanTransparent
  BY <1>1 DEF VlanTransparent
<1>. QED  BY <1>2, PTL
=============================================================================
