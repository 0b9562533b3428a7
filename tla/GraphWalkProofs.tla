-------------------------- MODULE GraphWalkProofs --------------------------
(***************************************************************************)
(* Safety of the graph applications for all pool and burst sizes.          *)
(***************************************************************************)
EXTENDS GraphWalk, TLAPS, SequenceTheorems, FunctionTheorems, FiniteSetTheorems

-----------------------------------------------------------------------------
(* The list of pending nodes *)

\* Range as in the module Functions.
LEMMA ListRange ==
  ASSUME NEW S, NEW s \in Seq(S), NEW t \in Seq(S)
  PROVE  /\ Range(s) \subseteq S
         /\ Range(s \o t) = Range(s) \cup Range(t)
BY RangeOfSeq, RangeConcatenation DEF Range

LEMMA OneNode ==
  ASSUME NEW S, NEW e \in S
  PROVE  <<e>> \in Seq(S) /\ Range(<<e>>) = {e}
<1>1. <<e>> \in Seq(S) /\ DOMAIN <<e>> = {1} /\ <<e>>[1] = e
  OBVIOUS
<1>2. Range(<<e>>) = {<<e>>[x] : x \in {1}}
  BY <1>1, Zenon DEF Range
<1>. QED  BY <1>1, <1>2

\* A node put on the list is the only new one.
LEMMA AppendNode ==
  ASSUME NEW S, NEW s \in Seq(S), NEW e \in S
  PROVE  Append(s, e) \in Seq(S) /\ Range(Append(s, e)) = Range(s) \cup {e}
<1>1. Append(s, e) = s \o <<e>> /\ Append(s, e) \in Seq(S)
  BY AppendIsConcat, AppendProperties
<1>2. <<e>> \in Seq(S) /\ Range(<<e>>) = {e}
  BY OneNode
<1>3. PICK o \in Seq(S) : o = <<e>>
  BY <1>2
<1>4. Range(s \o o) = Range(s) \cup Range(o)
  BY ListRange
<1>. QED  BY <1>1, <1>2, <1>3, <1>4

\* The nodes of a list are its first one and those after it.
LEMMA TailNodes ==
  ASSUME NEW S, NEW s \in Seq(S), s # <<>>
  PROVE  /\ Head(s) \in S /\ Tail(s) \in Seq(S)
         /\ Range(s) = {Head(s)} \cup Range(Tail(s))
<1>1. Head(s) \in S /\ Tail(s) \in Seq(S)
  BY HeadTailProperties
<1>2. <<Head(s)>> \in Seq(S) /\ Range(<<Head(s)>>) = {Head(s)}
  BY <1>1, OneNode
<1>3. s = <<Head(s)>> \o Tail(s)
  BY <1>1
<1>4. PICK h \in Seq(S), t \in Seq(S) : h = <<Head(s)>> /\ t = Tail(s)
  BY <1>1, <1>2
<1>5. Range(h \o t) = Range(h) \cup Range(t)
  BY ListRange
<1>. QED  BY <1>1, <1>2, <1>3, <1>4, <1>5

-----------------------------------------------------------------------------
(* feature_arc/graph_arc *)

\* The nodes that were visited or will be in this walk.
Due == Range(pending) \cup visited

Enabled(n) == /\ n = "dummy"  => feature[1] = 1
              /\ n = "dummy2" => feature[2] = 1

\* The sinks that the flags select for certain.
Selected(D) == /\ feature \in {<<1, 0>>, <<1, 1>>} => "dummy" \in D
               /\ feature = <<0, 1>> => "dummy2" \in D

\* Once hello was visited, a sink that must run is due; the flags are never
\* given up.  The helper runs with both flags set only, and the application
\* quits only if no flag selects a sink.
ArcDue ==
  /\ \A n \in Due : Enabled(n)
  /\ count = 0 => Due \subseteq {"hello"} /\ helper # "launched"
  /\ count > 0 => Selected(Due)
  /\ helper = "launched" => feature = <<1, 1>>
  /\ quit => feature \notin {<<1, 0>>, <<0, 1>>, <<1, 1>>}

\* The walk ends with an empty list, and the loop after hello has run.
ArcControl ==
  /\ pc \in {"setup", "loop", "ended"} => pending = <<>>
  /\ pc = "ended" => quit \/ count > 0

\* Nothing but empty bursts is enqueued.
ArcType == /\ count \in Nat
           /\ pending \in Seq(Nodes)
           /\ stream = [n \in Nodes |-> <<>>]

ArcInv == app = "graph_arc" => ArcType /\ ArcDue /\ ArcControl

\* What a visit of n, with an enqueue of nothing to m or without one, does
\* to the list of nodes.
LEMMA ArcVisit ==
  ASSUME ArcInv, NEW n \in Nodes, Visit("graph_arc", n)
  PROVE  /\ pc = "walk" /\ pc' = "walk" /\ app' = "graph_arc" /\ feature' = feature
         /\ n \in Range(pending) /\ visited' = visited \cup {n}
         /\ Become(Left(n)) => /\ pending' \in Seq(Nodes) /\ stream' = stream
                               /\ Range(pending') \cup visited' = Due
         /\ \A m \in Nodes : Become(Enqueue(Left(n), m, <<>>)) =>
              /\ pending' \in Seq(Nodes) /\ stream' = stream
              /\ Range(pending') \cup visited' = Due \cup {m}
<1>1. /\ app = "graph_arc" /\ pc = "walk" /\ pc' = pc /\ app' = app /\ feature' = feature
      /\ pending # <<>> /\ Head(pending) = n /\ visited' = visited \cup {n}
  BY DEF Visit
<1>2. pending \in Seq(Nodes) /\ stream = [k \in Nodes |-> <<>>]
  BY <1>1 DEF ArcInv, ArcType
<1>3. Tail(pending) \in Seq(Nodes) /\ Range(pending) = {n} \cup Range(Tail(pending))
  BY <1>1, <1>2, TailNodes
<1>4. [stream EXCEPT ![n] = <<>>] = stream
  BY <1>2
<1>5. Left(n).pending = Tail(pending) /\ Left(n).stream = stream
  BY <1>4 DEF Left
<1>6. ASSUME Become(Left(n))
      PROVE  /\ pending' \in Seq(Nodes) /\ stream' = stream /\ Range(pending') \cup visited' = Due
  <2>1. pending' = Tail(pending) /\ stream' = stream
    BY <1>5, <1>6 DEF Become
  <2>. QED  BY <1>1, <1>3, <2>1 DEF Due
<1>7. ASSUME NEW m \in Nodes, Become(Enqueue(Left(n), m, <<>>))
      PROVE  /\ pending' \in Seq(Nodes) /\ stream' = stream
             /\ Range(pending') \cup visited' = Due \cup {m}
  <2>1. stream[m] = <<>> /\ [stream EXCEPT ![m] = @ \o <<>>] = stream
    BY <1>2, ConcatEmptySeq
  <2>2. pending' = Append(Tail(pending), m) /\ stream' = stream
    BY <1>5, <1>7, <2>1 DEF Become, Enqueue
  <2>3. pending' \in Seq(Nodes) /\ Range(pending') = Range(Tail(pending)) \cup {m}
    <3>1. PICK t : t = Tail(pending)
      OBVIOUS
    <3>2. t \in Seq(Nodes) /\ pending' = Append(t, m)
      BY <1>3, <2>2, <3>1
    <3>3. Append(t, m) \in Seq(Nodes) /\ Range(Append(t, m)) = Range(t) \cup {m}
      BY <3>2, AppendNode
    <3>. QED  BY <3>1, <3>2, <3>3
  <2>. QED  BY <1>1, <1>3, <2>2, <2>3 DEF Due
<1>. QED  BY <1>1, <1>3, <1>6, <1>7

LEMMA ArcInit == Init => ArcInv
<1> SUFFICES ASSUME Init, app = "graph_arc" PROVE ArcType /\ ArcDue /\ ArcControl
  BY DEF ArcInv
<1>1. ArcType
  BY DEF Init, ArcType
<1>2. Range(pending) = {}
  BY DEF Init, Range
<1>3. ArcDue
  BY <1>2 DEF Init, ArcDue, Due
<1>4. ArcControl
  BY DEF Init, ArcControl
<1>. QED  BY <1>1, <1>3, <1>4

\* The visit of a sink or of hello.
LEMMA ArcNode ==
  ASSUME ArcInv, app = "graph_arc", ArcHello \/ \E n \in {"dummy", "dummy2"} : ArcDummy(n)
  PROVE  ArcInv'
<1>i. ArcType /\ ArcDue /\ ArcControl /\ count \in Nat
  BY DEF ArcInv, ArcType
<1>1. ASSUME NEW n \in {"dummy", "dummy2"}, ArcDummy(n) PROVE ArcInv'
  <2>1. n \in Nodes /\ Visit("graph_arc", n) /\ Become(Left(n))
    BY <1>1 DEF ArcDummy, Nodes
  <2>2. /\ pc' = "walk" /\ app' = "graph_arc" /\ feature' = feature /\ n \in Due
        /\ pending' \in Seq(Nodes) /\ stream' = stream /\ Due' = Due
    BY <2>1, ArcVisit DEF Due
  <2>3. count' = count + 1 /\ UNCHANGED <<quit, helper>>
    BY <1>1 DEF ArcDummy
  <2>4. ArcType'
    BY <1>i, <2>2, <2>3 DEF ArcType
  <2>5. ArcDue'
    <3>1. \A m \in Due' : Enabled(m)'
      BY <1>i, <2>2 DEF ArcDue, Enabled
    <3>2. count # 0
      BY <1>i, <1>1, <2>2 DEF ArcDue
    <3>3. Selected(Due)
      BY <1>i, <3>2 DEF ArcDue
    <3>4. Selected(Due)'
      BY <2>2, <3>3 DEF Selected
    <3>5. count' # 0
      BY <1>i, <2>3
    <3>. QED  BY <1>i, <2>2, <2>3, <3>1, <3>4, <3>5 DEF ArcDue
  <2>6. ArcControl'
    BY <2>2 DEF ArcControl
  <2>. QED  BY <2>4, <2>5, <2>6 DEF ArcInv
<1>2. CASE ArcHello
  <2>1. "hello" \in Nodes /\ "dummy" \in Nodes /\ "dummy2" \in Nodes /\ Visit("graph_arc", "hello")
    BY <1>2 DEF ArcHello, Nodes
  <2>2. /\ pc' = "walk" /\ app' = "graph_arc" /\ feature' = feature
        /\ Become(Left("hello")) => /\ pending' \in Seq(Nodes) /\ stream' = stream
                                    /\ Due' = Due
        /\ \A m \in Nodes : Become(Enqueue(Left("hello"), m, <<>>)) =>
             pending' \in Seq(Nodes) /\ stream' = stream /\ Due' = Due \cup {m}
    BY <2>1, ArcVisit DEF Due
  <2>3. count' = count + 1 /\ count' # 0
    BY <1>2, <1>i DEF ArcHello
  <2>4. ArcControl'
    BY <2>2 DEF ArcControl
  <2>5. ASSUME ArcType', ArcDue' PROVE ArcInv'
    BY <2>4, <2>5 DEF ArcInv
  <2>6. ASSUME NEW m \in Nodes, Become(Enqueue(Left("hello"), m, <<>>)), Enabled(m),
               Selected(Due \cup {m}), helper' = "launched" => feature = <<1, 1>>,
               UNCHANGED quit
        PROVE  ArcInv'
    <3>1. pending' \in Seq(Nodes) /\ stream' = stream /\ Due' = Due \cup {m}
      BY <2>2, <2>6
    <3>2. ArcType'
      BY <1>i, <2>3, <3>1 DEF ArcType
    <3>3. \A x \in Due' : Enabled(x)'
      BY <1>i, <2>2, <2>6, <3>1 DEF ArcDue, Enabled
    <3>4. Selected(Due)'
      BY <2>2, <2>6, <3>1 DEF Selected
    <3>5. ArcDue'
      BY <1>i, <2>2, <2>3, <2>6, <3>3, <3>4 DEF ArcDue
    <3>. QED  BY <2>5, <3>2, <3>5
  <2>7. CASE /\ feature \in {<<1, 0>>, <<0, 1>>}
             /\ Become(Enqueue(Left("hello"), IF feature = <<1, 0>> THEN "dummy" ELSE "dummy2", <<>>))
             /\ UNCHANGED <<quit, helper>>
    <3>1. CASE feature = <<1, 0>>
      BY <1>i, <2>1, <2>6, <2>7, <3>1 DEF Enabled, Selected, ArcDue
    <3>2. CASE feature = <<0, 1>>
      BY <1>i, <2>1, <2>6, <2>7, <3>2 DEF Enabled, Selected, ArcDue
    <3>. QED  BY <2>7, <3>1, <3>2
  <2>8. CASE /\ feature = <<1, 1>>
             /\ Become(Enqueue(Left("hello"), "dummy", <<>>))
             /\ helper' \in {"launched", "none"}
             /\ UNCHANGED quit
    BY <1>i, <2>1, <2>6, <2>8 DEF Enabled, Selected
  <2>9. CASE /\ feature \notin {<<1, 0>>, <<0, 1>>, <<1, 1>>}
             /\ Become(Left("hello"))
             /\ quit' = TRUE
             /\ UNCHANGED helper
    <3>1. pending' \in Seq(Nodes) /\ stream' = stream /\ Due' = Due
      BY <2>2, <2>9
    <3>2. ArcType'
      BY <1>i, <2>3, <3>1 DEF ArcType
    <3>3. \A x \in Due' : Enabled(x)'
      BY <1>i, <2>2, <3>1 DEF ArcDue, Enabled
    <3>4. ArcDue'
      BY <1>i, <2>2, <2>3, <2>9, <3>3 DEF ArcDue, Selected
    <3>. QED  BY <2>5, <3>2, <3>4
  <2>. QED  BY <1>2, <2>7, <2>8, <2>9 DEF ArcHello
<1>. QED  BY <1>1, <1>2

\* A process function runs in its own application only.
LEMMA ArcNodesOnly ==
  ASSUME NodeStep, app = "graph_arc"
  PROVE  ArcHello \/ \E n \in {"dummy", "dummy2"} : ArcDummy(n)
<1>1. ASSUME NEW n, PipelineRx(n) \/ RxDropRx(n) \/ PipelineTx(n) \/ RxDropTx(n) PROVE FALSE
  BY <1>1 DEF PipelineRx, RxDropRx, PipelineTx, RxDropTx, RxNode, Visit
<1>2. ~(L2Node \/ Ipv4Node \/ Ipv6Node \/ PipelineDrop \/ RxDropIpv4 \/ RxDropDrop)
  BY DEF L2Node, Ipv4Node, Ipv6Node, PipelineDrop, RxDropIpv4, RxDropDrop, ToTx, FreeAll, Visit
<1>3. ~(Start1 \/ Start2 \/ Worker \/ NumberSource1 \/ NumberSource2 \/ Work1 \/ Work2)
  BY DEF Start1, Start2, Start, Worker, FreeAll, NumberSource1, NumberSource2, NumberSource,
         Work1, Work2, NumberWorker, Visit
<1>4. ~(SampleHello \/ SampleDummy \/ SchedHello \/ \E n \in {"dummy", "dummy2"} : SchedDummy(n))
  BY DEF SampleHello, SampleDummy, SchedHello, SchedDummy, Visit
<1>. QED  BY <1>1, <1>2, <1>3, <1>4 DEF NodeStep

LEMMA AppKept == [Next]_vars => app' = app
<1> SUFFICES ASSUME [Next]_vars PROVE app' = app
  OBVIOUS
<1>1. CASE NodeStep
  BY <1>1 DEF NodeStep, PipelineRx, RxDropRx, PipelineTx, RxDropTx, RxNode, Visit, L2Node, Ipv4Node,
     Ipv6Node, PipelineDrop, RxDropIpv4, RxDropDrop, ToTx, FreeAll, Start1, Start2, Start, Worker,
     NumberSource1, NumberSource2, NumberSource, Work1, Work2, NumberWorker, SampleHello,
     SampleDummy, SchedHello, SchedDummy, ArcHello, ArcDummy
<1>2. CASE Setup \/ StartWalk \/ EndWalk \/ Leave \/ signal_handler \/ helper_run \/ UNCHANGED vars
  BY <1>2 DEF Setup, StartWalk, EndWalk, Leave, signal_handler, helper_run, vars
<1>. QED  BY <1>1, <1>2 DEF Next, MainStep, Ended

LEMMA ArcStep == ArcInv /\ [Next]_vars => ArcInv'
<1> SUFFICES ASSUME ArcInv, [Next]_vars, app = "graph_arc" PROVE ArcInv'
  BY AppKept DEF ArcInv
<1>i. ArcType /\ ArcDue /\ ArcControl /\ count \in Nat /\ pending \in Seq(Nodes)
  BY DEF ArcInv, ArcType
<1>a. app' = "graph_arc"
  BY AppKept
<1>1. CASE NodeStep
  BY <1>1, ArcNodesOnly, ArcNode
<1>2. ASSUME UNCHANGED <<count, stream, feature, visited, helper, quit>>,
             pending' = pending \/ (pending' = <<"hello">> /\ pending = <<>>),
             ArcControl'
      PROVE  ArcInv'
  <2>1. Range(<<"hello">>) = {"hello"} /\ <<"hello">> \in Seq(Nodes) /\ Range(<<>>) = {}
    <3>1. "hello" \in Nodes
      BY DEF Nodes
    <3>. QED  BY <3>1, OneNode DEF Range
  <2>2. Due' \subseteq Due \cup {"hello"} /\ Due \subseteq Due'
    BY <1>2, <2>1 DEF Due
  <2>3. \A n \in Due' : Enabled(n)'
    BY <1>i, <1>2, <2>2 DEF ArcDue, Enabled
  <2>4. Selected(Due) => Selected(Due)'
    BY <1>2, <2>2 DEF Selected
  <2>5. ArcDue'
    BY <1>i, <1>2, <2>2, <2>3, <2>4 DEF ArcDue
  <2>6. ArcType'
    BY <1>i, <1>2, <2>1 DEF ArcType
  <2>. QED  BY <1>2, <2>5, <2>6 DEF ArcInv
<1>3. CASE Setup
  <2>1. pc = "setup" /\ UNCHANGED <<count, stream, feature, visited, helper, quit, pending>>
        /\ pc' \in {"loop", "exited"}
    BY <1>3 DEF Setup, graphVars
  <2>2. ArcControl'
    BY <1>i, <2>1 DEF ArcControl
  <2>. QED  BY <1>2, <2>1, <2>2
<1>4. CASE StartWalk
  <2>1. pc = "loop" /\ UNCHANGED <<count, stream, feature, visited, helper, quit>>
        /\ pc' = "walk" /\ pending' = <<"hello">>
    BY <1>4 DEF StartWalk, Sources
  <2>2. ArcControl' /\ pending = <<>>
    BY <1>i, <2>1 DEF ArcControl
  <2>. QED  BY <1>2, <2>1, <2>2
<1>5. CASE EndWalk
  <2>1. pending = <<>> /\ UNCHANGED <<count, stream, feature, visited, helper, quit, pending>>
        /\ pc' = "loop"
    BY <1>5 DEF EndWalk, graphVars
  <2>2. ArcControl'
    BY <2>1 DEF ArcControl
  <2>. QED  BY <1>2, <2>1, <2>2
<1>6. CASE Leave
  <2>1. pc = "loop" /\ UNCHANGED <<count, stream, feature, visited, helper, quit, pending>>
        /\ pc' = "ended" /\ ~MayWalk
    BY <1>6 DEF Leave, graphVars
  <2>2. quit \/ count > 0
    <3>1. "graph_arc" \in DOMAIN Limit /\ Limit["graph_arc"] = 1
      BY DEF Limit
    <3>2. quit \/ ~(count < 1)
      BY <2>1, <3>1 DEF MayWalk
    <3>. QED  BY <1>i, <3>2
  <2>3. ArcControl'
    BY <1>i, <2>1, <2>2 DEF ArcControl
  <2>. QED  BY <1>2, <2>1, <2>3
<1>7. CASE signal_handler
  BY <1>7 DEF signal_handler
<1>8. CASE helper_run
  <2>1. /\ helper = "launched" /\ helper' = "done" /\ pc \in {"loop", "walk", "ended"}
        /\ UNCHANGED <<count, quit, feature, visited>>
    BY <1>8 DEF helper_run
  <2>2. feature = <<1, 1>> /\ count # 0 /\ ~quit
    BY <1>i, <2>1 DEF ArcDue
  <2>3. CASE pc' \in {pc, "crashed"} /\ UNCHANGED graphVars
    <3>1. UNCHANGED <<pending, stream>> /\ Due' = Due
      BY <2>1, <2>3 DEF graphVars, Due
    <3>2. ArcControl'
      BY <1>i, <2>1, <2>3, <3>1 DEF ArcControl
    <3>3. ArcDue'
      BY <1>i, <2>1, <2>2, <3>1 DEF ArcDue, Enabled, Selected
    <3>4. ArcType'
      BY <1>i, <2>1, <3>1 DEF ArcType
    <3>. QED  BY <3>2, <3>3, <3>4 DEF ArcInv
  <2>4. CASE /\ pc = "walk" /\ pc' = pc
             /\ Become(Enqueue([pending |-> pending, stream |-> stream], "dummy2", <<>>))
    <3>1. "dummy2" \in Nodes
      BY DEF Nodes
    <3>2. stream["dummy2"] = <<>> /\ [stream EXCEPT !["dummy2"] = @ \o <<>>] = stream
      BY <1>i, <3>1, ConcatEmptySeq DEF ArcType
    <3>3. pending' = Append(pending, "dummy2") /\ stream' = stream
      BY <2>4, <3>2 DEF Become, Enqueue
    <3>4. pending' \in Seq(Nodes) /\ Range(pending') = Range(pending) \cup {"dummy2"}
      BY <1>i, <3>1, <3>3, AppendNode
    <3>5. Due' = Due \cup {"dummy2"}
      BY <2>1, <3>4 DEF Due
    <3>6. ArcControl'
      BY <2>4 DEF ArcControl
    <3>7. feature[1] = 1 /\ feature[2] = 1
      BY <2>2
    <3>8. \A n \in Due' : Enabled(n)'
      BY <2>1, <3>7 DEF Enabled
    <3>9. Selected(Due)'
      BY <1>i, <2>1, <2>2, <3>5 DEF ArcDue, Selected
    <3>10. ArcDue'
      BY <2>1, <2>2, <3>8, <3>9 DEF ArcDue
    <3>11. ArcType'
      BY <1>i, <2>1, <3>3, <3>4 DEF ArcType
    <3>. QED  BY <3>6, <3>10, <3>11 DEF ArcInv
  <2>. QED  BY <1>8, <2>3, <2>4 DEF helper_run
<1>9. CASE UNCHANGED vars
  <2>1. UNCHANGED <<pc, count, stream, feature, visited, helper, quit, pending>>
    BY <1>9 DEF vars, graphVars
  <2>2. ArcControl'
    BY <1>i, <2>1 DEF ArcControl
  <2>. QED  BY <1>2, <2>1, <2>2
<1>. QED  BY <1>1, <1>3, <1>4, <1>5, <1>6, <1>7, <1>8, <1>9 DEF Next, MainStep, Ended

\* graph_arc runs a sink only if its flag is set, and the sink that the flags
\* select for certain has run when the application ends, whenever the helper
\* on the other lcore gets its turn.
THEOREM ArcRunsWhatIsEnabled == Spec => []OnlyEnabledFeatures
<1>1. Init => ArcInv
  BY ArcInit
<1>2. ArcInv /\ [Next]_vars => ArcInv'
  BY ArcStep
<1>3. ArcInv => OnlyEnabledFeatures
  <2> SUFFICES ASSUME ArcInv, app = "graph_arc"
               PROVE  /\ \A n \in visited : Enabled(n)
                      /\ pc = "ended" => Selected(visited)
    BY DEF OnlyEnabledFeatures, Enabled, Selected
  <2>1. visited \subseteq Due /\ \A n \in Due : Enabled(n)
    BY DEF ArcInv, ArcDue, Due
  <2>2. ASSUME pc = "ended" PROVE Selected(visited)
    <3>1. pending = <<>> /\ (quit \/ count > 0)
      BY <2>2 DEF ArcInv, ArcControl
    <3>2. Due = visited
      BY <3>1 DEF Due, Range
    <3>. QED  BY <3>1, <3>2 DEF ArcInv, ArcDue, Selected
  <2>. QED  BY <2>1, <2>2
<1>. QED  BY <1>1, <1>2, <1>3, PTL DEF Spec
-----------------------------------------------------------------------------
(* The graph of every application *)

Types == {"ipv4", "ipv6", "arp", "made", "number", "junk"}
Pkt == [id : Nat, type : Types, burst : Nat]
SourceNodes == {"rx", "start1", "start2", "hello"}

Once(s) == \A i, j \in DOMAIN s : s[i] = s[j] => i = j

\* Every node is listed once; a node with objects is listed, and the sources
\* are the listed nodes without.
Sound(g) == /\ g \in [pending : Seq(Nodes), stream : [Nodes -> Seq(Pkt)]]
            /\ Once(g.pending)
            /\ \A n \in Nodes : g.stream[n] # <<>> => n \in Range(g.pending)
            /\ \A n \in Range(g.pending) : g.stream[n] = <<>> <=> n \in SourceNodes

Graph == [pending |-> pending, stream |-> stream]

\* The two applications that enqueue nothing to make a node run.
Quiet == {"sample", "graph_arc"}
QuietGraph ==
  /\ pending \in Seq(Nodes) /\ stream = [n \in Nodes |-> <<>>]
  /\ Once(pending)
  /\ "hello" \in Range(pending) => pending = <<"hello">>
  /\ app = "graph_arc" /\ "hello" \in Range(pending) => count = 0
  /\ helper = "launched" => "dummy2" \notin Range(pending)

WalkInv ==
  /\ app \in Apps /\ count \in Nat
  /\ IF app \in Quiet THEN QuietGraph ELSE Sound(Graph)
  /\ pc \in {"setup", "loop", "ended", "exited"} => pending = <<>>
  /\ helper = "launched" => app = "graph_arc"

-----------------------------------------------------------------------------
(* The owners of mbufs *)

CustodyInv ==
  /\ accepted \in Nat
  /\ sent \in Seq(Pkt) /\ freed \in Seq(Pkt) /\ lost \in Seq(Pkt)
  /\ app \in MbufApps => OneOwner
  /\ app # "rx_drop_sample" => lost = <<>>
  /\ app \notin {"pipeline", "rx_drop_sample"} => sent = <<>>
  /\ app = "two_start_node" => /\ count = accepted /\ count <= 10 /\ ~quit
                               /\ pc = "ended" => count = 10

-----------------------------------------------------------------------------
(* One burst per walk *)

BurstApps == {"pipeline", "rx_drop_sample"}

BurstNodes == IF app = "pipeline" THEN {"rx", "l2", "ipv4", "ipv6", "drop", "tx"}
                                  ELSE {"rx", "ipv4", "drop", "tx"}

\* The nodes that have the whole burst.
Entry == IF app = "pipeline" THEN {"rx", "l2"} ELSE {"rx", "ipv4"}

Ascending(s) == \A i, j \in DOMAIN s : i < j => s[i].id < s[j].id

InFamilyOrder(s) ==
  \A i, j \in DOMAIN s :
    i < j /\ s[i].id > s[j].id =>
      s[i].type = "ipv4" /\ s[j].type = "ipv6" /\ s[i].burst = s[j].burst

\* What is in the graph is of the last burst; what was sent is older, but for
\* packets to be dropped.
BurstInv == app \in BurstApps =>
  /\ Range(pending) \subseteq BurstNodes
  /\ \A n \in Entry : n \in Range(pending) => pending = <<n>>
  /\ \A n \in Nodes : \A p \in Range(stream[n]) : p.id + BURST > accepted
  /\ \A n \in {"l2", "ipv4", "ipv6"} : Ascending(stream[n])
  /\ InFamilyOrder(stream["tx"]) /\ InFamilyOrder(sent)
  /\ \A n \in Nodes \ {"drop"} : \A p \in Range(sent), q \in Range(stream[n]) : p.id < q.id

\* The order in which the pipeline visits its nodes.
Rank(n) == CASE n = "rx" -> 0 [] n = "l2" -> 1 [] n = "ipv4" -> 2
             [] n = "ipv6" -> 3 [] n = "drop" -> 4 [] OTHER -> 5

Ranked(s) == \A i, j \in DOMAIN s : i < j => Rank(s[i]) < Rank(s[j])

FamilyInv == app = "pipeline" =>
  /\ Ranked(pending)
  /\ \A n, m \in Nodes : \A p \in Range(stream[n]), r \in Range(stream[m]) : p.burst = r.burst
  /\ \A p \in Range(stream["l2"]) : p.type \in {"ipv4", "ipv6", "arp"}
  /\ \A p \in Range(stream["ipv4"]) : p.type = "ipv4"
  /\ \A p \in Range(stream["ipv6"]) : p.type = "ipv6"
  /\ "ipv4" \in Range(pending) => stream["tx"] = <<>>
  /\ "ipv6" \in Range(pending) => \A p \in Range(stream["tx"]) : p.type = "ipv4"

GraphInv == WalkInv /\ CustodyInv /\ BurstInv /\ FamilyInv

-----------------------------------------------------------------------------
(* Sequences of packets *)

Ids(s) == {s[i].id : i \in DOMAIN s}
Distinct(s) == \A i, j \in DOMAIN s : s[i].id = s[j].id => i = j

\* What the elements of a concatenation are.
LEMMA ConcatParts ==
  ASSUME NEW S, NEW s \in Seq(S), NEW t \in Seq(S)
  PROVE  /\ s \o t \in Seq(S) /\ Len(s) \in Nat /\ Len(t) \in Nat
         /\ DOMAIN s = 1..Len(s) /\ DOMAIN t = 1..Len(t)
         /\ DOMAIN (s \o t) = 1..(Len(s) + Len(t))
         /\ \A i \in 1..(Len(s) + Len(t)) :
              \/ i \in 1..Len(s) /\ (s \o t)[i] = s[i]
              \/ i - Len(s) \in 1..Len(t) /\ i > Len(s) /\ (s \o t)[i] = t[i - Len(s)]
         /\ \A i \in 1..Len(s) : i \in 1..(Len(s) + Len(t)) /\ (s \o t)[i] = s[i]
         /\ \A i \in 1..Len(t) : i + Len(s) \in 1..(Len(s) + Len(t)) /\ (s \o t)[i + Len(s)] = t[i]
<1>1. /\ s \o t \in Seq(S) /\ Len(s) \in Nat /\ Len(t) \in Nat /\ Len(s \o t) = Len(s) + Len(t)
      /\ DOMAIN s = 1..Len(s) /\ DOMAIN t = 1..Len(t) /\ DOMAIN (s \o t) = 1..Len(s \o t)
      /\ \A i \in 1 .. Len(s) + Len(t) : (s \o t)[i] = IF i <= Len(s) THEN s[i] ELSE t[i - Len(s)]
  BY ConcatProperties, LenProperties, SMTT(30)
<1>2. PICK m \in Nat, n \in Nat, c \in Seq(S) : m = Len(s) /\ n = Len(t) /\ c = s \o t
  BY <1>1
<1>3. \A i \in 1..(m + n) : c[i] = IF i <= m THEN s[i] ELSE t[i - m]
  BY <1>1, <1>2
<1>4. /\ \A i \in 1..(m + n) : \/ i \in 1..m /\ c[i] = s[i]
                               \/ i - m \in 1..n /\ i > m /\ c[i] = t[i - m]
      /\ \A i \in 1..m : i \in 1..(m + n) /\ c[i] = s[i]
      /\ \A i \in 1..n : i + m \in 1..(m + n) /\ c[i + m] = t[i]
  BY <1>3
<1>. QED  BY <1>1, <1>2, <1>4

LEMMA IdsOfConcat ==
  ASSUME NEW s \in Seq(Pkt), NEW t \in Seq(Pkt)
  PROVE  /\ Ids(s \o t) = Ids(s) \cup Ids(t)
         /\ Distinct(s) /\ Distinct(t) /\ Ids(s) \cap Ids(t) = {} => Distinct(s \o t)
<1>1. PICK c : c = s \o t
  OBVIOUS
<1>2. PICK m \in Nat, n \in Nat : 
       /\ DOMAIN s = 1..m /\ DOMAIN t = 1..n /\ DOMAIN c = 1..(m + n)
       /\ \A i \in 1..(m + n) : \/ i \in 1..m /\ c[i] = s[i]
                                \/ i - m \in 1..n /\ i > m /\ c[i] = t[i - m]
       /\ \A i \in 1..m : i \in 1..(m + n) /\ c[i] = s[i]
       /\ \A i \in 1..n : i + m \in 1..(m + n) /\ c[i + m] = t[i]
  <2>1. /\ Len(s) \in Nat /\ Len(t) \in Nat
        /\ DOMAIN s = 1..Len(s) /\ DOMAIN t = 1..Len(t) /\ DOMAIN c = 1..(Len(s) + Len(t))
        /\ \A i \in 1..(Len(s) + Len(t)) :
             \/ i \in 1..Len(s) /\ c[i] = s[i]
             \/ i - Len(s) \in 1..Len(t) /\ i > Len(s) /\ c[i] = t[i - Len(s)]
        /\ \A i \in 1..Len(s) : i \in 1..(Len(s) + Len(t)) /\ c[i] = s[i]
        /\ \A i \in 1..Len(t) : i + Len(s) \in 1..(Len(s) + Len(t)) /\ c[i + Len(s)] = t[i]
    BY <1>1, ConcatParts
  <2>. QED  BY <2>1
<1>3. Ids(c) \subseteq Ids(s) \cup Ids(t)
  BY <1>2 DEF Ids
<1>4. Ids(s) \subseteq Ids(c) 
  BY <1>2 DEF Ids
<1>5. Ids(t) \subseteq Ids(c)
  <2>1. SUFFICES ASSUME NEW i \in 1..n PROVE t[i].id \in Ids(c)
    BY <1>2 DEF Ids
  <2>2. i + m \in 1..(m + n) /\ c[i + m] = t[i]
    BY <1>2
  <2>. QED  BY <1>2, <2>2 DEF Ids
<1>6. ASSUME Distinct(s), Distinct(t), Ids(s) \cap Ids(t) = {} PROVE Distinct(c)
  <2>1. SUFFICES ASSUME NEW i \in 1..(m + n), NEW j \in 1..(m + n), c[i].id = c[j].id PROVE i = j
    BY <1>2 DEF Distinct
  <2>2. CASE i \in 1..m /\ j \in 1..m
    BY <1>2, <1>6, <2>1, <2>2 DEF Distinct
  <2>3. CASE i - m \in 1..n /\ j - m \in 1..n
    <3>1. PICK a \in 1..n, b \in 1..n : a = i - m /\ b = j - m
      BY <2>3
    <3>2. c[i] = t[a] /\ c[j] = t[b]
      BY <1>2, <2>1, <2>3, <3>1
    <3>3. a = b
      BY <1>2, <1>6, <2>1, <3>2 DEF Distinct
    <3>. QED  BY <3>1, <3>3
  <2>4. \A a \in 1..m, b \in 1..n : s[a].id # t[b].id
    BY <1>2, <1>6 DEF Ids
  <2>. QED  BY <1>2, <2>1, <2>2, <2>3, <2>4
<1>. QED  BY <1>1, <1>3, <1>4, <1>5, <1>6

LEMMA IdsOfEmpty == Ids(<<>>) = {} /\ Distinct(<<>>)
BY DEF Ids, Distinct

\* A sequence cut in two.
LEMMA IdsOfParts ==
  ASSUME NEW s \in Seq(Pkt), Distinct(s), NEW k \in Nat, k <= Len(s)
  PROVE  /\ Taken(s, k) \in Seq(Pkt) /\ Rest(s, k) \in Seq(Pkt)
         /\ Distinct(Taken(s, k)) /\ Distinct(Rest(s, k))
         /\ Ids(Taken(s, k)) \cap Ids(Rest(s, k)) = {}
         /\ Ids(Taken(s, k)) \cup Ids(Rest(s, k)) = Ids(s)
         /\ Range(Taken(s, k)) \subseteq Range(s) 
         /\ DOMAIN Taken(s, k) = 1..k /\ \A i \in 1..k : i \in DOMAIN s /\ Taken(s, k)[i] = s[i]
<1>1. PICK n \in Nat : n = Len(s) /\ DOMAIN s = 1..n /\ \A i \in 1..n : s[i] \in Pkt
  BY LenProperties
<1>2. PICK a \in Seq(Pkt) : a = Taken(s, k) /\ DOMAIN a = 1..k /\ \A i \in 1..k : a[i] = s[i]
  <2>1. /\ SubSeq(s, 1, k) \in Seq(Pkt) /\ Len(SubSeq(s, 1, k)) = k
        /\ \A i \in 1..(k - 1 + 1) : SubSeq(s, 1, k)[i] = s[1 + i - 1]
    BY <1>1, SubSeqProperties
  <2>2. /\ SubSeq(s, 1, k) \in Seq(Pkt) /\ DOMAIN SubSeq(s, 1, k) = 1..k
        /\ \A i \in 1..k : SubSeq(s, 1, k)[i] = s[i]
    BY <2>1, LenProperties
  <2>. QED  BY <2>2 DEF Taken
<1>3. PICK b \in Seq(Pkt) : b = Rest(s, k) /\ DOMAIN b = 1..(n - k) /\ \A i \in 1..(n - k) : b[i] = s[k + i]
  <2>1. /\ SubSeq(s, k + 1, n) \in Seq(Pkt) /\ Len(SubSeq(s, k + 1, n)) = n - k
        /\ \A i \in 1..(n - (k + 1) + 1) : SubSeq(s, k + 1, n)[i] = s[(k + 1) + i - 1]
    BY <1>1, SubSeqProperties
  <2>2. /\ SubSeq(s, k + 1, n) \in Seq(Pkt) /\ DOMAIN SubSeq(s, k + 1, n) = 1..(n - k)
        /\ \A i \in 1..(n - k) : SubSeq(s, k + 1, n)[i] = s[k + i]
    <3>1. PICK b : b = SubSeq(s, k + 1, n)
      OBVIOUS
    <3>2. n - (k + 1) + 1 = n - k /\ \A i \in 1..(n - k) : (k + 1) + i - 1 = k + i
      BY <1>1
    <3>3. b \in Seq(Pkt) /\ Len(b) = n - k /\ \A i \in 1..(n - k) : b[i] = s[k + i]
      BY <2>1, <3>1, <3>2
    <3>. QED  BY <3>1, <3>3, LenProperties
  <2>. QED  BY <1>1, <2>2 DEF Rest
<1>4. Distinct(a) /\ Distinct(b)
  <2>1. ASSUME NEW i \in 1..k, NEW j \in 1..k, a[i].id = a[j].id PROVE i = j
    BY <1>1, <1>2, <2>1 DEF Distinct
  <2>2. ASSUME NEW i \in 1..(n - k), NEW j \in 1..(n - k), b[i].id = b[j].id PROVE i = j
    <3>1. k + i \in 1..n /\ k + j \in 1..n /\ s[k + i].id = s[k + j].id
      BY <1>1, <1>3, <2>2
    <3>2. k + i = k + j
      BY <1>1, <3>1 DEF Distinct
    <3>. QED  BY <3>2
  <2>. QED  BY <1>2, <1>3, <2>1, <2>2 DEF Distinct
<1>5. ASSUME NEW i \in 1..k, NEW j \in 1..(n - k) PROVE a[i].id # b[j].id
  <2>1. i \in 1..n /\ k + j \in 1..n /\ i # k + j
    BY <1>1
  <2>. QED  BY <1>1, <1>2, <1>3, <2>1 DEF Distinct
<1>6. Ids(a) \cap Ids(b) = {}
  BY <1>2, <1>3, <1>5 DEF Ids
<1>7. Ids(a) \subseteq Ids(s) /\ Ids(b) \subseteq Ids(s)
  <2>1. \A i \in 1..(n - k) : k + i \in 1..n
    BY <1>1
  <2>2. \A i \in 1..(n - k) : b[i].id \in {s[j].id : j \in 1..n}
    BY <1>3, <2>1
  <2>3. Ids(b) \subseteq Ids(s)
    BY <1>1, <1>3, <2>2 DEF Ids
  <2>4. \A i \in 1..k : i \in 1..n
    BY <1>1
  <2>5. Ids(a) \subseteq Ids(s)
    BY <1>1, <1>2, <2>4 DEF Ids
  <2>. QED  BY <2>3, <2>5
<1>8. Ids(s) \subseteq Ids(a) \cup Ids(b)
  <2>1. ASSUME NEW i \in 1..n PROVE s[i].id \in Ids(a) \cup Ids(b)
    <3>1. CASE i <= k
      BY <1>2, <3>1 DEF Ids
    <3>2. CASE i > k
      <4>1. i - k \in 1..(n - k) /\ b[i - k] = s[i]
        BY <1>3, <3>2
      <4>. QED  BY <1>3, <4>1 DEF Ids
    <3>. QED  BY <3>1, <3>2
  <2>. QED  BY <1>1, <2>1 DEF Ids
<1>9. Range(a) \subseteq Range(s)
  BY <1>1, <1>2 DEF Range
<1>. QED  BY <1>1, <1>2, <1>3, <1>4, <1>6, <1>7, <1>8, <1>9

-----------------------------------------------------------------------------
(* Who owns the packets *)

\* h gives every packet of U one owner.
Parted(h, U) == /\ \A x \in Owners : Distinct(h[x])
                /\ \A x, y \in Owners : x # y => Ids(h[x]) \cap Ids(h[y]) = {}
                /\ UNION {Ids(h[x]) : x \in Owners} = U

Holdings == [x \in Owners |-> Held(x)]

LEMMA OneOwnerParted == OneOwner <=> Parted(Holdings, 1..accepted)
<1>1. \A x \in Owners : Ids(Held(x)) = {p.id : p \in Range(Held(x))}
  BY DEF Ids, Range
<1>2. UNION {{p.id : p \in Range(Held(x))} : x \in Owners} = UNION {Ids(Held(x)) : x \in Owners}
  BY <1>1
<1>3. \A x \in Owners : Holdings[x] = Held(x)
  BY DEF Holdings
<1>4. ASSUME OneOwner PROVE Parted(Holdings, 1..accepted)
  <2>1. \A x \in Owners : Distinct(Held(x))
    BY <1>4 DEF OneOwner, Distinct
  <2>2. \A x, y \in Owners : x # y => Ids(Held(x)) \cap Ids(Held(y)) = {}
    BY <1>4 DEF OneOwner, Ids
  <2>. QED  BY <1>2, <1>3, <1>4, <2>1, <2>2 DEF OneOwner, Parted
<1>5. ASSUME Parted(Holdings, 1..accepted) PROVE OneOwner
  <2>1. ASSUME NEW x \in Owners, NEW y \in Owners, NEW i \in DOMAIN Held(x), NEW j \in DOMAIN Held(y),
               Held(x)[i].id = Held(y)[j].id
        PROVE  x = y /\ i = j
    <3>1. Held(x)[i].id \in Ids(Held(x)) /\ Held(y)[j].id \in Ids(Held(y))
      BY DEF Ids
    <3>2. x = y
      BY <1>3, <1>5, <2>1, <3>1 DEF Parted
    <3>. QED  BY <1>3, <1>5, <2>1, <3>2 DEF Parted, Distinct
  <2>. QED  BY <1>2, <1>3, <1>5, <2>1 DEF OneOwner, Parted
<1>. QED  BY <1>4, <1>5

\* Owner v hands on what it has, together with new packets N, as d says.
Hands(h, k, v, d, N) ==
  /\ d \in [Owners -> Seq(Pkt)]
  /\ \A x \in Owners : k[x] = (IF x = v THEN <<>> ELSE h[x]) \o d[x]
  /\ Parted(d, Ids(h[v]) \cup N)

\* Then every packet has one owner still.
LEMMA HandingOn ==
  ASSUME NEW h \in [Owners -> Seq(Pkt)], NEW k, NEW v \in Owners, NEW d, NEW U, NEW N,
         Parted(h, U), U \cap N = {}, Hands(h, k, v, d, N)
  PROVE  Parted(k, U \cup N)
<1> DEFINE o == [x \in Owners |-> IF x = v THEN <<>> ELSE h[x]]
<1>1. /\ \A x \in Owners : d[x] \in Seq(Pkt) /\ k[x] = o[x] \o d[x]
      /\ Parted(d, Ids(h[v]) \cup N)
  BY DEF Hands
<1>2. \A x \in Owners : o[x] \in Seq(Pkt) /\ Distinct(o[x]) /\ Ids(o[x]) = IF x = v THEN {} ELSE Ids(h[x])
  BY IdsOfEmpty, EmptySeq DEF Parted
<1> HIDE DEF o
<1>3. ASSUME NEW x \in Owners, NEW y \in Owners PROVE Ids(o[x]) \cap Ids(d[y]) = {}
  <2>1. Ids(d[y]) \subseteq Ids(h[v]) \cup N
    BY <1>1 DEF Parted
  <2>2. Ids(h[x]) \subseteq U
    BY DEF Parted
  <2>3. x # v => Ids(h[x]) \cap Ids(h[v]) = {}
    BY DEF Parted
  <2>. QED  BY <1>2, <2>1, <2>2, <2>3
<1>4. \A x \in Owners : Ids(k[x]) = Ids(o[x]) \cup Ids(d[x]) /\ Distinct(k[x])
  <2>1. SUFFICES ASSUME NEW x \in Owners PROVE Ids(k[x]) = Ids(o[x]) \cup Ids(d[x]) /\ Distinct(k[x])
    OBVIOUS
  <2>2. PICK s \in Seq(Pkt), t \in Seq(Pkt) : s = o[x] /\ t = d[x]
    BY <1>1, <1>2
  <2>3. k[x] = s \o t /\ Distinct(s) /\ Distinct(t) /\ Ids(s) \cap Ids(t) = {}
    BY <1>1, <1>2, <1>3, <2>2 DEF Parted
  <2>4. Ids(s \o t) = Ids(s) \cup Ids(t) /\ Distinct(s \o t)
    BY <2>3, IdsOfConcat
  <2>. QED  BY <2>2, <2>3, <2>4
<1>5. ASSUME NEW x \in Owners, NEW y \in Owners, x # y PROVE Ids(k[x]) \cap Ids(k[y]) = {}
  <2>1. Ids(o[x]) \cap Ids(o[y]) = {}
    BY <1>2, <1>5 DEF Parted
  <2>2. Ids(d[x]) \cap Ids(d[y]) = {}
    BY <1>1, <1>5 DEF Parted
  <2>. QED  BY <1>3, <1>4, <2>1, <2>2
<1>6. UNION {Ids(k[x]) : x \in Owners} = U \cup N
  <2>1. ASSUME NEW x \in Owners PROVE Ids(k[x]) \subseteq U \cup N
    <3>1. Ids(h[x]) \subseteq U /\ Ids(h[v]) \subseteq U
      BY DEF Parted
    <3>2. Ids(d[x]) \subseteq Ids(h[v]) \cup N
      BY <1>1 DEF Parted
    <3>. QED  BY <1>2, <1>4, <3>1, <3>2
  <2>2. ASSUME NEW z \in U \cup N PROVE \E x \in Owners : z \in Ids(k[x])
    <3>1. CASE z \in Ids(h[v]) \cup N
      <4>1. \E x \in Owners : z \in Ids(d[x])
        BY <1>1, <3>1 DEF Parted
      <4>. QED  BY <1>4, <4>1
    <3>2. CASE z \notin Ids(h[v]) \cup N
      <4>1. PICK x \in Owners : z \in Ids(h[x])
        BY <3>2, <2>2 DEF Parted
      <4>2. x # v /\ z \in Ids(o[x])
        BY <1>2, <3>2, <4>1
      <4>. QED  BY <1>4, <4>2
    <3>. QED  BY <3>1, <3>2
  <2>. QED  BY <2>1, <2>2
<1>. QED  BY <1>4, <1>5, <1>6 DEF Parted

-----------------------------------------------------------------------------
(* What a visit does to the graph *)

LEMMA OnceAfterFirst ==
  ASSUME NEW s \in Seq(Nodes), s # <<>>, Once(s)
  PROVE  Once(Tail(s)) /\ Head(s) \notin Range(Tail(s))
<1>1. PICK n \in Nat : n = Len(s) /\ n # 0 /\ DOMAIN s = 1..n
  BY LenProperties, EmptySeq
<1>2. PICK t : t = Tail(s) /\ DOMAIN t = 1..(n - 1) /\ \A i \in 1..(n - 1) : t[i] = s[i + 1]
  <2>1. Tail(s) \in Seq(Nodes) /\ Len(Tail(s)) = n - 1 /\ \A i \in 1..Len(Tail(s)) : Tail(s)[i] = s[i + 1]
    BY <1>1, HeadTailProperties
  <2>. QED  BY <2>1, LenProperties
<1>3. Head(s) = s[1]
  BY <1>1
<1>4. \A i \in 1..(n - 1) : i + 1 \in 1..n /\ 1 \in 1..n /\ i + 1 # 1
  BY <1>1
<1>5. ASSUME NEW i \in 1..(n - 1), NEW j \in 1..(n - 1), t[i] = t[j] PROVE i = j
  <2>1. i + 1 = j + 1
    BY <1>1, <1>2, <1>4, <1>5 DEF Once
  <2>. QED  BY <2>1
<1>6. ASSUME NEW i \in 1..(n - 1) PROVE t[i] # Head(s)
  BY <1>1, <1>2, <1>3, <1>4 DEF Once
<1>. QED  BY <1>2, <1>5, <1>6 DEF Once, Range

LEMMA OnceWithLast ==
  ASSUME NEW s \in Seq(Nodes), NEW e \in Nodes, Once(s), e \notin Range(s)
  PROVE  Once(Append(s, e))
<1>1. PICK n \in Nat : n = Len(s) /\ DOMAIN s = 1..n
  BY LenProperties
<1>2. PICK t : t = Append(s, e) /\ DOMAIN t = 1..(n + 1) /\ t[n + 1] = e /\ \A i \in 1..n : t[i] = s[i]
  <2>1. /\ Append(s, e) \in Seq(Nodes) /\ Len(Append(s, e)) = n + 1
        /\ \A i \in 1..n : Append(s, e)[i] = s[i]
        /\ Append(s, e)[n + 1] = e
    BY <1>1, AppendProperties
  <2>. QED  BY <2>1, LenProperties
<1>3. \A i \in 1..n : s[i] # e
  BY <1>1 DEF Range
<1>4. \A i \in 1..(n + 1) : i \in 1..n \/ i = n + 1
  OBVIOUS
<1>. QED  BY <1>1, <1>2, <1>3, <1>4 DEF Once

\* The visited node leaves the list, and its stream is empty.
LEMMA LeftSound ==
  ASSUME Sound(Graph), pending # <<>>, NEW n, Head(pending) = n
  PROVE  /\ n \in Nodes /\ Sound(Left(n))
         /\ Left(n).pending = Tail(pending) /\ Left(n).stream = [stream EXCEPT ![n] = <<>>]
         /\ n \in Range(pending) /\ n \notin Range(Tail(pending))
         /\ Range(pending) = {n} \cup Range(Tail(pending))
         /\ stream \in [Nodes -> Seq(Pkt)] /\ pending \in Seq(Nodes)
         /\ n \notin SourceNodes => stream[n] # <<>>
         /\ n \in SourceNodes => stream[n] = <<>>
<1>1. /\ pending \in Seq(Nodes) /\ stream \in [Nodes -> Seq(Pkt)] /\ Once(pending)
      /\ \A m \in Nodes : stream[m] # <<>> => m \in Range(pending)
      /\ \A m \in Range(pending) : stream[m] = <<>> <=> m \in SourceNodes
  BY DEF Sound, Graph
<1>2. n \in Nodes /\ Tail(pending) \in Seq(Nodes) /\ Range(pending) = {n} \cup Range(Tail(pending))
  BY <1>1, TailNodes
<1>3. Once(Tail(pending)) /\ n \notin Range(Tail(pending))
  BY <1>1, OnceAfterFirst
<1>4. Range(Tail(pending)) \subseteq Nodes
  BY <1>2, ListRange
<1>5. PICK g : g = Left(n)
  OBVIOUS
<1>6. g.pending = Tail(pending) /\ g.stream = [stream EXCEPT ![n] = <<>>]
      /\ g \in [pending : Seq(Nodes), stream : [Nodes -> Seq(Pkt)]]
  BY <1>1, <1>2, <1>5, EmptySeq DEF Left
<1>7. \A m \in Nodes : g.stream[m] = IF m = n THEN <<>> ELSE stream[m]
  BY <1>1, <1>6
<1>8. Sound(g)
  BY <1>1, <1>2, <1>3, <1>4, <1>6, <1>7 DEF Sound
<1>. QED  BY <1>1, <1>2, <1>3, <1>5, <1>6, <1>8

\* Graph r is g after objs were enqueued to n.
Enqueued(g, n, objs, r) ==
  /\ Sound(r)
  /\ \A m \in Nodes : r.stream[m] = IF m = n THEN g.stream[n] \o objs ELSE g.stream[m]
  /\ r.pending = g.pending \/ (n \notin Range(g.pending) /\ r.pending = Append(g.pending, n))
  /\ Range(r.pending) \subseteq Range(g.pending) \cup {n}
  /\ Range(g.pending) \subseteq Range(r.pending)

\* Packets are enqueued to a node that is no source.
LEMMA EnqueueSound ==
  ASSUME NEW g, Sound(g), NEW n \in Nodes, n \notin SourceNodes, NEW objs \in Seq(Pkt), objs # <<>>
  PROVE  Enqueued(g, n, objs, Enqueue(g, n, objs))
<1>1. /\ g.pending \in Seq(Nodes) /\ g.stream \in [Nodes -> Seq(Pkt)] /\ Once(g.pending)
      /\ \A m \in Nodes : g.stream[m] # <<>> => m \in Range(g.pending)
      /\ \A m \in Range(g.pending) : g.stream[m] = <<>> <=> m \in SourceNodes
  BY DEF Sound
<1>2. PICK p \in Seq(Nodes), s \in [Nodes -> Seq(Pkt)] : p = g.pending /\ s = g.stream
  BY <1>1
<1>3. s[n] \in Seq(Pkt) /\ s[n] \o objs \in Seq(Pkt) /\ s[n] \o objs # <<>>
  <2>1. PICK o \in Seq(Pkt) : o = s[n]
    OBVIOUS
  <2>2. o \o objs \in Seq(Pkt) /\ o \o objs # <<>>
    BY ConcatProperties, ConcatEqualIffEmpty
  <2>. QED  BY <2>1, <2>2
<1>4. s[n] = <<>> <=> n \notin Range(p)
  BY <1>1, <1>2
<1>5. PICK r : r = Enqueue(g, n, objs)
  OBVIOUS
<1>6. /\ r.stream = [s EXCEPT ![n] = s[n] \o objs] /\ r.pending = IF s[n] = <<>> THEN Append(p, n) ELSE p
      /\ r = [pending |-> r.pending, stream |-> r.stream]
  BY <1>2, <1>5 DEF Enqueue
<1>7. r.pending \in Seq(Nodes) /\ Once(r.pending) /\ Range(r.pending) = Range(p) \cup {n}
  <2>1. CASE s[n] = <<>>
    <3>1. r.pending = Append(p, n) /\ n \notin Range(p) /\ Once(p)
      BY <1>1, <1>2, <1>4, <1>6, <2>1
    <3>. QED  BY <3>1, AppendNode, OnceWithLast
  <2>2. CASE s[n] # <<>>
    <3>1. r.pending = p /\ n \in Range(p) /\ Once(p)
      BY <1>1, <1>2, <1>4, <1>6, <2>2
    <3>. QED  BY <3>1
  <2>. QED  BY <2>1, <2>2
<1>8. r.stream \in [Nodes -> Seq(Pkt)] /\ \A m \in Nodes : r.stream[m] = IF m = n THEN s[n] \o objs ELSE s[m]
  BY <1>3, <1>6
<1>9. r \in [pending : Seq(Nodes), stream : [Nodes -> Seq(Pkt)]]
  BY <1>6, <1>7, <1>8
<1>10. Range(p) \subseteq Nodes
  BY ListRange
<1>11. Sound(r)
  <2>1. \A m \in Nodes : r.stream[m] # <<>> => m \in Range(r.pending)
    BY <1>1, <1>2, <1>7, <1>8
  <2>2. \A m \in Range(r.pending) : r.stream[m] = <<>> <=> m \in SourceNodes
    BY <1>1, <1>2, <1>3, <1>7, <1>8, <1>10
  <2>. QED  BY <1>7, <1>9, <2>1, <2>2 DEF Sound
<1>. QED  BY <1>2, <1>4, <1>5, <1>6, <1>7, <1>8, <1>11 DEF Enqueued

LEMMA EnqueueIfAnySound ==
  ASSUME NEW g, Sound(g), NEW n \in Nodes, n \notin SourceNodes, NEW objs \in Seq(Pkt)
  PROVE  Enqueued(g, n, objs, EnqueueIfAny(g, n, objs))
<1>1. CASE objs = <<>>
  <2>1. g.stream \in [Nodes -> Seq(Pkt)] /\ EnqueueIfAny(g, n, objs) = g
    BY <1>1 DEF Sound, EnqueueIfAny
  <2>2. g.stream[n] \o objs = g.stream[n]
    BY <1>1, <2>1, ConcatEmptySeq
  <2>3. Enqueued(g, n, objs, g)
    BY <2>2 DEF Enqueued
  <2>. QED  BY <2>1, <2>3
<1>2. CASE objs # <<>>
  <2>1. EnqueueIfAny(g, n, objs) = Enqueue(g, n, objs)
    BY <1>2 DEF EnqueueIfAny
  <2>. QED  BY <1>2, <2>1, EnqueueSound
<1>. QED  BY <1>1, <1>2

-----------------------------------------------------------------------------
(* Loops over the objects of a burst *)

\* Every set of numbers has a least one.
LEMMA LeastNumber ==
  ASSUME NEW T, T \subseteq Nat, T # {}
  PROVE  \E x \in T : \A y \in T : x <= y
<1> DEFINE R == StrictSubsetOrdering(Nat)
           F == FiniteSubsetsOf(Nat)
           U == {0..x : x \in T}
<1>1. IsWellFoundedOn(R, F)
  BY FS_StrictSubsetOrderingWellFounded
<1>2. U \subseteq F /\ U # {}
  <2>1. \A x \in T : 0..x \in SUBSET Nat /\ IsFiniteSet(0..x)
    BY FS_Interval
  <2>. QED  BY <2>1, Zenon DEF FiniteSubsetsOf
<1>3. PICK u \in U : \A v \in U : ~(<<v, u>> \in R)
  <2> HIDE DEF R, F, U
  <2>. QED  BY <1>1, <1>2, WFMin
<1>4. PICK x \in T : u = 0..x
  BY <1>3
<1>5. ASSUME NEW y \in T, ~(x <= y) PROVE FALSE
  <2>1. 0..y \in U /\ 0..y \subseteq Nat /\ 0..y \subseteq 0..x /\ 0..y # 0..x
    BY <1>5
  <2>2. <<0..y, 0..x>> \in R
    BY <2>1 DEF StrictSubsetOrdering
  <2>. QED  BY <2>1, <2>2, <1>3, <1>4
<1>. QED  BY <1>5

\* Induction up to n: a set with 0 that is closed under adding one.
LEMMA UpTo ==
  ASSUME NEW n \in Nat, NEW T, 0 \in T, \A i \in 0..(n - 1) : i \in T => i + 1 \in T
  PROVE  0..n \subseteq T
<1> SUFFICES ASSUME ~(0..n \subseteq T) PROVE FALSE
  OBVIOUS
<1> DEFINE B == (0..n) \ T
<1>1. B \subseteq Nat /\ B # {}
  OBVIOUS
<1>2. PICK x \in B : \A y \in B : x <= y
  <2> HIDE DEF B
  <2>. QED  BY <1>1, LeastNumber
<1>3. x \in 0..n /\ x # 0
  BY <1>2
<1>4. x - 1 \in 0..(n - 1) /\ ~(x <= x - 1) /\ (x - 1) + 1 = x
  BY <1>3
<1>5. x - 1 \notin B
  BY <1>2, <1>4
<1>. QED  BY <1>2, <1>4, <1>5

\* The values of a variable that a loop of n rounds changes.
Rounds(n, A, h) == \A i \in 1..n, x \in A : h[i][x] \in A
Runs(n, A, a, h) == \E f \in [0..n -> A] : f[0] = a /\ \A i \in 1..n : f[i] = h[i][f[i - 1]]

LEMMA Loop ==
  ASSUME NEW n \in Nat, NEW A, NEW a \in A, NEW h, Rounds(n, A, h)
  PROVE  Runs(n, A, a, h)
<1>r. \A i \in 1..n, x \in A : h[i][x] \in A
  BY DEF Rounds
<1> DEFINE P(m) == \E f \in [0..m -> A] : f[0] = a /\ \A i \in 1..m : f[i] = h[i][f[i - 1]]
           T == {m \in 0..n : P(m)}
<1>1. 0 \in T
  <2>1. [i \in 0..0 |-> a] \in [0..0 -> A] /\ [i \in 0..0 |-> a][0] = a /\ 1..0 = {}
    OBVIOUS
  <2>2. P(0)
    BY <2>1
  <2>. QED  BY <2>2
<1>2. ASSUME NEW m \in 0..(n - 1), m \in T PROVE m + 1 \in T
  <2>1. PICK f \in [0..m -> A] : f[0] = a /\ \A i \in 1..m : f[i] = h[i][f[i - 1]]
    BY <1>2
  <2> DEFINE g == [i \in 0..(m + 1) |-> IF i <= m THEN f[i] ELSE h[i][f[m]]]
  <2>2. g \in [0..(m + 1) -> A]
    <3>1. m + 1 \in 1..n /\ m \in 0..m
      OBVIOUS
    <3>2. f[m] \in A
      BY <3>1
    <3>3. ASSUME NEW i \in 0..(m + 1) PROVE g[i] \in A
      <4>1. CASE i <= m
        BY <4>1, i \in 0..m
      <4>2. CASE i = m + 1
        BY <1>r, <4>2, <3>1, <3>2
      <4>. QED  BY <4>1, <4>2
    <3>. QED  BY <3>3
  <2>3. g[0] = a
    BY <2>1
  <2>4. ASSUME NEW i \in 1..(m + 1) PROVE g[i] = h[i][g[i - 1]]
    <3>1. CASE i <= m
      <4>1. i \in 1..m /\ i \in 0..(m + 1) /\ i - 1 \in 0..(m + 1) /\ i - 1 <= m
        BY <3>1
      <4>2. g[i] = f[i] /\ g[i - 1] = f[i - 1]
        BY <4>1
      <4>. QED  BY <4>1, <4>2, <2>1
    <3>2. CASE i = m + 1
      <4>1. i - 1 = m /\ ~(i <= m) /\ i \in 0..(m + 1) /\ m \in 0..(m + 1) /\ m <= m
        BY <3>2
      <4>2. g[i] = h[i][f[m]] /\ g[i - 1] = f[m]
        BY <4>1
      <4>. QED  BY <4>2
    <3>. QED  BY <3>1, <3>2
  <2>5. P(m + 1)
    <3> HIDE DEF g
    <3>. QED  BY <2>2, <2>3, <2>4
  <2>. QED  BY <2>5
<1>3. n \in T
  <2> HIDE DEF T
  <2>1. 0..n \subseteq T
    BY <1>1, <1>2, UpTo
  <2>. QED  BY <2>1
<1>. QED  BY <1>3 DEF Runs

LEMMA AscendingAppend ==
  ASSUME NEW s \in Seq(Pkt), NEW p \in Pkt, Ascending(s), \A q \in Range(s) : q.id < p.id
  PROVE  Append(s, p) \in Seq(Pkt) /\ Ascending(Append(s, p)) /\ Range(Append(s, p)) = Range(s) \cup {p}
<1>1. PICK n \in Nat : n = Len(s) /\ DOMAIN s = 1..n
  BY LenProperties
<1>2. PICK t : /\ t = Append(s, p) /\ DOMAIN t = 1..(n + 1) /\ t[n + 1] = p
               /\ \A i \in 1..n : t[i] = s[i]
  <2>1. /\ Append(s, p) \in Seq(Pkt) /\ Len(Append(s, p)) = n + 1
        /\ \A i \in 1..n : Append(s, p)[i] = s[i]
        /\ Append(s, p)[n + 1] = p
    BY <1>1, AppendProperties
  <2>. QED  BY <2>1, LenProperties
<1>3. \A i \in 1..n : s[i].id < p.id
  BY <1>1 DEF Range
<1>4. \A i, j \in 1..(n + 1) : i < j => i \in 1..n /\ (j \in 1..n \/ j = n + 1)
  OBVIOUS
<1>5. Ascending(t)
  BY <1>1, <1>2, <1>3, <1>4 DEF Ascending
<1>. QED  BY <1>2, <1>5, AppendNode

LEMMA AscendingDistinct ==
  ASSUME NEW s \in Seq(Pkt), Ascending(s)
  PROVE  Distinct(s)
<1>1. PICK n \in Nat : DOMAIN s = 1..n /\ \A i \in 1..n : s[i].id \in Nat
  <2>1. Len(s) \in Nat /\ s \in [1..Len(s) -> Pkt]
    BY LenProperties
  <2>. QED  BY <2>1 DEF Pkt
<1>2. ASSUME NEW i \in 1..n, NEW j \in 1..n, s[i].id = s[j].id PROVE i = j
  <2>1. ~(i < j) /\ ~(j < i)
    BY <1>1, <1>2 DEF Ascending
  <2>. QED  BY <2>1
<1>. QED  BY <1>1, <1>2 DEF Distinct

\* The first i packets of a burst.
First(objs, i) == {objs[j] : j \in 1..i}

\* The array holds the packets of the given types, in the order they came.
LEMMA OfTypePackets ==
  ASSUME NEW objs \in Seq(Pkt), Ascending(objs), NEW T
  PROVE  /\ OfType(objs, T) \in Seq(Pkt) /\ Ascending(OfType(objs, T))
         /\ Range(OfType(objs, T)) = {p \in Range(objs) : p.type \in T}
<1>1. PICK n \in Nat : n = Len(objs) /\ DOMAIN objs = 1..n /\ \A i \in 1..n : objs[i] \in Pkt
  BY LenProperties
<1> DEFINE h == [i \in 1..n |-> [s \in Seq(Pkt) |-> IF objs[i].type \in T THEN Append(s, objs[i]) ELSE s]]
<1>2. Runs(n, Seq(Pkt), <<>>, h)
  <2>1. Rounds(n, Seq(Pkt), h)
    BY <1>1, AppendProperties DEF Rounds
  <2>2. <<>> \in Seq(Pkt)
    BY EmptySeq
  <2> HIDE DEF h
  <2>. QED  BY <1>1, <2>1, <2>2, Loop
<1>3. PICK f \in [0..n -> Seq(Pkt)] : f[0] = <<>> /\ \A i \in 1..n : f[i] = h[i][f[i - 1]]
  BY <1>2 DEF Runs
<1>4. f = [i \in 0..n |-> IF i = 0 THEN <<>>
                          ELSE IF objs[i].type \in T THEN Append(f[i - 1], objs[i]) ELSE f[i - 1]]
  <2>1. ASSUME NEW i \in 1..n
        PROVE  f[i] = IF objs[i].type \in T THEN Append(f[i - 1], objs[i]) ELSE f[i - 1]
    <3>1. f[i - 1] \in Seq(Pkt)
      BY i - 1 \in 0..n
    <3>. QED  BY <1>3, <3>1
  <2>2. \A i \in 0..n : i = 0 \/ i \in 1..n
    OBVIOUS
  <2>. QED  BY <1>3, <2>1, <2>2
<1> DEFINE k == CHOOSE array : array = [i \in 0..Len(objs) |->
                   IF i = 0 THEN <<>>
                   ELSE IF objs[i].type \in T THEN Append(array[i - 1], objs[i]) ELSE array[i - 1]]
<1>5. OfType(objs, T) = k[n]
  BY <1>1 DEF OfType
<1>6. k = [i \in 0..n |-> IF i = 0 THEN <<>>
                          ELSE IF objs[i].type \in T THEN Append(k[i - 1], objs[i]) ELSE k[i - 1]]
  BY <1>1, <1>4, Zenon
<1> HIDE DEF k, h
<1> DEFINE Good(i) == /\ k[i] \in Seq(Pkt) /\ Ascending(k[i])
                      /\ Range(k[i]) = {p \in First(objs, i) : p.type \in T}
<1>7. Good(0)
  <2>1. k[0] = <<>>
    BY <1>6
  <2>2. Range(<<>>) = {} /\ Ascending(<<>>) /\ <<>> \in Seq(Pkt)
    BY EmptySeq DEF Range, Ascending
  <2>. QED  BY <2>1, <2>2 DEF First
<1>8. ASSUME NEW i \in 0..(n - 1), Good(i) PROVE Good(i + 1)
  <2>1. PICK j \in 1..n : j = i + 1 /\ j - 1 = i /\ j # 0 /\ j \in 0..n
    OBVIOUS
  <2>2. k[j] = IF objs[j].type \in T THEN Append(k[i], objs[j]) ELSE k[i]
    BY <1>6, <2>1
  <2>3. First(objs, j) = First(objs, i) \cup {objs[j]}
    <3>1. 1..j = 1..i \cup {j}
      BY <2>1
    <3>. QED  BY <3>1 DEF First
  <2>4. CASE objs[j].type \in T
    <3>1. \A q \in Range(k[i]) : q.id < objs[j].id
      <4>1. \A m \in 1..i : m \in 1..n /\ m < j
        BY <2>1
      <4>2. \A m \in 1..i : objs[m].id < objs[j].id
        BY <1>1, <4>1 DEF Ascending
      <4>. QED  BY <1>8, <4>2 DEF First
    <3>2. objs[j] \in Pkt
      BY <1>1
    <3>3. PICK s \in Seq(Pkt) : s = k[i]
      BY <1>8
    <3>4. Append(s, objs[j]) \in Seq(Pkt) /\ Ascending(Append(s, objs[j]))
          /\ Range(Append(s, objs[j])) = Range(s) \cup {objs[j]}
      BY <1>8, <3>1, <3>2, <3>3, AscendingAppend
    <3>. QED  BY <1>8, <2>1, <2>2, <2>3, <2>4, <3>3, <3>4
  <2>5. CASE objs[j].type \notin T
    BY <1>8, <2>1, <2>2, <2>3, <2>5
  <2>. QED  BY <2>4, <2>5
<1>9. Good(n)
  <2> DEFINE G == {i \in 0..n : Good(i)}
  <2>1. 0 \in G /\ \A i \in 0..(n - 1) : i \in G => i + 1 \in G
    BY <1>7, <1>8
  <2>2. 0..n \subseteq G
    <3> HIDE DEF G
    <3>. QED  BY <2>1, UpTo
  <2>. QED  BY <2>2
<1>10. First(objs, n) = Range(objs)
  BY <1>1 DEF First, Range
<1>. QED  BY <1>5, <1>9, <1>10

\* The graph after the first i packets were enqueued one by one.
Dealt(objs, i, g) ==
  /\ Sound(g) /\ Range(g.pending) \subseteq {"tx", "drop"}
  /\ \A m \in Nodes \ {"tx", "drop"} : g.stream[m] = <<>>
  /\ Ascending(g.stream["tx"]) /\ Ascending(g.stream["drop"])
  /\ Range(g.stream["tx"]) = {p \in First(objs, i) : p.type = "ipv4"}
  /\ Range(g.stream["drop"]) = {p \in First(objs, i) : p.type # "ipv4"}

\* One more packet.
LEMMA DealOne ==
  ASSUME NEW objs \in Seq(Pkt), Ascending(objs), NEW i \in 0..(Len(objs) - 1), NEW g,
         Dealt(objs, i, g), NEW j, j = i + 1
  PROVE  Dealt(objs, j, Enqueue(g, IF objs[j].type = "ipv4" THEN "tx" ELSE "drop", <<objs[j]>>))
<1>1. PICK n \in Nat : n = Len(objs) /\ DOMAIN objs = 1..n /\ \A k \in 1..n : objs[k] \in Pkt
  BY LenProperties
<1>2. j \in 1..n /\ i < j /\ objs[j] \in Pkt /\ \A k \in 1..i : k \in 1..n /\ k < j
  BY <1>1
<1>3. \A q \in First(objs, i) : q.id < objs[j].id
  BY <1>1, <1>2 DEF Ascending, First
<1>4. First(objs, j) = First(objs, i) \cup {objs[j]}
  <2>1. 1..j = 1..i \cup {j}
    BY <1>2
  <2>. QED  BY <2>1 DEF First
<1>5. PICK m : m = IF objs[j].type = "ipv4" THEN "tx" ELSE "drop"
  OBVIOUS
<1>6. m \in {"tx", "drop"} /\ m \in Nodes /\ m \notin SourceNodes
  BY <1>5 DEF Nodes, SourceNodes
<1>7. PICK r, o : r = Enqueue(g, m, <<objs[j]>>) /\ o = <<objs[j]>>
  OBVIOUS
<1>8. o \in Seq(Pkt) /\ o # <<>>
  BY <1>2, <1>7
<1>9. Enqueued(g, m, o, r)
  BY <1>6, <1>7, <1>8, EnqueueSound DEF Dealt
<1>10. \A k \in Nodes : r.stream[k] = IF k = m THEN g.stream[m] \o o ELSE g.stream[k]
  BY <1>9 DEF Enqueued
<1>11. g.stream \in [Nodes -> Seq(Pkt)]
  BY DEF Dealt, Sound
<1>12. PICK s \in Seq(Pkt) : s = g.stream[m]
  BY <1>6, <1>11
<1>13. s \o o = Append(s, objs[j])
  BY <1>2, <1>7, AppendIsConcat
<1>14. Range(s) \subseteq First(objs, i) /\ Ascending(s)
  BY <1>6, <1>12 DEF Dealt
<1>15. Ascending(Append(s, objs[j])) /\ Range(Append(s, objs[j])) = Range(s) \cup {objs[j]}
  BY <1>2, <1>3, <1>14, AscendingAppend
<1>16. r.stream[m] = Append(s, objs[j])
  BY <1>6, <1>10, <1>12, <1>13
<1>17. "tx" \in Nodes /\ "drop" \in Nodes
  BY DEF Nodes
<1>18. \A k \in Nodes \ {"tx", "drop"} : r.stream[k] = <<>>
  BY <1>6, <1>10 DEF Dealt
<1>19. Sound(r) /\ Range(r.pending) \subseteq {"tx", "drop"}
  BY <1>6, <1>9 DEF Enqueued, Dealt
<1>20. CASE m = "tx"
  <2>1. objs[j].type = "ipv4" /\ r.stream["drop"] = g.stream["drop"]
    BY <1>5, <1>10, <1>17, <1>20
  <2>2. Range(r.stream["tx"]) = {p \in First(objs, j) : p.type = "ipv4"}
    BY <1>4, <1>12, <1>15, <1>16, <1>20, <2>1 DEF Dealt
  <2>3. Range(r.stream["drop"]) = {p \in First(objs, j) : p.type # "ipv4"}
    BY <1>4, <2>1 DEF Dealt
  <2>. QED  BY <1>5, <1>7, <1>15, <1>16, <1>18, <1>19, <1>20, <2>1, <2>2, <2>3 DEF Dealt
<1>21. CASE m = "drop"
  <2>1. objs[j].type # "ipv4" /\ r.stream["tx"] = g.stream["tx"]
    BY <1>5, <1>10, <1>17, <1>21
  <2>2. Range(r.stream["drop"]) = {p \in First(objs, j) : p.type # "ipv4"}
    BY <1>4, <1>12, <1>15, <1>16, <1>21, <2>1 DEF Dealt
  <2>3. Range(r.stream["tx"]) = {p \in First(objs, j) : p.type = "ipv4"}
    BY <1>4, <2>1 DEF Dealt
  <2>. QED  BY <1>5, <1>7, <1>15, <1>16, <1>18, <1>19, <1>21, <2>1, <2>2, <2>3 DEF Dealt
<1>. QED  BY <1>6, <1>20, <1>21

\* The IPv4 packets go to transmit and the others to drop.
LEMMA RxDropDeals ==
  ASSUME RxDropIpv4, NEW objs \in Seq(Pkt), objs = stream["ipv4"], Ascending(objs),
         Dealt(objs, 0, Left("ipv4"))
  PROVE  Dealt(objs, Len(objs), Graph)'
<1>1. PICK n \in Nat : n = Len(objs)
  BY LenProperties
<1> DEFINE to(i) == IF objs[i].type = "ipv4" THEN "tx" ELSE "drop"
           D == {g \in [pending : Seq(Nodes), stream : [Nodes -> Seq(Pkt)]] :
                   \E i \in 0..n : Dealt(objs, i, g)}
           first == Left("ipv4")
           h == [i \in 1..n |-> [g \in D |-> IF Dealt(objs, i - 1, g) THEN Enqueue(g, to(i), <<objs[i]>>) ELSE first]]
<1>2. \A g : \A i \in 0..n : Dealt(objs, i, g) => g \in D
  BY DEF Dealt, Sound
<1>3. \A g : \A i \in 1..n : Dealt(objs, i - 1, g) => Dealt(objs, i, Enqueue(g, to(i), <<objs[i]>>))
  <2>1. SUFFICES ASSUME NEW j \in 1..n, NEW g, Dealt(objs, j - 1, g)
                 PROVE  Dealt(objs, j, Enqueue(g, to(j), <<objs[j]>>))
    OBVIOUS
  <2>2. PICK i \in 0..(Len(objs) - 1) : i = j - 1 /\ j = i + 1
    BY <1>1
  <2>. QED  BY <2>1, <2>2, DealOne
<1>4. first \in D
  BY <1>2
<1>5. Rounds(n, D, h)
  <2>1. SUFFICES ASSUME NEW i \in 1..n, NEW g \in D PROVE h[i][g] \in D
    BY DEF Rounds
  <2>2. h[i][g] = IF Dealt(objs, i - 1, g) THEN Enqueue(g, to(i), <<objs[i]>>) ELSE first
    OBVIOUS
  <2>3. i \in 0..n
    OBVIOUS
  <2> HIDE DEF h, D, to, first
  <2>. QED  BY <1>2, <1>3, <1>4, <2>2, <2>3
<1>6. Runs(n, D, first, h)
  <2> HIDE DEF D, h, first
  <2>. QED  BY <1>4, <1>5, Loop
<1>7. PICK f \in [0..n -> D] : f[0] = first /\ \A i \in 1..n : f[i] = h[i][f[i - 1]]
  BY <1>6 DEF Runs
<1>8. \A i \in 0..n : Dealt(objs, i, f[i])
  <2> DEFINE T == {i \in 0..n : Dealt(objs, i, f[i])}
  <2>1. 0 \in T
    BY <1>7
  <2>2. ASSUME NEW i \in 0..(n - 1), i \in T PROVE i + 1 \in T
    <3>1. PICK j \in 1..n : j = i + 1 /\ j - 1 = i /\ j \in 0..n
      OBVIOUS
    <3>2. f[i] \in D /\ Dealt(objs, i, f[i])
      BY <2>2
    <3>3. f[j] = h[j][f[i]]
      BY <1>7, <3>1
    <3>4. f[j] = Enqueue(f[i], to(j), <<objs[j]>>)
      BY <3>1, <3>2, <3>3
    <3>5. Dealt(objs, j, f[j])
      <4> HIDE DEF to
      <4>. QED  BY <1>3, <3>1, <3>2, <3>4
    <3>. QED  BY <3>1, <3>5
  <2>3. 0..n \subseteq T
    <3> HIDE DEF T
    <3>. QED  BY <2>1, <2>2, UpTo
  <2>. QED  BY <2>3
<1>9. f = [i \in 0..n |-> IF i = 0 THEN Left("ipv4")
                          ELSE Enqueue(f[i - 1], IF objs[i].type = "ipv4" THEN "tx" ELSE "drop", <<objs[i]>>)]
  <2>1. ASSUME NEW i \in 1..n PROVE f[i] = Enqueue(f[i - 1], to(i), <<objs[i]>>)
    <3>1. PICK m \in 0..n : m = i - 1
      OBVIOUS
    <3>2. f[m] \in D /\ Dealt(objs, m, f[m])
      BY <1>7, <1>8
    <3>. QED  BY <1>7, <3>1, <3>2
  <2>2. \A i \in 0..n : i = 0 \/ i \in 1..n
    OBVIOUS
  <2> HIDE DEF D, h
  <2>. QED  BY <1>7, <2>1, <2>2
<1> HIDE DEF D, h, first, to
<1> DEFINE k == CHOOSE graph : graph = [i \in 0..Len(stream["ipv4"]) |->
                   IF i = 0 THEN Left("ipv4")
                   ELSE Enqueue(graph[i - 1], IF stream["ipv4"][i].type = "ipv4" THEN "tx" ELSE "drop",
                                <<stream["ipv4"][i]>>)]
<1>10. Become(k[n])
  BY <1>1 DEF RxDropIpv4
<1>11. k = [i \in 0..n |-> IF i = 0 THEN Left("ipv4")
                           ELSE Enqueue(k[i - 1], IF objs[i].type = "ipv4" THEN "tx" ELSE "drop", <<objs[i]>>)]
  BY <1>1, <1>9, Zenon
<1> HIDE DEF k
<1>12. \A i \in 0..n : Dealt(objs, i, k[i])
  <2> DEFINE T == {i \in 0..n : Dealt(objs, i, k[i])}
  <2>1. 0 \in T
    BY <1>11
  <2>2. ASSUME NEW i \in 0..(n - 1), i \in T PROVE i + 1 \in T
    <3>1. PICK j \in 1..n : j = i + 1 /\ j - 1 = i /\ j \in 0..n /\ j # 0
      OBVIOUS
    <3>2. k[j] = Enqueue(k[i], to(j), <<objs[j]>>)
      BY <1>11, <3>1 DEF to
    <3>3. Dealt(objs, j, k[j])
      BY <1>3, <2>2, <3>1, <3>2
    <3>. QED  BY <3>1, <3>3
  <2>3. 0..n \subseteq T
    <3> HIDE DEF T
    <3>. QED  BY <2>1, <2>2, UpTo
  <2>. QED  BY <2>3
<1>13. Dealt(objs, n, k[n])
  BY <1>12
<1>14. pending' = k[n].pending /\ stream' = k[n].stream
  BY <1>10 DEF Become
<1>15. Graph' = k[n]
  <2>1. k[n] \in [pending : Seq(Nodes), stream : [Nodes -> Seq(Pkt)]]
    BY <1>13 DEF Dealt, Sound
  <2>. QED  BY <1>14, <2>1 DEF Graph
<1>. QED  BY <1>1, <1>13, <1>15

-----------------------------------------------------------------------------
(* The order of packets and nodes *)

LEMMA AscendingFamily ==
  ASSUME NEW s \in Seq(Pkt), Ascending(s)
  PROVE  InFamilyOrder(s)
<1>1. \A i \in DOMAIN s : s[i].id \in Nat
  <2>1. \A i \in 1..Len(s) : s[i] \in Pkt
    BY ElementOfSeq
  <2>. QED  BY <2>1, LenProperties DEF Pkt
<1>. QED  BY <1>1 DEF Ascending, InFamilyOrder

LEMMA FamilyConcat ==
  ASSUME NEW s \in Seq(Pkt), NEW t \in Seq(Pkt), InFamilyOrder(s), InFamilyOrder(t),
         \A p \in Range(s), q \in Range(t) :
           p.id < q.id \/ (p.type = "ipv4" /\ q.type = "ipv6" /\ p.burst = q.burst)
  PROVE  InFamilyOrder(s \o t)
<1>1. PICK c : c = s \o t
  OBVIOUS
<1>2. PICK m \in Nat, n \in Nat :
       /\ DOMAIN s = 1..m /\ DOMAIN t = 1..n /\ DOMAIN c = 1..(m + n)
       /\ \A i \in 1..(m + n) : \/ i \in 1..m /\ c[i] = s[i]
                                \/ i - m \in 1..n /\ i > m /\ c[i] = t[i - m]
  <2>1. /\ Len(s) \in Nat /\ Len(t) \in Nat
        /\ DOMAIN s = 1..Len(s) /\ DOMAIN t = 1..Len(t) /\ DOMAIN c = 1..(Len(s) + Len(t))
        /\ \A i \in 1..(Len(s) + Len(t)) :
             \/ i \in 1..Len(s) /\ c[i] = s[i]
             \/ i - Len(s) \in 1..Len(t) /\ i > Len(s) /\ c[i] = t[i - Len(s)]
    BY <1>1, ConcatParts
  <2>. QED  BY <2>1
<1>3. /\ \A i \in 1..m : s[i] \in Range(s) /\ s[i].id \in Nat
      /\ \A i \in 1..n : t[i] \in Range(t) /\ t[i].id \in Nat
  <2>1. \A i \in 1..Len(s) : s[i] \in Pkt
    BY ElementOfSeq
  <2>2. \A i \in 1..Len(t) : t[i] \in Pkt
    BY ElementOfSeq
  <2>. QED  BY <1>2, <2>1, <2>2, LenProperties DEF Pkt, Range
<1>4. SUFFICES ASSUME NEW i \in 1..(m + n), NEW j \in 1..(m + n), i < j, c[i].id > c[j].id
               PROVE  c[i].type = "ipv4" /\ c[j].type = "ipv6" /\ c[i].burst = c[j].burst
  <2>1. InFamilyOrder(c) => InFamilyOrder(s \o t)
    BY <1>1
  <2>. QED  BY <1>2, <2>1 DEF InFamilyOrder
<1>5. CASE i \in 1..m /\ j \in 1..m
  BY <1>2, <1>4, <1>5 DEF InFamilyOrder
<1>6. CASE i - m \in 1..n /\ j - m \in 1..n
  <2>1. PICK a \in 1..n, b \in 1..n : a = i - m /\ b = j - m
    BY <1>6
  <2>2. c[i] = t[a] /\ c[j] = t[b] /\ a < b
    BY <1>2, <1>4, <1>6, <2>1
  <2>3. t[a].id > t[b].id
    BY <1>4, <2>2
  <2>4. t[a].type = "ipv4" /\ t[b].type = "ipv6" /\ t[a].burst = t[b].burst
    <3>1. \A x, y \in 1..n : x < y /\ t[x].id > t[y].id =>
            t[x].type = "ipv4" /\ t[y].type = "ipv6" /\ t[x].burst = t[y].burst
      BY <1>2, Zenon DEF InFamilyOrder
    <3>. QED  BY <2>2, <2>3, <3>1
  <2>. QED  BY <2>2, <2>4
<1>7. CASE i \in 1..m /\ j - m \in 1..n
  <2>1. PICK b \in 1..n : b = j - m /\ c[i] = s[i] /\ c[j] = t[b]
    BY <1>2, <1>4, <1>7
  <2>2. ~(s[i].id < t[b].id)
    BY <1>3, <1>4, <1>7, <2>1
  <2>. QED  BY <1>3, <1>7, <2>1, <2>2
<1>. QED  BY <1>2, <1>4, <1>5, <1>6, <1>7

LEMMA FamilyTaken ==
  ASSUME NEW s \in Seq(Pkt), InFamilyOrder(s), Distinct(s), NEW k \in Nat, k <= Len(s)
  PROVE  InFamilyOrder(Taken(s, k))
BY IdsOfParts, SMTT(30) DEF InFamilyOrder

\* The first of a ranked list has the lowest rank.
LEMMA RankedTail ==
  ASSUME NEW s \in Seq(Nodes), s # <<>>, Ranked(s)
  PROVE  Ranked(Tail(s)) /\ \A m \in Range(Tail(s)) : Rank(Head(s)) < Rank(m)
<1>1. PICK n \in Nat : n = Len(s) /\ n # 0 /\ DOMAIN s = 1..n
  BY LenProperties, EmptySeq
<1>2. PICK t : t = Tail(s) /\ DOMAIN t = 1..(n - 1) /\ \A i \in 1..(n - 1) : t[i] = s[i + 1]
  <2>1. Tail(s) \in Seq(Nodes) /\ Len(Tail(s)) = n - 1 /\ \A i \in 1..Len(Tail(s)) : Tail(s)[i] = s[i + 1]
    BY <1>1, HeadTailProperties
  <2>. QED  BY <2>1, LenProperties
<1>3. Head(s) = s[1]
  BY <1>1
<1>4. \A i \in 1..(n - 1) : i + 1 \in 1..n /\ 1 \in 1..n /\ 1 < i + 1
  BY <1>1
<1>5. \A i, j \in 1..(n - 1) : i < j => Rank(t[i]) < Rank(t[j])
  <2>1. SUFFICES ASSUME NEW i \in 1..(n - 1), NEW j \in 1..(n - 1), i < j PROVE Rank(t[i]) < Rank(t[j])
    OBVIOUS
  <2>2. i + 1 < j + 1
    BY <2>1
  <2>. QED  BY <1>1, <1>2, <1>4, <2>2 DEF Ranked
<1>6. \A i \in 1..(n - 1) : Rank(Head(s)) < Rank(t[i])
  BY <1>1, <1>2, <1>3, <1>4 DEF Ranked
<1>. QED  BY <1>2, <1>5, <1>6 DEF Ranked, Range

LEMMA RankedAppend ==
  ASSUME NEW s \in Seq(Nodes), NEW e \in Nodes, Ranked(s), \A m \in Range(s) : Rank(m) < Rank(e)
  PROVE  Ranked(Append(s, e))
<1>1. PICK n \in Nat : n = Len(s) /\ DOMAIN s = 1..n
  BY LenProperties
<1>2. PICK t : t = Append(s, e) /\ DOMAIN t = 1..(n + 1) /\ t[n + 1] = e /\ \A i \in 1..n : t[i] = s[i]
  <2>1. /\ Append(s, e) \in Seq(Nodes) /\ Len(Append(s, e)) = n + 1
        /\ \A i \in 1..n : Append(s, e)[i] = s[i]
        /\ Append(s, e)[n + 1] = e
    BY <1>1, AppendProperties
  <2>. QED  BY <2>1, LenProperties
<1>3. \A i \in 1..n : Rank(s[i]) < Rank(e)
  BY <1>1 DEF Range
<1>4. \A i, j \in 1..(n + 1) : i < j => i \in 1..n /\ (j \in 1..n \/ j = n + 1)
  OBVIOUS
<1>. QED  BY <1>1, <1>2, <1>3, <1>4 DEF Ranked

\* A list of one node.
LEMMA OneInList ==
  ASSUME NEW n \in Nodes
  PROVE  /\ <<n>> \in Seq(Nodes) /\ Tail(<<n>>) = <<>> /\ Head(<<n>>) = n /\ <<n>> # <<>>
         /\ Range(<<n>>) = {n} /\ Range(<<>>) = {} /\ Append(<<>>, n) = <<n>>
         /\ Ranked(<<n>>) /\ Ranked(<<>>) /\ Once(<<n>>) /\ Once(<<>>)
<1>1. Range(<<n>>) = {n} /\ Range(<<>>) = {}
  BY OneNode DEF Range
<1>2. Ranked(<<n>>) /\ Ranked(<<>>) /\ Once(<<n>>) /\ Once(<<>>)
  BY DEF Ranked, Once
<1>. QED  BY <1>1, <1>2

\* If only n is listed then no other node has packets.
LEMMA OthersEmpty ==
  ASSUME Sound(Graph), NEW n \in Nodes, pending = <<n>>
  PROVE  /\ \A m \in Nodes : m # n => stream[m] = <<>>
         /\ n \in SourceNodes => \A m \in Nodes : stream[m] = <<>>
BY OneInList DEF Sound, Graph

LEMMA NoPackets == Range(<<>>) = {} /\ Ascending(<<>>) /\ InFamilyOrder(<<>>)
BY DEF Range, Ascending, InFamilyOrder

-----------------------------------------------------------------------------
(* How packets change hands *)

LEMMA HoldingsAre ==
  /\ \A n \in Nodes : n \in Owners /\ n \notin {"sent", "freed", "lost"} /\ Holdings[n] = stream[n]
  /\ "sent" \in Owners /\ "freed" \in Owners /\ "lost" \in Owners
  /\ Holdings["sent"] = sent /\ Holdings["freed"] = freed /\ Holdings["lost"] = lost
<1>1. "sent" \notin Nodes /\ "freed" \notin Nodes /\ "lost" \notin Nodes
  BY DEF Nodes
<1>. QED  BY <1>1 DEF Owners, Holdings, Held

LEMMA HoldingsNext ==
  /\ \A n \in Nodes : Holdings'[n] = stream'[n]
  /\ Holdings'["sent"] = sent' /\ Holdings'["freed"] = freed' /\ Holdings'["lost"] = lost'
<1>1. (/\ \A n \in Nodes : n \in Owners /\ n \notin {"sent", "freed", "lost"} /\ Holdings[n] = stream[n]
       /\ "sent" \in Owners /\ "freed" \in Owners /\ "lost" \in Owners
       /\ Holdings["sent"] = sent /\ Holdings["freed"] = freed /\ Holdings["lost"] = lost)'
  BY HoldingsAre, PTL
<1>. QED  BY <1>1

LEMMA HoldingsType ==
  ASSUME CustodyInv, stream \in [Nodes -> Seq(Pkt)]
  PROVE  Holdings \in [Owners -> Seq(Pkt)]
<1>1. \A x \in Owners : x \in Nodes \/ x \in {"sent", "freed", "lost"}
  BY DEF Owners
<1>2. \A x \in Owners : Holdings[x] \in Seq(Pkt)
  BY <1>1, HoldingsAre DEF CustodyInv
<1>. QED  BY <1>2 DEF Holdings

\* The node v hands its packets on, together with newly allocated ones.
LEMMA CustodyKept ==
  ASSUME CustodyInv, stream \in [Nodes -> Seq(Pkt)], app \in MbufApps, NEW v \in Owners, NEW d,
         accepted' \in Nat, accepted <= accepted',
         Hands(Holdings, Holdings', v, d, (accepted + 1)..accepted')
  PROVE  OneOwner'
<1>1. PICK h, k, N, U : /\ h = Holdings /\ k = Holdings' /\ N = (accepted + 1)..accepted'
                        /\ U = 1..accepted
  OBVIOUS
<1>2. h \in [Owners -> Seq(Pkt)] /\ Parted(h, U)
  BY <1>1, HoldingsType, OneOwnerParted DEF CustodyInv
<1>3. accepted \in Nat
  BY DEF CustodyInv
<1>4. U \cap N = {} /\ U \cup N = 1..accepted'
  BY <1>1, <1>3
<1>5. Hands(h, k, v, d, N)
  BY <1>1
<1>6. Parted(k, U \cup N)
  BY <1>2, <1>4, <1>5, HandingOn
<1>7. Parted(Holdings', 1..accepted')
  BY <1>1, <1>4, <1>6
<1>8. (OneOwner <=> Parted(Holdings, 1..accepted))'
  BY OneOwnerParted, PTL
<1>. QED  BY <1>7, <1>8

\* What every owner has: distinct packets, each with a number handed out.
LEMMA OwnersHave ==
  ASSUME CustodyInv, app \in MbufApps
  PROVE  /\ \A x \in Owners : Distinct(Holdings[x]) /\ Ids(Holdings[x]) \subseteq 1..accepted
         /\ \A x \in Owners : \A p \in Range(Holdings[x]) : p.id \in Ids(Holdings[x])
         /\ \A x \in Owners : \A p, q \in Range(Holdings[x]) : p.id = q.id => p = q
         /\ \A x, y \in Owners : x # y => Ids(Holdings[x]) \cap Ids(Holdings[y]) = {}
<1>1. Parted(Holdings, 1..accepted)
  BY OneOwnerParted DEF CustodyInv
<1>2. \A x \in Owners : Distinct(Holdings[x]) /\ Ids(Holdings[x]) \subseteq 1..accepted
  BY <1>1 DEF Parted
<1>3. \A x \in Owners : \A p \in Range(Holdings[x]) : p.id \in Ids(Holdings[x])
  BY DEF Ids, Range
<1>4. ASSUME NEW x \in Owners, NEW p \in Range(Holdings[x]), NEW q \in Range(Holdings[x]), p.id = q.id
      PROVE  p = q
  <2>1. PICK i \in DOMAIN Holdings[x], j \in DOMAIN Holdings[x] : p = Holdings[x][i] /\ q = Holdings[x][j]
    BY DEF Range
  <2>. QED  BY <1>2, <1>4, <2>1 DEF Distinct
<1>5. \A x, y \in Owners : x # y => Ids(Holdings[x]) \cap Ids(Holdings[y]) = {}
  BY <1>1 DEF Parted
<1>. QED  BY <1>2, <1>3, <1>4, <1>5

\* The packets of a sequence have the numbers of it.
LEMMA IdsOfRange ==
  ASSUME NEW s
  PROVE  Ids(s) = {p.id : p \in Range(s)}
BY DEF Ids, Range

\* Node v hands its packets and the newly allocated ones on to x, y and z.
Deal(v, x, s, y, t, z, u) ==
  /\ v \in Nodes /\ {x, y, z} \subseteq Owners \ {v} /\ x # y /\ x # z /\ y # z
  /\ s \in Seq(Pkt) /\ t \in Seq(Pkt) /\ u \in Seq(Pkt)
  /\ Distinct(s) /\ Distinct(t) /\ Distinct(u)
  /\ Ids(s) \cap Ids(t) = {} /\ Ids(s) \cap Ids(u) = {} /\ Ids(t) \cap Ids(u) = {}
  /\ Ids(s) \cup Ids(t) \cup Ids(u) = Ids(stream[v]) \cup ((accepted + 1)..accepted')
  /\ Holdings'[v] = <<>>
  /\ Holdings'[x] = Holdings[x] \o s /\ Holdings'[y] = Holdings[y] \o t /\ Holdings'[z] = Holdings[z] \o u
  /\ \A w \in Owners \ {v, x, y, z} : Holdings'[w] = Holdings[w]

LEMMA Dealing ==
  ASSUME CustodyInv, stream \in [Nodes -> Seq(Pkt)], app \in MbufApps,
         accepted' \in Nat, accepted <= accepted',
         NEW v, NEW x, NEW y, NEW z, NEW s, NEW t, NEW u, Deal(v, x, s, y, t, z, u)
  PROVE  OneOwner'
<1> DEFINE d == [w \in Owners |-> IF w = x THEN s ELSE IF w = y THEN t ELSE IF w = z THEN u ELSE <<>>]
<1>1. /\ v \in Nodes /\ v \in Owners /\ x \in Owners /\ y \in Owners /\ z \in Owners
      /\ v \notin {x, y, z} /\ x # y /\ x # z /\ y # z
  BY HoldingsAre DEF Deal
<1>2. d \in [Owners -> Seq(Pkt)] /\ d[x] = s /\ d[y] = t /\ d[z] = u
      /\ \A w \in Owners \ {x, y, z} : d[w] = <<>>
  BY <1>1, EmptySeq DEF Deal
<1> HIDE DEF d
<1>3. \A w \in Owners : w \in {x, y, z} \/ (d[w] = <<>> /\ Ids(d[w]) = {} /\ Distinct(d[w]))
  BY <1>2, IdsOfEmpty
<1>4. Parted(d, Ids(s) \cup Ids(t) \cup Ids(u))
  <2>1. \A w \in Owners : Distinct(d[w])
    BY <1>2, <1>3 DEF Deal
  <2>2. ASSUME NEW a \in Owners, NEW b \in Owners, a # b PROVE Ids(d[a]) \cap Ids(d[b]) = {}
    <3>1. CASE a \in {x, y, z} /\ b \in {x, y, z}
      BY <1>2, <2>2, <3>1 DEF Deal
    <3>. QED  BY <1>3, <3>1
  <2>3. UNION {Ids(d[w]) : w \in Owners} = Ids(s) \cup Ids(t) \cup Ids(u)
    <3>1. \A w \in Owners : Ids(d[w]) \subseteq Ids(s) \cup Ids(t) \cup Ids(u)
      BY <1>2, <1>3
    <3>2. \A e \in Ids(s) \cup Ids(t) \cup Ids(u) : \E w \in Owners : e \in Ids(d[w])
      BY <1>1, <1>2
    <3>. QED  BY <3>1, <3>2
  <2>. QED  BY <2>1, <2>2, <2>3 DEF Parted
<1>5. \A w \in Owners : Holdings[w] \in Seq(Pkt)
  BY HoldingsType
<1>6. ASSUME NEW w \in Owners PROVE Holdings'[w] = (IF w = v THEN <<>> ELSE Holdings[w]) \o d[w]
  <2>1. CASE w = v
    <3>1. <<>> \o <<>> = <<>>
      BY ConcatEmptySeq, EmptySeq
    <3>. QED  BY <1>1, <1>2, <2>1, <3>1 DEF Deal
  <2>2. CASE w \in {x, y, z}
    BY <1>1, <1>2, <2>2 DEF Deal
  <2>3. CASE w \notin {v, x, y, z}
    <3>1. Holdings'[w] = Holdings[w] /\ d[w] = <<>>
      BY <1>2, <2>3 DEF Deal
    <3>2. Holdings[w] \o <<>> = Holdings[w]
      BY <1>5, ConcatEmptySeq
    <3>. QED  BY <2>3, <3>1, <3>2
  <2>. QED  BY <2>1, <2>2, <2>3
<1>7. Holdings[v] = stream[v]
  BY <1>1, HoldingsAre
<1>8. Ids(s) \cup Ids(t) \cup Ids(u) = Ids(Holdings[v]) \cup ((accepted + 1)..accepted')
  BY <1>7 DEF Deal
<1>9. Hands(Holdings, Holdings', v, d, (accepted + 1)..accepted')
  BY <1>2, <1>4, <1>6, <1>8 DEF Hands
<1>. QED  BY <1>1, <1>9, CustodyKept

-----------------------------------------------------------------------------
(* A visit *)

LEMMA VisitFacts ==
  ASSUME WalkInv, NEW a, a \notin Quiet, NEW n, Visit(a, n)
  PROVE  /\ app = a /\ app' = a /\ pc = "walk" /\ pc' = "walk"
         /\ Sound(Graph) /\ pending # <<>> /\ Head(pending) = n
         /\ n \in Nodes /\ Sound(Left(n))
         /\ Left(n).pending = Tail(pending) /\ Left(n).stream = [stream EXCEPT ![n] = <<>>]
         /\ \A m \in Nodes : Left(n).stream[m] = IF m = n THEN <<>> ELSE stream[m]
         /\ n \in Range(pending) /\ n \notin Range(Tail(pending))
         /\ Range(pending) = {n} \cup Range(Tail(pending))
         /\ stream \in [Nodes -> Seq(Pkt)] /\ pending \in Seq(Nodes)
         /\ n \notin SourceNodes => stream[n] # <<>>
         /\ n \in SourceNodes => stream[n] = <<>>
<1>1. /\ app = a /\ app' = a /\ pc = "walk" /\ pc' = "walk"
      /\ pending # <<>> /\ Head(pending) = n
  BY DEF Visit
<1>2. Sound(Graph)
  BY <1>1 DEF WalkInv
<1>3. /\ n \in Nodes /\ Sound(Left(n))
      /\ Left(n).pending = Tail(pending) /\ Left(n).stream = [stream EXCEPT ![n] = <<>>]
      /\ n \in Range(pending) /\ n \notin Range(Tail(pending))
      /\ Range(pending) = {n} \cup Range(Tail(pending))
      /\ stream \in [Nodes -> Seq(Pkt)] /\ pending \in Seq(Nodes)
      /\ n \notin SourceNodes => stream[n] # <<>>
      /\ n \in SourceNodes => stream[n] = <<>>
  BY <1>1, <1>2, LeftSound
<1>4. \A m \in Nodes : Left(n).stream[m] = IF m = n THEN <<>> ELSE stream[m]
  BY <1>3
<1>. QED  BY <1>1, <1>2, <1>3, <1>4

LEMMA WalkKept ==
  ASSUME WalkInv, NEW a, a \notin Quiet, NEW n, Visit(a, n), NEW r, Sound(r), Become(r),
         count' \in Nat, UNCHANGED helper
  PROVE  WalkInv' /\ pending' = r.pending /\ stream' = r.stream /\ stream' \in [Nodes -> Seq(Pkt)]
         /\ Sound(Graph)'
<1>1. app = a /\ app' = a /\ pc' = "walk"
  BY DEF Visit
<1>2. pending' = r.pending /\ stream' = r.stream
  BY DEF Become
<1>3. r \in [pending : Seq(Nodes), stream : [Nodes -> Seq(Pkt)]]
  BY DEF Sound
<1>4. Graph' = r
  BY <1>2, <1>3 DEF Graph
<1>5. Sound(Graph')
  BY <1>4
<1>6. Sound(Graph)'
  BY <1>5 DEF Sound
<1>7. WalkInv'
  BY <1>1, <1>6 DEF WalkInv
<1>. QED  BY <1>2, <1>3, <1>6, <1>7

-----------------------------------------------------------------------------
(* The receive node *)

LEMMA ReceivedPackets ==
  ASSUME accepted \in Nat, NEW n \in Nat, NEW pkts \in Received(n)
  PROVE  /\ pkts \in Seq(Pkt) /\ Ascending(pkts) /\ Ids(pkts) = (accepted + 1)..(accepted + n)
         /\ \A p \in Range(pkts) : /\ p.burst = accepted /\ p.type \in {"ipv4", "ipv6", "arp"}
                                   /\ p.id \in (accepted + 1)..(accepted + n)
<1>1. PICK types \in [1..n -> {"ipv4", "ipv6", "arp"}] :
        pkts = [j \in 1..n |-> [id |-> accepted + j, type |-> types[j], burst |-> accepted]]
  BY DEF Received
<1>2. DOMAIN pkts = 1..n /\ \A j \in 1..n : /\ pkts[j].id = accepted + j /\ pkts[j].burst = accepted
                                            /\ pkts[j].type \in {"ipv4", "ipv6", "arp"}
                                            /\ pkts[j] \in Pkt
  <2>1. DOMAIN pkts = 1..n
    BY <1>1
  <2>2. ASSUME NEW j \in 1..n
        PROVE  /\ pkts[j].id = accepted + j /\ pkts[j].burst = accepted
               /\ pkts[j].type \in {"ipv4", "ipv6", "arp"} /\ pkts[j] \in Pkt
    <3>1. types[j] \in {"ipv4", "ipv6", "arp"} /\ accepted + j \in Nat
      BY <1>1
    <3>2. types[j] \in Types
      BY <3>1 DEF Types
    <3>3. pkts[j] = [id |-> accepted + j, type |-> types[j], burst |-> accepted]
      BY <1>1
    <3>. QED  BY <3>1, <3>2, <3>3 DEF Pkt
  <2>. QED  BY <2>1, <2>2
<1>3. pkts \in [1..n -> Pkt]
  BY <1>1, <1>2
<1>4. pkts \in Seq(Pkt)
  BY <1>3
<1>5. Ascending(pkts)
  BY <1>2 DEF Ascending
<1>6. Ids(pkts) = (accepted + 1)..(accepted + n)
  <2>1. Ids(pkts) = {accepted + j : j \in 1..n}
    BY <1>2 DEF Ids
  <2>2. \A e \in (accepted + 1)..(accepted + n) : e - accepted \in 1..n /\ e = accepted + (e - accepted)
    OBVIOUS
  <2>3. \A j \in 1..n : accepted + j \in (accepted + 1)..(accepted + n)
    OBVIOUS
  <2>. QED  BY <2>1, <2>2, <2>3
<1>7. ASSUME NEW p \in Range(pkts)
      PROVE  /\ p.burst = accepted /\ p.type \in {"ipv4", "ipv6", "arp"}
             /\ p.id \in (accepted + 1)..(accepted + n)
  <2>1. PICK j \in 1..n : p = pkts[j]
    BY <1>2 DEF Range
  <2>. QED  BY <1>2, <2>1
<1>. QED  BY <1>4, <1>5, <1>6, <1>7

\* A burst enters the graph when nothing else is in it.
LEMMA RxKept ==
  ASSUME GraphInv, NEW n \in 0..BURST, NEW a, NEW next, RxNode(a, next, n),
         (a = "pipeline" /\ next = "l2") \/ (a = "rx_drop_sample" /\ next = "ipv4")
  PROVE  GraphInv'
<1>1. /\ WalkInv /\ CustodyInv /\ BurstInv /\ FamilyInv /\ a \notin Quiet /\ Visit(a, "rx")
      /\ accepted \in Nat /\ BURST \in Nat /\ n \in Nat /\ n <= BURST
  BY GraphAssumption DEF GraphInv, CustodyInv, Quiet, RxNode
<1>2. PICK pkts \in Received(n) : Become(EnqueueIfAny(Left("rx"), next, pkts))
  BY DEF RxNode
<1>3. accepted' = accepted + n /\ UNCHANGED <<count, quit, helper, sent, freed, lost>>
  BY DEF RxNode
<1>4. /\ pkts \in Seq(Pkt) /\ Ascending(pkts) /\ Ids(pkts) = (accepted + 1)..(accepted + n)
      /\ \A p \in Range(pkts) : /\ p.burst = accepted /\ p.type \in {"ipv4", "ipv6", "arp"}
                                /\ p.id \in (accepted + 1)..(accepted + n)
  BY <1>1, ReceivedPackets
<1>5. /\ app = a /\ app' = a /\ Sound(Graph) /\ "rx" \in Range(pending) /\ Sound(Left("rx"))
      /\ Left("rx").pending = Tail(pending)
      /\ \A m \in Nodes : Left("rx").stream[m] = IF m = "rx" THEN <<>> ELSE stream[m]
      /\ stream \in [Nodes -> Seq(Pkt)] /\ pc' = "walk"
  BY <1>1, VisitFacts
<1>6. /\ next \in Nodes /\ next \notin SourceNodes /\ next # "rx" /\ "rx" \in Nodes /\ "rx" \in SourceNodes
      /\ a \in BurstApps /\ a \in MbufApps
  BY DEF Nodes, SourceNodes, BurstApps, MbufApps
<1>7. pending = <<"rx">> /\ "rx" \in Entry
  BY <1>1, <1>5, <1>6 DEF BurstInv, Entry
<1>8. /\ \A m \in Nodes : stream[m] = <<>>
      /\ Left("rx").pending = <<>>
      /\ \A m \in Nodes : Left("rx").stream[m] = <<>>
  BY <1>5, <1>6, <1>7, OneInList, OthersEmpty
<1>9. PICK r : r = EnqueueIfAny(Left("rx"), next, pkts)
  OBVIOUS
<1>10. Enqueued(Left("rx"), next, pkts, r)
  BY <1>4, <1>5, <1>6, <1>9, EnqueueIfAnySound
<1>11. WalkInv' /\ pending' = r.pending /\ stream' = r.stream /\ stream' \in [Nodes -> Seq(Pkt)]
  <2>1. count' \in Nat /\ UNCHANGED helper /\ Become(r) /\ Sound(r)
    BY <1>1, <1>2, <1>3, <1>9, <1>10 DEF WalkInv, Enqueued
  <2>. QED  BY <1>1, <2>1, WalkKept
<1>12. \A m \in Nodes : stream'[m] = IF m = next THEN pkts ELSE <<>>
  <2>1. <<>> \o pkts = pkts
    BY <1>4, ConcatEmptySeq
  <2>. QED  BY <1>6, <1>8, <1>10, <1>11, <2>1 DEF Enqueued
<1>13. pending' = <<>> \/ pending' = <<next>>
  BY <1>6, <1>8, <1>10, <1>11, OneInList DEF Enqueued
<1>14. Range(pending') \subseteq {next} /\ Ranked(pending') /\ \A m \in Range(pending') : pending' = <<m>>
  BY <1>6, <1>13, OneInList
<1>15. OneOwner'
  <2>1. Deal("rx", next, pkts, "sent", <<>>, "freed", <<>>)
    <3>1. /\ {next, "sent", "freed"} \subseteq Owners \ {"rx"} /\ next # "sent" /\ next # "freed"
          /\ \A w \in Owners : w \in Nodes \/ w \in {"sent", "freed", "lost"}
      BY <1>6, HoldingsAre DEF Owners
    <3>2. Distinct(pkts) /\ Ids(<<>>) = {} /\ Distinct(<<>>) /\ <<>> \in Seq(Pkt)
      BY <1>4, AscendingDistinct, IdsOfEmpty, EmptySeq
    <3>3. /\ sent \in Seq(Pkt) /\ freed \in Seq(Pkt)
          /\ sent' = sent \o <<>> /\ freed' = freed \o <<>> /\ lost' = lost
      BY <1>1, <1>3, ConcatEmptySeq DEF CustodyInv
    <3>4. /\ Holdings'["sent"] = sent' /\ Holdings'["freed"] = freed' /\ Holdings'["lost"] = lost'
          /\ Holdings["sent"] = sent /\ Holdings["freed"] = freed /\ Holdings["lost"] = lost
          /\ \A m \in Nodes : Holdings[m] = <<>> /\ Holdings'[m] = IF m = next THEN pkts ELSE <<>>
      BY <1>8, <1>12, HoldingsAre, HoldingsNext
    <3>5. <<>> \o pkts = pkts /\ Ids(stream["rx"]) = {}
      BY <1>4, <1>6, <1>8, <3>2, ConcatEmptySeq
    <3>. QED  BY <1>3, <1>4, <1>6, <3>1, <3>2, <3>3, <3>4, <3>5 DEF Deal
  <2>. QED  BY <1>1, <1>3, <1>5, <1>6, <2>1, Dealing
<1>16. CustodyInv'
  <2>1. accepted' \in Nat /\ sent' \in Seq(Pkt) /\ freed' \in Seq(Pkt) /\ lost' \in Seq(Pkt)
    BY <1>1, <1>3 DEF CustodyInv
  <2>. QED  BY <1>1, <1>3, <1>5, <1>15, <2>1 DEF CustodyInv
<1>17. \A m \in Nodes : \A p \in Range(stream'[m]) : p \in Range(pkts) /\ m = next
  BY <1>12, NoPackets
<1>18. BurstInv'
  <2>1. Range(pending') \subseteq BurstNodes'
    BY <1>5, <1>14 DEF BurstNodes
  <2>2. \A m \in Nodes : \A p \in Range(stream'[m]) : p.id + BURST > accepted'
    BY <1>1, <1>3, <1>4, <1>17
  <2>3. \A m \in Nodes : Ascending(stream'[m])
    BY <1>4, <1>12, NoPackets
  <2>4. "tx" \in Nodes /\ "tx" # next /\ {"l2", "ipv4", "ipv6"} \subseteq Nodes
    BY DEF Nodes
  <2>5. InFamilyOrder(stream'["tx"]) /\ InFamilyOrder(sent')
    BY <1>1, <1>3, <1>5, <1>6, <1>12, <2>4, NoPackets DEF BurstInv
  <2>6. \A p \in Range(sent') : p.id \in 1..accepted
    <3>1. \A p \in Range(sent) : p.id \in Ids(sent)
      BY DEF Range, Ids
    <3>2. Ids(sent) \subseteq 1..accepted
      BY <1>1, <1>5, <1>6, OwnersHave, HoldingsAre
    <3>. QED  BY <1>3, <3>1, <3>2
  <2>7. \A m \in Nodes : \A p \in Range(sent'), q \in Range(stream'[m]) : p.id < q.id
    BY <1>1, <1>4, <1>17, <2>6
  <2>. QED  BY <1>14, <2>1, <2>2, <2>3, <2>4, <2>5, <2>7 DEF BurstInv
<1>19. FamilyInv'
  <2>1. SUFFICES ASSUME app' = "pipeline" PROVE FamilyInv'
    BY DEF FamilyInv
  <2>2. next = "l2"
    BY <1>5, <2>1
  <2>3. {"l2", "ipv4", "ipv6", "tx"} \subseteq Nodes
    BY DEF Nodes
  <2>4. Range(stream'["ipv4"]) = {} /\ Range(stream'["ipv6"]) = {}
        /\ "ipv4" \notin Range(pending') /\ "ipv6" \notin Range(pending')
    BY <1>12, <1>14, <2>2, <2>3, NoPackets
  <2>5. \A m, k \in Nodes : \A p \in Range(stream'[m]), q \in Range(stream'[k]) : p.burst = q.burst
    BY <1>4, <1>17
  <2>6. \A p \in Range(stream'["l2"]) : p.type \in {"ipv4", "ipv6", "arp"}
    BY <1>4, <1>17, <2>3
  <2>. QED  BY <1>14, <2>4, <2>5, <2>6 DEF FamilyInv
<1>. QED  BY <1>11, <1>16, <1>18, <1>19 DEF GraphInv

-----------------------------------------------------------------------------
(* The nodes of graph/pipeline *)

\* s holds the packets of objs with the types T.
Selects(s, objs, T) == Range(s) = {p \in Range(objs) : p.type \in T}

\* The packets of one type are apart from those of another.
LEMMA TypesApart ==
  ASSUME NEW objs \in Seq(Pkt), Distinct(objs), NEW s, NEW t, NEW S, NEW T, S \cap T = {},
         Selects(s, objs, S), Selects(t, objs, T)
  PROVE  Ids(s) \cap Ids(t) = {}
<1>1. SUFFICES ASSUME NEW p \in Range(objs), NEW q \in Range(objs), p.type \in S, q.type \in T, p.id = q.id
               PROVE  FALSE
  BY IdsOfRange DEF Selects
<1>2. PICK i \in DOMAIN objs, j \in DOMAIN objs : p = objs[i] /\ q = objs[j]
  BY DEF Range
<1>. QED  BY <1>1, <1>2 DEF Distinct

\* l2_node_process deals the burst out to three nodes; it is alone in the
\* graph then.
LEMMA L2Kept ==
  ASSUME GraphInv, L2Node
  PROVE  GraphInv'
<1>1. /\ WalkInv /\ CustodyInv /\ BurstInv /\ FamilyInv /\ "pipeline" \notin Quiet
      /\ Visit("pipeline", "l2") /\ accepted \in Nat /\ UNCHANGED <<count, quit, helper, mbufVars>>
  BY DEF GraphInv, CustodyInv, Quiet, L2Node
<1>2. /\ app = "pipeline" /\ app' = "pipeline" /\ Sound(Graph) /\ "l2" \in Range(pending) /\ Sound(Left("l2"))
      /\ Left("l2").pending = Tail(pending)
      /\ \A m \in Nodes : Left("l2").stream[m] = IF m = "l2" THEN <<>> ELSE stream[m]
      /\ stream \in [Nodes -> Seq(Pkt)] /\ pc' = "walk"
  BY <1>1, VisitFacts
<1>3. /\ {"l2", "ipv4", "ipv6", "drop", "tx"} \subseteq Nodes
      /\ {"ipv4", "ipv6", "drop"} \cap SourceNodes = {}
      /\ "pipeline" \in BurstApps /\ "pipeline" \in MbufApps
  BY DEF Nodes, SourceNodes, BurstApps, MbufApps
<1>4. pending = <<"l2">>
  BY <1>1, <1>2, <1>3 DEF BurstInv, Entry
<1>5. /\ \A m \in Nodes \ {"l2"} : stream[m] = <<>>
      /\ Left("l2").pending = <<>>
      /\ \A m \in Nodes : Left("l2").stream[m] = <<>>
  BY <1>2, <1>3, <1>4, OneInList, OthersEmpty
<1>6. PICK objs \in Seq(Pkt) : objs = stream["l2"]
  BY <1>2, <1>3
<1>7. Ascending(objs) /\ \A p \in Range(objs) : p.type \in {"ipv4", "ipv6", "arp"}
  BY <1>1, <1>2, <1>3, <1>6 DEF BurstInv, FamilyInv
<1>8. PICK s, t, u : s = OfType(objs, {"ipv4"}) /\ t = OfType(objs, {"ipv6"}) /\ u = OfType(objs, {"arp"})
  OBVIOUS
<1>9. /\ s \in Seq(Pkt) /\ Ascending(s) /\ Range(s) = {p \in Range(objs) : p.type \in {"ipv4"}}
      /\ t \in Seq(Pkt) /\ Ascending(t) /\ Range(t) = {p \in Range(objs) : p.type \in {"ipv6"}}
      /\ u \in Seq(Pkt) /\ Ascending(u) /\ Range(u) = {p \in Range(objs) : p.type \in {"arp"}}
  BY <1>7, <1>8, OfTypePackets
<1>10. PICK g, v4, v6, r : /\ g = Left("l2") /\ v4 = EnqueueIfAny(g, "ipv4", s)
                           /\ v6 = EnqueueIfAny(v4, "ipv6", t) /\ r = EnqueueIfAny(v6, "drop", u)
  OBVIOUS
<1>11. Become(r)
  BY <1>6, <1>8, <1>10 DEF L2Node
<1>12. Enqueued(g, "ipv4", s, v4)
  BY <1>2, <1>3, <1>9, <1>10, EnqueueIfAnySound
<1>13. Enqueued(v4, "ipv6", t, v6)
  <2>1. Sound(v4)
    BY <1>12 DEF Enqueued
  <2>. QED  BY <1>3, <1>9, <1>10, <2>1, EnqueueIfAnySound
<1>14. Enqueued(v6, "drop", u, r)
  <2>1. Sound(v6)
    BY <1>13 DEF Enqueued
  <2>. QED  BY <1>3, <1>9, <1>10, <2>1, EnqueueIfAnySound
<1>15. WalkInv' /\ pending' = r.pending /\ stream' = r.stream /\ stream' \in [Nodes -> Seq(Pkt)]
  <2>1. count' \in Nat /\ UNCHANGED helper /\ Sound(r)
    BY <1>1, <1>14 DEF WalkInv, Enqueued
  <2>. QED  BY <1>1, <1>11, <2>1, WalkKept
<1>16. \A m \in Nodes : stream'[m] = IF m = "ipv4" THEN s ELSE IF m = "ipv6" THEN t
                                    ELSE IF m = "drop" THEN u ELSE <<>>
  <2>1. <<>> \o s = s /\ <<>> \o t = t /\ <<>> \o u = u
    BY <1>9, ConcatEmptySeq
  <2>2. \A m \in Nodes : v4.stream[m] = IF m = "ipv4" THEN s ELSE <<>>
    BY <1>3, <1>5, <1>10, <1>12, <2>1 DEF Enqueued
  <2>3. \A m \in Nodes : v6.stream[m] = IF m = "ipv6" THEN t ELSE IF m = "ipv4" THEN s ELSE <<>>
    BY <1>3, <1>13, <2>1, <2>2 DEF Enqueued
  <2>. QED  BY <1>3, <1>14, <1>15, <2>1, <2>3 DEF Enqueued
<1>17. Range(pending') \subseteq {"ipv4", "ipv6", "drop"} /\ Ranked(pending')
  <2>1. Rank("ipv4") = 2 /\ Rank("ipv6") = 3 /\ Rank("drop") = 4
    BY DEF Rank
  <2>2. /\ g.pending = <<>> /\ v4.pending \in Seq(Nodes) /\ v6.pending \in Seq(Nodes)
        /\ v4.pending = g.pending \/ v4.pending = Append(g.pending, "ipv4")
        /\ v6.pending = v4.pending \/ v6.pending = Append(v4.pending, "ipv6")
        /\ r.pending = v6.pending \/ r.pending = Append(v6.pending, "drop")
        /\ Range(v6.pending) \subseteq Range(v4.pending) \cup {"ipv6"}
        /\ Range(r.pending) \subseteq Range(v6.pending) \cup {"drop"}
    <3>1. g.pending = <<>> /\ Sound(v4) /\ Sound(v6)
      BY <1>5, <1>10, <1>12, <1>13 DEF Enqueued
    <3>2. v4.pending \in Seq(Nodes) /\ v6.pending \in Seq(Nodes)
      BY <3>1 DEF Sound
    <3>3. v4.pending = g.pending \/ v4.pending = Append(g.pending, "ipv4")
      BY <1>12 DEF Enqueued
    <3>4. /\ v6.pending = v4.pending \/ v6.pending = Append(v4.pending, "ipv6")
          /\ Range(v6.pending) \subseteq Range(v4.pending) \cup {"ipv6"}
      BY <1>13 DEF Enqueued
    <3>5. /\ r.pending = v6.pending \/ r.pending = Append(v6.pending, "drop")
          /\ Range(r.pending) \subseteq Range(v6.pending) \cup {"drop"}
      BY <1>14 DEF Enqueued
    <3>. QED  BY <3>1, <3>2, <3>3, <3>4, <3>5
  <2>3. Range(v4.pending) \subseteq {"ipv4"} /\ Ranked(v4.pending)
    <3>1. /\ Range(<<"ipv4">>) = {"ipv4"} /\ Range(<<>>) = {} /\ Append(<<>>, "ipv4") = <<"ipv4">>
          /\ Ranked(<<"ipv4">>) /\ Ranked(<<>>)
      BY <1>3, OneInList
    <3>2. v4.pending = <<>> \/ v4.pending = <<"ipv4">>
      BY <2>2, <3>1
    <3>. QED  BY <3>1, <3>2
  <2>4. Ranked(v6.pending)
    <3>1. \A m \in Range(v4.pending) : Rank(m) < Rank("ipv6")
      BY <2>1, <2>3
    <3>. QED  BY <1>3, <2>2, <2>3, <3>1, RankedAppend
  <2>5. Ranked(r.pending)
    <3>1. \A m \in Range(v6.pending) : Rank(m) < Rank("drop")
      BY <2>1, <2>2, <2>3
    <3>. QED  BY <1>3, <2>2, <2>4, <3>1, RankedAppend
  <2>. QED  BY <1>15, <2>2, <2>3, <2>5
<1>18. OneOwner'
  <2>1. Distinct(objs) /\ Distinct(s) /\ Distinct(t) /\ Distinct(u)
    BY <1>7, <1>9, AscendingDistinct
  <2>2. Ids(s) \cap Ids(t) = {} /\ Ids(s) \cap Ids(u) = {} /\ Ids(t) \cap Ids(u) = {}
    <3>1. PICK A, B, C : A = {"ipv4"} /\ B = {"ipv6"} /\ C = {"arp"}
      OBVIOUS
    <3>2. /\ A \cap B = {} /\ A \cap C = {} /\ B \cap C = {}
          /\ Selects(s, objs, A) /\ Selects(t, objs, B) /\ Selects(u, objs, C)
      BY <1>9, <3>1 DEF Selects
    <3>. QED  BY <2>1, <3>2, TypesApart
  <2>3. Range(objs) = Range(s) \cup Range(t) \cup Range(u)
    BY <1>7, <1>9
  <2>4. Ids(s) \cup Ids(t) \cup Ids(u) = Ids(objs)
    <3>1. /\ Ids(objs) = {p.id : p \in Range(objs)} /\ Ids(s) = {p.id : p \in Range(s)}
          /\ Ids(t) = {p.id : p \in Range(t)} /\ Ids(u) = {p.id : p \in Range(u)}
      BY IdsOfRange
    <3>. QED  BY <2>3, <3>1
  <2>5. accepted' = accepted /\ sent' = sent /\ freed' = freed /\ lost' = lost
    BY <1>1 DEF mbufVars
  <2>6. (accepted + 1)..accepted' = {}
    BY <1>1, <2>5
  <2>7. /\ Holdings'["sent"] = Holdings["sent"] /\ Holdings'["freed"] = Holdings["freed"]
        /\ Holdings'["lost"] = Holdings["lost"]
        /\ \A m \in Nodes : /\ Holdings[m] = stream[m]
                            /\ Holdings'[m] = IF m = "ipv4" THEN s ELSE IF m = "ipv6" THEN t
                                              ELSE IF m = "drop" THEN u ELSE <<>>
    BY <1>16, <2>5, HoldingsAre, HoldingsNext
  <2>8. <<>> \o s = s /\ <<>> \o t = t /\ <<>> \o u = u
    BY <1>9, ConcatEmptySeq
  <2>9. /\ {"ipv4", "ipv6", "drop"} \subseteq Owners \ {"l2"}
        /\ \A w \in Owners : w \in Nodes \/ w \in {"sent", "freed", "lost"}
    BY <1>3, HoldingsAre DEF Owners
  <2>10. Deal("l2", "ipv4", s, "ipv6", t, "drop", u)
    BY <1>3, <1>5, <1>6, <1>9, <2>1, <2>2, <2>4, <2>6, <2>7, <2>8, <2>9 DEF Deal
  <2>. QED  BY <1>1, <1>2, <1>3, <2>5, <2>10, Dealing
<1>19. CustodyInv'
  BY <1>1, <1>2, <1>18 DEF CustodyInv, mbufVars
<1>20. \A m \in Nodes : \A p \in Range(stream'[m]) : p \in Range(objs) /\ m \in {"ipv4", "ipv6", "drop"}
  BY <1>9, <1>16, NoPackets
<1>21. BurstInv'
  <2>1. Range(pending') \subseteq BurstNodes' /\ \A m \in Entry' : m \notin Range(pending')
    BY <1>2, <1>17 DEF BurstNodes, Entry
  <2>2. \A m \in Nodes : \A p \in Range(stream'[m]) : p.id + BURST > accepted'
    BY <1>1, <1>2, <1>3, <1>6, <1>20 DEF BurstInv, mbufVars
  <2>3. \A m \in {"l2", "ipv4", "ipv6"} : Ascending(stream'[m])
    BY <1>3, <1>9, <1>16, NoPackets
  <2>4. InFamilyOrder(stream'["tx"]) /\ InFamilyOrder(sent')
    BY <1>1, <1>2, <1>3, <1>16, NoPackets DEF BurstInv, mbufVars
  <2>5. \A m \in Nodes \ {"drop"} : \A p \in Range(sent'), q \in Range(stream'[m]) : p.id < q.id
    BY <1>1, <1>2, <1>3, <1>6, <1>20 DEF BurstInv, mbufVars
  <2>. QED  BY <2>1, <2>2, <2>3, <2>4, <2>5 DEF BurstInv
<1>22. FamilyInv'
  <2>1. \A m, k \in Nodes : \A p \in Range(stream'[m]), q \in Range(stream'[k]) : p.burst = q.burst
    <3>1. \A p, q \in Range(objs) : p.burst = q.burst
      BY <1>1, <1>2, <1>3, <1>6 DEF FamilyInv
    <3>. QED  BY <1>20, <3>1
  <2>2. /\ \A p \in Range(stream'["ipv4"]) : p.type = "ipv4"
        /\ \A p \in Range(stream'["ipv6"]) : p.type = "ipv6"
        /\ stream'["tx"] = <<>> /\ stream'["l2"] = <<>>
    BY <1>3, <1>9, <1>16
  <2>. QED  BY <1>17, <2>1, <2>2, NoPackets DEF FamilyInv
<1>. QED  BY <1>15, <1>19, <1>21, <1>22 DEF GraphInv

\* ipv4 and ipv6 hand their packets to transmit, in this order.
LEMMA ToTxKept ==
  ASSUME GraphInv, NEW n \in {"ipv4", "ipv6"}, ToTx(n)
  PROVE  GraphInv'
<1>1. /\ WalkInv /\ CustodyInv /\ BurstInv /\ FamilyInv /\ "pipeline" \notin Quiet
      /\ Visit("pipeline", n) /\ accepted \in Nat /\ UNCHANGED <<count, quit, helper, mbufVars>>
      /\ Become(Enqueue(Left(n), "tx", stream[n]))
  BY DEF GraphInv, CustodyInv, Quiet, ToTx
<1>2. /\ app = "pipeline" /\ app' = "pipeline" /\ Sound(Graph) /\ Sound(Left(n)) /\ n \in Nodes
      /\ Left(n).pending = Tail(pending) /\ n \in Range(pending) /\ n \notin Range(Tail(pending))
      /\ Range(pending) = {n} \cup Range(Tail(pending)) /\ pending # <<>> /\ Head(pending) = n
      /\ \A m \in Nodes : Left(n).stream[m] = IF m = n THEN <<>> ELSE stream[m]
      /\ stream \in [Nodes -> Seq(Pkt)] /\ pending \in Seq(Nodes) /\ pc' = "walk"
      /\ n \notin SourceNodes => stream[n] # <<>>
  BY <1>1, VisitFacts
<1>3. /\ {"l2", "ipv4", "ipv6", "drop", "tx"} \subseteq Nodes
      /\ n \notin SourceNodes /\ "tx" \notin SourceNodes
      /\ "pipeline" \in BurstApps /\ "pipeline" \in MbufApps
  BY DEF Nodes, SourceNodes, BurstApps, MbufApps
<1>4. PICK objs \in Seq(Pkt), tx \in Seq(Pkt) : objs = stream[n] /\ tx = stream["tx"]
  BY <1>2, <1>3
<1>5. PICK r : r = Enqueue(Left(n), "tx", objs)
  OBVIOUS
<1>6. Enqueued(Left(n), "tx", objs, r)
  BY <1>2, <1>3, <1>4, <1>5, EnqueueSound
<1>7. WalkInv' /\ pending' = r.pending /\ stream' = r.stream /\ stream' \in [Nodes -> Seq(Pkt)]
  <2>1. count' \in Nat /\ UNCHANGED helper /\ Sound(r) /\ Become(r)
    BY <1>1, <1>4, <1>5, <1>6 DEF WalkInv, Enqueued
  <2>. QED  BY <1>1, <2>1, WalkKept
<1>8. \A m \in Nodes : stream'[m] = IF m = "tx" THEN tx \o objs ELSE IF m = n THEN <<>> ELSE stream[m]
  BY <1>2, <1>3, <1>4, <1>6, <1>7 DEF Enqueued
<1>9. /\ \/ pending' = Tail(pending)
         \/ "tx" \notin Range(Tail(pending)) /\ pending' = Append(Tail(pending), "tx")
      /\ Range(pending') \subseteq Range(Tail(pending)) \cup {"tx"}
  BY <1>2, <1>6, <1>7 DEF Enqueued
<1>10. Ranked(Tail(pending)) /\ \A m \in Range(Tail(pending)) : Rank(n) < Rank(m)
  BY <1>1, <1>2, RankedTail DEF FamilyInv
<1>11. Ranked(pending')
  <2>1. CASE pending' = Tail(pending)
    BY <1>10, <2>1
  <2>2. CASE "tx" \notin Range(Tail(pending)) /\ pending' = Append(Tail(pending), "tx")
    <3>1. Tail(pending) \in Seq(Nodes)
      BY <1>2, TailNodes
    <3>2. \A m \in Range(Tail(pending)) : m \in {"rx", "l2", "ipv4", "ipv6", "drop"}
      BY <1>1, <1>2, <1>3, <2>2 DEF BurstInv, BurstNodes
    <3>3. \A m \in Range(Tail(pending)) : Rank(m) < Rank("tx")
      BY <3>2 DEF Rank
    <3>. QED  BY <1>3, <1>10, <2>2, <3>1, <3>3, RankedAppend
  <2>. QED  BY <1>9, <2>1, <2>2
<1>12. OneOwner'
  <2>1. \A x \in Owners : Distinct(Holdings[x])
    BY <1>1, <1>2, <1>3, OwnersHave
  <2>2. Distinct(objs) /\ Ids(<<>>) = {} /\ Distinct(<<>>) /\ <<>> \in Seq(Pkt)
    BY <1>2, <1>4, <2>1, HoldingsAre, IdsOfEmpty, EmptySeq
  <2>3. accepted' = accepted /\ sent' = sent \o <<>> /\ freed' = freed \o <<>> /\ lost' = lost
    BY <1>1, ConcatEmptySeq DEF mbufVars, CustodyInv
  <2>4. (accepted + 1)..accepted' = {}
    BY <1>1, <2>3
  <2>5. /\ Holdings["sent"] = sent /\ Holdings["freed"] = freed /\ Holdings["lost"] = lost
        /\ Holdings'["sent"] = sent' /\ Holdings'["freed"] = freed' /\ Holdings'["lost"] = lost'
        /\ \A m \in Nodes : /\ Holdings[m] = stream[m]
                            /\ Holdings'[m] = IF m = "tx" THEN tx \o objs ELSE IF m = n THEN <<>> ELSE stream[m]
    BY <1>8, HoldingsAre, HoldingsNext
  <2>6. /\ {"tx", "sent", "freed"} \subseteq Owners \ {n}
        /\ \A w \in Owners : w \in Nodes \/ w \in {"sent", "freed", "lost"}
    BY <1>3, HoldingsAre DEF Owners
  <2>7. Deal(n, "tx", objs, "sent", <<>>, "freed", <<>>)
    BY <1>2, <1>3, <1>4, <2>2, <2>3, <2>4, <2>5, <2>6 DEF Deal
  <2>. QED  BY <1>1, <1>2, <1>3, <2>3, <2>7, Dealing
<1>13. CustodyInv'
  BY <1>1, <1>2, <1>12 DEF CustodyInv, mbufVars
<1>14. Range(stream'["tx"]) = Range(tx) \cup Range(objs) /\ tx \o objs \in Seq(Pkt) /\ stream'["tx"] = tx \o objs
  <2>1. Range(tx \o objs) = Range(tx) \cup Range(objs) /\ tx \o objs \in Seq(Pkt)
    BY ListRange, ConcatProperties
  <2>. QED  BY <1>3, <1>8, <2>1
<1>15. \A m \in Nodes \ {"tx"} : Range(stream'[m]) \subseteq Range(stream[m])
  BY <1>8, NoPackets
<1>16. /\ \A p \in Range(objs) : p.type = n
       /\ n = "ipv4" => tx = <<>>
       /\ n = "ipv6" => \A p \in Range(tx) : p.type = "ipv4"
       /\ Ascending(objs) /\ InFamilyOrder(tx)
  <2>1. /\ \A p \in Range(stream["ipv4"]) : p.type = "ipv4"
        /\ \A p \in Range(stream["ipv6"]) : p.type = "ipv6"
        /\ "ipv4" \in Range(pending) => stream["tx"] = <<>>
        /\ "ipv6" \in Range(pending) => \A p \in Range(stream["tx"]) : p.type = "ipv4"
    BY <1>1, <1>2 DEF FamilyInv
  <2>2. Ascending(stream["ipv4"]) /\ Ascending(stream["ipv6"]) /\ InFamilyOrder(stream["tx"])
    BY <1>1, <1>2, <1>3 DEF BurstInv
  <2>. QED  BY <1>2, <1>4, <2>1, <2>2
<1>17. \A p \in Range(tx), q \in Range(objs) : p.burst = q.burst
  BY <1>1, <1>2, <1>3, <1>4 DEF FamilyInv
<1>18. BurstInv'
  <2>1. Range(pending') \subseteq BurstNodes' /\ \A m \in Entry' : m \notin Range(pending')
    <3>1. Range(pending') \subseteq BurstNodes'
      BY <1>1, <1>2, <1>3, <1>9 DEF BurstInv, BurstNodes
    <3>2. ASSUME NEW m \in Entry', m \in Range(pending') PROVE FALSE
      <4>1. m \in {"rx", "l2"} /\ m \in Range(pending)
        BY <1>2, <1>9, <3>2 DEF Entry
      <4>2. pending = <<m>>
        BY <1>1, <1>2, <1>3, <4>1 DEF BurstInv, Entry
      <4>. QED  BY <1>2, <4>1, <4>2
    <3>. QED  BY <3>1, <3>2
  <2>2. \A m \in Nodes : \A p \in Range(stream'[m]) : p.id + BURST > accepted'
    <3>1. \A m \in Nodes : \A p \in Range(stream[m]) : p.id + BURST > accepted'
      BY <1>1, <1>2, <1>3 DEF BurstInv, mbufVars
    <3>. QED  BY <1>2, <1>3, <1>4, <1>14, <1>15, <3>1
  <2>3. \A m \in {"l2", "ipv4", "ipv6"} : Ascending(stream'[m])
    BY <1>1, <1>2, <1>3, <1>8, NoPackets DEF BurstInv
  <2>4. InFamilyOrder(stream'["tx"])
    <3>1. InFamilyOrder(objs)
      BY <1>16, AscendingFamily
    <3>2. \A p \in Range(tx), q \in Range(objs) :
            p.id < q.id \/ (p.type = "ipv4" /\ q.type = "ipv6" /\ p.burst = q.burst)
      BY <1>16, <1>17, NoPackets
    <3>. QED  BY <1>14, <1>16, <3>1, <3>2, FamilyConcat
  <2>5. InFamilyOrder(sent')
    BY <1>1, <1>2, <1>3 DEF BurstInv, mbufVars
  <2>6. \A m \in Nodes \ {"drop"} : \A p \in Range(sent'), q \in Range(stream'[m]) : p.id < q.id
    <3>1. \A m \in Nodes \ {"drop"} : \A p \in Range(sent'), q \in Range(stream[m]) : p.id < q.id
      BY <1>1, <1>2, <1>3 DEF BurstInv, mbufVars
    <3>. QED  BY <1>2, <1>3, <1>4, <1>14, <1>15, <3>1
  <2>. QED  BY <2>1, <2>2, <2>3, <2>4, <2>5, <2>6 DEF BurstInv
<1>19. FamilyInv'
  <2>1. \A m, k \in Nodes : \A p \in Range(stream'[m]), q \in Range(stream'[k]) : p.burst = q.burst
    <3>1. \A m, k \in Nodes : \A p \in Range(stream[m]), q \in Range(stream[k]) : p.burst = q.burst
      BY <1>1, <1>2 DEF FamilyInv
    <3>2. \A m \in Nodes : \A p \in Range(stream'[m]) : \E k \in Nodes : p \in Range(stream[k])
      BY <1>2, <1>3, <1>4, <1>14, <1>15
    <3>. QED  BY <3>1, <3>2
  <2>2. /\ \A p \in Range(stream'["l2"]) : p.type \in {"ipv4", "ipv6", "arp"}
        /\ \A p \in Range(stream'["ipv4"]) : p.type = "ipv4"
        /\ \A p \in Range(stream'["ipv6"]) : p.type = "ipv6"
    BY <1>1, <1>2, <1>3, <1>15 DEF FamilyInv
  <2>3. "ipv4" \notin Range(pending')
    <3>1. Rank("ipv4") = 2 /\ Rank("ipv6") = 3
      BY DEF Rank
    <3>. QED  BY <1>2, <1>9, <1>10, <3>1
  <2>4. ASSUME "ipv6" \in Range(pending') PROVE \A p \in Range(stream'["tx"]) : p.type = "ipv4"
    <3>1. n = "ipv4"
      BY <1>2, <1>9, <2>4
    <3>. QED  BY <1>14, <1>16, <3>1, NoPackets
  <2>. QED  BY <1>11, <2>1, <2>2, <2>3, <2>4 DEF FamilyInv
<1>. QED  BY <1>7, <1>13, <1>18, <1>19 DEF GraphInv

-----------------------------------------------------------------------------
(* The nodes at which packets leave the graph *)

\* The packets of node n are sent, freed or lost.
LEMMA Released ==
  ASSUME CustodyInv, stream \in [Nodes -> Seq(Pkt)], app \in MbufApps, NEW n \in Nodes,
         Become(Left(n)), NEW s \in Seq(Pkt), NEW t \in Seq(Pkt), NEW u \in Seq(Pkt),
         Distinct(s), Distinct(t), Distinct(u),
         Ids(s) \cap Ids(t) = {}, Ids(s) \cap Ids(u) = {}, Ids(t) \cap Ids(u) = {},
         Ids(s) \cup Ids(t) \cup Ids(u) = Ids(stream[n]),
         accepted' = accepted, sent' = sent \o s, freed' = freed \o t, lost' = lost \o u
  PROVE  OneOwner' /\ sent' \in Seq(Pkt) /\ freed' \in Seq(Pkt) /\ lost' \in Seq(Pkt)
<1>1. sent \in Seq(Pkt) /\ freed \in Seq(Pkt) /\ lost \in Seq(Pkt) /\ accepted \in Nat
  BY DEF CustodyInv
<1>2. sent' \in Seq(Pkt) /\ freed' \in Seq(Pkt) /\ lost' \in Seq(Pkt)
  BY <1>1, ConcatProperties
<1>3. (accepted + 1)..accepted' = {}
  BY <1>1
<1>4. \A m \in Nodes : stream'[m] = IF m = n THEN <<>> ELSE stream[m]
  BY DEF Become, Left
<1>5. /\ Holdings["sent"] = sent /\ Holdings["freed"] = freed /\ Holdings["lost"] = lost
      /\ Holdings'["sent"] = sent' /\ Holdings'["freed"] = freed' /\ Holdings'["lost"] = lost'
      /\ \A m \in Nodes : Holdings[m] = stream[m] /\ Holdings'[m] = IF m = n THEN <<>> ELSE stream[m]
  BY <1>4, HoldingsAre, HoldingsNext
<1>6. /\ {"sent", "freed", "lost"} \subseteq Owners \ {n}
      /\ \A w \in Owners : w \in Nodes \/ w \in {"sent", "freed", "lost"}
  BY HoldingsAre DEF Owners
<1>7. Deal(n, "sent", s, "freed", t, "lost", u)
  BY <1>3, <1>5, <1>6 DEF Deal
<1>. QED  BY <1>1, <1>2, <1>7, Dealing

\* The walk moves on from transmit or drop.
LEMMA SinkKept ==
  ASSUME GraphInv, NEW a \in BurstApps, NEW n \in {"tx", "drop"}, Visit(a, n), Become(Left(n)),
         accepted' = accepted, InFamilyOrder(sent'),
         \A m \in Nodes \ {"drop"} : \A p \in Range(sent'), q \in Range(stream'[m]) : p.id < q.id
  PROVE  BurstInv' /\ FamilyInv'
<1>1. WalkInv /\ BurstInv /\ FamilyInv /\ a \notin Quiet
  BY DEF GraphInv, BurstApps, Quiet
<1>2. /\ app = a /\ app' = a /\ Sound(Left(n)) /\ n \in Nodes
      /\ Left(n).pending = Tail(pending) /\ n \notin Range(Tail(pending))
      /\ Range(pending) = {n} \cup Range(Tail(pending)) /\ pending # <<>> /\ Head(pending) = n
      /\ \A m \in Nodes : Left(n).stream[m] = IF m = n THEN <<>> ELSE stream[m]
      /\ stream \in [Nodes -> Seq(Pkt)] /\ pending \in Seq(Nodes)
  BY <1>1, VisitFacts
<1>3. {"l2", "ipv4", "ipv6", "drop", "tx"} \subseteq Nodes
  BY DEF Nodes
<1>4. pending' = Tail(pending) /\ \A m \in Nodes : stream'[m] = IF m = n THEN <<>> ELSE stream[m]
  BY <1>2 DEF Become
<1>5. Range(pending') \subseteq Range(pending)
  BY <1>2, <1>4
<1>6. \A m \in Nodes : Range(stream'[m]) \subseteq Range(stream[m])
  BY <1>4, NoPackets
<1>7. BurstInv'
  <2>1. Range(pending') \subseteq BurstNodes' /\ \A m \in Entry' : m \notin Range(pending')
    <3>1. Range(pending') \subseteq BurstNodes'
      BY <1>1, <1>2, <1>5 DEF BurstInv, BurstNodes
    <3>2. ASSUME NEW m \in Entry', m \in Range(pending') PROVE FALSE
      <4>1. m \in Entry /\ m \in Range(pending) /\ m # n
        BY <1>2, <1>5, <3>2 DEF Entry
      <4>2. pending = <<m>>
        BY <1>1, <1>2, <4>1 DEF BurstInv
      <4>. QED  BY <1>2, <4>1, <4>2
    <3>. QED  BY <3>1, <3>2
  <2>2. \A m \in Nodes : \A p \in Range(stream'[m]) : p.id + BURST > accepted'
    BY <1>1, <1>2, <1>6 DEF BurstInv
  <2>3. \A m \in {"l2", "ipv4", "ipv6"} : Ascending(stream'[m])
    BY <1>1, <1>2, <1>3, <1>4, NoPackets DEF BurstInv
  <2>4. InFamilyOrder(stream'["tx"])
    BY <1>1, <1>2, <1>3, <1>4, NoPackets DEF BurstInv
  <2>. QED  BY <2>1, <2>2, <2>3, <2>4 DEF BurstInv
<1>8. FamilyInv'
  <2>1. SUFFICES ASSUME app' = "pipeline" PROVE FamilyInv'
    BY DEF FamilyInv
  <2>2. Ranked(pending')
    BY <1>1, <1>2, <1>4, <2>1, RankedTail DEF FamilyInv
  <2>3. \A m, k \in Nodes : \A p \in Range(stream'[m]), q \in Range(stream'[k]) : p.burst = q.burst
    <3>1. \A m, k \in Nodes : \A p \in Range(stream[m]), q \in Range(stream[k]) : p.burst = q.burst
      BY <1>1, <1>2, <2>1 DEF FamilyInv
    <3>. QED  BY <1>6, <3>1
  <2>4. /\ \A p \in Range(stream'["l2"]) : p.type \in {"ipv4", "ipv6", "arp"}
        /\ \A p \in Range(stream'["ipv4"]) : p.type = "ipv4"
        /\ \A p \in Range(stream'["ipv6"]) : p.type = "ipv6"
    BY <1>1, <1>2, <1>3, <1>6, <2>1 DEF FamilyInv
  <2>5. /\ "ipv4" \in Range(pending') => stream'["tx"] = <<>>
        /\ "ipv6" \in Range(pending') => \A p \in Range(stream'["tx"]) : p.type = "ipv4"
    BY <1>1, <1>2, <1>3, <1>4, <1>5, <1>6, <2>1 DEF FamilyInv
  <2>. QED  BY <2>2, <2>3, <2>4, <2>5 DEF FamilyInv
<1>. QED  BY <1>7, <1>8

LEMMA DropKept ==
  ASSUME GraphInv, NEW a \in BurstApps, FreeAll(a, "drop")
  PROVE  GraphInv'
<1>1. /\ WalkInv /\ CustodyInv /\ BurstInv /\ FamilyInv /\ a \notin Quiet /\ Visit(a, "drop")
      /\ Become(Left("drop")) /\ freed' = freed \o stream["drop"]
      /\ UNCHANGED <<count, quit, helper, accepted, sent, lost>> /\ a \in MbufApps
  BY DEF GraphInv, FreeAll, BurstApps, MbufApps, Quiet
<1>2. /\ app = a /\ app' = a /\ Sound(Left("drop")) /\ "drop" \in Nodes /\ pc' = "walk"
      /\ \A m \in Nodes : Left("drop").stream[m] = IF m = "drop" THEN <<>> ELSE stream[m]
      /\ stream \in [Nodes -> Seq(Pkt)]
  BY <1>1, VisitFacts
<1>3. WalkInv'
  <2>1. count' \in Nat /\ UNCHANGED helper
    BY <1>1 DEF WalkInv
  <2>. QED  BY <1>1, <1>2, <2>1, WalkKept
<1>4. \A m \in Nodes : Range(stream'[m]) \subseteq Range(stream[m])
  BY <1>1, <1>2, NoPackets DEF Become
<1>5. BurstInv' /\ FamilyInv'
  <2>1. InFamilyOrder(sent')
    BY <1>1, <1>2 DEF BurstInv
  <2>2. \A m \in Nodes \ {"drop"} : \A p \in Range(sent'), q \in Range(stream'[m]) : p.id < q.id
    BY <1>1, <1>2, <1>4 DEF BurstInv
  <2>. QED  BY <1>1, <2>1, <2>2, SinkKept
<1>6. CustodyInv'
  <2>1. PICK t \in Seq(Pkt), e \in Seq(Pkt) : t = stream["drop"] /\ e = <<>>
    BY <1>2, EmptySeq
  <2>2. Distinct(t) /\ Distinct(e) /\ Ids(e) = {}
    BY <1>1, <1>2, <2>1, IdsOfEmpty, OwnersHave, HoldingsAre
  <2>3. sent' = sent \o e /\ lost' = lost \o e /\ freed' = freed \o t
    BY <1>1, <2>1, ConcatEmptySeq DEF CustodyInv
  <2>4. Ids(e) \cup Ids(t) \cup Ids(e) = Ids(stream["drop"])
    BY <2>1, <2>2
  <2>5. OneOwner' /\ freed' \in Seq(Pkt)
    BY <1>1, <1>2, <2>2, <2>3, <2>4, Released
  <2>. QED  BY <1>1, <1>2, <2>5 DEF CustodyInv, BurstApps
<1>. QED  BY <1>3, <1>5, <1>6 DEF GraphInv

\* The port takes the first k packets; what becomes of the others differs.
LEMMA TxKept ==
  ASSUME GraphInv, NEW k \in Nat, PipelineTx(k) \/ RxDropTx(k)
  PROVE  GraphInv'
<1>1. PICK a \in BurstApps :
        /\ Visit(a, "tx") /\ k <= Len(stream["tx"]) /\ sent' = sent \o Taken(stream["tx"], k)
        /\ Become(Left("tx")) /\ UNCHANGED <<count, quit, helper, accepted>>
        /\ \/ a = "pipeline" /\ freed' = freed \o Rest(stream["tx"], k) /\ UNCHANGED lost
           \/ a = "rx_drop_sample" /\ lost' = lost \o Rest(stream["tx"], k) /\ UNCHANGED freed
  BY DEF PipelineTx, RxDropTx, BurstApps
<1>2. WalkInv /\ CustodyInv /\ BurstInv /\ FamilyInv /\ a \notin Quiet /\ a \in MbufApps
  BY DEF GraphInv, BurstApps, MbufApps, Quiet
<1>3. /\ app = a /\ app' = a /\ Sound(Graph) /\ Sound(Left("tx")) /\ "tx" \in Nodes /\ pc' = "walk"
      /\ pending \in Seq(Nodes) /\ pending # <<>> /\ Head(pending) = "tx"
      /\ Range(pending) = {"tx"} \cup Range(Tail(pending)) /\ "tx" \notin Range(Tail(pending))
      /\ \A m \in Nodes : Left("tx").stream[m] = IF m = "tx" THEN <<>> ELSE stream[m]
      /\ stream \in [Nodes -> Seq(Pkt)]
  BY <1>1, <1>2, VisitFacts
<1>4. WalkInv'
  <2>1. count' \in Nat /\ UNCHANGED helper
    BY <1>1, <1>2 DEF WalkInv
  <2>. QED  BY <1>1, <1>2, <1>3, <2>1, WalkKept
<1>5. PICK tx \in Seq(Pkt) : tx = stream["tx"] /\ Distinct(tx) /\ InFamilyOrder(tx)
  BY <1>2, <1>3, OwnersHave, HoldingsAre DEF BurstInv
<1>6. /\ Taken(tx, k) \in Seq(Pkt) /\ Rest(tx, k) \in Seq(Pkt)
      /\ Distinct(Taken(tx, k)) /\ Distinct(Rest(tx, k))
      /\ Ids(Taken(tx, k)) \cap Ids(Rest(tx, k)) = {}
      /\ Ids(Taken(tx, k)) \cup Ids(Rest(tx, k)) = Ids(tx)
      /\ Range(Taken(tx, k)) \subseteq Range(tx)
  BY <1>1, <1>5, IdsOfParts
<1>7. PICK s \in Seq(Pkt), t \in Seq(Pkt), e \in Seq(Pkt) : s = Taken(tx, k) /\ t = Rest(tx, k) /\ e = <<>>
  BY <1>6, EmptySeq
<1>8. CustodyInv'
  <2>1. /\ Distinct(s) /\ Distinct(t) /\ Distinct(e) /\ Ids(e) = {} /\ Ids(s) \cap Ids(t) = {}
        /\ Ids(s) \cup Ids(t) = Ids(stream["tx"])
    BY <1>5, <1>6, <1>7, IdsOfEmpty
  <2>2. sent \in Seq(Pkt) /\ freed \in Seq(Pkt) /\ lost \in Seq(Pkt) /\ freed \o e = freed /\ lost \o e = lost
    BY <1>2, <1>7, ConcatEmptySeq DEF CustodyInv
  <2>3. sent' = sent \o s
    BY <1>1, <1>5, <1>7
  <2>4. CASE a = "pipeline"
    <3>1. freed' = freed \o t /\ lost' = lost \o e /\ accepted' = accepted
      BY <1>1, <1>5, <1>7, <2>2, <2>4
    <3>2. Ids(s) \cup Ids(t) \cup Ids(e) = Ids(stream["tx"])
      BY <2>1
    <3>3. OneOwner' /\ sent' \in Seq(Pkt) /\ freed' \in Seq(Pkt) /\ lost' \in Seq(Pkt)
      BY <1>1, <1>2, <1>3, <2>1, <2>3, <3>1, <3>2, Released
    <3>. QED  BY <1>1, <1>2, <1>3, <2>4, <3>3 DEF CustodyInv
  <2>5. CASE a = "rx_drop_sample"
    <3>1. lost' = lost \o t /\ freed' = freed \o e /\ accepted' = accepted
      BY <1>1, <1>5, <1>7, <2>2, <2>5
    <3>2. Ids(s) \cup Ids(e) \cup Ids(t) = Ids(stream["tx"])
      BY <2>1
    <3>3. OneOwner' /\ sent' \in Seq(Pkt) /\ freed' \in Seq(Pkt) /\ lost' \in Seq(Pkt)
      BY <1>1, <1>2, <1>3, <2>1, <2>3, <3>1, <3>2, Released
    <3>. QED  BY <1>1, <1>2, <1>3, <2>5, <3>3 DEF CustodyInv
  <2>. QED  BY <1>1, <2>4, <2>5
<1>9. BurstInv' /\ FamilyInv'
  <2>1. \A p \in Range(sent), q \in Range(tx) : p.id < q.id
    BY <1>2, <1>3, <1>5 DEF BurstInv
  <2>2. sent \in Seq(Pkt) /\ InFamilyOrder(sent)
    BY <1>2, <1>3 DEF CustodyInv, BurstInv
  <2>3. InFamilyOrder(s) /\ Range(s) \subseteq Range(tx)
    BY <1>1, <1>5, <1>6, <1>7, FamilyTaken
  <2>4. InFamilyOrder(sent \o s)
    <3>1. \A p \in Range(sent), q \in Range(s) :
            p.id < q.id \/ (p.type = "ipv4" /\ q.type = "ipv6" /\ p.burst = q.burst)
      BY <2>1, <2>3
    <3>. QED  BY <2>2, <2>3, <3>1, FamilyConcat
  <2>5. sent' = sent \o s
    BY <1>1, <1>5, <1>7
  <2>6. Range(Tail(pending)) \subseteq {"drop"}
    <3>1. Range(Tail(pending)) \subseteq BurstNodes
      BY <1>2, <1>3 DEF BurstInv
    <3>2. \A m \in Entry : m \notin Range(Tail(pending))
      <4>1. ASSUME NEW m \in Entry, m \in Range(Tail(pending)) PROVE FALSE
        <5>1. pending = <<m>>
          BY <1>2, <1>3, <4>1 DEF BurstInv
        <5>2. m = "tx"
          BY <1>3, <5>1
        <5>. QED  BY <1>3, <4>1, <5>2
      <4>. QED  BY <4>1
    <3>3. CASE a = "pipeline"
      <4>1. \A m \in Range(Tail(pending)) : Rank("tx") < Rank(m)
        BY <1>2, <1>3, <3>3, RankedTail DEF FamilyInv
      <4>2. Rank("tx") = 5 /\ \A m \in BurstNodes : Rank(m) \in 0..5
        BY DEF Rank, BurstNodes
      <4>3. \A m \in Range(Tail(pending)) : Rank(m) \in 0..5
        BY <3>1, <4>2
      <4>4. ASSUME NEW m \in Range(Tail(pending)) PROVE FALSE
        <5>1. PICK i \in 0..5 : i = Rank(m)
          BY <4>3
        <5>. QED  BY <4>1, <4>2, <5>1
      <4>. QED  BY <4>4
    <3>4. CASE a = "rx_drop_sample"
      BY <1>3, <3>1, <3>2, <3>4 DEF BurstNodes, Entry
    <3>. QED  BY <1>1, <3>3, <3>4
  <2>7. \A m \in Nodes \ {"drop"} : stream'[m] = <<>>
    <3>1. \A m \in Nodes : stream'[m] = IF m = "tx" THEN <<>> ELSE stream[m]
      BY <1>1, <1>3 DEF Become
    <3>2. \A m \in Nodes : stream[m] # <<>> => m \in Range(pending)
      BY <1>3 DEF Sound, Graph
    <3>. QED  BY <1>3, <2>6, <3>1, <3>2
  <2>8. \A m \in Nodes \ {"drop"} : \A p \in Range(sent'), q \in Range(stream'[m]) : p.id < q.id
    BY <2>7, NoPackets
  <2>. QED  BY <1>1, <2>4, <2>5, <2>8, SinkKept
<1>. QED  BY <1>4, <1>8, <1>9 DEF GraphInv

-----------------------------------------------------------------------------
(* The filter of graph/rx_drop_sample *)

LEMMA FilterKept ==
  ASSUME GraphInv, RxDropIpv4
  PROVE  GraphInv'
<1>1. /\ WalkInv /\ CustodyInv /\ BurstInv /\ FamilyInv /\ "rx_drop_sample" \notin Quiet
      /\ Visit("rx_drop_sample", "ipv4") /\ accepted \in Nat
      /\ UNCHANGED <<count, quit, helper, mbufVars>>
  BY DEF GraphInv, CustodyInv, Quiet, RxDropIpv4
<1>2. /\ app = "rx_drop_sample" /\ app' = "rx_drop_sample" /\ Sound(Graph)
      /\ "ipv4" \in Range(pending) /\ Sound(Left("ipv4"))
      /\ Left("ipv4").pending = Tail(pending)
      /\ \A m \in Nodes : Left("ipv4").stream[m] = IF m = "ipv4" THEN <<>> ELSE stream[m]
      /\ stream \in [Nodes -> Seq(Pkt)] /\ pc' = "walk"
  BY <1>1, VisitFacts
<1>3. /\ {"l2", "ipv4", "ipv6", "drop", "tx"} \subseteq Nodes
      /\ "rx_drop_sample" \in BurstApps /\ "rx_drop_sample" \in MbufApps
  BY DEF Nodes, BurstApps, MbufApps
<1>4. pending = <<"ipv4">>
  BY <1>1, <1>2, <1>3 DEF BurstInv, Entry
<1>5. /\ \A m \in Nodes \ {"ipv4"} : stream[m] = <<>>
      /\ Left("ipv4").pending = <<>>
      /\ \A m \in Nodes : Left("ipv4").stream[m] = <<>>
  BY <1>2, <1>3, <1>4, OneInList, OthersEmpty
<1>6. PICK objs \in Seq(Pkt) : objs = stream["ipv4"] /\ Ascending(objs)
  BY <1>1, <1>2, <1>3 DEF BurstInv
<1>7. Dealt(objs, 0, Left("ipv4"))
  <2>1. First(objs, 0) = {}
    BY DEF First
  <2>. QED  BY <1>2, <1>3, <1>5, <2>1, NoPackets DEF Dealt
<1>8. Dealt(objs, Len(objs), Graph)'
  BY <1>6, <1>7, RxDropDeals
<1>9. First(objs, Len(objs)) = Range(objs)
  BY LenProperties DEF First, Range
<1>10. /\ Sound(Graph)' /\ Range(pending') \subseteq {"tx", "drop"}
       /\ \A m \in Nodes \ {"tx", "drop"} : stream'[m] = <<>>
       /\ Ascending(stream'["tx"]) /\ Ascending(stream'["drop"])
       /\ Range(stream'["tx"]) = {p \in Range(objs) : p.type = "ipv4"}
       /\ Range(stream'["drop"]) = {p \in Range(objs) : p.type # "ipv4"}
  BY <1>8, <1>9 DEF Dealt, Graph
<1>11. WalkInv' /\ stream' \in [Nodes -> Seq(Pkt)]
  <2>1. PICK r : r = [pending |-> pending', stream |-> stream']
    OBVIOUS
  <2>2. Become(r) /\ Sound(r)
    BY <1>10, <2>1 DEF Become, Sound, Graph
  <2>3. count' \in Nat /\ UNCHANGED helper
    BY <1>1 DEF WalkInv
  <2>. QED  BY <1>1, <2>2, <2>3, WalkKept
<1>12. PICK s \in Seq(Pkt), t \in Seq(Pkt) : s = stream'["tx"] /\ t = stream'["drop"]
  BY <1>3, <1>11
<1>13. OneOwner'
  <2>1. Distinct(objs) /\ Distinct(s) /\ Distinct(t)
    BY <1>6, <1>10, <1>12, AscendingDistinct
  <2>2. Range(objs) \subseteq Pkt
    BY ListRange
  <2>3. Ids(s) \cap Ids(t) = {}
    <3>1. PICK A, B : A = {"ipv4"} /\ B = Types \ {"ipv4"}
      OBVIOUS
    <3>2. /\ A \cap B = {}
          /\ Selects(s, objs, A) /\ Selects(t, objs, B)
      BY <1>10, <1>12, <2>2, <3>1 DEF Pkt, Selects
    <3>. QED  BY <2>1, <3>2, TypesApart
  <2>4. Ids(s) \cup Ids(t) = Ids(objs)
    <3>1. /\ Ids(objs) = {p.id : p \in Range(objs)} /\ Ids(s) = {p.id : p \in Range(s)}
          /\ Ids(t) = {p.id : p \in Range(t)}
      BY IdsOfRange
    <3>2. Range(objs) = Range(s) \cup Range(t)
      BY <1>10, <1>12
    <3>. QED  BY <3>1, <3>2
  <2>5. Distinct(<<>>) /\ Ids(<<>>) = {} /\ <<>> \in Seq(Pkt)
    BY IdsOfEmpty, EmptySeq
  <2>6. accepted' = accepted /\ sent' = sent \o <<>> /\ freed' = freed /\ lost' = lost
    BY <1>1, ConcatEmptySeq DEF mbufVars, CustodyInv
  <2>7. (accepted + 1)..accepted' = {}
    BY <1>1, <2>6
  <2>8. /\ Holdings["sent"] = sent /\ Holdings["freed"] = freed /\ Holdings["lost"] = lost
        /\ Holdings'["sent"] = sent' /\ Holdings'["freed"] = freed' /\ Holdings'["lost"] = lost'
        /\ \A m \in Nodes : Holdings[m] = stream[m] /\ Holdings'[m] = stream'[m]
    BY HoldingsAre, HoldingsNext
  <2>9. <<>> \o s = s /\ <<>> \o t = t
    BY ConcatEmptySeq
  <2>10. /\ {"tx", "drop", "sent"} \subseteq Owners \ {"ipv4"}
         /\ \A w \in Owners : w \in Nodes \/ w \in {"sent", "freed", "lost"}
    BY <1>3, HoldingsAre DEF Owners
  <2>11. Deal("ipv4", "tx", s, "drop", t, "sent", <<>>)
    BY <1>3, <1>5, <1>6, <1>10, <1>12, <2>1, <2>3, <2>4, <2>5, <2>6, <2>7, <2>8, <2>9, <2>10 DEF Deal
  <2>. QED  BY <1>1, <1>2, <1>3, <2>6, <2>11, Dealing
<1>14. CustodyInv'
  BY <1>1, <1>2, <1>13 DEF CustodyInv, mbufVars
<1>15. \A m \in Nodes : Range(stream'[m]) \subseteq Range(objs) /\ Ascending(stream'[m])
  BY <1>10, NoPackets
<1>16. BurstInv'
  <2>1. Range(pending') \subseteq BurstNodes' /\ \A m \in Entry' : m \notin Range(pending')
    BY <1>2, <1>10 DEF BurstNodes, Entry
  <2>2. \A m \in Nodes : \A p \in Range(stream'[m]) : p.id + BURST > accepted'
    BY <1>1, <1>2, <1>3, <1>6, <1>15 DEF BurstInv, mbufVars
  <2>3. InFamilyOrder(stream'["tx"]) /\ InFamilyOrder(sent')
    <3>1. InFamilyOrder(s)
      BY <1>10, <1>12, AscendingFamily
    <3>. QED  BY <1>1, <1>2, <1>3, <1>12, <3>1 DEF BurstInv, mbufVars
  <2>4. \A m \in Nodes \ {"drop"} : \A p \in Range(sent'), q \in Range(stream'[m]) : p.id < q.id
    BY <1>1, <1>2, <1>3, <1>6, <1>15 DEF BurstInv, mbufVars
  <2>. QED  BY <1>3, <1>15, <2>1, <2>2, <2>3, <2>4 DEF BurstInv
<1>17. FamilyInv'
  BY <1>2 DEF FamilyInv
<1>. QED  BY <1>11, <1>14, <1>16, <1>17 DEF GraphInv

-----------------------------------------------------------------------------
(* The other applications *)

\* They have no bursts.
LEMMA NoBursts ==
  ASSUME app \notin BurstApps, app' = app
  PROVE  BurstInv' /\ FamilyInv'
BY DEF BurstApps, BurstInv, FamilyInv

\* graph/two_start_node: one packet made, or none.
LEMMA StartKept ==
  ASSUME GraphInv, NEW n \in {"start1", "start2"}, Start(n)
  PROVE  GraphInv'
<1>1. /\ WalkInv /\ CustodyInv /\ "two_start_node" \notin Quiet /\ Visit("two_start_node", n)
      /\ accepted \in Nat /\ count \in Nat /\ UNCHANGED <<quit, helper, sent, freed, lost>>
  BY DEF GraphInv, CustodyInv, WalkInv, Quiet, Start
<1>2. /\ app = "two_start_node" /\ app' = "two_start_node" /\ Sound(Graph) /\ Sound(Left(n)) /\ n \in Nodes
      /\ \A m \in Nodes : Left(n).stream[m] = IF m = n THEN <<>> ELSE stream[m]
      /\ stream \in [Nodes -> Seq(Pkt)] /\ pc' = "walk"
      /\ n \in SourceNodes => stream[n] = <<>>
  BY <1>1, VisitFacts
<1>3. /\ "worker" \in Nodes /\ "worker" \notin SourceNodes /\ n \in SourceNodes /\ n # "worker"
      /\ "two_start_node" \notin BurstApps /\ "two_start_node" \in MbufApps
  BY DEF Nodes, SourceNodes, BurstApps, MbufApps
<1>4. BurstInv' /\ FamilyInv'
  BY <1>2, <1>3, NoBursts
<1>5. CASE count < 10 /\ Available > 0
  <2>1. /\ Become(Enqueue(Left(n), "worker", <<Packet>>))
        /\ accepted' = accepted + 1 /\ count' = count + 1
    BY <1>5 DEF Start
  <2>2. PICK o, r : o = <<Packet>> /\ r = Enqueue(Left(n), "worker", o)
    OBVIOUS
  <2>3. Packet \in Pkt /\ Packet.id = accepted + 1
    BY <1>1 DEF Packet, Pkt, Types
  <2>4. o \in Seq(Pkt) /\ o # <<>> /\ Ids(o) = {accepted + 1} /\ Distinct(o)
    <3>1. o \in Seq(Pkt) /\ DOMAIN o = {1} /\ o[1] = Packet
      BY <2>2, <2>3
    <3>. QED  BY <2>2, <2>3, <3>1 DEF Ids, Distinct
  <2>5. Enqueued(Left(n), "worker", o, r)
    BY <1>2, <1>3, <2>2, <2>4, EnqueueSound
  <2>6. WalkInv' /\ stream' = r.stream
    <3>1. count' \in Nat /\ UNCHANGED helper /\ Sound(r) /\ Become(r)
      BY <1>1, <2>1, <2>2, <2>5 DEF Enqueued
    <3>. QED  BY <1>1, <3>1, WalkKept
  <2>7. \A m \in Nodes : stream'[m] = IF m = "worker" THEN stream["worker"] \o o ELSE stream[m]
    BY <1>2, <1>3, <2>5, <2>6 DEF Enqueued
  <2>8. Distinct(<<>>) /\ Ids(<<>>) = {} /\ <<>> \in Seq(Pkt)
    BY IdsOfEmpty, EmptySeq
  <2>9. /\ Holdings["sent"] = sent /\ Holdings["freed"] = freed /\ Holdings["lost"] = lost
        /\ Holdings'["sent"] = sent' /\ Holdings'["freed"] = freed' /\ Holdings'["lost"] = lost'
        /\ \A m \in Nodes : Holdings[m] = stream[m] /\ Holdings'[m] = stream'[m]
    BY HoldingsAre, HoldingsNext
  <2>10. sent' = sent \o <<>> /\ freed' = freed \o <<>> /\ lost' = lost
    BY <1>1, ConcatEmptySeq DEF CustodyInv
  <2>11. /\ {"worker", "sent", "freed"} \subseteq Owners \ {n}
         /\ \A w \in Owners : w \in Nodes \/ w \in {"sent", "freed", "lost"}
    BY <1>3, HoldingsAre DEF Owners
  <2>12. (accepted + 1)..accepted' = {accepted + 1}
    BY <1>1, <2>1
  <2>13. Deal(n, "worker", o, "sent", <<>>, "freed", <<>>)
    BY <1>2, <1>3, <2>4, <2>7, <2>8, <2>9, <2>10, <2>11, <2>12 DEF Deal
  <2>14. OneOwner'
    BY <1>1, <1>2, <1>3, <2>1, <2>13, Dealing
  <2>15. CustodyInv'
    BY <1>1, <1>2, <1>5, <2>1, <2>14 DEF CustodyInv
  <2>. QED  BY <1>4, <2>6, <2>15 DEF GraphInv
<1>6. CASE ~(count < 10 /\ Available > 0)
  <2>1. Become(Left(n)) /\ UNCHANGED <<accepted, count>>
    BY <1>6 DEF Start
  <2>2. WalkInv'
    BY <1>1, <1>2, <2>1, WalkKept
  <2>3. stream' = stream
    <3>1. stream' = [stream EXCEPT ![n] = <<>>]
      BY <2>1 DEF Become, Left
    <3>. QED  BY <1>2, <1>3, <3>1
  <2>4. OneOwner'
    BY <1>1, <1>2, <1>3, <2>1, <2>3 DEF CustodyInv, OneOwner, Held
  <2>5. CustodyInv'
    BY <1>1, <1>2, <2>1, <2>4 DEF CustodyInv
  <2>. QED  BY <1>4, <2>2, <2>5 DEF GraphInv
<1>. QED  BY <1>5, <1>6

LEMMA WorkerKept ==
  ASSUME GraphInv, Worker
  PROVE  GraphInv'
<1>1. /\ WalkInv /\ CustodyInv /\ "two_start_node" \notin Quiet /\ Visit("two_start_node", "worker")
      /\ Become(Left("worker")) /\ freed' = freed \o stream["worker"]
      /\ UNCHANGED <<count, quit, helper, accepted, sent, lost>>
  BY DEF GraphInv, Worker, FreeAll, Quiet
<1>2. /\ app = "two_start_node" /\ app' = "two_start_node" /\ Sound(Left("worker")) /\ "worker" \in Nodes
      /\ stream \in [Nodes -> Seq(Pkt)] /\ pc' = "walk"
  BY <1>1, VisitFacts
<1>3. "two_start_node" \in MbufApps /\ "two_start_node" \notin BurstApps
  BY DEF MbufApps, BurstApps
<1>4. BurstInv' /\ FamilyInv'
  BY <1>2, <1>3, NoBursts
<1>5. WalkInv'
  <2>1. count' \in Nat /\ UNCHANGED helper
    BY <1>1 DEF WalkInv
  <2>. QED  BY <1>1, <1>2, <2>1, WalkKept
<1>6. CustodyInv'
  <2>1. PICK t \in Seq(Pkt), e \in Seq(Pkt) : t = stream["worker"] /\ e = <<>>
    BY <1>2, EmptySeq
  <2>2. Distinct(t) /\ Distinct(e) /\ Ids(e) = {}
    BY <1>1, <1>2, <1>3, <2>1, IdsOfEmpty, OwnersHave, HoldingsAre
  <2>3. sent' = sent \o e /\ lost' = lost \o e /\ freed' = freed \o t
    BY <1>1, <2>1, ConcatEmptySeq DEF CustodyInv
  <2>4. Ids(e) \cup Ids(t) \cup Ids(e) = Ids(stream["worker"])
    BY <2>1, <2>2
  <2>5. OneOwner' /\ freed' \in Seq(Pkt)
    BY <1>1, <1>2, <1>3, <2>2, <2>3, <2>4, Released
  <2>. QED  BY <1>1, <1>2, <2>5 DEF CustodyInv
<1>. QED  BY <1>4, <1>5, <1>6 DEF GraphInv

\* graph/two_start_with_worker and graph/node_sched, which have no mbufs.
LEMMA PlainVisit ==
  ASSUME GraphInv, NEW a \in {"two_start_with_worker", "node_sched"}, NEW n, Visit(a, n),
         NEW r, Sound(r), Become(r), count' \in Nat, UNCHANGED <<helper, mbufVars>>
  PROVE  GraphInv'
<1>1. WalkInv /\ CustodyInv /\ a \notin Quiet /\ a \notin MbufApps /\ a \notin BurstApps
  BY DEF GraphInv, Quiet, MbufApps, BurstApps
<1>2. app = a /\ app' = a /\ pc' = "walk"
  BY DEF Visit
<1>3. WalkInv'
  BY <1>1, WalkKept
<1>4. CustodyInv'
  BY <1>1, <1>2 DEF CustodyInv, mbufVars
<1>. QED  BY <1>1, <1>2, <1>3, <1>4, NoBursts DEF GraphInv

LEMMA PlainEnqueue ==
  ASSUME GraphInv, NEW a \in {"two_start_with_worker", "node_sched"}, NEW n, Visit(a, n),
         NEW m \in Nodes, m \notin SourceNodes, NEW objs \in Seq(Pkt), objs # <<>>,
         Become(Enqueue(Left(n), m, objs)), count' \in Nat, UNCHANGED <<helper, mbufVars>>
  PROVE  GraphInv'
<1>1. WalkInv /\ a \notin Quiet
  BY DEF GraphInv, Quiet
<1>2. Sound(Left(n))
  BY <1>1, VisitFacts
<1>3. PICK r : r = Enqueue(Left(n), m, objs)
  OBVIOUS
<1>4. Enqueued(Left(n), m, objs, r)
  BY <1>2, <1>3, EnqueueSound
<1>5. Sound(r) /\ Become(r)
  BY <1>3, <1>4 DEF Enqueued
<1>. QED  BY <1>5, PlainVisit

LEMMA NumberKept ==
  ASSUME GraphInv, NumberSource1 \/ NumberSource2 \/ Work1 \/ Work2
  PROVE  GraphInv'
<1>1. count \in Nat /\ WalkInv /\ "two_start_with_worker" \notin Quiet
  BY DEF GraphInv, WalkInv, Quiet
<1>2. {"work1", "work2"} \subseteq Nodes /\ {"work1", "work2"} \cap SourceNodes = {}
  BY DEF Nodes, SourceNodes
<1>3. ASSUME NEW n, NEW next \in {"work1", "work2"}, NEW first \in Nat, NumberSource(n, next, first)
      PROVE  GraphInv'
  <2>1. Numbers(first) \in Seq(Pkt) /\ Numbers(first) # <<>>
    <3>1. \A i \in 1..4 : [id |-> first + i - 1, type |-> "number", burst |-> 0] \in Pkt
      BY DEF Pkt, Types
    <3>2. Numbers(first) \in [1..4 -> Pkt]
      BY <3>1 DEF Numbers
    <3>3. PICK o : o = Numbers(first)
      OBVIOUS
    <3>4. o \in [1..4 -> Pkt] /\ 4 \in Nat
      BY <3>2, <3>3
    <3>5. o \in Seq(Pkt)
      BY <3>4, SeqDef
    <3>6. o # <<>>
      BY <3>4, DOMAIN <<>> = {}
    <3>. QED  BY <3>3, <3>5, <3>6
  <2>2. /\ Visit("two_start_with_worker", n) /\ Become(Enqueue(Left(n), next, Numbers(first)))
        /\ UNCHANGED <<helper, mbufVars>> /\ count' \in Nat
    BY <1>1, <1>3 DEF NumberSource
  <2>3. next \in Nodes /\ next \notin SourceNodes
    BY <1>2
  <2>. QED  BY <2>1, <2>2, <2>3, PlainEnqueue
<1>4. ASSUME NEW n, NumberWorker(n) PROVE GraphInv'
  <2>1. /\ Visit("two_start_with_worker", n) /\ Become(Left(n))
        /\ UNCHANGED <<helper, mbufVars>> /\ count' \in Nat
    BY <1>1, <1>4 DEF NumberWorker
  <2>2. Sound(Left(n))
    BY <1>1, <2>1, VisitFacts
  <2>. QED  BY <2>1, <2>2, PlainVisit
<1>. QED  BY <1>3, <1>4 DEF NumberSource1, NumberSource2, Work1, Work2

LEMMA SchedKept ==
  ASSUME GraphInv, SchedHello \/ \E n \in {"dummy", "dummy2"} : SchedDummy(n)
  PROVE  GraphInv'
<1>1. count \in Nat /\ WalkInv /\ "node_sched" \notin Quiet
  BY DEF GraphInv, WalkInv, Quiet
<1>2. CASE SchedHello
  <2>1. PICK m \in {"dummy", "dummy2"} : Become(Enqueue(Left("hello"), m, <<Junk>>))
    BY <1>2 DEF SchedHello
  <2>2. m \in Nodes /\ m \notin SourceNodes
    BY DEF Nodes, SourceNodes
  <2>3. Junk \in Pkt
    BY DEF Junk, Pkt, Types
  <2>4. <<Junk>> \in Seq(Pkt) /\ <<Junk>> # <<>>
    BY <2>3
  <2>5. Visit("node_sched", "hello") /\ count' \in Nat /\ UNCHANGED <<helper, mbufVars>>
    BY <1>1, <1>2 DEF SchedHello
  <2>. QED  BY <2>1, <2>2, <2>4, <2>5, PlainEnqueue
<1>3. ASSUME NEW n, SchedDummy(n) PROVE GraphInv'
  <2>1. /\ Visit("node_sched", n) /\ Become(Left(n))
        /\ UNCHANGED <<helper, mbufVars>> /\ count' \in Nat
    BY <1>1, <1>3 DEF SchedDummy
  <2>2. Sound(Left(n))
    BY <1>1, <2>1, VisitFacts
  <2>. QED  BY <2>1, <2>2, PlainVisit
<1>. QED  BY <1>2, <1>3

-----------------------------------------------------------------------------
(* graph/sample and feature_arc/graph_arc, which enqueue nothing *)

\* The list after a visit, with an empty enqueue or without one.
LEMMA QuietVisit ==
  ASSUME GraphInv, NEW a \in Quiet, NEW n, Visit(a, n)
  PROVE  /\ app = a /\ app' = a /\ pc' = "walk" /\ pc = "walk" /\ n \in Nodes
         /\ pending \in Seq(Nodes) /\ Tail(pending) \in Seq(Nodes) /\ Once(Tail(pending))
         /\ stream = [m \in Nodes |-> <<>>] /\ Range(Tail(pending)) \subseteq Range(pending)
         /\ n \notin Range(Tail(pending)) /\ n \in Range(pending)
         /\ "hello" \notin Range(Tail(pending))
         /\ n = "hello" => Tail(pending) = <<>>
         /\ Become(Left(n)) => pending' = Tail(pending) /\ stream' = stream
         /\ \A m \in Nodes : Become(Enqueue(Left(n), m, <<>>)) =>
                               pending' = Append(Tail(pending), m) /\ stream' = stream
<1>1. app = a /\ app' = a /\ pc = "walk" /\ pc' = "walk" /\ pending # <<>> /\ Head(pending) = n
  BY DEF Visit
<1>2. QuietGraph
  BY <1>1 DEF GraphInv, WalkInv
<1>3. pending \in Seq(Nodes) /\ stream = [m \in Nodes |-> <<>>] /\ Once(pending)
      /\ ("hello" \in Range(pending) => pending = <<"hello">>)
  BY <1>2 DEF QuietGraph
<1>4. n \in Nodes /\ Tail(pending) \in Seq(Nodes) /\ Range(pending) = {n} \cup Range(Tail(pending))
  BY <1>1, <1>3, TailNodes
<1>5. Once(Tail(pending)) /\ n \notin Range(Tail(pending))
  BY <1>1, <1>3, OnceAfterFirst
<1>6. "hello" \notin Range(Tail(pending)) /\ (n = "hello" => Tail(pending) = <<>>)
  <2>1. ASSUME "hello" \in Range(pending) PROVE Tail(pending) = <<>> /\ n = "hello"
    <3>1. "hello" \in Nodes
      BY DEF Nodes
    <3>2. Tail(<<"hello">>) = <<>> /\ Head(<<"hello">>) = "hello"
      BY <3>1, OneInList
    <3>. QED  BY <1>1, <1>3, <2>1, <3>2
  <2>2. Range(<<>>) = {}
    BY DEF Range
  <2>. QED  BY <1>4, <2>1, <2>2
<1>7. Left(n).pending = Tail(pending) /\ Left(n).stream = stream
  BY <1>3, <1>4 DEF Left
<1>8. Become(Left(n)) => pending' = Tail(pending) /\ stream' = stream
  BY <1>7 DEF Become
<1>9. ASSUME NEW m \in Nodes, Become(Enqueue(Left(n), m, <<>>))
      PROVE  pending' = Append(Tail(pending), m) /\ stream' = stream
  <2>1. stream[m] = <<>> /\ [stream EXCEPT ![m] = stream[m] \o <<>>] = stream
    <3>1. <<>> \o <<>> = <<>>
      BY ConcatEmptySeq, EmptySeq
    <3>2. stream[m] = <<>>
      BY <1>3
    <3>3. stream[m] \o <<>> = stream[m]
      BY <3>1, <3>2
    <3>. QED  BY <1>3, <3>2, <3>3
  <2>. QED  BY <1>7, <1>9, <2>1 DEF Become, Enqueue
<1>. QED  BY <1>1, <1>3, <1>4, <1>5, <1>6, <1>8, <1>9

\* What is left to show of a step of these applications.
LEMMA QuietKept ==
  ASSUME GraphInv, app \in Quiet, app' = app, QuietGraph', count' \in Nat, UNCHANGED mbufVars,
         pc' \in {"walk", "crashed"}, helper' = "launched" => app' = "graph_arc"
  PROVE  GraphInv'
<1>1. app \notin BurstApps /\ app \notin MbufApps /\ app # "two_start_node"
      /\ app # "rx_drop_sample" /\ app # "pipeline"
  BY DEF Quiet, BurstApps, MbufApps
<1>2. WalkInv'
  BY DEF GraphInv, WalkInv
<1>3. CustodyInv'
  BY <1>1 DEF GraphInv, CustodyInv, mbufVars
<1>. QED  BY <1>1, <1>2, <1>3, NoBursts DEF GraphInv

LEMMA SampleKept ==
  ASSUME GraphInv, SampleHello \/ SampleDummy
  PROVE  GraphInv'
<1>1. /\ count \in Nat /\ "sample" \in Quiet /\ {"hello", "dummy", "dummy2"} \subseteq Nodes
      /\ (helper = "launched" => app = "graph_arc")
  BY DEF GraphInv, WalkInv, Quiet, Nodes
<1>2. PICK n \in {"hello", "dummy"} :
        /\ Visit("sample", n) /\ count' = count + 1 /\ UNCHANGED <<quit, helper, mbufVars>>
        /\ \/ Become(Left(n))
           \/ n = "hello" /\ Become(Enqueue(Left(n), "dummy", <<>>))
  BY DEF SampleHello, SampleDummy
<1>3. /\ app = "sample" /\ app' = "sample" /\ pc' = "walk"
      /\ Tail(pending) \in Seq(Nodes) /\ Once(Tail(pending)) /\ stream = [m \in Nodes |-> <<>>]
      /\ "hello" \notin Range(Tail(pending)) /\ (n = "hello" => Tail(pending) = <<>>)
      /\ Become(Left(n)) => pending' = Tail(pending) /\ stream' = stream
      /\ Become(Enqueue(Left(n), "dummy", <<>>)) => pending' = Append(Tail(pending), "dummy") /\ stream' = stream
  BY <1>1, <1>2, QuietVisit
<1>4. pending' = Tail(pending) \/ pending' = <<"dummy">>
  BY <1>1, <1>2, <1>3, OneInList
<1>5. pending' \in Seq(Nodes) /\ Once(pending') /\ "hello" \notin Range(pending')
  BY <1>1, <1>3, <1>4, OneInList
<1>6. QuietGraph'
  BY <1>1, <1>2, <1>3, <1>5 DEF QuietGraph
<1>. QED  BY <1>1, <1>2, <1>3, <1>6, QuietKept

LEMMA ArcKept ==
  ASSUME GraphInv, ArcInv, ArcHello \/ \E n \in {"dummy", "dummy2"} : ArcDummy(n)
  PROVE  GraphInv'
<1>1. count \in Nat /\ "graph_arc" \in Quiet /\ {"hello", "dummy", "dummy2"} \subseteq Nodes
  BY DEF GraphInv, WalkInv, Quiet, Nodes
<1>2. PICK n \in {"hello", "dummy", "dummy2"} :
        /\ Visit("graph_arc", n) /\ count' = count + 1 /\ UNCHANGED mbufVars
        /\ \/ Become(Left(n)) /\ UNCHANGED helper
           \/ /\ n = "hello" /\ \E m \in {"dummy", "dummy2"} : Become(Enqueue(Left(n), m, <<>>))
              /\ \/ UNCHANGED helper /\ feature # <<1, 1>>
                 \/ Become(Enqueue(Left(n), "dummy", <<>>))
  BY DEF ArcHello, ArcDummy
<1>3. /\ app = "graph_arc" /\ app' = "graph_arc" /\ pc' = "walk" /\ pc = "walk"
      /\ Tail(pending) \in Seq(Nodes) /\ Once(Tail(pending)) /\ stream = [m \in Nodes |-> <<>>]
      /\ Range(Tail(pending)) \subseteq Range(pending)
      /\ "hello" \notin Range(Tail(pending)) /\ (n = "hello" => Tail(pending) = <<>>)
      /\ Become(Left(n)) => pending' = Tail(pending) /\ stream' = stream
      /\ \A m \in Nodes : Become(Enqueue(Left(n), m, <<>>)) =>
                            pending' = Append(Tail(pending), m) /\ stream' = stream
  BY <1>1, <1>2, QuietVisit
<1>4. /\ helper = "launched" => "dummy2" \notin Range(pending)
      /\ helper = "launched" => feature = <<1, 1>>
  BY <1>1, <1>3 DEF GraphInv, WalkInv, QuietGraph, ArcInv, ArcDue
<1>5. CASE Become(Left(n)) /\ UNCHANGED helper
  <2>1. QuietGraph'
    BY <1>3, <1>4, <1>5 DEF QuietGraph
  <2>. QED  BY <1>1, <1>2, <1>3, <2>1, QuietKept
<1>6. ASSUME NEW m \in {"dummy", "dummy2"}, n = "hello", Become(Enqueue(Left(n), m, <<>>)),
             helper' = "launched" => m = "dummy"
      PROVE  GraphInv'
  <2>1. pending' = <<m>> /\ stream' = stream
    BY <1>1, <1>3, <1>6, OneInList
  <2>2. <<m>> \in Seq(Nodes) /\ Once(<<m>>) /\ Range(<<m>>) = {m}
    BY <1>1, OneInList
  <2>3. QuietGraph'
    BY <1>3, <1>6, <2>1, <2>2 DEF QuietGraph
  <2>. QED  BY <1>1, <1>2, <1>3, <2>3, QuietKept
<1>. QED  BY <1>2, <1>4, <1>5, <1>6

-----------------------------------------------------------------------------
(* The loops of main *)

LEMMA SameOwners ==
  ASSUME UNCHANGED <<stream, mbufVars>>, OneOwner
  PROVE  OneOwner'
<1>1. \A x \in Owners : Held(x)' = Held(x)
  BY DEF Held, mbufVars
<1>2. accepted' = accepted
  BY DEF mbufVars
<1>. QED  BY <1>1, <1>2 DEF OneOwner

LEMMA TwoInList ==
  ASSUME NEW n \in Nodes, NEW m \in Nodes, n # m
  PROVE  <<n, m>> \in Seq(Nodes) /\ Once(<<n, m>>) /\ Range(<<n, m>>) = {n, m}
<1>1. PICK s : s = <<n, m>> /\ s \in Seq(Nodes) /\ DOMAIN s = {1, 2} /\ s[1] = n /\ s[2] = m
  <2>1. DOMAIN <<n, m>> = 1..2 /\ 1..2 = {1, 2}
    OBVIOUS
  <2>2. <<n, m>> \in Seq(Nodes) /\ <<n, m>>[1] = n /\ <<n, m>>[2] = m
    OBVIOUS
  <2>. QED  BY <2>1, <2>2
<1>2. Once(s) /\ Range(s) = {n, m}
  BY <1>1 DEF Once, Range
<1>. QED  BY <1>1, <1>2

\* The walk starts in an empty graph.
LEMMA StartKeptAll ==
  ASSUME GraphInv, StartWalk
  PROVE  GraphInv'
<1>1. /\ pc = "loop" /\ pc' = "walk" /\ pending' = Sources(app) /\ MayWalk
      /\ UNCHANGED <<app, stream, count, quit, feature, helper, mbufVars, visited>>
  BY DEF StartWalk
<1>2. /\ WalkInv /\ CustodyInv /\ BurstInv /\ FamilyInv /\ pending = <<>> /\ app \in Apps /\ count \in Nat
      /\ (helper = "launched" => app = "graph_arc")
  BY <1>1 DEF GraphInv, WalkInv
<1>3. Range(<<>>) = {}
  BY DEF Range
<1>4. stream = [n \in Nodes |-> <<>>]
  <2>1. CASE app \in Quiet
    BY <1>2, <2>1 DEF WalkInv, QuietGraph
  <2>2. CASE app \notin Quiet
    BY <1>2, <1>3, <2>2 DEF WalkInv, Sound, Graph
  <2>. QED  BY <2>1, <2>2
<1>5. /\ {"rx", "start1", "start2", "hello"} \subseteq Nodes
      /\ {"rx", "start1", "start2", "hello"} \subseteq SourceNodes
  BY DEF Nodes, SourceNodes
<1>6. CASE app \in Quiet
  <2>1. pending' = <<"hello">>
    BY <1>1, <1>6 DEF Sources, Quiet
  <2>2. <<"hello">> \in Seq(Nodes) /\ Once(<<"hello">>) /\ Range(<<"hello">>) = {"hello"}
    BY <1>5, OneInList
  <2>3. app = "graph_arc" => count = 0
    <3>1. "graph_arc" \in DOMAIN Limit /\ Limit["graph_arc"] = 1
      BY DEF Limit
    <3>. QED  BY <1>1, <1>2, <3>1 DEF MayWalk
  <2>4. QuietGraph'
    BY <1>1, <1>4, <2>1, <2>2, <2>3 DEF QuietGraph
  <2>. QED  BY <1>1, <1>2, <1>6, <2>4, QuietKept
<1>7. CASE app \notin Quiet
  <2>1. /\ pending' \in Seq(Nodes) /\ Once(pending')
        /\ Range(pending') \subseteq {"rx", "start1", "start2", "hello"}
        /\ app \in BurstApps => pending' = <<"rx">>
    <3>1. CASE app \in {"two_start_node", "two_start_with_worker"}
      <4>1. pending' = <<"start1", "start2">>
        BY <1>1, <3>1 DEF Sources
      <4>. QED  BY <1>5, <3>1, <4>1, TwoInList DEF BurstApps
    <3>2. CASE app \in BurstApps
      <4>1. pending' = <<"rx">>
        BY <1>1, <3>2 DEF Sources, BurstApps
      <4>. QED  BY <1>5, <4>1, OneInList
    <3>3. CASE app = "node_sched"
      <4>1. pending' = <<"hello">>
        BY <1>1, <3>3 DEF Sources
      <4>. QED  BY <1>5, <3>3, <4>1, OneInList DEF BurstApps
    <3>4. app \in {"pipeline", "rx_drop_sample", "two_start_node", "two_start_with_worker", "node_sched"}
      BY <1>2, <1>7, GraphAssumption DEF Quiet
    <3>. QED  BY <3>1, <3>2, <3>3, <3>4 DEF BurstApps
  <2>2. \A n \in Nodes : stream'[n] = <<>>
    BY <1>1, <1>4
  <2>3. stream' \in [Nodes -> Seq(Pkt)]
    BY <1>1, <1>4, EmptySeq
  <2>4. Sound(Graph)'
    BY <1>5, <2>1, <2>2, <2>3 DEF Sound, Graph
  <2>5. WalkInv'
    BY <1>1, <1>2, <1>7, <2>4 DEF WalkInv
  <2>6. CustodyInv'
    BY <1>1, <1>2, SameOwners DEF CustodyInv, mbufVars
  <2>7. BurstInv'
    <3>1. SUFFICES ASSUME app' \in BurstApps PROVE BurstInv'
      BY DEF BurstInv
    <3>2. pending' = <<"rx">> /\ Range(pending') = {"rx"}
      BY <1>1, <1>5, <2>1, <3>1, OneInList
    <3>3. "rx" \in BurstNodes'
      BY DEF BurstNodes
    <3>4. InFamilyOrder(sent')
      BY <1>1, <1>2, <3>1 DEF BurstInv, mbufVars
    <3>5. {"l2", "ipv4", "ipv6", "tx"} \subseteq Nodes
      BY DEF Nodes
    <3>. QED  BY <2>2, <3>2, <3>3, <3>4, <3>5, NoPackets DEF BurstInv
  <2>8. FamilyInv'
    <3>1. SUFFICES ASSUME app' = "pipeline" PROVE FamilyInv'
      BY DEF FamilyInv
    <3>2. Ranked(pending') /\ Range(pending') = {"rx"}
      BY <1>1, <1>5, <2>1, <3>1, OneInList DEF BurstApps
    <3>3. {"l2", "ipv4", "ipv6", "tx"} \subseteq Nodes
      BY DEF Nodes
    <3>. QED  BY <2>2, <3>2, <3>3, NoPackets DEF FamilyInv
  <2>. QED  BY <2>5, <2>6, <2>7, <2>8 DEF GraphInv
<1>. QED  BY <1>6, <1>7

\* A step that leaves the graph and the packets alone.
LEMMA ControlKept ==
  ASSUME GraphInv, UNCHANGED <<app, pending, stream, helper, mbufVars>>,
         count' \in Nat, app # "two_start_with_worker" => count' = count,
         pc' \in {"loop", "ended", "exited", "walk"}, pc' # "walk" => pending = <<>>,
         app = "two_start_node" => quit' = quit /\ (pc' = "ended" => count = 10 \/ pc = "ended")
  PROVE  GraphInv'
<1>1. WalkInv /\ CustodyInv /\ BurstInv /\ FamilyInv
  BY DEF GraphInv
<1>2. WalkInv'
  <2>1. CASE app \in Quiet
    <3>1. count' = count
      BY <2>1 DEF Quiet
    <3>2. QuietGraph'
      BY <1>1, <2>1, <3>1 DEF WalkInv, QuietGraph
    <3>. QED  BY <1>1, <2>1, <3>2 DEF WalkInv
  <2>2. CASE app \notin Quiet
    <3>1. Sound(Graph)'
      BY <1>1, <2>2 DEF WalkInv, Sound, Graph
    <3>. QED  BY <1>1, <2>2, <3>1 DEF WalkInv
  <2>. QED  BY <2>1, <2>2
<1>3. CustodyInv'
  BY <1>1, SameOwners DEF CustodyInv, mbufVars
<1>4. BurstInv'
  BY <1>1 DEF BurstInv, BurstNodes, Entry, mbufVars
<1>5. FamilyInv'
  BY <1>1 DEF FamilyInv
<1>. QED  BY <1>2, <1>3, <1>4, <1>5 DEF GraphInv

LEMMA MainKept ==
  ASSUME GraphInv, Setup \/ EndWalk \/ Leave \/ UNCHANGED vars
  PROVE  GraphInv'
<1>1. count \in Nat /\ (pc \in {"setup", "loop", "ended", "exited"} => pending = <<>>)
  BY DEF GraphInv, WalkInv
<1>2. CASE Setup
  BY <1>1, <1>2, ControlKept DEF Setup, graphVars
<1>3. CASE EndWalk
  BY <1>1, <1>3, ControlKept DEF EndWalk, graphVars
<1>4. CASE Leave
  <2>1. ASSUME app = "two_start_node" PROVE count = 10
    <3>1. "two_start_node" \in DOMAIN Limit /\ Limit["two_start_node"] = 10
      BY DEF Limit
    <3>2. ~quit /\ count <= 10
      BY <2>1 DEF GraphInv, CustodyInv
    <3>. QED  BY <1>1, <1>4, <2>1, <3>1, <3>2 DEF Leave, MayWalk
  <2>. QED  BY <1>1, <1>4, <2>1, ControlKept DEF Leave, graphVars
<1>5. CASE UNCHANGED vars
  <2>1. UNCHANGED <<app, pc, pending, stream, count, quit, helper, mbufVars>>
    BY <1>5 DEF vars, graphVars
  <2>2. WalkInv'
    BY <2>1 DEF GraphInv, WalkInv, QuietGraph, Sound, Graph
  <2>3. CustodyInv'
    BY <2>1, SameOwners DEF GraphInv, CustodyInv, mbufVars
  <2>4. BurstInv' /\ FamilyInv'
    BY <2>1 DEF GraphInv, BurstInv, BurstNodes, Entry, mbufVars, FamilyInv
  <2>. QED  BY <2>2, <2>3, <2>4 DEF GraphInv
<1>. QED  BY <1>2, <1>3, <1>4, <1>5

LEMMA SignalKept ==
  ASSUME GraphInv, signal_handler
  PROVE  GraphInv'
<1>1. /\ app # "two_start_node" /\ pc \in {"setup", "loop", "walk"}
      /\ UNCHANGED <<app, pc, pending, stream, count, helper, mbufVars>>
  BY DEF signal_handler, graphVars
<1>2. WalkInv'
  BY <1>1 DEF GraphInv, WalkInv, QuietGraph, Sound, Graph
<1>3. CustodyInv'
  BY <1>1, SameOwners DEF GraphInv, CustodyInv, mbufVars
<1>4. BurstInv' /\ FamilyInv'
  BY <1>1 DEF GraphInv, BurstInv, BurstNodes, Entry, mbufVars, FamilyInv
<1>. QED  BY <1>2, <1>3, <1>4 DEF GraphInv

\* graph_arc's helper runs on another lcore, at any time.
LEMMA HelperKept ==
  ASSUME GraphInv, ArcInv, helper_run
  PROVE  GraphInv'
<1>1. /\ helper = "launched" /\ helper' = "done" /\ pc \in {"loop", "walk", "ended"}
      /\ UNCHANGED <<app, count, quit, feature, mbufVars>>
  BY DEF helper_run
<1>2. app = "graph_arc" /\ app \in Quiet /\ count \in Nat /\ QuietGraph
  BY <1>1 DEF GraphInv, WalkInv, Quiet
<1>3. count # 0
  BY <1>1, <1>2 DEF ArcInv, ArcDue
<1>4. /\ pending \in Seq(Nodes) /\ Once(pending) /\ stream = [n \in Nodes |-> <<>>]
      /\ "hello" \notin Range(pending) /\ "dummy2" \notin Range(pending)
  BY <1>1, <1>2, <1>3 DEF QuietGraph
<1>5. CASE pc' \in {pc, "crashed"} /\ UNCHANGED graphVars
  <2>1. UNCHANGED <<pending, stream>>
    BY <1>5 DEF graphVars
  <2>2. QuietGraph'
    BY <1>1, <1>2, <1>4, <2>1 DEF QuietGraph
  <2>3. WalkInv'
    BY <1>1, <1>2, <1>5, <2>1, <2>2 DEF GraphInv, WalkInv
  <2>4. CustodyInv'
    BY <1>1, <1>2 DEF GraphInv, CustodyInv, mbufVars, MbufApps
  <2>. QED  BY <1>1, <1>2, <2>3, <2>4, NoBursts DEF GraphInv, BurstApps
<1>6. CASE /\ pc = "walk" /\ pc' = pc
           /\ Become(Enqueue([pending |-> pending, stream |-> stream], "dummy2", <<>>))
  <2>1. "dummy2" \in Nodes
    BY DEF Nodes
  <2>2. stream["dummy2"] = <<>> /\ stream["dummy2"] \o <<>> = stream["dummy2"]
    <3>1. <<>> \o <<>> = <<>>
      BY ConcatEmptySeq, EmptySeq
    <3>. QED  BY <1>4, <2>1, <3>1
  <2>3. pending' = Append(pending, "dummy2") /\ stream' = stream
    BY <1>4, <1>6, <2>1, <2>2 DEF Become, Enqueue
  <2>4. pending' \in Seq(Nodes) /\ Once(pending') /\ Range(pending') = Range(pending) \cup {"dummy2"}
    BY <1>4, <2>1, <2>3, AppendNode, OnceWithLast
  <2>5. QuietGraph'
    BY <1>1, <1>4, <2>3, <2>4 DEF QuietGraph
  <2>. QED  BY <1>1, <1>2, <1>6, <2>5, QuietKept
<1>. QED  BY <1>5, <1>6 DEF helper_run

-----------------------------------------------------------------------------
(* The theorems *)

LEMMA GraphInit == Init => GraphInv
<1>. SUFFICES ASSUME Init PROVE GraphInv
  OBVIOUS
<1>1. /\ app \in Apps /\ pc = "setup" /\ pending = <<>> /\ stream = [n \in Nodes |-> <<>>]
      /\ count = 0 /\ quit = FALSE /\ helper = "none"
      /\ accepted = 0 /\ sent = <<>> /\ freed = <<>> /\ lost = <<>>
  BY DEF Init
<1>2. Range(<<>>) = {} /\ Once(<<>>) /\ Ranked(<<>>) /\ Ascending(<<>>) /\ InFamilyOrder(<<>>)
  BY DEF Range, Once, Ranked, Ascending, InFamilyOrder
<1>3. /\ <<>> \in Seq(Nodes) /\ <<>> \in Seq(Pkt) /\ stream \in [Nodes -> Seq(Pkt)]
      /\ \A n \in Nodes : stream[n] = <<>>
  BY <1>1, EmptySeq
<1>4. WalkInv
  <2>1. Sound(Graph)
    BY <1>1, <1>2, <1>3 DEF Sound, Graph
  <2>2. QuietGraph
    BY <1>1, <1>2, <1>3 DEF QuietGraph
  <2>. QED  BY <1>1, <2>1, <2>2 DEF WalkInv
<1>5. OneOwner
  <2>1. \A x \in Owners : Held(x) = <<>>
    BY <1>1, <1>3 DEF Held, Owners
  <2>2. \A x \in Owners : DOMAIN Held(x) = {} /\ Range(Held(x)) = {}
    BY <1>2, <2>1
  <2>3. UNION {{p.id : p \in Range(Held(x))} : x \in Owners} = {}
    BY <2>2
  <2>4. 1..accepted = {}
    BY <1>1
  <2>. QED  BY <2>2, <2>3, <2>4 DEF OneOwner
<1>6. CustodyInv
  BY <1>1, <1>3, <1>5 DEF CustodyInv
<1>7. {"l2", "ipv4", "ipv6", "tx"} \subseteq Nodes
  BY DEF Nodes
<1>8. BurstInv
  BY <1>1, <1>2, <1>3, <1>7 DEF BurstInv
<1>9. FamilyInv
  BY <1>1, <1>2, <1>3, <1>7 DEF FamilyInv
<1>. QED  BY <1>4, <1>6, <1>8, <1>9 DEF GraphInv

LEMMA NodeKept ==
  ASSUME GraphInv, ArcInv, NodeStep
  PROVE  GraphInv'
<1>1. CASE \E n \in 0..BURST : PipelineRx(n) \/ RxDropRx(n) \/ PipelineTx(n) \/ RxDropTx(n)
  <2>1. PICK n \in 0..BURST : PipelineRx(n) \/ RxDropRx(n) \/ PipelineTx(n) \/ RxDropTx(n)
    BY <1>1
  <2>2. n \in Nat
    BY <2>1, GraphAssumption
  <2>3. CASE PipelineRx(n)
    BY <2>1, <2>3, RxKept DEF PipelineRx
  <2>4. CASE RxDropRx(n)
    BY <2>1, <2>4, RxKept DEF RxDropRx
  <2>5. CASE PipelineTx(n) \/ RxDropTx(n)
    BY <2>2, <2>5, TxKept
  <2>. QED  BY <2>1, <2>3, <2>4, <2>5
<1>2. CASE L2Node
  BY <1>2, L2Kept
<1>3. CASE Ipv4Node \/ Ipv6Node
  BY <1>3, ToTxKept DEF Ipv4Node, Ipv6Node
<1>4. CASE PipelineDrop \/ RxDropDrop
  <2>1. "pipeline" \in BurstApps /\ "rx_drop_sample" \in BurstApps
    BY DEF BurstApps
  <2>. QED  BY <1>4, <2>1, DropKept DEF PipelineDrop, RxDropDrop
<1>5. CASE RxDropIpv4
  BY <1>5, FilterKept
<1>6. CASE Start1 \/ Start2
  BY <1>6, StartKept DEF Start1, Start2
<1>7. CASE Worker
  BY <1>7, WorkerKept
<1>8. CASE NumberSource1 \/ NumberSource2 \/ Work1 \/ Work2
  BY <1>8, NumberKept
<1>9. CASE SampleHello \/ SampleDummy
  BY <1>9, SampleKept
<1>10. CASE SchedHello \/ \E n \in {"dummy", "dummy2"} : SchedDummy(n)
  BY <1>10, SchedKept
<1>11. CASE ArcHello \/ \E n \in {"dummy", "dummy2"} : ArcDummy(n)
  BY <1>11, ArcKept
<1>. QED
  BY <1>1, <1>2, <1>3, <1>4, <1>5, <1>6, <1>7, <1>8, <1>9, <1>10, <1>11 DEF NodeStep

LEMMA GraphStep == GraphInv /\ ArcInv /\ [Next]_vars => GraphInv'
<1>. SUFFICES ASSUME GraphInv, ArcInv, [Next]_vars PROVE GraphInv'
  OBVIOUS
<1>1. CASE NodeStep
  BY <1>1, NodeKept
<1>2. CASE StartWalk
  BY <1>2, StartKeptAll
<1>3. CASE Setup \/ EndWalk \/ Leave \/ UNCHANGED vars
  BY <1>3, MainKept
<1>4. CASE signal_handler
  BY <1>4, SignalKept
<1>5. CASE helper_run
  BY <1>5, HelperKept
<1>. QED  BY <1>1, <1>2, <1>3, <1>4, <1>5 DEF Next, MainStep, Ended

\* Every run of a graph application keeps its lists, its mbufs and its
\* bursts in order.
THEOREM GraphInvariant == Spec => [](GraphInv /\ ArcInv)
<1>1. Init => GraphInv /\ ArcInv
  BY GraphInit, ArcInit
<1>2. GraphInv /\ ArcInv /\ [Next]_vars => (GraphInv /\ ArcInv)'
  BY GraphStep, ArcStep
<1>. QED  BY <1>1, <1>2, PTL DEF Spec

LEMMA EmptyGraph ==
  ASSUME GraphInv, pending = <<>>
  PROVE  \A n \in Nodes : stream[n] = <<>>
<1>1. Range(<<>>) = {}
  BY DEF Range
<1>. QED  BY <1>1 DEF GraphInv, WalkInv, QuietGraph, Sound, Graph

\* two_start_node's mbufs are all freed when nothing is left in the graph.
LEMMA AllFreed ==
  ASSUME GraphInv, app = "two_start_node", pending = <<>>, accepted = 10
  PROVE  Len(freed) = 10
<1>1. /\ freed \in Seq(Pkt) /\ sent = <<>> /\ lost = <<>> /\ OneOwner
  BY DEF GraphInv, CustodyInv, MbufApps
<1>2. \A n \in Nodes : stream[n] = <<>>
  BY EmptyGraph
<1>3. \A x \in Owners : x # "freed" => Held(x) = <<>>
  BY <1>1, <1>2 DEF Owners, Held
<1>4. "freed" \in Owners /\ Held("freed") = freed
  BY DEF Owners, Held
<1>5. PICK m \in Nat : m = Len(freed) /\ DOMAIN freed = 1..m
  BY <1>1, LenProperties
<1>6. Range(<<>>) = {}
  BY DEF Range
<1>7. UNION {{p.id : p \in Range(Held(x))} : x \in Owners} = {p.id : p \in Range(freed)}
  BY <1>3, <1>4, <1>6
<1>8. {p.id : p \in Range(freed)} = 1..10
  BY <1>1, <1>7 DEF OneOwner
<1>9. PICK f : f = [i \in 1..m |-> freed[i].id]
  OBVIOUS
<1>10. f \in [1..m -> 1..10] /\ \A t \in 1..10 : \E s \in 1..m : f[s] = t
  BY <1>5, <1>8, <1>9 DEF Range
<1>11. \A a, b \in 1..m : f[a] = f[b] => a = b
  BY <1>1, <1>4, <1>5, <1>9 DEF OneOwner
<1>12. f \in Bijection(1..m, 1..10)
  BY <1>10, <1>11, Fun_IsBij
<1>13. ExistsBijection(1..m, 1..10)
  BY <1>12, Fun_ExistsBij
<1>14. ExistsBijection(1..10, 1..10)
  BY Fun_ExistsBijReflexive
<1>15. m = 10
  <2>1. PICK k \in Nat : k = 10
    OBVIOUS
  <2>2. ExistsBijection(1..m, 1..k) /\ ExistsBijection(1..k, 1..k)
    BY <1>13, <1>14, <2>1
  <2>3. m = k
    BY <2>2, Fun_NatBijSame
  <2>. QED  BY <2>1, <2>3
<1>. QED  BY <1>5, <1>15

\* Every mbuf always has exactly one owner, whatever its way through the
\* graph; between walks no node holds any.
THEOREM GraphKeepsCustody == Spec => []GraphCustody
<1>1. GraphInv => GraphCustody
  <2>. SUFFICES ASSUME GraphInv PROVE GraphCustody
    OBVIOUS
  <2>1. ASSUME pc = "loop" PROVE \A n \in Nodes : stream[n] = <<>>
    BY <2>1, EmptyGraph DEF GraphInv, WalkInv
  <2>2. ASSUME app = "two_start_node", pc = "ended" PROVE accepted = 10 /\ Len(freed) = 10
    BY <2>2, AllFreed DEF GraphInv, WalkInv, CustodyInv
  <2>. QED  BY <2>1, <2>2 DEF GraphCustody, GraphInv, CustodyInv
<1>. QED  BY <1>1, GraphInvariant, PTL

\* No stream outgrows a burst, for every burst size, and no node is listed
\* twice.
THEOREM GraphStreamsFit == Spec => []StreamsFit
<1>1. GraphInv => StreamsFit
  <2>. SUFFICES ASSUME GraphInv PROVE StreamsFit
    OBVIOUS
  <2>1. ASSUME app \in {"pipeline", "rx_drop_sample"}, NEW n \in Nodes PROVE Len(stream[n]) <= BURST
    <3>1. /\ OneOwner /\ accepted \in Nat /\ stream[n] \in Seq(Pkt) /\ BURST \in Nat
          /\ \A p \in Range(stream[n]) : p.id + BURST > accepted
      <4>1. Sound(Graph)
        BY <2>1 DEF GraphInv, WalkInv, Quiet
      <4>2. stream[n] \in Seq(Pkt)
        BY <4>1 DEF Sound, Graph
      <4>3. OneOwner /\ accepted \in Nat
        BY <2>1 DEF GraphInv, CustodyInv, MbufApps
      <4>4. BURST \in Nat
        BY GraphAssumption
      <4>5. \A m \in Nodes : \A p \in Range(stream[m]) : p.id + BURST > accepted
        BY <2>1 DEF GraphInv, BurstInv, BurstApps
      <4>. QED  BY <4>2, <4>3, <4>4, <4>5
    <3>2. PICK s \in Seq(Pkt), m \in Nat : s = stream[n] /\ m = Len(s) /\ DOMAIN s = 1..m /\ s \in Seq(Pkt)
      BY <3>1, LenProperties
    <3>3. n \in Owners /\ Held(n) = s
      BY <3>2 DEF Owners, Held, Nodes
    <3>4. \A i \in 1..m : s[i].id \in Nat /\ s[i].id <= accepted /\ s[i].id + BURST > accepted
      <4>1. \A p \in Range(s) : p.id \in 1..accepted
        BY <3>3 , <3>1 DEF OneOwner
      <4>2. \A i \in 1..m : s[i] \in Range(s)
        BY <3>2 DEF Range
      <4>. QED  BY <3>1, <3>2, <4>1, <4>2
    <3>5. \A i, j \in 1..m : s[i].id = s[j].id => i = j
      BY <3>1, <3>2, <3>3 DEF OneOwner
    <3>6. PICK f : f = [i \in 1..m |-> s[i].id + BURST - accepted]
      OBVIOUS
    <3>7. f \in [1..m -> 1..BURST]
      BY <3>1, <3>4, <3>6
    <3>8. \A a, b \in 1..m : f[a] = f[b] => a = b
      BY <3>1, <3>4, <3>5, <3>6
    <3>9. f \in Injection(1..m, 1..BURST)
      BY <3>7, <3>8, Fun_IsInj
    <3>10. ExistsInjection(1..m, 1..BURST)
      BY <3>9, Fun_ExistsInj
    <3>. QED  BY <3>1, <3>2, <3>10, Fun_NatInjLeq
  <2>2. Cardinality(Range(pending)) = Len(pending)
    <3>1. pending \in Seq(Nodes) /\ Once(pending)
      BY DEF GraphInv, WalkInv, QuietGraph, Sound, Graph
    <3>2. PICK m \in Nat : m = Len(pending) /\ DOMAIN pending = 1..m /\ pending \in [1..m -> Nodes]
      BY <3>1, LenProperties
    <3>3. pending \in [1..m -> Range(pending)] /\ \A t \in Range(pending) : \E s \in 1..m : pending[s] = t
      BY <3>2 DEF Range
    <3>4. \A a, b \in 1..m : pending[a] = pending[b] => a = b
      BY <3>1, <3>2 DEF Once
    <3>5. pending \in Bijection(1..m, Range(pending))
      BY <3>3, <3>4, Fun_IsBij
    <3>6. ExistsBijection(1..m, Range(pending))
      BY <3>5, Fun_ExistsBij
    <3>. QED  BY <3>2, <3>6, FS_CountingElements
  <2>. QED  BY <2>1, <2>2 DEF StreamsFit
<1>. QED  BY <1>1, GraphInvariant, PTL

\* The only reordering is IPv4 before IPv6 within one burst.
THEOREM GraphFamilyOrder == Spec => []FamilyOrder
<1>1. GraphInv => FamilyOrder
  <2>. SUFFICES ASSUME GraphInv PROVE FamilyOrder
    OBVIOUS
  <2>1. InFamilyOrder(sent)
    BY NoPackets DEF GraphInv, CustodyInv, BurstInv, BurstApps
  <2>. QED  BY <2>1 DEF FamilyOrder, InFamilyOrder
<1>. QED  BY <1>1, GraphInvariant, PTL
=============================================================================
