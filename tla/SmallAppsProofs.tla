-------------------------- MODULE SmallAppsProofs --------------------------
(***************************************************************************)
(* Safety of the small applications for all parameters: the MAC tables,    *)
(* the telemetry counters, the RSS receivers, the programs with one ring,  *)
(* the event applications, the reorder buffers and the feature arc.  The   *)
(* theorems are about the specification of MCSmallApps; a step of another  *)
(* component leaves the state of these as it is.                           *)
(***************************************************************************)
EXTENDS MCSmallApps, TLAPS, FiniteSetTheorems, SequenceTheorems

\* A step is one of the component's own or does not touch its variables.
LEMMA OwnSteps ==
  ASSUME [Next]_vars
  PROVE  /\ Mac!Next \/ UNCHANGED mac_vars
         /\ Tel!Next \/ UNCHANGED tel_vars
         /\ Rss!Next \/ UNCHANGED rss_vars
         /\ Ring!Next \/ UNCHANGED ring_vars
BY DEF Next, vars, Telemetry, Rings, EventApps, RssWorkers, Reorder, FeatureArc, MacTable

-----------------------------------------------------------------------------
(* MAC tables *)

\* What the table knows was seen, and the last decision fits.
MacInv == ForwardsWhereLastSeen /\ DOMAIN mac_table \subseteq DOMAIN seen

\* Learning keeps the table and the record of what was seen in step, also
\* when a full table refuses the address.
LEMMA LearnKeepsStep ==
  ASSUME MacInv, NEW src, NEW port, Mac!mac_learn(src, port), Mac!Saw(src, port)
  PROVE  /\ \A m \in DOMAIN mac_table' : mac_table'[m] = seen'[m]
         /\ DOMAIN mac_table' \subseteq DOMAIN seen'
<1>1. /\ \A m \in DOMAIN mac_table : mac_table[m] = seen[m]
      /\ DOMAIN mac_table \subseteq DOMAIN seen
  BY DEF MacInv, ForwardsWhereLastSeen, Mac!ForwardsWhereLastSeen
<1>2. /\ DOMAIN seen' = DOMAIN seen \cup {src} /\ seen'[src] = port
      /\ \A x \in DOMAIN seen : x # src => seen'[x] = seen[x]
  BY DEF Mac!Saw, Mac!Put
<1>3. CASE mac_table' = Mac!Put(mac_table, src, port)
  <2>1. /\ DOMAIN mac_table' = DOMAIN mac_table \cup {src} /\ mac_table'[src] = port
        /\ \A x \in DOMAIN mac_table : x # src => mac_table'[x] = mac_table[x]
    BY <1>3 DEF Mac!Put
  <2>. QED  BY <1>1, <1>2, <2>1
<1>4. CASE src \notin DOMAIN mac_table /\ UNCHANGED mac_table
  BY <1>1, <1>2, <1>4
<1>. QED  BY <1>3, <1>4 DEF Mac!mac_learn

LEMMA MacStep == MacInv /\ [Next]_vars => MacInv'
<1> SUFFICES ASSUME MacInv, [Next]_vars PROVE MacInv'
  OBVIOUS
<1>1. CASE UNCHANGED mac_vars
  BY <1>1 DEF mac_vars, MacInv, ForwardsWhereLastSeen, Mac!ForwardsWhereLastSeen
<1>2. ASSUME NEW src \in Macs, NEW in_port \in Mac!Ports, NEW dst \in Macs,
             Mac!process_packet(src, dst, in_port)
      PROVE  MacInv'
  <2>1. /\ \A m \in DOMAIN mac_table' : mac_table'[m] = seen'[m]
        /\ DOMAIN mac_table' \subseteq DOMAIN seen'
    BY <1>2, LearnKeepsStep DEF Mac!process_packet
  <2>2. /\ decided'.dst = dst /\ decided'.in_port = in_port
        /\ decided'.out = Mac!mac_lookup(mac_table', dst, Mac!flood_packet(in_port))
    BY <1>2 DEF Mac!process_packet
  <2>3. IF decided'.dst \in DOMAIN mac_table'
        THEN decided'.out = {seen'[decided'.dst]}
        ELSE decided'.out = Mac!Ports \ {decided'.in_port}
    BY <2>1, <2>2 DEF Mac!mac_lookup, Mac!flood_packet
  <2>. QED  BY <2>1, <2>3 DEF MacInv, ForwardsWhereLastSeen, Mac!ForwardsWhereLastSeen, Mac!Ports
<1>3. ASSUME NEW src \in Macs, NEW in_port \in Mac!Ports, Mac!Learn(src, in_port)
      PROVE  MacInv'
  <2>1. /\ \A m \in DOMAIN mac_table' : mac_table'[m] = seen'[m]
        /\ DOMAIN mac_table' \subseteq DOMAIN seen'
    BY <1>3, LearnKeepsStep DEF Mac!Learn
  <2>2. decided' = <<>>
    BY <1>3 DEF Mac!Learn
  <2>. QED  BY <2>1, <2>2 DEF MacInv, ForwardsWhereLastSeen, Mac!ForwardsWhereLastSeen
<1>. QED  BY <1>1, <1>2, <1>3, OwnSteps DEF Mac!Next

\* A packet goes where its destination was seen last or is flooded, for every
\* number of addresses and ports and every size of the table.
THEOREM MacForwards == Spec => []ForwardsWhereLastSeen
<1>1. Init => MacInv
  <2> SUFFICES ASSUME Init PROVE MacInv
    OBVIOUS
  <2>1. mac_table = <<>> /\ decided = <<>>
    BY DEF Init, Mac!Init
  <2>2. DOMAIN <<>> = {}
    OBVIOUS
  <2>. QED  BY <2>1, <2>2 DEF MacInv, ForwardsWhereLastSeen, Mac!ForwardsWhereLastSeen
<1>2. MacInv /\ [Next]_vars => MacInv'
  BY MacStep
<1>3. MacInv => ForwardsWhereLastSeen
  BY DEF MacInv
<1>. QED  BY <1>1, <1>2, <1>3, PTL DEF Spec

-----------------------------------------------------------------------------
(* Telemetry counters *)

Workers == 1..Lcores
Loops   == 1..MaxLoops
Table   == (0..(Lcores + 1)) \X Loops

\* The loops of worker w that both its counters should know: the one it has
\* counted for itself but not yet in the total is left out.
Completed(w) == IF "own" \in done[w] THEN g_lcore_stats[w] - 1 ELSE g_lcore_stats[w]

\* All completed loops, with lcores numbered from k, and the loops that the
\* answer to /adv/lcore_stats counts once it is filled in with the counters as
\* they are now.
CompletedLoops(k) == {c \in Table : \E w \in Workers : c[1] = w + k /\ c[2] <= Completed(w)}
Answered(x)       == IF x <= Len(array) THEN array[x] ELSE g_lcore_stats[x - 1]
AnsweredLoops     == {c \in Table : \E x \in 1..(Lcores + 1) : c[1] = x /\ c[2] <= Answered(x)}

TelType ==
  /\ done \in [Workers -> SUBSET {"own", "read"}]
  /\ seen_total \in [Workers -> Nat]
  /\ g_lcore_stats \in [0..Lcores -> 0..MaxLoops]
  /\ g_total_loops \in Nat /\ summary \in Nat
  /\ array \in Seq(0..MaxLoops) /\ Len(array) <= Lcores + 1

\* No total, written, read or reported, counts a loop that is not completed;
\* the answer that is being filled in counts at least those of the summary.
NeverAhead ==
  /\ \A w \in Workers : "own" \in done[w] => g_lcore_stats[w] > 0
  /\ \A k \in {0, 1} :
       /\ g_total_loops <= Cardinality(CompletedLoops(k))
       /\ \A w \in Workers : "read" \in done[w] => seen_total[w] <= Cardinality(CompletedLoops(k))
  /\ summary <= Cardinality(AnsweredLoops)

TelInv == TelType /\ NeverAhead

LEMMA TelSizes == Lcores \in Nat \ {0} /\ MaxLoops \in Nat
BY SmallAppsAssumption

\* Sets of loops are finite, and a larger set has no fewer.
LEMMA LoopSets ==
  ASSUME NEW S, S \subseteq Table
  PROVE  /\ IsFiniteSet(S) /\ Cardinality(S) \in Nat
         /\ \A T : T \subseteq S => Cardinality(T) \in Nat /\ Cardinality(T) <= Cardinality(S)
<1>1. IsFiniteSet(0..(Lcores + 1)) /\ IsFiniteSet(1..MaxLoops)
  BY TelSizes, FS_Interval
<1>2. IsFiniteSet(Table)
  BY <1>1, FS_Product DEF Table, Loops
<1>3. IsFiniteSet(S)
  BY <1>2, FS_Subset
<1>4. ASSUME NEW T, T \subseteq S
      PROVE  Cardinality(T) \in Nat /\ Cardinality(T) <= Cardinality(S)
  <2>1. IsFiniteSet(T) /\ Cardinality(T) <= Cardinality(S)
    BY <1>3, <1>4, FS_Subset
  <2>. QED  BY <2>1, FS_CardinalityType
<1>. QED  BY <1>3, <1>4, FS_CardinalityType

LEMMA TelInit == Init => TelInv
<1> SUFFICES ASSUME Init PROVE TelInv
  OBVIOUS
<1> USE TelSizes
<1>1. /\ done = [w \in Workers |-> {}] /\ seen_total = [w \in Workers |-> 0]
      /\ g_lcore_stats = [l \in 0..Lcores |-> 0] /\ g_total_loops = 0
      /\ summary = 0 /\ array = <<>>
  BY DEF Init, Tel!Init, Tel!Workers, Workers
<1>2. TelType
  BY <1>1 DEF TelType
<1>3. CompletedLoops(0) \subseteq Table /\ CompletedLoops(1) \subseteq Table
      /\ AnsweredLoops \subseteq Table
  BY DEF CompletedLoops, AnsweredLoops
<1>4. /\ Cardinality(CompletedLoops(0)) \in Nat /\ Cardinality(CompletedLoops(1)) \in Nat
      /\ Cardinality(AnsweredLoops) \in Nat
  BY <1>3, LoopSets
<1>5. NeverAhead
  BY <1>1, <1>4 DEF NeverAhead
<1>. QED  BY <1>2, <1>5 DEF TelInv

\* The sets of the invariant, before and after a step.
LEMMA TelSets ==
  /\ \A k \in {0, 1} : /\ CompletedLoops(k) \subseteq Table
                       /\ Cardinality(CompletedLoops(k)) \in Nat
  /\ AnsweredLoops \subseteq Table /\ Cardinality(AnsweredLoops) \in Nat
<1>1. \A k \in {0, 1} : CompletedLoops(k) \subseteq Table
  BY DEF CompletedLoops
<1>2. AnsweredLoops \subseteq Table
  BY DEF AnsweredLoops
<1>. QED  BY <1>1, <1>2, LoopSets

LEMMA TelStep == TelInv /\ [Next]_vars => TelInv'
<1> SUFFICES ASSUME TelInv, [Next]_vars PROVE TelInv'
  OBVIOUS
<1> USE TelSizes
<1>0. TelType /\ NeverAhead
  BY DEF TelInv
<1>t. /\ done \in [Workers -> SUBSET {"own", "read"}] /\ seen_total \in [Workers -> Nat]
      /\ g_lcore_stats \in [0..Lcores -> 0..MaxLoops]
      /\ g_total_loops \in Nat /\ summary \in Nat
      /\ array \in Seq(0..MaxLoops) /\ Len(array) \in Nat /\ Len(array) <= Lcores + 1
  BY <1>0, LenProperties DEF TelType
<1>w. \A w \in Workers : w \in 0..Lcores
  BY DEF Workers
<1>s. /\ \A k \in {0, 1} : /\ CompletedLoops(k) \subseteq Table
                           /\ Cardinality(CompletedLoops(k)) \in Nat
      /\ AnsweredLoops \subseteq Table /\ Cardinality(AnsweredLoops) \in Nat
      /\ \A k \in {0, 1} : CompletedLoops(k)' \subseteq Table
      /\ AnsweredLoops' \subseteq Table
  <2>1. /\ \A k \in {0, 1} : CompletedLoops(k)' \subseteq Table
        /\ AnsweredLoops' \subseteq Table
    BY DEF CompletedLoops, AnsweredLoops, Table, Loops
  <2>. QED  BY <2>1, TelSets
<1>1. CASE UNCHANGED <<done, seen_total, g_lcore_stats, g_total_loops, summary, array>>
  <2>1. /\ \A k \in {0, 1} : CompletedLoops(k)' = CompletedLoops(k)
        /\ AnsweredLoops' = AnsweredLoops
    BY <1>1 DEF CompletedLoops, Completed, AnsweredLoops, Answered, Table, Loops, Workers
  <2>2. TelType'
    BY <1>0, <1>1 DEF TelType, Workers
  <2>3. NeverAhead'
    BY <1>0, <1>1, <2>1 DEF NeverAhead, Workers
  <2>. QED  BY <2>2, <2>3 DEF TelInv
<1>2. ASSUME NEW w \in Workers, Tel!CountOwn(w) PROVE TelInv'
  <2>1. /\ "own" \notin done[w] /\ g_lcore_stats[w] < MaxLoops
        /\ g_lcore_stats' = [g_lcore_stats EXCEPT ![w] = @ + 1]
        /\ done' = [done EXCEPT ![w] = @ \cup {"own"}]
        /\ UNCHANGED <<seen_total, g_total_loops, summary, array>>
    BY <1>2 DEF Tel!CountOwn, Tel!answers
  <2>2. TelType'
    <3>1. g_lcore_stats[w] + 1 \in 0..MaxLoops
      BY <1>t, <1>w, <2>1
    <3>2. g_lcore_stats' \in [0..Lcores -> 0..MaxLoops]
      BY <1>t, <2>1, <3>1
    <3>3. done' \in [Workers -> SUBSET {"own", "read"}]
      BY <1>t, <2>1
    <3>. QED  BY <1>0, <2>1, <3>2, <3>3 DEF TelType, Workers
  <2>3. \A v \in Workers : Completed(v)' = Completed(v)
    <3>1. Completed(w)' = Completed(w)
      BY <1>t, <1>w, <2>1 DEF Completed
    <3>2. ASSUME NEW v \in Workers, v # w PROVE Completed(v)' = Completed(v)
      BY <1>t, <1>w, <2>1, <3>2 DEF Completed
    <3>. QED  BY <3>1, <3>2
  <2>4. \A k \in {0, 1} : CompletedLoops(k)' = CompletedLoops(k)
    BY <2>3 DEF CompletedLoops, Table, Loops, Workers
  <2>5. AnsweredLoops \subseteq AnsweredLoops'
    <3>1. ASSUME NEW x \in 1..(Lcores + 1) PROVE Answered(x) \in Nat /\ Answered(x) <= Answered(x)'
                                                 /\ Answered(x)' \in Nat
      <4>1. CASE x <= Len(array)
        <5>1. Answered(x) = array[x] /\ Answered(x)' = array[x]
          BY <2>1, <4>1 DEF Answered
        <5>2. array[x] \in 0..MaxLoops
          BY <1>t, <3>1, <4>1, ElementOfSeq
        <5>. QED  BY <5>1, <5>2
      <4>2. CASE ~(x <= Len(array))
        <5>1. Answered(x) = g_lcore_stats[x - 1] /\ Answered(x)' = g_lcore_stats'[x - 1]
          BY <2>1, <4>2 DEF Answered
        <5>2. x - 1 \in 0..Lcores
          BY <3>1
        <5>3. /\ g_lcore_stats[x - 1] \in Nat /\ g_lcore_stats'[x - 1] \in Nat
              /\ g_lcore_stats'[x - 1] \in {g_lcore_stats[x - 1], g_lcore_stats[x - 1] + 1}
          BY <1>t, <1>w, <2>1, <5>2
        <5>. QED  BY <5>1, <5>3
      <4>. QED  BY <4>1, <4>2
    <3>2. ASSUME NEW c \in AnsweredLoops PROVE c \in AnsweredLoops'
      <4>1. PICK x \in 1..(Lcores + 1) : c[1] = x /\ c[2] <= Answered(x)
        BY DEF AnsweredLoops
      <4>2. c \in Table /\ c[2] \in Nat
        BY DEF AnsweredLoops, Table, Loops
      <4>3. c[2] <= Answered(x)'
        BY <3>1, <4>1, <4>2
      <4>. QED  BY <4>1, <4>2, <4>3 DEF AnsweredLoops, Table, Loops
    <3>. QED  BY <3>2
  <2>6. Cardinality(AnsweredLoops) <= Cardinality(AnsweredLoops') /\ Cardinality(AnsweredLoops') \in Nat
    BY <1>s, <2>5, LoopSets
  <2>7. NeverAhead'
    <3>1. \A v \in Workers : "own" \in done'[v] => g_lcore_stats'[v] > 0
      BY <1>0, <1>t, <1>w, <2>1, SMTT(30) DEF NeverAhead
    <3>2. \A v \in Workers : "read" \in done'[v] => "read" \in done[v]
      BY <1>t, <2>1
    <3>3. summary' <= Cardinality(AnsweredLoops')
      BY <1>0, <1>t, <1>s, <2>1, <2>6 DEF NeverAhead
    <3>. QED  BY <1>0, <2>1, <2>4, <3>1, <3>2, <3>3 DEF NeverAhead, Workers
  <2>. QED  BY <2>2, <2>7 DEF TelInv
<1>3. ASSUME NEW w \in Workers, Tel!ReadTotal(w) PROVE TelInv'
  <2>1. /\ seen_total' = [seen_total EXCEPT ![w] = g_total_loops]
        /\ done' = [done EXCEPT ![w] = @ \cup {"read"}]
        /\ UNCHANGED <<g_lcore_stats, g_total_loops, summary, array>>
    BY <1>3 DEF Tel!ReadTotal, Tel!answers
  <2>2. TelType'
    <3>1. done' \in [Workers -> SUBSET {"own", "read"}] /\ seen_total' \in [Workers -> Nat]
      BY <1>t, <2>1
    <3>. QED  BY <1>0, <2>1, <3>1 DEF TelType, Workers
  <2>3. \A v \in Workers : /\ "own" \in done'[v] <=> "own" \in done[v]
                           /\ "read" \in done'[v] => v = w \/ "read" \in done[v]
                           /\ seen_total'[v] = IF v = w THEN g_total_loops ELSE seen_total[v]
    BY <1>t, <2>1
  <2>4. \A k \in {0, 1} : CompletedLoops(k)' = CompletedLoops(k)
    BY <2>1, <2>3 DEF CompletedLoops, Completed, Table, Loops, Workers
  <2>5. AnsweredLoops' = AnsweredLoops
    BY <2>1 DEF AnsweredLoops, Answered, Table, Loops
  <2>6. NeverAhead'
    BY <1>0, <2>1, <2>3, <2>4, <2>5 DEF NeverAhead, Workers
  <2>. QED  BY <2>2, <2>6 DEF TelInv
<1>4. ASSUME NEW w \in Workers, Tel!WriteTotal(w) PROVE TelInv'
  <2>1. /\ done[w] = {"own", "read"}
        /\ g_total_loops' = seen_total[w] + 1
        /\ done' = [done EXCEPT ![w] = {}]
        /\ UNCHANGED <<seen_total, g_lcore_stats, summary, array>>
    BY <1>4 DEF Tel!WriteTotal, Tel!answers
  <2>2. TelType'
    <3>1. done' \in [Workers -> SUBSET {"own", "read"}]
      BY <1>t, <2>1
    <3>2. seen_total[w] + 1 \in Nat
      BY <1>t
    <3>. QED  BY <1>0, <2>1, <3>1, <3>2 DEF TelType, Workers
  <2>3. /\ done'[w] = {} /\ \A v \in Workers : v # w => done'[v] = done[v]
        /\ g_lcore_stats[w] \in 1..MaxLoops
    <3>1. done'[w] = {} /\ \A v \in Workers : v # w => done'[v] = done[v]
      BY <1>t, <2>1
    <3>2. g_lcore_stats[w] > 0
      BY <1>0, <2>1 DEF NeverAhead
    <3>3. PICK n \in 0..MaxLoops : n = g_lcore_stats[w]
      BY <1>t, <1>w
    <3>4. n \in 1..MaxLoops
      BY <3>2, <3>3
    <3>. QED  BY <3>1, <3>3, <3>4
  <2>4. /\ Completed(w) = g_lcore_stats[w] - 1 /\ Completed(w)' = g_lcore_stats[w]
        /\ \A v \in Workers : v # w => Completed(v)' = Completed(v)
    BY <2>1, <2>3 DEF Completed
  <2>5. ASSUME NEW k \in {0, 1}
        PROVE  /\ Cardinality(CompletedLoops(k)') = Cardinality(CompletedLoops(k)) + 1
               /\ seen_total[w] <= Cardinality(CompletedLoops(k))
    <3> DEFINE new == <<w + k, g_lcore_stats[w]>>
    <3>1. w + k \in 0..(Lcores + 1)
      BY DEF Workers
    <3>2. new \in Table /\ new[1] = w + k /\ new[2] = g_lcore_stats[w]
      BY <2>3, <3>1 DEF Table, Loops
    <3> HIDE DEF new
    <3>3. new \notin CompletedLoops(k)
      <4>1. ASSUME NEW v \in Workers, new[1] = v + k, new[2] <= Completed(v) PROVE FALSE
        <5>1. v = w
          BY <3>2, <4>1 DEF Workers
        <5>. QED  BY <2>3, <2>4, <3>2, <4>1, <5>1
      <4>. QED  BY <4>1 DEF CompletedLoops
    <3>4. ASSUME NEW c \in Table
          PROVE  c \in CompletedLoops(k)' <=> c \in CompletedLoops(k) \cup {new}
      <4>1. c \in CompletedLoops(k)' <=> \E v \in Workers : c[1] = v + k /\ c[2] <= Completed(v)'
        BY DEF CompletedLoops, Table, Loops, Workers
      <4>2. c \in CompletedLoops(k) <=> \E v \in Workers : c[1] = v + k /\ c[2] <= Completed(v)
        BY DEF CompletedLoops
      <4>3. c[2] \in Nat /\ c = <<c[1], c[2]>>
        BY DEF Table, Loops
      <4>4. c = new <=> c[1] = w + k /\ c[2] = g_lcore_stats[w]
        BY <4>3, <3>2 DEF new
      <4>5. c[2] <= Completed(w)' <=> c[2] <= Completed(w) \/ c[2] = g_lcore_stats[w]
        BY <2>3, <2>4, <4>3
      <4>. QED  BY <2>4, <4>1, <4>2, <4>4, <4>5
    <3>5. CompletedLoops(k)' = CompletedLoops(k) \cup {new}
      BY <1>s, <3>2, <3>4
    <3>6. IsFiniteSet(CompletedLoops(k))
      BY <1>s, LoopSets
    <3>7. Cardinality(CompletedLoops(k) \cup {new}) = Cardinality(CompletedLoops(k)) + 1
      BY <3>3, <3>6, FS_AddElement
    <3>8. seen_total[w] <= Cardinality(CompletedLoops(k))
      BY <1>0, <2>1 DEF NeverAhead
    <3>. QED  BY <3>5, <3>7, <3>8
  <2>6. AnsweredLoops' = AnsweredLoops
    BY <2>1 DEF AnsweredLoops, Answered, Table, Loops
  <2>7. NeverAhead'
    <3>1. \A v \in Workers : "own" \in done'[v] => g_lcore_stats'[v] > 0
      BY <1>0, <2>1, <2>3 DEF NeverAhead
    <3>2. ASSUME NEW k \in {0, 1}
          PROVE  /\ g_total_loops' <= Cardinality(CompletedLoops(k)')
                 /\ \A v \in Workers : "read" \in done'[v] =>
                      seen_total'[v] <= Cardinality(CompletedLoops(k)')
      <4>1. Cardinality(CompletedLoops(k)) \in Nat /\ seen_total[w] \in Nat
        BY <1>s, <1>t
      <4>2. g_total_loops' <= Cardinality(CompletedLoops(k)')
        BY <2>1, <2>5, <4>1
      <4>3. ASSUME NEW v \in Workers, "read" \in done'[v]
            PROVE  seen_total'[v] <= Cardinality(CompletedLoops(k)')
        <5>1. "read" \in done[v] /\ seen_total'[v] = seen_total[v] /\ seen_total[v] \in Nat
          BY <1>t, <2>1, <2>3, <4>3
        <5>2. seen_total[v] <= Cardinality(CompletedLoops(k))
          BY <1>0, <5>1 DEF NeverAhead
        <5>. QED  BY <2>5, <4>1, <5>1, <5>2
      <4>. QED  BY <4>2, <4>3
    <3>. QED  BY <1>0, <2>1, <2>6, <3>1, <3>2 DEF NeverAhead, Workers
  <2>. QED  BY <2>2, <2>7 DEF TelInv
<1>5. CASE Tel!adv_summary_handler
  <2>1. /\ summary' = g_total_loops /\ array' = <<>>
        /\ UNCHANGED <<done, seen_total, g_lcore_stats, g_total_loops>>
    BY <1>5 DEF Tel!adv_summary_handler
  <2>2. array' \in Seq(0..MaxLoops) /\ Len(array') = 0
    BY <2>1
  <2>3. TelType'
    BY <1>0, <2>1, <2>2 DEF TelType, Workers
  <2>4. \A k \in {0, 1} : CompletedLoops(k)' = CompletedLoops(k)
    BY <2>1 DEF CompletedLoops, Completed, Table, Loops, Workers
  <2>5. CompletedLoops(1) \subseteq AnsweredLoops'
    <3>1. ASSUME NEW c \in CompletedLoops(1) PROVE c \in AnsweredLoops'
      <4>1. PICK w \in Workers : c[1] = w + 1 /\ c[2] <= Completed(w)
        BY DEF CompletedLoops
      <4>2. c \in Table /\ c[2] \in Nat
        BY DEF CompletedLoops, Table, Loops
      <4>3. /\ w + 1 \in 1..(Lcores + 1) /\ (w + 1) - 1 = w /\ g_lcore_stats[w] \in Nat
            /\ ~(w + 1 <= 0)
        BY <1>t, <1>w DEF Workers
      <4>4. Answered(w + 1)' = g_lcore_stats[w]
        BY <2>1, <2>2, <4>3 DEF Answered
      <4>5. c[2] <= g_lcore_stats[w]
        BY <4>1, <4>2, <4>3 DEF Completed
      <4>. QED  BY <4>1, <4>2, <4>3, <4>4, <4>5 DEF AnsweredLoops, Table, Loops
    <3>. QED  BY <3>1
  <2>6. /\ Cardinality(CompletedLoops(1)) <= Cardinality(AnsweredLoops')
        /\ Cardinality(AnsweredLoops') \in Nat
    BY <1>s, <2>5, LoopSets
  <2>7. g_total_loops <= Cardinality(CompletedLoops(1)) /\ Cardinality(CompletedLoops(1)) \in Nat
    BY <1>0, <1>s DEF NeverAhead
  <2>8. summary' <= Cardinality(AnsweredLoops')
    BY <1>t, <2>1, <2>6, <2>7
  <2>9. NeverAhead'
    BY <1>0, <2>1, <2>4, <2>8 DEF NeverAhead, Workers
  <2>. QED  BY <2>3, <2>9 DEF TelInv
<1>6. CASE Tel!adv_lcore_stats_handler
  <2>1. /\ Len(array) <= Lcores /\ array' = Append(array, g_lcore_stats[Len(array)])
        /\ UNCHANGED <<done, seen_total, g_lcore_stats, g_total_loops, summary>>
    BY <1>6 DEF Tel!adv_lcore_stats_handler
  <2>2. Len(array) \in 0..Lcores /\ g_lcore_stats[Len(array)] \in 0..MaxLoops
    BY <1>t, <2>1
  <2>3. /\ array' \in Seq(0..MaxLoops) /\ Len(array') = Len(array) + 1
        /\ array'[Len(array) + 1] = g_lcore_stats[Len(array)]
        /\ \A x \in 1..Len(array) : array'[x] = array[x]
    BY <1>t, <2>1, <2>2, AppendProperties
  <2>4. TelType'
    BY <1>0, <1>t, <2>1, <2>3 DEF TelType, Workers
  <2>5. \A k \in {0, 1} : CompletedLoops(k)' = CompletedLoops(k)
    BY <2>1 DEF CompletedLoops, Completed, Table, Loops, Workers
  <2>6. \A x \in 1..(Lcores + 1) : Answered(x)' = Answered(x)
    <3> SUFFICES ASSUME NEW x \in 1..(Lcores + 1) PROVE Answered(x)' = Answered(x)
      OBVIOUS
    <3>1. CASE x <= Len(array)
      <4>1. x \in 1..Len(array) /\ x <= Len(array')
        BY <1>t, <2>3, <3>1
      <4>. QED  BY <2>3, <3>1, <4>1 DEF Answered
    <3>2. CASE x = Len(array) + 1
      <4>1. x <= Len(array') /\ ~(x <= Len(array)) /\ x - 1 = Len(array)
        BY <1>t, <2>3, <3>2
      <4>. QED  BY <2>3, <3>2, <4>1 DEF Answered
    <3>3. CASE x > Len(array) + 1
      <4>1. ~(x <= Len(array')) /\ ~(x <= Len(array))
        BY <1>t, <2>3, <3>3
      <4>. QED  BY <2>1, <4>1 DEF Answered
    <3>4. x <= Len(array) \/ x = Len(array) + 1 \/ x > Len(array) + 1
      <4>1. PICK n \in Nat : n = Len(array)
        BY <1>t
      <4>2. x <= n \/ x = n + 1 \/ x > n + 1
        OBVIOUS
      <4>. QED  BY <4>1, <4>2
    <3>. QED  BY <3>1, <3>2, <3>3, <3>4
  <2>7. AnsweredLoops' = AnsweredLoops
    BY <2>6 DEF AnsweredLoops, Table, Loops
  <2>8. NeverAhead'
    BY <1>0, <2>1, <2>5, <2>7 DEF NeverAhead, Workers
  <2>. QED  BY <2>4, <2>8 DEF TelInv
<1>7. Tel!Main \/ Tel!Ended \/ UNCHANGED tel_vars =>
        UNCHANGED <<done, seen_total, g_lcore_stats, g_total_loops, summary, array>>
  BY DEF Tel!Main, Tel!EalInit, Tel!Launch, Tel!Register, Tel!Ended, Tel!vars, Tel!answers, tel_vars
<1>8. \/ Tel!Main \/ Tel!Ended \/ UNCHANGED tel_vars
      \/ Tel!adv_summary_handler \/ Tel!adv_lcore_stats_handler
      \/ \E w \in Workers : Tel!CountOwn(w) \/ Tel!ReadTotal(w) \/ Tel!WriteTotal(w)
  BY OwnSteps DEF Tel!Next, Tel!Worker, Tel!Workers, Workers
<1>. QED  BY <1>1, <1>2, <1>3, <1>4, <1>5, <1>6, <1>7, <1>8

\* The racing increments of g_total_loops invent no loop, for any number of
\* lcores: neither the total nor a reported summary exceeds the lcores' counters.
THEOREM TelemetryNeverAhead == Spec => []SummaryNeverAhead
<1>1. Init => TelInv
  BY TelInit
<1>2. TelInv /\ [Next]_vars => TelInv'
  BY TelStep
<1>3. TelInv => SummaryNeverAhead
  <2> SUFFICES ASSUME TelInv PROVE SummaryNeverAhead
    OBVIOUS
  <2> USE TelSizes
  <2>t. /\ g_lcore_stats \in [0..Lcores -> 0..MaxLoops]
        /\ g_total_loops \in Nat /\ summary \in Nat
        /\ array \in Seq(0..MaxLoops) /\ Len(array) \in Nat
    BY LenProperties DEF TelInv, TelType
  <2>1. g_total_loops <= Tel!Total(g_lcore_stats)
    <3>1. Tel!Counted(g_lcore_stats) \subseteq Table
      BY <2>t DEF Tel!Counted, Table, Loops
    <3>2. CompletedLoops(0) \subseteq Tel!Counted(g_lcore_stats)
      <4>1. ASSUME NEW c \in CompletedLoops(0) PROVE c \in Tel!Counted(g_lcore_stats)
        <5>1. PICK w \in Workers : c[1] = w + 0 /\ c[2] <= Completed(w)
          BY DEF CompletedLoops
        <5>2. c[2] \in Nat /\ c[2] > 0 /\ c = <<c[1], c[2]>>
          BY DEF CompletedLoops, Table, Loops
        <5>3. w \in 0..Lcores /\ g_lcore_stats[w] \in Nat /\ c[1] = w
          BY <2>t, <5>1 DEF Workers
        <5>4. c[2] \in 1..g_lcore_stats[w]
          BY <5>1, <5>2, <5>3 DEF Completed
        <5>5. DOMAIN g_lcore_stats = 0..Lcores
          BY <2>t
        <5>. QED  BY <5>2, <5>3, <5>4, <5>5 DEF Tel!Counted
      <4>. QED  BY <4>1
    <3>3. /\ Cardinality(CompletedLoops(0)) <= Cardinality(Tel!Counted(g_lcore_stats))
          /\ Cardinality(CompletedLoops(0)) \in Nat
          /\ Cardinality(Tel!Counted(g_lcore_stats)) \in Nat
      BY <3>1, <3>2, LoopSets
    <3>4. g_total_loops <= Cardinality(CompletedLoops(0))
      BY DEF TelInv, NeverAhead
    <3>5. g_total_loops <= Cardinality(Tel!Counted(g_lcore_stats))
      BY <2>t, <3>3, <3>4
    <3>. QED  BY <3>5 DEF Tel!Total, Tel!Cardinality, Cardinality
  <2>2. ASSUME Len(array) = Lcores + 1 PROVE summary <= Tel!Total(array)
    <3>1. DOMAIN array = 1..(Lcores + 1) /\ \A x \in 1..(Lcores + 1) : array[x] \in 0..MaxLoops
      BY <2>t, <2>2, ElementOfSeq, LenProperties
    <3>2. Tel!Counted(array) \subseteq Table
      BY <3>1 DEF Tel!Counted, Table, Loops
    <3>3. AnsweredLoops \subseteq Tel!Counted(array)
      <4>1. ASSUME NEW c \in AnsweredLoops PROVE c \in Tel!Counted(array)
        <5>1. PICK x \in 1..(Lcores + 1) : c[1] = x /\ c[2] <= Answered(x)
          BY DEF AnsweredLoops
        <5>2. c[2] \in Nat /\ c[2] > 0 /\ c = <<c[1], c[2]>>
          BY DEF AnsweredLoops, Table, Loops
        <5>3. Answered(x) = array[x]
          BY <2>2 DEF Answered
        <5>4. c[2] \in 1..array[x]
          BY <3>1, <5>1, <5>2, <5>3
        <5>. QED  BY <3>1, <5>1, <5>2, <5>4 DEF Tel!Counted
      <4>. QED  BY <4>1
    <3>4. /\ Cardinality(AnsweredLoops) <= Cardinality(Tel!Counted(array))
          /\ Cardinality(AnsweredLoops) \in Nat /\ Cardinality(Tel!Counted(array)) \in Nat
      BY <3>2, <3>3, LoopSets
    <3>5. summary <= Cardinality(AnsweredLoops)
      BY DEF TelInv, NeverAhead
    <3>6. summary <= Cardinality(Tel!Counted(array))
      BY <2>t, <3>4, <3>5
    <3>. QED  BY <3>6 DEF Tel!Total, Tel!Cardinality, Cardinality
  <2>. QED  BY <2>1, <2>2 DEF SummaryNeverAhead, Tel!SummaryNeverAhead
<1>. QED  BY <1>1, <1>2, <1>3, PTL DEF Spec
-----------------------------------------------------------------------------
(* RSS receivers *)

RssApps == {"rss", "af_packet_rss"}

RssType == /\ rss_app \in RssApps
           /\ workers \in Nat /\ max_rx_queues \in Nat /\ used_rx_queues \in Nat \ {0}
           /\ rss_pc \in {"setup", "launch", "polling", "exited"}
           /\ q \in Nat /\ polls \in Seq(Nat) /\ rss_pool \in Nat

\* The l-th lcore polls queue l - 1, and the queues follow the set-up.
RssQueues ==
  /\ \A l \in 1..Len(polls) : polls[l] = l - 1
  /\ rss_pc \in {"setup", "exited"} => polls = <<>> /\ q = 0 /\ rxq = <<>>
  /\ rss_pc \in {"launch", "polling"} => /\ used_rx_queues = Rss!Queues
                                         /\ rxq \in [0 .. used_rx_queues - 1 -> 0..RX_RING]
  /\ rss_pc = "launch" => Len(polls) = q /\ q <= used_rx_queues /\ q <= workers
  /\ rss_pc = "polling" => Len(polls) = Rss!Least(used_rx_queues, workers + 1)

\* The slots of the receive queues that hold a packet.
Filled(f) == {s \in (DOMAIN f) \X (1..RX_RING) : s[2] <= f[s[1]]}

\* An mbuf is free or fills a slot.
RssMbufs == IsFiniteSet(Filled(rxq)) /\ rss_pool + Cardinality(Filled(rxq)) = RSS_MBUFS

RssInv == RssType /\ RssQueues /\ RssMbufs

\* Empty queues fill no slot.
LEMMA NothingFilled ==
  ASSUME NEW f, \A i \in DOMAIN f : f[i] = 0
  PROVE  IsFiniteSet(Filled(f)) /\ Cardinality(Filled(f)) = 0
<1> USE SmallAppsAssumption
<1>1. ASSUME NEW s \in Filled(f) PROVE FALSE
  <2>1. s[1] \in DOMAIN f /\ s[2] \in 1..RX_RING /\ s[2] <= f[s[1]]
    BY DEF Filled
  <2>. QED  BY <2>1
<1>2. Filled(f) = {}
  BY <1>1
<1>. QED  BY <1>2, FS_EmptySet

\* The queues have finitely many slots.
LEMMA FilledFinite ==
  ASSUME NEW n \in Nat, NEW f \in [0 .. n - 1 -> 0..RX_RING]
  PROVE  IsFiniteSet(Filled(f))
<1>1. IsFiniteSet(0 .. n - 1) /\ IsFiniteSet(1..RX_RING)
  BY SmallAppsAssumption, FS_Interval
<1>2. IsFiniteSet((0 .. n - 1) \X (1..RX_RING))
  BY <1>1, FS_Product
<1>3. Filled(f) \subseteq (0 .. n - 1) \X (1..RX_RING)
  BY DEF Filled
<1>. QED  BY <1>2, <1>3, FS_Subset

\* One more packet in queue i fills one more slot.
LEMMA FillOne ==
  ASSUME NEW n \in Nat, NEW f \in [0 .. n - 1 -> 0..RX_RING], NEW i \in 0 .. n - 1,
         f[i] < RX_RING, IsFiniteSet(Filled(f))
  PROVE  LET g == [f EXCEPT ![i] = @ + 1]
         IN  /\ g \in [0 .. n - 1 -> 0..RX_RING]
             /\ IsFiniteSet(Filled(g)) /\ Cardinality(Filled(g)) = Cardinality(Filled(f)) + 1
<1> DEFINE g == [f EXCEPT ![i] = @ + 1]
           s == <<i, f[i] + 1>>
<1>0. RX_RING \in Nat
  BY SmallAppsAssumption
<1>1. /\ g \in [0 .. n - 1 -> 0..RX_RING] /\ g[i] = f[i] + 1 /\ f[i] \in 0..RX_RING
      /\ \A j \in 0 .. n - 1 : j # i => g[j] = f[j]
  BY <1>0
<1>2. DOMAIN g = 0 .. n - 1 /\ DOMAIN f = 0 .. n - 1
  OBVIOUS
<1> HIDE DEF g
<1>3. s \notin Filled(f)
  BY <1>0, <1>1 DEF Filled
<1>4. Filled(g) = Filled(f) \cup {s}
  <2>1. ASSUME NEW t \in Filled(g), t # s PROVE t \in Filled(f)
    <3>1. t \in (0 .. n - 1) \X (1..RX_RING) /\ t[2] <= g[t[1]]
      BY <1>2 DEF Filled
    <3>2. t = <<t[1], t[2]>> /\ t[1] \in 0 .. n - 1 /\ t[2] \in 1..RX_RING
      BY <3>1
    <3>3. ASSUME t[1] = i PROVE t[2] <= f[t[1]]
      <4>1. t[2] # f[i] + 1
        BY <2>1, <3>2, <3>3
      <4>. QED  BY <1>0, <1>1, <3>1, <3>2, <3>3, <4>1
    <3>4. t[2] <= f[t[1]]
      BY <1>0, <1>1, <3>1, <3>2, <3>3
    <3>. QED  BY <1>2, <3>1, <3>4 DEF Filled
  <2>2. ASSUME NEW t \in Filled(f) PROVE t \in Filled(g)
    <3>1. t \in (0 .. n - 1) \X (1..RX_RING) /\ t[2] <= f[t[1]]
      BY <1>2 DEF Filled
    <3>2. t[1] \in 0 .. n - 1 /\ t[2] \in 1..RX_RING
      BY <3>1
    <3>3. ASSUME t[1] = i PROVE t[2] <= g[t[1]]
      <4>1. t[2] <= f[i]
        BY <3>1, <3>3
      <4>2. t[2] <= f[i] + 1
        BY <1>0, <1>1, <3>2, <4>1
      <4>. QED  BY <1>1, <3>3, <4>2
    <3>4. t[2] <= g[t[1]]
      BY <1>0, <1>1, <3>1, <3>2, <3>3
    <3>. QED  BY <1>2, <3>1, <3>4 DEF Filled
  <2>3. s \in Filled(g)
    BY <1>0, <1>1, <1>2 DEF Filled
  <2>. QED  BY <2>1, <2>2, <2>3
<1> HIDE DEF s
<1>5. IsFiniteSet(Filled(g)) /\ Cardinality(Filled(g)) = Cardinality(Filled(f)) + 1
  BY <1>3, <1>4, FS_AddElement
<1>. QED  BY <1>1, <1>5 DEF g

\* A burst of k packets out of queue i empties k slots.
LEMMA EmptyBurst ==
  ASSUME NEW n \in Nat, NEW f \in [0 .. n - 1 -> 0..RX_RING], NEW i \in 0 .. n - 1,
         NEW k \in Nat, k <= f[i], IsFiniteSet(Filled(f)),
         NEW g \in [0 .. n - 1 -> 0..RX_RING], g[i] = f[i] - k,
         \A j \in 0 .. n - 1 : j # i => g[j] = f[j]
  PROVE  IsFiniteSet(Filled(g)) /\ Cardinality(Filled(g)) = Cardinality(Filled(f)) - k
<1> DEFINE S == {i} \X ((f[i] - k + 1) .. f[i])
<1>0. RX_RING \in Nat
  BY SmallAppsAssumption
<1>1. /\ g \in [0 .. n - 1 -> 0..RX_RING] /\ g[i] = f[i] - k /\ f[i] \in 0..RX_RING
      /\ \A j \in 0 .. n - 1 : j # i => g[j] = f[j]
  BY <1>0
<1>2. DOMAIN g = 0 .. n - 1 /\ DOMAIN f = 0 .. n - 1
  OBVIOUS
<1>3. IsFiniteSet(S) /\ Cardinality(S) = k
  <2> DEFINE T == (f[i] - k + 1) .. f[i]
  <2>1. f[i] \in Int /\ f[i] - k + 1 \in Int
    BY <1>0, <1>1
  <2>2. IsFiniteSet(T) /\ Cardinality(T) = IF f[i] - k + 1 > f[i] THEN 0 ELSE f[i] - (f[i] - k + 1) + 1
    BY <2>1, FS_Interval
  <2>3. Cardinality(T) = k
    BY <2>1, <2>2
  <2>4. IsFiniteSet({i}) /\ Cardinality({i}) = 1
    BY FS_Singleton
  <2> HIDE DEF T
  <2>5. IsFiniteSet({i} \X T) /\ Cardinality({i} \X T) = Cardinality({i}) * Cardinality(T)
    BY <2>2, <2>4, FS_Product
  <2>6. Cardinality({i} \X T) = k
    BY <2>3, <2>4, <2>5
  <2>. QED  BY <2>5, <2>6 DEF T
<1>4. S \subseteq Filled(f)
  <2>1. ASSUME NEW t \in S PROVE t \in Filled(f)
    <3>1. t[1] = i /\ t[2] \in (f[i] - k + 1) .. f[i] /\ t = <<t[1], t[2]>>
      OBVIOUS
    <3>2. t[2] \in 1..RX_RING /\ t[2] <= f[t[1]]
      BY <1>0, <1>1, <3>1
    <3>3. t \in (0 .. n - 1) \X (1..RX_RING)
      BY <3>1, <3>2
    <3>. QED  BY <1>2, <3>2, <3>3 DEF Filled
  <2>. QED  BY <2>1
<1>5. Filled(g) = Filled(f) \ S
  <2>1. ASSUME NEW t \in Filled(g) PROVE t \in Filled(f) /\ t \notin S
    <3>1. t \in (0 .. n - 1) \X (1..RX_RING) /\ t[2] <= g[t[1]]
      BY <1>2 DEF Filled
    <3>2. t[1] \in 0 .. n - 1 /\ t[2] \in 1..RX_RING
      BY <3>1
    <3>3. t[2] <= f[t[1]] /\ (t[1] = i => t[2] <= f[i] - k)
      BY <1>0, <1>1, <3>1, <3>2
    <3>4. t \in Filled(f)
      BY <1>2, <3>1, <3>3 DEF Filled
    <3>5. t \notin S
      BY <1>0, <1>1, <3>2, <3>3
    <3>. QED  BY <3>4, <3>5
  <2>2. ASSUME NEW t \in Filled(f), t \notin S PROVE t \in Filled(g)
    <3>1. t \in (0 .. n - 1) \X (1..RX_RING) /\ t[2] <= f[t[1]]
      BY <1>2 DEF Filled
    <3>2. t[1] \in 0 .. n - 1 /\ t[2] \in 1..RX_RING /\ t = <<t[1], t[2]>>
      BY <3>1
    <3>3. t[1] = i => t[2] \notin (f[i] - k + 1) .. f[i]
      BY <2>2, <3>2
    <3>4. t[2] <= g[t[1]]
      BY <1>0, <1>1, <3>1, <3>2, <3>3, SMTT(30)
    <3>. QED  BY <1>2, <3>1, <3>4 DEF Filled
  <2>. QED  BY <2>1, <2>2
<1> HIDE DEF S
<1>6. /\ IsFiniteSet(Filled(f) \ S)
      /\ Cardinality(Filled(f) \ S) = Cardinality(Filled(f)) - Cardinality(Filled(f) \cap S)
  BY FS_Difference
<1>7. Filled(f) \cap S = S
  BY <1>4
<1>8. IsFiniteSet(Filled(g)) /\ Cardinality(Filled(g)) = Cardinality(Filled(f)) - k
  BY <1>3, <1>5, <1>6, <1>7
<1>. QED  BY <1>1, <1>8

LEMMA RssInit == Init => RssInv
<1> SUFFICES ASSUME Init PROVE RssInv
  OBVIOUS
<1> USE SmallAppsAssumption
<1>1. /\ rss_app \in RssApps /\ workers \in 0..MaxWorkers /\ max_rx_queues \in 0..MaxQueues
      /\ used_rx_queues = 1 /\ rss_pc = "setup" /\ q = 0 /\ polls = <<>> /\ rxq = <<>>
      /\ rss_pool = RSS_MBUFS
  BY DEF Init, Rss!Init, RssApps
<1>2. RssType
  BY <1>1 DEF RssType
<1>3. RssQueues
  BY <1>1 DEF RssQueues
<1>4. RssMbufs
  <2>1. \A i \in DOMAIN rxq : rxq[i] = 0
    BY <1>1
  <2>. QED  BY <1>1, <2>1, NothingFilled DEF RssMbufs
<1>. QED  BY <1>2, <1>3, <1>4 DEF RssInv

\* The queues a started port has.
LEMMA RssSizes ==
  ASSUME RssType
  PROVE  /\ Rss!Queues \in Nat \ {0}
         /\ rss_app = "rss" => Rss!Queues = RX_QUEUES
         /\ rss_app = "af_packet_rss" => Rss!Queues <= workers + 1
<1>1. workers \in Nat /\ max_rx_queues \in Nat /\ rss_app \in RssApps /\ RX_QUEUES \in Nat \ {0}
  BY SmallAppsAssumption DEF RssType
<1>. QED  BY <1>1 DEF Rss!Queues, Rss!AtLeastOne, Rss!Least, RssApps

LEMMA RssStep == RssInv /\ [Next]_vars => RssInv'
<1> SUFFICES ASSUME RssInv, [Next]_vars PROVE RssInv'
  OBVIOUS
<1>t. /\ rss_app \in RssApps /\ workers \in Nat /\ max_rx_queues \in Nat
      /\ used_rx_queues \in Nat \ {0} /\ rss_pc \in {"setup", "launch", "polling", "exited"}
      /\ q \in Nat /\ polls \in Seq(Nat) /\ Len(polls) \in Nat /\ rss_pool \in Nat
      /\ DOMAIN polls = 1..Len(polls)
  BY LenProperties DEF RssInv, RssType
<1>q. RssQueues /\ RssMbufs
  BY DEF RssInv
<1>n. Rss!Queues \in Nat \ {0}
  BY RssSizes DEF RssInv
<1>1. CASE UNCHANGED rss_vars
  BY <1>1 DEF rss_vars, RssInv, RssType, RssQueues, RssMbufs, Rss!Queues
<1>2. CASE Rss!Setup
  <2>1. /\ rss_pc = "setup" /\ polls = <<>> /\ q = 0 /\ rxq = <<>>
        /\ UNCHANGED <<rss_app, workers, max_rx_queues, q, polls, rss_pool>>
    BY <1>2, <1>q DEF Rss!Setup, Rss!config, RssQueues
  <2>2. Rss!Queues' = Rss!Queues
    BY <2>1 DEF Rss!Queues
  <2>3. CASE used_rx_queues' = Rss!Queues /\ rxq' = [i \in 0 .. Rss!Queues - 1 |-> 0] /\ rss_pc' = "launch"
    <3>1. RssType'
      BY <1>t, <1>n, <2>1, <2>3 DEF RssType
    <3>2. RssQueues'
      <4>1. rxq' \in [0 .. used_rx_queues' - 1 -> 0..RX_RING]
        BY <2>3, SmallAppsAssumption
      <4>2. Len(polls') = 0
        BY <2>1
      <4>. QED  BY <1>t, <1>n, <2>1, <2>2, <2>3, <4>1, <4>2 DEF RssQueues
    <3>3. RssMbufs'
      <4>1. /\ \A i \in DOMAIN rxq : rxq[i] = 0
            /\ \A i \in DOMAIN rxq' : rxq'[i] = 0
        BY <2>1, <2>3
      <4>2. /\ IsFiniteSet(Filled(rxq)) /\ Cardinality(Filled(rxq)) = 0
            /\ IsFiniteSet(Filled(rxq')) /\ Cardinality(Filled(rxq')) = 0
        BY <4>1, NothingFilled
      <4>. QED  BY <1>q, <2>1, <4>2 DEF RssMbufs, Filled
    <3>. QED  BY <3>1, <3>2, <3>3 DEF RssInv
  <2>4. CASE rss_pc' = "exited" /\ UNCHANGED <<used_rx_queues, rxq>>
    <3>1. RssType'
      BY <1>t, <2>1, <2>4 DEF RssType
    <3>2. RssQueues'
      BY <2>1, <2>4 DEF RssQueues
    <3>3. RssMbufs'
      BY <1>q, <2>1, <2>4 DEF RssMbufs, Filled
    <3>. QED  BY <3>1, <3>2, <3>3 DEF RssInv
  <2>. QED  BY <1>2, <2>3, <2>4 DEF Rss!Setup
<1>3. CASE Rss!LaunchWorker
  <2>1. /\ rss_pc = "launch" /\ q < used_rx_queues /\ Len(polls) < workers
        /\ polls' = Append(polls, q) /\ q' = q + 1
        /\ UNCHANGED <<rss_app, workers, max_rx_queues, used_rx_queues, rss_pc, rxq, rss_pool>>
    BY <1>3 DEF Rss!LaunchWorker, Rss!config, Rss!packets
  <2>2. /\ polls' \in Seq(Nat) /\ Len(polls') = Len(polls) + 1
        /\ \A l \in 1..Len(polls') : polls'[l] = IF l <= Len(polls) THEN polls[l] ELSE q
    BY <1>t, <2>1, AppendProperties
  <2>3. Rss!Queues' = Rss!Queues
    BY <2>1 DEF Rss!Queues
  <2>4. /\ \A l \in 1..Len(polls) : polls[l] = l - 1
        /\ used_rx_queues = Rss!Queues /\ rxq \in [0 .. used_rx_queues - 1 -> 0..RX_RING]
        /\ Len(polls) = q
    BY <1>q, <2>1 DEF RssQueues
  <2>5. RssType'
    BY <1>t, <2>1, <2>2 DEF RssType
  <2>6. \A l \in 1..Len(polls') : polls'[l] = l - 1
    BY <1>t, <2>2, <2>4
  <2>7. Len(polls') = q' /\ q' <= used_rx_queues /\ q' <= workers
    BY <1>t, <2>1, <2>2, <2>4
  <2>8. RssQueues'
    BY <2>1, <2>3, <2>4, <2>6, <2>7 DEF RssQueues
  <2>9. RssMbufs'
    BY <1>q, <2>1 DEF RssMbufs, Filled
  <2>. QED  BY <2>5, <2>8, <2>9 DEF RssInv
<1>4. CASE Rss!MainTakes
  <2>1. /\ rss_pc = "launch" /\ (q >= used_rx_queues \/ Len(polls) = workers)
        /\ polls' = IF q < used_rx_queues THEN Append(polls, q) ELSE polls
        /\ rss_pc' = "polling"
        /\ UNCHANGED <<rss_app, workers, max_rx_queues, used_rx_queues, q, rxq, rss_pool>>
    BY <1>4 DEF Rss!MainTakes, Rss!config, Rss!packets
  <2>2. /\ \A l \in 1..Len(polls) : polls[l] = l - 1
        /\ used_rx_queues = Rss!Queues /\ rxq \in [0 .. used_rx_queues - 1 -> 0..RX_RING]
        /\ Len(polls) = q /\ q <= used_rx_queues /\ q <= workers
    BY <1>q, <2>1 DEF RssQueues
  <2>3. Rss!Queues' = Rss!Queues
    BY <2>1 DEF Rss!Queues
  <2>4. /\ polls' \in Seq(Nat) /\ Len(polls') = IF q < used_rx_queues THEN q + 1 ELSE q
        /\ \A l \in 1..Len(polls') : polls'[l] = l - 1
    <3>1. CASE q < used_rx_queues
      <4>1. polls' = Append(polls, q)
        BY <2>1, <3>1
      <4>2. /\ polls' \in Seq(Nat) /\ Len(polls') = Len(polls) + 1
            /\ \A l \in 1..Len(polls') : polls'[l] = IF l <= Len(polls) THEN polls[l] ELSE q
        BY <1>t, <4>1, AppendProperties
      <4>3. \A l \in 1..Len(polls') : polls'[l] = l - 1
        BY <1>t, <2>2, <4>2
      <4>4. Len(polls') = q + 1
        BY <2>2, <4>2
      <4>. QED  BY <3>1, <4>2, <4>3, <4>4
    <3>2. CASE ~(q < used_rx_queues)
      BY <1>t, <2>1, <2>2, <3>2
    <3>. QED  BY <3>1, <3>2
  <2>5. Len(polls') = Rss!Least(used_rx_queues, workers + 1)
    BY <1>t, <2>1, <2>2, <2>4, SMTT(30) DEF Rss!Least
  <2>6. RssType'
    BY <1>t, <2>1, <2>4 DEF RssType
  <2>7. RssQueues'
    BY <2>1, <2>2, <2>3, <2>4, <2>5 DEF RssQueues, Rss!Least
  <2>8. RssMbufs'
    BY <1>q, <2>1 DEF RssMbufs, Filled
  <2>. QED  BY <2>6, <2>7, <2>8 DEF RssInv
<1>5. CASE Rss!Arrive
  <2>1. PICK i \in DOMAIN rxq : rxq[i] < RX_RING /\ rxq' = [rxq EXCEPT ![i] = @ + 1]
    BY <1>5 DEF Rss!Arrive
  <2>2. /\ rss_pc \in {"launch", "polling"} /\ rss_pool > 0 /\ rss_pool' = rss_pool - 1
        /\ UNCHANGED <<rss_app, workers, max_rx_queues, used_rx_queues, rss_pc, q, polls>>
    BY <1>5 DEF Rss!Arrive, Rss!config
  <2>3. rxq \in [0 .. used_rx_queues - 1 -> 0..RX_RING]
    BY <1>q, <2>2 DEF RssQueues
  <2>4. /\ rxq' \in [0 .. used_rx_queues - 1 -> 0..RX_RING] /\ IsFiniteSet(Filled(rxq'))
        /\ Cardinality(Filled(rxq')) = Cardinality(Filled(rxq)) + 1
    BY <1>t, <1>q, <2>1, <2>3, FillOne DEF RssMbufs
  <2>5. Rss!Queues' = Rss!Queues
    BY <2>2 DEF Rss!Queues
  <2>6. RssType'
    BY <1>t, <2>2 DEF RssType
  <2>7. RssQueues'
    BY <1>q, <2>2, <2>4, <2>5 DEF RssQueues, Rss!Least
  <2>8. RssMbufs'
    <3>1. Cardinality(Filled(rxq)) \in Nat
      BY <1>q, FS_CardinalityType DEF RssMbufs
    <3>2. rss_pool' + Cardinality(Filled(rxq')) = RSS_MBUFS
      BY <1>t, <1>q, <2>2, <2>4, <3>1 DEF RssMbufs
    <3>. QED  BY <2>4, <3>2 DEF RssMbufs, Filled
  <2>. QED  BY <2>6, <2>7, <2>8 DEF RssInv
<1>6. ASSUME NEW l \in DOMAIN polls, Rss!lcore_rx(l) PROVE RssInv'
  <2>0. PICK i, k : i = polls[l] /\ k = Rss!Least(RSS_BURST, rxq[i])
    OBVIOUS
  <2>1. /\ rxq' = [rxq EXCEPT ![i] = @ - k] /\ rss_pool' = rss_pool + k
        /\ UNCHANGED <<rss_app, workers, max_rx_queues, used_rx_queues, rss_pc, q, polls>>
    BY <1>6, <2>0, SMTT(30) DEF Rss!lcore_rx, Rss!config
  <2>2. rss_pc \in {"launch", "polling"}
    <3>1. polls # <<>>
      BY <1>6, SMTT(30)
    <3>. QED  BY <1>t, <1>q, <3>1 DEF RssQueues
  <2>3. rxq \in [0 .. used_rx_queues - 1 -> 0..RX_RING] /\ i = l - 1 /\ l \in 1..Len(polls)
    BY <1>t, <1>q, <1>6, <2>0, <2>2 DEF RssQueues
  <2>4. Len(polls) <= used_rx_queues
    <3>1. CASE rss_pc = "launch"
      BY <1>q, <3>1 DEF RssQueues
    <3>2. CASE rss_pc = "polling"
      <4>1. Len(polls) = Rss!Least(used_rx_queues, workers + 1)
        BY <1>q, <3>2 DEF RssQueues
      <4>. QED  BY <1>t, <4>1 DEF Rss!Least
    <3>. QED  BY <2>2, <3>1, <3>2
  <2>5. i \in 0 .. used_rx_queues - 1 /\ rxq[i] \in 0..RX_RING
    BY <1>t, <2>3, <2>4
  <2>6. k \in Nat /\ k <= rxq[i]
    BY <2>0, <2>5, SmallAppsAssumption DEF Rss!Least
  <2>7. /\ rxq' \in [0 .. used_rx_queues - 1 -> 0..RX_RING] /\ IsFiniteSet(Filled(rxq'))
        /\ Cardinality(Filled(rxq')) = Cardinality(Filled(rxq)) - k
    <3>1. IsFiniteSet(Filled(rxq)) /\ used_rx_queues \in Nat
      BY <1>t, <1>q DEF RssMbufs
    <3>2. rxq \in [0 .. used_rx_queues - 1 -> 0..RX_RING]
      BY <2>3
    <3>3. i \in 0 .. used_rx_queues - 1
      BY <2>5
    <3>4. rxq' = [rxq EXCEPT ![i] = @ - k]
      BY <2>1
    <3>5. /\ rxq' \in [0 .. used_rx_queues - 1 -> 0..RX_RING] /\ rxq'[i] = rxq[i] - k
          /\ \A j \in 0 .. used_rx_queues - 1 : j # i => rxq'[j] = rxq[j]
      BY <2>5, <2>6, <3>1, <3>2, <3>3, <3>4, SmallAppsAssumption
    <3>6. k \in Nat /\ k <= rxq[i]
      BY <2>6
    <3>7. IsFiniteSet(Filled(rxq'))
      BY <3>1, <3>5, FilledFinite
    <3>8. Cardinality(Filled(rxq')) = Cardinality(Filled(rxq)) - k
      <4>1. PICK n \in Nat : n = used_rx_queues
        BY <3>1
      <4>2. PICK f \in [0 .. n - 1 -> 0..RX_RING], g \in [0 .. n - 1 -> 0..RX_RING] :
              f = rxq /\ g = rxq'
        BY <3>2, <3>5, <4>1
      <4>3. i \in 0 .. n - 1 /\ k \in Nat /\ k <= f[i] /\ IsFiniteSet(Filled(f))
        BY <3>1, <3>3, <3>6, <4>1, <4>2
      <4>4. g[i] = f[i] - k /\ \A j \in 0 .. n - 1 : j # i => g[j] = f[j]
        BY <3>5, <4>1, <4>2
      <4>5. Cardinality(Filled(g)) = Cardinality(Filled(f)) - k
        BY <4>3, <4>4, EmptyBurst
      <4>. QED  BY <4>2, <4>5
    <3>. QED  BY <3>5, <3>7, <3>8
  <2>8. Rss!Queues' = Rss!Queues
    BY <2>1 DEF Rss!Queues
  <2>9. RssType'
    BY <1>t, <2>1, <2>6 DEF RssType
  <2>10. RssQueues'
    BY <1>q, <2>1, <2>2, <2>7, <2>8 DEF RssQueues, Rss!Least
  <2>11. RssMbufs'
    <3>1. Cardinality(Filled(rxq)) \in Nat
      BY <1>q, FS_CardinalityType DEF RssMbufs
    <3>2. rss_pool' + Cardinality(Filled(rxq')) = RSS_MBUFS
      BY <1>t, <1>q, <2>1, <2>6, <2>7, <3>1 DEF RssMbufs
    <3>. QED  BY <2>7, <3>2 DEF RssMbufs, Filled
  <2>. QED  BY <2>9, <2>10, <2>11 DEF RssInv
<1>7. \/ UNCHANGED rss_vars
      \/ Rss!Setup \/ Rss!LaunchWorker \/ Rss!MainTakes \/ Rss!Arrive
      \/ \E l \in DOMAIN polls : Rss!lcore_rx(l)
  BY OwnSteps DEF Rss!Next, Rss!Main, Rss!Rx, Rss!Ended, Rss!vars, rss_vars
<1>. QED  BY <1>1, <1>2, <1>3, <1>4, <1>5, <1>6, <1>7

\* No two lcores poll one queue, for any number of lcores and queues; the
\* first queues are polled; and the packets of the queues nobody polls never
\* fill the pool.
THEOREM RssQueuesCovered == Spec => []QueuesCovered
<1>1. Init => RssInv
  BY RssInit
<1>2. RssInv /\ [Next]_vars => RssInv'
  BY RssStep
<1>3. RssInv => QueuesCovered
  <2> SUFFICES ASSUME RssInv PROVE QueuesCovered
    OBVIOUS
  <2>t. /\ rss_app \in RssApps /\ workers \in Nat /\ used_rx_queues \in Nat \ {0}
        /\ polls \in Seq(Nat) /\ Len(polls) \in Nat /\ rss_pool \in Nat
        /\ DOMAIN polls = 1..Len(polls)
    BY LenProperties DEF RssInv, RssType
  <2>q. \A l \in 1..Len(polls) : polls[l] = l - 1
    BY DEF RssInv, RssQueues
  <2>1. \A l, m \in DOMAIN polls : polls[l] = polls[m] => l = m
    BY <2>t, <2>q
  <2>2. ASSUME rss_pc = "polling"
        PROVE  /\ Rss!Polled = 0 .. Rss!Least(used_rx_queues, workers + 1) - 1
               /\ rss_app = "af_packet_rss" => Rss!Polled = DOMAIN rxq
               /\ rss_pool = 0 => \E i \in Rss!Polled : rxq[i] > 0
    <3> DEFINE P == Rss!Least(used_rx_queues, workers + 1)
    <3>1. /\ used_rx_queues = Rss!Queues /\ rxq \in [0 .. used_rx_queues - 1 -> 0..RX_RING]
          /\ Len(polls) = P
      BY <2>2 DEF RssInv, RssQueues
    <3>2. P \in Nat /\ 1 <= P /\ P <= used_rx_queues /\ (used_rx_queues <= workers + 1 => P = used_rx_queues)
      BY <2>t DEF Rss!Least
    <3> HIDE DEF P
    <3>3. Rss!Polled = 0 .. P - 1
      <4>1. ASSUME NEW i \in Rss!Polled PROVE i \in 0 .. P - 1
        BY <2>t, <2>q, <3>1, <3>2 DEF Rss!Polled
      <4>2. ASSUME NEW i \in 0 .. P - 1 PROVE i \in Rss!Polled
        <5>1. i + 1 \in 1..Len(polls) /\ polls[i + 1] = (i + 1) - 1
          BY <2>q, <3>1, <3>2
        <5>2. polls[i + 1] = i
          BY <5>1
        <5>. QED  BY <2>t, <5>1, <5>2 DEF Rss!Polled
      <4>. QED  BY <4>1, <4>2
    <3>4. ASSUME rss_app = "af_packet_rss" PROVE Rss!Polled = DOMAIN rxq
      <4>1. used_rx_queues <= workers + 1
        BY <3>1, <3>4, RssSizes DEF RssInv
      <4>2. DOMAIN rxq = 0 .. used_rx_queues - 1
        BY <3>1
      <4>. QED  BY <3>2, <3>3, <4>1, <4>2
    <3>5. ASSUME rss_pool = 0, \A i \in Rss!Polled : ~(rxq[i] > 0) PROVE FALSE
      <4>1. \A i \in 0 .. P - 1 : rxq[i] = 0
        <5>1. ASSUME NEW i \in 0 .. P - 1 PROVE rxq[i] = 0
          <6>1. i \in 0 .. used_rx_queues - 1
            BY <2>t, <3>2
          <6>2. rxq[i] \in 0..RX_RING /\ ~(rxq[i] > 0)
            BY <3>1, <3>3, <3>5, <6>1
          <6>. QED  BY <6>2, SmallAppsAssumption
        <5>. QED  BY <5>1
      <4>2. Cardinality(Filled(rxq)) = RSS_MBUFS
        <5>1. IsFiniteSet(Filled(rxq)) /\ rss_pool + Cardinality(Filled(rxq)) = RSS_MBUFS
          BY DEF RssInv, RssMbufs
        <5>2. Cardinality(Filled(rxq)) \in Nat
          BY <5>1, FS_CardinalityType
        <5>. QED  BY <3>5, <5>1, <5>2
      <4>3. PICK m, r : m = used_rx_queues - 1 /\ r = RX_RING
        OBVIOUS
      <4>4. m \in Nat /\ r \in Nat
        BY <2>t, <4>3, SmallAppsAssumption
      <4>5. /\ IsFiniteSet((1..m) \X (1..r))
            /\ Cardinality((1..m) \X (1..r)) = m * r
        <5>1. IsFiniteSet(1..m) /\ Cardinality(1..m) = m
          BY <4>4, FS_Interval
        <5>2. IsFiniteSet(1..r) /\ Cardinality(1..r) = r
          BY <4>4, FS_Interval
        <5>3. PICK A, B : A = 1..m /\ B = 1..r
          OBVIOUS
        <5>4. IsFiniteSet(A \X B) /\ Cardinality(A \X B) = Cardinality(A) * Cardinality(B)
          BY <5>1, <5>2, <5>3, FS_Product
        <5>5. Cardinality(A) = m /\ Cardinality(B) = r
          BY <5>1, <5>2, <5>3
        <5>6. Cardinality(A \X B) = m * r
          BY <5>4, <5>5
        <5>. QED  BY <5>3, <5>4, <5>6
      <4>6. Filled(rxq) \subseteq (1..m) \X (1..r)
        <5>1. ASSUME NEW s \in Filled(rxq) PROVE s \in (1..m) \X (1..r)
          <6>1. s = <<s[1], s[2]>> /\ s[1] \in 0 .. used_rx_queues - 1 /\ s[2] \in 1..RX_RING
                /\ s[2] <= rxq[s[1]]
            BY <3>1 DEF Filled
          <6>2. s[1] # 0
            <7>1. 0 \in 0 .. P - 1
              BY <3>2
            <7>2. rxq[0] = 0
              BY <4>1, <7>1
            <7>. QED  BY <6>1, <7>2, SmallAppsAssumption
          <6>3. s[1] \in 1..m /\ s[2] \in 1..r
            BY <2>t, <4>3, <6>1, <6>2
          <6>. QED  BY <6>1, <6>3
        <5>. QED  BY <5>1
      <4>7. CASE rss_app = "af_packet_rss"
        <5>1. \A i \in DOMAIN rxq : rxq[i] = 0
          BY <3>3, <3>4, <4>1, <4>7
        <5>2. RSS_MBUFS = 0
          BY <4>2, <5>1, NothingFilled
        <5>3. (RX_QUEUES - 1) \in Nat /\ RX_RING \in Nat /\ (RX_QUEUES - 1) * RX_RING < RSS_MBUFS
          BY SmallAppsAssumption
        <5>4. PICK a, b : a = RX_QUEUES - 1 /\ b = RX_RING
          OBVIOUS
        <5>5. a \in Nat /\ b \in Nat /\ a * b < 0
          BY <5>2, <5>3, <5>4
        <5>. QED  BY <5>5
      <4>8. CASE rss_app = "rss"
        <5>1. m = RX_QUEUES - 1
          BY <3>1, <4>3, <4>8, RssSizes DEF RssInv
        <5>2. m * r < RSS_MBUFS
          BY <4>3, <5>1, SmallAppsAssumption
        <5>3. Cardinality(Filled(rxq)) <= Cardinality((1..m) \X (1..r))
          BY <4>5, <4>6, FS_Subset
        <5>4. PICK c : c = m * r
          OBVIOUS
        <5>5. c \in Int
          BY <4>4, <5>4
        <5>6. RSS_MBUFS <= c /\ c < RSS_MBUFS
          BY <4>2, <4>5, <5>2, <5>3, <5>4
        <5>. QED  BY <5>5, <5>6, SmallAppsAssumption
      <4>. QED  BY <2>t, <4>7, <4>8 DEF RssApps
    <3>. QED  BY <3>3, <3>4, <3>5 DEF P
  <2>. QED  BY <2>1, <2>2 DEF QueuesCovered, Rss!QueuesCovered
<1>. QED  BY <1>1, <1>2, <1>3, PTL DEF Spec
-----------------------------------------------------------------------------
(* Ring programs *)

RingType == /\ taken \in Seq(Nat) /\ ring \in Seq(Nat)
            /\ hand \in Seq(Nat) /\ Len(hand) <= 1
            /\ made \in Nat /\ refused \subseteq 0 .. made - 1
            /\ ring_state \in {"none", "live", "freed"}

\* Who may still use the ring.  practice is the only program that frees it.
RingControl ==
  /\ hand # <<>> => producer_pc = "loop"
  /\ ring_main \in {"init", "launch_producer"} => producer_pc = "off"
  /\ ring_state = "freed" => /\ producer_pc \in {"done", "off"} /\ ring_app = "practice"
                             /\ ring_main \in {"freed", "returned"}
  /\ ring_main = "freed" => ring_app = "practice"
  /\ ring_app = "practice" /\ consumer_pc # "off" => ring_main \in {"wait", "freed", "returned"}
  /\ ring_app = "practice" /\ taken # <<>> => consumer_pc = "done"
  /\ consumer_pc \in {"garbage", "crashed", "killed"} => ring_app = "practice"

RingOrder == ring_state # "freed" =>
               /\ Ring!Range(Ring!Blocks) = (0 .. made - 1) \ refused
               /\ Ring!Ascending(Ring!Blocks)

RingInv == RingType /\ RingControl /\ RingOrder

\* A block above all others goes to the end.
LEMMA AppendBlock ==
  ASSUME NEW s \in Seq(Nat), NEW e \in Nat, Ring!Ascending(s), \A x \in Ring!Range(s) : x < e
  PROVE  /\ Ring!Ascending(Append(s, e))
         /\ Ring!Range(Append(s, e)) = Ring!Range(s) \cup {e}
<1> DEFINE t == Append(s, e)
<1>1. /\ Len(s) \in Nat /\ DOMAIN s = 1..Len(s) /\ t \in Seq(Nat) /\ DOMAIN t = 1..(Len(s) + 1)
      /\ \A i \in 1..Len(s) : t[i] = s[i]
      /\ t[Len(s) + 1] = e
  BY AppendProperties, LenProperties
<1> HIDE DEF t
<1>2. \A i \in 1..Len(s) : s[i] < e
  BY <1>1 DEF Ring!Range
<1>3. Ring!Ascending(t)
  <2>1. ASSUME NEW j \in DOMAIN t, NEW k \in DOMAIN t, j < k PROVE t[j] < t[k]
    <3>1. j \in 1..Len(s)
      BY <1>1, <2>1
    <3>2. CASE k = Len(s) + 1
      BY <1>1, <1>2, <3>1, <3>2
    <3>3. CASE k \in 1..Len(s)
      BY <1>1, <2>1, <3>1, <3>3 DEF Ring!Ascending
    <3>. QED  BY <1>1, <3>2, <3>3
  <2>. QED  BY <2>1 DEF Ring!Ascending
<1>4. Ring!Range(t) = Ring!Range(s) \cup {e}
  <2>1. ASSUME NEW i \in DOMAIN t PROVE t[i] \in Ring!Range(s) \cup {e}
    <3>1. i \in 1..Len(s) \/ i = Len(s) + 1
      BY <1>1
    <3>. QED  BY <1>1, <3>1 DEF Ring!Range
  <2>2. ASSUME NEW i \in DOMAIN s PROVE s[i] \in Ring!Range(t)
    <3>1. i \in DOMAIN t /\ t[i] = s[i]
      BY <1>1
    <3>. QED  BY <3>1 DEF Ring!Range
  <2>3. Len(s) + 1 \in DOMAIN t
    BY <1>1
  <2>4. e \in Ring!Range(t)
    BY <1>1, <2>3 DEF Ring!Range
  <2>. QED  BY <2>1, <2>2, <2>4 DEF Ring!Range
<1>. QED  BY <1>3, <1>4 DEF t

\* Without the last block the others stay in order.
LEMMA DropBlock ==
  ASSUME NEW s \in Seq(Nat), NEW e \in Nat, Ring!Ascending(Append(s, e))
  PROVE  Ring!Ascending(s) /\ Ring!Range(s) = Ring!Range(Append(s, e)) \ {e}
<1> DEFINE t == Append(s, e)
<1>1. /\ Len(s) \in Nat /\ DOMAIN s = 1..Len(s) /\ t \in Seq(Nat) /\ DOMAIN t = 1..(Len(s) + 1)
      /\ \A i \in 1..Len(s) : t[i] = s[i]
      /\ t[Len(s) + 1] = e
  BY AppendProperties, LenProperties
<1>a. Ring!Ascending(t)
  OBVIOUS
<1> HIDE DEF t
<1>2. Ring!Ascending(s)
  BY <1>1, <1>a DEF Ring!Ascending
<1>3. ASSUME NEW i \in 1..Len(s) PROVE s[i] < e
  <2>1. i \in DOMAIN t /\ Len(s) + 1 \in DOMAIN t /\ i < Len(s) + 1
    BY <1>1
  <2>2. t[i] < t[Len(s) + 1]
    BY <1>a, <2>1 DEF Ring!Ascending
  <2>. QED  BY <1>1, <2>2
<1>4. \A i \in 1..Len(s) : s[i] \in Nat /\ s[i] # e
  BY <1>1, <1>3, ElementOfSeq
<1>5. Ring!Range(s) = Ring!Range(t) \ {e}
  <2>1. ASSUME NEW i \in DOMAIN t, t[i] # e PROVE t[i] \in Ring!Range(s)
    <3>1. i \in 1..Len(s)
      BY <1>1, <2>1
    <3>. QED  BY <1>1, <3>1 DEF Ring!Range
  <2>2. ASSUME NEW i \in DOMAIN s PROVE s[i] \in Ring!Range(t) /\ s[i] # e
    <3>1. i \in DOMAIN t /\ t[i] = s[i]
      BY <1>1
    <3>. QED  BY <1>1, <1>4, <3>1 DEF Ring!Range
  <2>. QED  BY <2>1, <2>2 DEF Ring!Range
<1>. QED  BY <1>2, <1>5 DEF t

\* Concatenation is associative.
LEMMA Associative ==
  ASSUME NEW a \in Seq(Nat), NEW b \in Seq(Nat), NEW c \in Seq(Nat)
  PROVE  (a \o b) \o c = a \o (b \o c)
<1>1. a \in Seq(Nat) /\ b \in Seq(Nat) /\ c \in Seq(Nat)
  OBVIOUS
<1>2. \A S : \A x, y, z \in Seq(S) : (x \o y) \o z = x \o (y \o z)
  BY ConcatAssociative
<1>. QED  BY <1>1, <1>2

\* A block moves from the hand to the ring, or from the ring to the consumer.
LEMMA GiveBlocks ==
  ASSUME NEW a \in Seq(Nat), NEW b \in Seq(Nat), NEW c \in Seq(Nat)
  PROVE  (a \o (b \o c)) \o <<>> = (a \o b) \o c
<1>1. a \o (b \o c) \in Seq(Nat)
  BY ConcatProperties
<1>2. (a \o (b \o c)) \o <<>> = a \o (b \o c)
  BY <1>1, ConcatEmptySeq
<1>3. (a \o b) \o c = a \o (b \o c)
  BY Associative
<1>. QED  BY <1>2, <1>3

LEMMA TakeBlock ==
  ASSUME NEW a \in Seq(Nat), NEW b \in Seq(Nat), b # <<>>
  PROVE  /\ Tail(b) \in Seq(Nat) /\ Append(a, Head(b)) \in Seq(Nat)
         /\ Append(a, Head(b)) \o Tail(b) = a \o b
<1>1. Head(b) \in Nat /\ Tail(b) \in Seq(Nat)
  BY HeadTailProperties
<1>2. PICK h \in Nat, t \in Seq(Nat) : h = Head(b) /\ t = Tail(b)
  BY <1>1
<1>3. <<h>> \in Seq(Nat) /\ Append(a, h) = a \o <<h>> /\ Append(a, h) \in Seq(Nat)
  BY AppendIsConcat, AppendProperties
<1>4. b = <<h>> \o t
  BY <1>2
<1>5. PICK o \in Seq(Nat) : o = <<h>>
  BY <1>3
<1>6. (a \o o) \o t = a \o (o \o t)
  BY Associative
<1>. QED  BY <1>1, <1>2, <1>3, <1>4, <1>5, <1>6

LEMMA RingInit == Init => RingInv
<1> SUFFICES ASSUME Init PROVE RingInv
  OBVIOUS
<1>1. /\ ring_state = "none" /\ ring = <<>> /\ hand = <<>> /\ taken = <<>> /\ made = 0
      /\ refused = {} /\ ring_main \in {"none", "init"} /\ consumer_pc \in {"init", "off"}
      /\ ring_app = "practice" => consumer_pc = "off"
      /\ ring_main = "init" => producer_pc = "off"
  BY DEF Init, Ring!Init
<1>2. RingType
  BY <1>1 DEF RingType
<1>3. RingControl
  BY <1>1 DEF RingControl
<1>4. RingOrder
  <2>1. Ring!Blocks = <<>>
    BY <1>1 DEF Ring!Blocks
  <2>2. DOMAIN <<>> = {} /\ 0 .. made - 1 = {}
    BY <1>1
  <2>3. Ring!Range(Ring!Blocks) = {} /\ Ring!Ascending(Ring!Blocks)
    BY <2>1, <2>2 DEF Ring!Range, Ring!Ascending
  <2>. QED  BY <1>1, <2>2, <2>3 DEF RingOrder
<1>. QED  BY <1>2, <1>3, <1>4 DEF RingInv

\* The steps that move no block.
LEMMA RingIdle ==
  ASSUME RingInv, UNCHANGED Ring!blocks, ring_state' \in {ring_state, "live"}, RingControl',
         ring_state' = "live" => ring_state # "freed"
  PROVE  RingInv'
<1>1. UNCHANGED <<ring, made, hand, refused, taken>>
  BY DEF Ring!blocks
<1>2. RingType'
  BY <1>1 DEF RingInv, RingType
<1>3. Ring!Blocks' = Ring!Blocks
  BY <1>1 DEF Ring!Blocks
<1>4. RingOrder'
  BY <1>1, <1>3 DEF RingInv, RingOrder, Ring!Range, Ring!Ascending
<1>. QED  BY <1>2, <1>4 DEF RingInv

LEMMA RingMainStep ==
  ASSUME RingInv, Ring!Main \/ Ring!handle_signal
  PROVE  RingInv'
<1>i. RingControl /\ RingType
  BY DEF RingInv
<1>1. CASE Ring!MainCreate
  <2>1. /\ UNCHANGED Ring!blocks /\ ring_state' \in {ring_state, "live"}
        /\ ring_state # "freed"
    BY <1>1, <1>i DEF Ring!MainCreate, RingControl
  <2>2. RingControl'
    BY <1>1, <1>i DEF Ring!MainCreate, Ring!blocks, RingControl
  <2>. QED  BY <2>1, <2>2, RingIdle
<1>2. CASE Ring!LaunchProducer
  <2>1. UNCHANGED Ring!blocks /\ UNCHANGED ring_state /\ ring_state # "freed"
    BY <1>2, <1>i DEF Ring!LaunchProducer, RingControl
  <2>2. RingControl'
    BY <1>2, <1>i DEF Ring!LaunchProducer, Ring!blocks, RingControl
  <2>. QED  BY <2>1, <2>2, RingIdle
<1>3. CASE Ring!LaunchConsumer
  <2>1. UNCHANGED Ring!blocks /\ UNCHANGED ring_state /\ ring_state # "freed"
    BY <1>3, <1>i DEF Ring!LaunchConsumer, RingControl
  <2>2. RingControl'
    BY <1>3, <1>i DEF Ring!LaunchConsumer, Ring!blocks, RingControl
  <2>. QED  BY <2>1, <2>2, RingIdle
<1>4. CASE Ring!MainWait
  <2>1. UNCHANGED Ring!blocks /\ UNCHANGED ring_state /\ ring_state # "freed"
    BY <1>4, <1>i DEF Ring!MainWait, RingControl
  <2>2. RingControl'
    BY <1>4, <1>i DEF Ring!MainWait, Ring!blocks, RingControl
  <2>. QED  BY <2>1, <2>2, RingIdle
<1>5. CASE Ring!MainReturn
  <2>1. UNCHANGED Ring!blocks /\ UNCHANGED ring_state
    BY <1>5, <1>i DEF Ring!MainReturn, RingControl
  <2>2. RingControl'
    BY <1>5, <1>i DEF Ring!MainReturn, Ring!blocks, RingControl
  <2>. QED  BY <2>1, <2>2, RingIdle
<1>6. CASE Ring!handle_signal
  <2>1. UNCHANGED Ring!blocks /\ UNCHANGED ring_state
    BY <1>6, <1>i DEF Ring!handle_signal, RingControl
  <2>2. RingControl'
    BY <1>6, <1>i DEF Ring!handle_signal, Ring!blocks, RingControl
  <2>. QED  BY <2>1, <2>2, RingIdle
<1>7. CASE Ring!MainFree
  <2>1. /\ ring_app = "practice" /\ producer_pc \in {"done", "off"} /\ ring_main = "wait"
        /\ ring_state' = "freed" /\ ring' = <<>> /\ ring_main' = "freed"
        /\ UNCHANGED <<ring_app, producer_pc, consumer_pc, made, hand, refused, taken>>
    BY <1>7 DEF Ring!MainFree
  <2>2. RingControl'
    BY <1>i, <2>1 DEF RingControl
  <2>3. RingType'
    BY <1>i, <2>1 DEF RingType
  <2>4. RingOrder'
    BY <2>1 DEF RingOrder
  <2>. QED  BY <2>2, <2>3, <2>4 DEF RingInv
<1>. QED  BY <1>1, <1>2, <1>3, <1>4, <1>5, <1>6, <1>7 DEF Ring!Main

LEMMA RingProducerStep ==
  ASSUME RingInv, Ring!Producer
  PROVE  RingInv'
<1>i. RingControl /\ RingType /\ RingOrder /\ taken \in Seq(Nat) /\ ring \in Seq(Nat) /\ made \in Nat
  BY DEF RingInv, RingType
<1>1. CASE Ring!PrimaryCreate
  <2>1. /\ UNCHANGED Ring!blocks /\ ring_state' \in {ring_state, "live"}
        /\ ring_state # "freed"
    BY <1>1, <1>i DEF Ring!PrimaryCreate, RingControl
  <2>2. RingControl'
    BY <1>1, <1>i DEF Ring!PrimaryCreate, Ring!blocks, RingControl
  <2>. QED  BY <2>1, <2>2, RingIdle
<1>2. CASE Ring!ProducerReturn
  <2>1. UNCHANGED Ring!blocks /\ UNCHANGED ring_state
    BY <1>2, <1>i DEF Ring!ProducerReturn, RingControl
  <2>2. RingControl'
    BY <1>2, <1>i DEF Ring!ProducerReturn, Ring!blocks, RingControl
  <2>. QED  BY <2>1, <2>2, RingIdle
<1>3. CASE Ring!Allocate
  <2>1. /\ producer_pc = "loop" /\ hand = <<>> /\ hand' = <<made>> /\ made' = made + 1
        /\ UNCHANGED <<ring_app, ring_main, producer_pc, consumer_pc, ring_state, ring, refused, taken>>
    BY <1>3 DEF Ring!Allocate
  <2>2. RingControl' /\ ring_state # "freed"
    BY <1>i, <2>1 DEF RingControl
  <2>3. RingType'
    BY <1>i, <2>1 DEF RingType
  <2>4. PICK b \in Seq(Nat) : b = taken \o ring
    BY <1>i, ConcatProperties
  <2>5. Ring!Blocks = b
    BY <2>1, <2>4, ConcatEmptySeq DEF Ring!Blocks
  <2>6. Ring!Blocks' = Append(b, made)
    BY <1>i, <2>1, <2>4, AppendIsConcat DEF Ring!Blocks
  <2>7. Ring!Range(b) = (0 .. made - 1) \ refused /\ Ring!Ascending(b)
    BY <1>i, <2>2, <2>5 DEF RingOrder
  <2>8. \A x \in Ring!Range(b) : x < made
    BY <1>i, <2>7
  <2>9. /\ Ring!Ascending(Append(b, made))
        /\ Ring!Range(Append(b, made)) = Ring!Range(b) \cup {made}
    BY <1>i, <2>7, <2>8, AppendBlock
  <2>10. (0 .. made' - 1) \ refused' = ((0 .. made - 1) \ refused) \cup {made}
    <3>1. 0 .. made' - 1 = (0 .. made - 1) \cup {made}
      BY <1>i, <2>1
    <3>2. made \notin refused
      BY <1>i DEF RingType
    <3>. QED  BY <2>1, <3>1, <3>2
  <2>11. RingOrder'
    BY <2>6, <2>7, <2>9, <2>10 DEF RingOrder, Ring!Range, Ring!Ascending
  <2>. QED  BY <2>2, <2>3, <2>11 DEF RingInv
<1>4. CASE Ring!Enqueue
  <2>1. /\ hand # <<>> /\ ring' = ring \o hand /\ hand' = <<>>
        /\ UNCHANGED <<ring_app, ring_main, producer_pc, consumer_pc, ring_state, made, refused, taken>>
    BY <1>4 DEF Ring!Enqueue
  <2>2. PICK h \in Seq(Nat) : h = hand
    BY <1>i DEF RingType
  <2>3. RingControl'
    BY <1>i, <2>1 DEF RingControl
  <2>4. ring' \in Seq(Nat)
    BY <1>i, <2>1, <2>2, ConcatProperties
  <2>5. RingType'
    BY <1>i, <2>1, <2>4 DEF RingType
  <2>6. Ring!Blocks' = Ring!Blocks
    <3>1. (taken \o (ring \o h)) \o <<>> = (taken \o ring) \o h
      BY <1>i, GiveBlocks
    <3>. QED  BY <2>1, <2>2, <3>1 DEF Ring!Blocks
  <2>7. RingOrder'
    BY <1>i, <2>1, <2>6 DEF RingOrder, Ring!Range, Ring!Ascending
  <2>. QED  BY <2>3, <2>5, <2>7 DEF RingInv
<1>5. CASE Ring!FreeRefused
  <2>1. /\ ring_app = "rings_sample" /\ hand # <<>> /\ hand' = <<>>
        /\ refused' = refused \cup Ring!Range(hand)
        /\ UNCHANGED <<ring_app, ring_main, producer_pc, consumer_pc, ring_state, ring, made, taken>>
    BY <1>5 DEF Ring!FreeRefused
  <2>2. RingControl' /\ ring_state # "freed"
    BY <1>i, <2>1 DEF RingControl
  <2>3. PICK x \in Nat : hand = <<x>>
    <3>0. hand \in Seq(Nat) /\ Len(hand) <= 1 /\ Len(hand) \in Nat /\ hand # <<>>
      BY <1>i, <2>1, LenProperties DEF RingType
    <3>e. hand = <<>> <=> Len(hand) = 0
      BY <3>0, EmptySeq
    <3>f. Len(hand) # 0
      BY <3>0, <3>e, Zenon
    <3>g. PICK n \in Nat : n = Len(hand)
      BY <3>0
    <3>1. Len(hand) = 1
      BY <3>0, <3>f, <3>g
    <3>2. hand[1] \in Nat
      BY <3>0, <3>1
    <3>3. hand = <<hand[1]>>
      BY <3>0, <3>1
    <3>. QED  BY <3>2, <3>3
  <2>4. PICK b \in Seq(Nat) : b = taken \o ring
    BY <1>i, ConcatProperties
  <2>5. Ring!Blocks = Append(b, x)
    BY <2>3, <2>4, AppendIsConcat DEF Ring!Blocks
  <2>6. Ring!Blocks' = b
    BY <2>1, <2>4, ConcatEmptySeq DEF Ring!Blocks
  <2>7. Ring!Range(Append(b, x)) = (0 .. made - 1) \ refused /\ Ring!Ascending(Append(b, x))
    BY <1>i, <2>2, <2>5 DEF RingOrder
  <2>8. Ring!Ascending(b) /\ Ring!Range(b) = Ring!Range(Append(b, x)) \ {x}
    BY <2>7, DropBlock
  <2>9. refused' = refused \cup {x}
    <3>1. DOMAIN hand = {1} /\ hand[1] = x
      BY <2>3
    <3>2. Ring!Range(hand) = {hand[1]}
      BY <3>1 DEF Ring!Range
    <3>. QED  BY <2>1, <3>1, <3>2
  <2>10. x \in Ring!Range(Append(b, x))
    <3>1. Len(b) \in Nat /\ Len(b) + 1 \in DOMAIN Append(b, x) /\ Append(b, x)[Len(b) + 1] = x
      BY AppendProperties, LenProperties
    <3>. QED  BY <3>1 DEF Ring!Range
  <2>11. x \in 0 .. made - 1
    BY <2>7, <2>10
  <2>12. RingType'
    <3>1. hand' \in Seq(Nat) /\ Len(hand') <= 1
      BY <2>1
    <3>2. refused' \subseteq 0 .. made' - 1
      BY <1>i, <2>1, <2>9, <2>11 DEF RingType
    <3>. QED  BY <1>i, <2>1, <3>1, <3>2 DEF RingType
  <2>13. (0 .. made' - 1) \ refused' = ((0 .. made - 1) \ refused) \ {x}
    BY <2>1, <2>9
  <2>14. RingOrder'
    BY <2>6, <2>7, <2>8, <2>13 DEF RingOrder, Ring!Range, Ring!Ascending
  <2>. QED  BY <2>2, <2>12, <2>14 DEF RingInv
<1>. QED  BY <1>1, <1>2, <1>3, <1>4, <1>5 DEF Ring!Producer

LEMMA RingConsumerStep ==
  ASSUME RingInv, Ring!Consumer
  PROVE  RingInv'
<1>i. RingControl /\ RingType /\ RingOrder /\ taken \in Seq(Nat) /\ ring \in Seq(Nat)
  BY DEF RingInv, RingType
<1>1. CASE Ring!SecondaryInit
  <2>1. UNCHANGED Ring!blocks /\ UNCHANGED ring_state /\ ring_state # "freed"
    BY <1>1, <1>i DEF Ring!SecondaryInit, RingControl
  <2>2. RingControl'
    BY <1>1, <1>i DEF Ring!SecondaryInit, Ring!blocks, RingControl
  <2>. QED  BY <2>1, <2>2, RingIdle
<1>2. CASE Ring!SecondaryLookup
  <2>1. UNCHANGED Ring!blocks /\ UNCHANGED ring_state /\ ring_state # "freed"
    BY <1>2, <1>i DEF Ring!SecondaryLookup, RingControl
  <2>2. RingControl'
    BY <1>2, <1>i DEF Ring!SecondaryLookup, Ring!blocks, RingControl
  <2>. QED  BY <2>1, <2>2, RingIdle
<1>3. CASE Ring!ConsumerCheck
  <2>1. UNCHANGED Ring!blocks /\ UNCHANGED ring_state /\ ring_state # "freed"
    BY <1>3, <1>i DEF Ring!ConsumerCheck, RingControl
  <2>2. RingControl'
    BY <1>3, <1>i DEF Ring!ConsumerCheck, Ring!blocks, RingControl
  <2>. QED  BY <2>1, <2>2, RingIdle
<1>4. CASE Ring!DequeueFreed
  <2>1. UNCHANGED Ring!blocks /\ UNCHANGED ring_state /\ ring_state = "freed"
    BY <1>4 DEF Ring!DequeueFreed
  <2>2. RingControl'
    BY <1>4, <1>i DEF Ring!DequeueFreed, Ring!blocks, RingControl
  <2>. QED  BY <2>1, <2>2, RingIdle
<1>5. CASE Ring!Dequeue
  <2>1. /\ consumer_pc = IF ring_app = "rings_sample" THEN "dequeue" ELSE "loop"
        /\ consumer_pc' = IF ring_app = "practice" /\ ring # <<>> THEN "done" ELSE "loop"
        /\ ring_state = "live"
        /\ UNCHANGED <<ring_app, ring_main, producer_pc, ring_state, made, hand, refused>>
    BY <1>5 DEF Ring!Dequeue
  <2>2. CASE ring = <<>> /\ UNCHANGED <<ring, taken>>
    <3>1. UNCHANGED Ring!blocks
      BY <2>1, <2>2 DEF Ring!blocks
    <3>2. RingControl'
      BY <1>i, <2>1, <2>2 DEF RingControl
    <3>. QED  BY <2>1, <3>1, <3>2, RingIdle
  <2>3. CASE ring # <<>> /\ ring' = Tail(ring) /\ taken' = Append(taken, Head(ring))
    <3>1. taken \in Seq(Nat) /\ ring \in Seq(Nat) /\ ring # <<>>
      BY <1>i, <2>3
    <3>2. /\ Tail(ring) \in Seq(Nat) /\ Append(taken, Head(ring)) \in Seq(Nat)
          /\ Append(taken, Head(ring)) \o Tail(ring) = taken \o ring
      BY <3>1, TakeBlock
    <3>3. Ring!Blocks' = Ring!Blocks
      BY <2>1, <2>3, <3>2 DEF Ring!Blocks
    <3>4. RingType'
      BY <1>i, <2>1, <2>3, <3>2 DEF RingType
    <3>5. RingOrder'
      BY <1>i, <2>1, <3>3 DEF RingOrder, Ring!Range, Ring!Ascending
    <3>6. RingControl'
      BY <1>i, <2>1, <2>3 DEF RingControl
    <3>. QED  BY <3>4, <3>5, <3>6 DEF RingInv
  <2>. QED  BY <1>5, <2>2, <2>3 DEF Ring!Dequeue
<1>. QED  BY <1>1, <1>2, <1>3, <1>4, <1>5 DEF Ring!Consumer

\* In the programs with one ring no block is lost, duplicated or overtaken,
\* for every size of the ring, and only a consumer of practice that has not
\* got its block can meet the freed ring.
THEOREM RingProgramsCustody == Spec => []RingCustody
<1>1. Init => RingInv
  BY RingInit
<1>2. RingInv /\ [Next]_vars => RingInv'
  <2> SUFFICES ASSUME RingInv, [Next]_vars PROVE RingInv'
    OBVIOUS
  <2>1. CASE UNCHANGED ring_vars
    <3>1. UNCHANGED Ring!blocks /\ UNCHANGED ring_state
      BY <2>1 DEF ring_vars, Ring!blocks
    <3>2. RingControl'
      BY <2>1 DEF ring_vars, RingInv, RingControl
    <3>. QED  BY <3>1, <3>2, RingIdle
  <2>2. UNCHANGED ring_vars \/ Ring!Main \/ Ring!Producer \/ Ring!Consumer \/ Ring!handle_signal
    BY OwnSteps DEF Ring!Next, Ring!Ended, Ring!vars, ring_vars
  <2>. QED  BY <2>1, <2>2, RingMainStep, RingProducerStep, RingConsumerStep
<1>3. RingInv => RingCustody
  BY DEF RingInv, RingOrder, RingControl, RingCustody, Ring!RingCustody
<1>. QED  BY <1>1, <1>2, <1>3, PTL DEF Spec

-----------------------------------------------------------------------------
(* Event applications *)

EvEvent == [queue : {0, 1}, flow : Nat, data : Nat]

EvType ==
  /\ ev_app \in Ev!Counting \cup {"parsing", "processes"}
  /\ waiting \in Seq(EvEvent)
  /\ cq \in [0..2 -> Seq(EvEvent)] /\ context \in [0..2 -> Seq(EvEvent)]
  /\ sent \in Nat /\ got \in Seq(Nat)
  /\ ev_mbuf \in BOOLEAN /\ ev_pool \in Nat /\ ev_lost \in Nat

\* The one port that is polled where events carry mbufs.
Polled == IF ev_app = "parsing" THEN 0 ELSE 1

EvControl ==
  /\ ev_pc = "setup" \/ ev_app \in Ev!Counting => ev_lost = 0
  /\ ev_pc = "setup" => worker_pc \in {"off", "exited"}
  /\ ev_pc \in {"poll1", "poll2", "stop"} => ev_app \in Ev!Counting
  /\ worker_pc = "forward" => ev_app = "parsing"
  /\ ev_mbuf <=> ev_app = "processes" /\ ev_pc = "send"
  /\ ev_app \notin Ev!Counting => /\ Len(context[Polled]) <= 1
                                  /\ \A p \in (0..2) \ {Polled} : context[p] = <<>>

AllEvents == Range(waiting) \cup UNION {Range(cq[p]) : p \in 0..2}

EvInv == EvType /\ EvControl /\ EventsConserved

\* What is still to come of two_ports's flows.
InOrder(s) == \A i, j \in DOMAIN s : i < j /\ s[i].data % 2 = s[j].data % 2 => s[i].data < s[j].data

EvOrder ==
  ev_app = "two_ports" =>
    /\ \A e \in AllEvents : e.queue = 0 /\ e.flow = e.data % 2 /\ e.data < sent
    /\ InOrder(waiting) /\ \A p \in 0..2 : InOrder(cq[p])
    /\ \A p, r \in 0..2 : \A c \in Range(cq[p]), d \in Range(cq[r]) : c.flow = d.flow => p = r
    /\ \A p \in 0..2 : \A c \in Range(cq[p]), d \in Range(waiting) : c.flow = d.flow => c.data < d.data
    /\ \A n \in Range(got) : n < sent
    /\ \A n \in Range(got), e \in AllEvents : n % 2 = e.flow => n < e.data
    /\ \A i, j \in DOMAIN got : i < j /\ got[i] % 2 = got[j] % 2 => got[i] < got[j]

\* t has the events of s and e.
Adds(s, e, t) == /\ s \in Seq(EvEvent) /\ t \in Seq(EvEvent) /\ e \in EvEvent
                 /\ Len(s) \in Nat /\ Len(t) = Len(s) + 1
                 /\ Range(t) = Range(s) \cup {e}

LEMMA AppendEvent ==
  ASSUME NEW s \in Seq(EvEvent), NEW e \in EvEvent
  PROVE  /\ Adds(s, e, Append(s, e))
         /\ InOrder(s) /\ (\A x \in Range(s) : x.data % 2 = e.data % 2 => x.data < e.data)
              => InOrder(Append(s, e))
<1>1. PICK n \in Nat, t \in Seq(EvEvent) :
        /\ n = Len(s) /\ DOMAIN s = 1..n /\ t = Append(s, e) /\ Len(t) = n + 1 /\ DOMAIN t = 1..(n + 1)
        /\ \A i \in 1..n : t[i] = s[i]
        /\ t[n + 1] = e
  <2>1. /\ Append(s, e) \in Seq(EvEvent) /\ Len(Append(s, e)) = Len(s) + 1
        /\ \A i \in 1..Len(s) : Append(s, e)[i] = s[i]
        /\ Append(s, e)[Len(s) + 1] = e
    BY AppendProperties
  <2>2. Len(s) \in Nat /\ DOMAIN s = 1..Len(s)
    BY LenProperties
  <2>3. DOMAIN Append(s, e) = 1..(Len(s) + 1)
    BY <2>1, LenProperties
  <2>. QED  BY <2>1, <2>2, <2>3
<1>2. \A i \in 1..(n + 1) : i \in 1..n \/ i = n + 1
  BY <1>1
<1>3. \A i \in 1..n : i \in 1..(n + 1) /\ i < n + 1
  BY <1>1
<1>4. n + 1 \in 1..(n + 1)
  BY <1>1
<1>5. Range(t) = Range(s) \cup {e}
  <2>1. Range(t) \subseteq Range(s) \cup {e}
    BY <1>1, <1>2 DEF Range
  <2>2. Range(s) \subseteq Range(t)
    BY <1>1, <1>3 DEF Range
  <2>3. e \in Range(t)
    BY <1>1, <1>4 DEF Range
  <2>. QED  BY <2>1, <2>2, <2>3
<1>6. ASSUME InOrder(s), \A x \in Range(s) : x.data % 2 = e.data % 2 => x.data < e.data
      PROVE  InOrder(t)
  <2>. SUFFICES ASSUME NEW i \in 1..(n + 1), NEW j \in 1..(n + 1), i < j, t[i].data % 2 = t[j].data % 2
                PROVE  t[i].data < t[j].data
    BY <1>1 DEF InOrder
  <2>1. i \in 1..n /\ t[i] = s[i] /\ s[i] \in Range(s)
    BY <1>1 DEF Range
  <2>2. CASE j = n + 1
    BY <1>1, <1>6, <2>1, <2>2
  <2>3. CASE j \in 1..n
    BY <1>1, <1>6, <2>1, <2>3 DEF InOrder
  <2>. QED  BY <1>2, <2>2, <2>3
<1>. QED  BY <1>1, <1>5, <1>6, SMTT(30) DEF Adds

\* The i-th event is taken out of s.
Without(s, i) == Ev!Taken(s, i - 1) \o Ev!Rest(s, i)

LEMMA TakeEvent ==
  ASSUME NEW s \in Seq(EvEvent), NEW i \in DOMAIN s
  PROVE  /\ Adds(Without(s, i), s[i], s)
         /\ InOrder(s) => InOrder(Without(s, i))
         /\ InOrder(s) /\ (\A j \in 1..(i - 1) : s[j].data % 2 # s[i].data % 2)
              => \A e \in Range(Without(s, i)) : e.data % 2 = s[i].data % 2 => s[i].data < e.data
<1>1. PICK n \in Nat : n = Len(s) /\ DOMAIN s = 1..n /\ s \in [1..n -> EvEvent] /\ i \in 1..n
  BY LenProperties
<1>2. PICK a \in Seq(EvEvent) : a = Ev!Taken(s, i - 1) /\ Len(a) = i - 1 /\ DOMAIN a = 1..(i - 1) /\ \A j \in 1..(i - 1) : a[j] = s[j]
  <2>1. PICK k \in Int : k = i - 1 /\ k >= 0 /\ k < n
    BY <1>1
  <2>2. \A j \in 1..k : s[j] \in EvEvent
    BY <1>1, <2>1
  <2>3. /\ SubSeq(s, 1, k) \in Seq(EvEvent) /\ Len(SubSeq(s, 1, k)) = k
        /\ \A j \in 1..(k - 1 + 1) : SubSeq(s, 1, k)[j] = s[1 + j - 1]
    BY <2>1, <2>2, SubSeqProperties
  <2>4. /\ DOMAIN SubSeq(s, 1, k) = 1..k
        /\ \A j \in 1..k : SubSeq(s, 1, k)[j] = s[j]
    BY <2>1, <2>3, LenProperties
  <2>. QED  BY <2>1, <2>3, <2>4 DEF Ev!Taken
<1>3. PICK b \in Seq(EvEvent) : b = Ev!Rest(s, i) /\ Len(b) = n - i /\ DOMAIN b = 1..(n - i) /\ \A j \in 1..(n - i) : b[j] = s[i + j]
  <2>1. \A j \in (i + 1)..n : s[j] \in EvEvent
    BY <1>1
  <2>2. /\ SubSeq(s, i + 1, n) \in Seq(EvEvent) /\ Len(SubSeq(s, i + 1, n)) = n - i
        /\ \A j \in 1..(n - (i + 1) + 1) : SubSeq(s, i + 1, n)[j] = s[(i + 1) + j - 1]
    BY <1>1, <2>1, SubSeqProperties, SMTT(30)
  <2>3. PICK b : b = SubSeq(s, i + 1, n)
    OBVIOUS
  <2>4. n - (i + 1) + 1 = n - i /\ \A j \in 1..(n - i) : (i + 1) + j - 1 = i + j
    BY <1>1
  <2>5. b \in Seq(EvEvent) /\ Len(b) = n - i /\ \A j \in 1..(n - i) : b[j] = s[i + j]
    BY <2>2, <2>3, <2>4
  <2>6. DOMAIN b = 1..(n - i)
    BY <2>5, LenProperties
  <2>7. b = Ev!Rest(s, i)
    BY <1>1, <2>3 DEF Ev!Rest
  <2>. QED  BY <2>5, <2>6, <2>7
<1>4. PICK m \in Nat, t \in Seq(EvEvent) : 
        /\ m = n - 1 /\ t = Without(s, i) /\ Len(t) = m /\ DOMAIN t = 1..m
        /\ \A j \in 1..m : t[j] = IF j <= i - 1 THEN a[j] ELSE b[j - (i - 1)]
  <2>1. /\ a \o b \in Seq(EvEvent) /\ Len(a \o b) = Len(a) + Len(b)
        /\ \A j \in 1 .. Len(a) + Len(b) : (a \o b)[j] = IF j <= Len(a) THEN a[j] ELSE b[j - Len(a)]
    BY ConcatProperties
  <2>2. Len(a) = i - 1 /\ Len(a) + Len(b) = n - 1 /\ n - 1 \in Nat
    BY <1>1, <1>2, <1>3
  <2>3. Without(s, i) = a \o b
    BY <1>2, <1>3 DEF Without
  <2>4. PICK t \in Seq(EvEvent) : t = a \o b
    BY <2>1
  <2>5. Len(t) = n - 1 /\ \A j \in 1..(n - 1) : t[j] = IF j <= i - 1 THEN a[j] ELSE b[j - (i - 1)]
    BY <2>1, <2>2, <2>4
  <2>6. DOMAIN t = 1..(n - 1)
    BY <2>4, <2>5, LenProperties
  <2>. QED  BY <2>2, <2>3, <2>4, <2>5, <2>6
<1>5. \A j \in 1..m : \/ j < i /\ j \in 1..n /\ t[j] = s[j]
                      \/ j >= i /\ j + 1 \in 1..n /\ t[j] = s[j + 1]
  <2>. SUFFICES ASSUME NEW j \in 1..m
                PROVE  \/ j < i /\ j \in 1..n /\ t[j] = s[j]
                       \/ j >= i /\ j + 1 \in 1..n /\ t[j] = s[j + 1]
    OBVIOUS
  <2>1. CASE j < i
    <3>1. j <= i - 1 /\ j \in 1..(i - 1) /\ j \in 1..n
      BY <1>1, <1>4, <2>1
    <3>. QED  BY <1>2, <1>4, <2>1, <3>1
  <2>2. CASE j >= i
    <3>1. PICK k \in 1..(n - i) : k = j - (i - 1)
      BY <1>1, <1>4, <2>2
    <3>2. t[j] = b[k] /\ b[k] = s[i + k] /\ i + k = j + 1
      BY <1>1, <1>3, <1>4, <2>2, <3>1
    <3>. QED  BY <1>1, <1>4, <2>2, <3>2
  <2>. QED  BY <1>1, <1>4, <2>1, <2>2
<1>6. \A k \in 1..n : k # i => \E j \in 1..m : t[j] = s[k]
  <2>. SUFFICES ASSUME NEW k \in 1..n, k # i PROVE \E j \in 1..m : t[j] = s[k]
    OBVIOUS
  <2>1. CASE k < i
    <3>1. k \in 1..m
      BY <1>1, <1>4, <2>1
    <3>2. t[k] = s[k]
      BY <1>1, <1>5, <2>1, <3>1
    <3>. QED  BY <3>1, <3>2
  <2>2. CASE k > i
    <3>1. PICK j \in 1..m : j = k - 1 /\ j >= i
      BY <1>1, <1>4, <2>2
    <3>2. t[j] = s[j + 1] /\ j + 1 = k
      BY <1>1, <1>4, <1>5, <3>1
    <3>. QED  BY <3>1, <3>2
  <2>. QED  BY <1>1, <2>1, <2>2
<1>7. Range(s) = Range(t) \cup {s[i]}
  <2>1. Range(t) \subseteq Range(s)
    BY <1>1, <1>4, <1>5 DEF Range
  <2>2. Range(s) \subseteq Range(t) \cup {s[i]}
    <3>1. ASSUME NEW k \in 1..n, k # i PROVE s[k] \in Range(t)
      BY <1>4, <1>6, <3>1 DEF Range
    <3>. QED  BY <1>1, <3>1 DEF Range
  <2>3. s[i] \in Range(s)
    BY <1>1 DEF Range
  <2>. QED  BY <2>1, <2>2, <2>3
<1>8. ASSUME InOrder(s) PROVE InOrder(t)
  <2>. SUFFICES ASSUME NEW j \in 1..m, NEW k \in 1..m, j < k, t[j].data % 2 = t[k].data % 2
                PROVE  t[j].data < t[k].data
    BY <1>4 DEF InOrder
  <2>1. PICK x \in 1..n : t[j] = s[x] /\ ((x = j /\ j < i) \/ (x = j + 1 /\ j >= i))
    <3>1. \/ j < i /\ j \in 1..n /\ t[j] = s[j]
          \/ j >= i /\ j + 1 \in 1..n /\ t[j] = s[j + 1]
      BY <1>5
    <3>. QED  BY <3>1
  <2>2. PICK y \in 1..n : t[k] = s[y] /\ ((y = k /\ k < i) \/ (y = k + 1 /\ k >= i))
    <3>1. \/ k < i /\ k \in 1..n /\ t[k] = s[k]
          \/ k >= i /\ k + 1 \in 1..n /\ t[k] = s[k + 1]
      BY <1>5
    <3>. QED  BY <3>1
  <2>3. x < y
    BY <1>1, <1>4, <2>1, <2>2
  <2>. QED  BY <1>1, <1>8, <2>1, <2>2, <2>3 DEF InOrder
<1>9. ASSUME InOrder(s), \A j \in 1..(i - 1) : s[j].data % 2 # s[i].data % 2,
             NEW e \in Range(t), e.data % 2 = s[i].data % 2
      PROVE  s[i].data < e.data
  <2>1. PICK j \in 1..m : e = t[j]
    BY <1>4, <1>9 DEF Range
  <2>2. CASE j < i
    <3>1. j \in 1..(i - 1) /\ t[j] = s[j]
      BY <1>1, <1>4, <1>5, <2>2
    <3>. QED  BY <1>9, <2>1, <3>1
  <2>3. CASE j >= i
    <3>1. PICK k \in 1..n : k = j + 1 /\ t[j] = s[k] /\ i < k
      BY <1>1, <1>4, <1>5, <2>3
    <3>. QED  BY <1>1, <1>9, <2>1, <3>1 DEF InOrder
  <2>. QED  BY <1>1, <1>4, <2>2, <2>3
<1>10. Adds(t, s[i], s)
  BY <1>1, <1>4, <1>7 DEF Adds
<1>. QED  BY <1>4, <1>8, <1>9, <1>10

Data(S) == {e.data : e \in S}

LEMMA PortsAre == 0..2 = {0, 1, 2}
OBVIOUS

\* The lengths of the queues, and their sum.
LEMMA QueuedSum ==
  ASSUME EvType
  PROVE  \E w, a, b, c \in Nat :
           /\ w = Len(waiting) /\ a = Len(cq[0]) /\ b = Len(cq[1]) /\ c = Len(cq[2])
           /\ Ev!Queued = w + a + b + c
<1>1. PICK w \in Nat, a \in Nat, b \in Nat, c \in Nat :
        w = Len(waiting) /\ a = Len(cq[0]) /\ b = Len(cq[1]) /\ c = Len(cq[2])
  <2>1. waiting \in Seq(EvEvent) /\ cq[0] \in Seq(EvEvent) /\ cq[1] \in Seq(EvEvent) /\ cq[2] \in Seq(EvEvent)
    BY DEF EvType
  <2>. QED  BY <2>1, LenProperties
<1>2. Ev!Queued = w + a + b + c
  BY <1>1, Zenon DEF Ev!Queued
<1>. QED  BY <1>1, <1>2

LEMMA EventsIn ==
  ASSUME EvType
  PROVE  /\ Ev!Queued \in Nat
         /\ Ev!QueuedData = Data(AllEvents)
<1>1. PICK w \in Nat, a \in Nat, b \in Nat, c \in Nat : Ev!Queued = w + a + b + c
  BY QueuedSum
<1>2. Ev!Queued \in Nat
  BY <1>1
<1>3. /\ {waiting[i].data : i \in DOMAIN waiting} = Data(Range(waiting))
      /\ \A p : {cq[p][i].data : i \in DOMAIN cq[p]} = Data(Range(cq[p]))
  BY DEF Data, Range
<1>4. UNION {{cq[p][i].data : i \in DOMAIN cq[p]} : p \in 0..2} = UNION {Data(Range(cq[p])) : p \in 0..2}
  <2>1. ASSUME NEW x \in UNION {{cq[p][i].data : i \in DOMAIN cq[p]} : p \in 0..2}
        PROVE  x \in UNION {Data(Range(cq[p])) : p \in 0..2}
    <3>1. PICK p \in 0..2 : x \in {cq[p][i].data : i \in DOMAIN cq[p]}
      BY <2>1
    <3>2. x \in Data(Range(cq[p]))
      BY <1>3, <3>1
    <3>. QED  BY <3>1, <3>2
  <2>2. ASSUME NEW x \in UNION {Data(Range(cq[p])) : p \in 0..2}
        PROVE  x \in UNION {{cq[p][i].data : i \in DOMAIN cq[p]} : p \in 0..2}
    <3>1. PICK p \in 0..2 : x \in Data(Range(cq[p]))
      BY <2>2
    <3>2. x \in {cq[p][i].data : i \in DOMAIN cq[p]}
      BY <1>3, <3>1
    <3>. QED  BY <3>1, <3>2
  <2>. QED  BY <2>1, <2>2
<1>5. Ev!QueuedData = Data(Range(waiting)) \cup UNION {Data(Range(cq[p])) : p \in 0..2}
  BY <1>3, <1>4 DEF Ev!QueuedData
<1>6. /\ UNION {Data(Range(cq[p])) : p \in 0..2} = Data(UNION {Range(cq[p]) : p \in 0..2})
      /\ \A S, T : Data(S) \cup Data(T) = Data(S \cup T)
  BY DEF Data
<1>. QED  BY <1>2, <1>5, <1>6 DEF AllEvents

LEMMA EventsIn2 == (EvType => Ev!Queued \in Nat /\ Ev!QueuedData = Data(AllEvents))'
<1>1. EvType => Ev!Queued \in Nat /\ Ev!QueuedData = Data(AllEvents)
  BY EventsIn
<1>. QED  BY <1>1, PTL

\* What the three kinds of device operation do to the events in the queues.
LEMMA EnqueueMoves ==
  ASSUME EvType, NEW e \in EvEvent, waiting' = Append(waiting, e), cq' = cq
  PROVE  /\ waiting' \in Seq(EvEvent) /\ AllEvents' = AllEvents \cup {e}
         /\ Ev!Queued' = Ev!Queued + 1
<1>1. Adds(waiting, e, waiting')
  BY AppendEvent DEF EvType
<1>2. Ev!Queued' = Ev!Queued + 1
  <2>1. PICK w \in Nat, a \in Nat, b \in Nat, c \in Nat :
          /\ w = Len(waiting) /\ a = Len(cq[0]) /\ b = Len(cq[1]) /\ c = Len(cq[2])
          /\ Ev!Queued = w + a + b + c
    BY QueuedSum
  <2>2. PICK v : v = w + 1 /\ v = Len(waiting')
    BY <1>1, <2>1 DEF Adds
  <2>3. Ev!Queued' = v + a + b + c
    BY <2>1, <2>2, Zenon DEF Ev!Queued
  <2>4. w \in Nat /\ a \in Nat /\ b \in Nat /\ c \in Nat /\ Ev!Queued = w + a + b + c /\ v = w + 1
    BY <2>1, <2>2
  <2>. QED  BY <2>3, <2>4
<1>. QED  BY <1>1, <1>2 DEF Adds, AllEvents

Dequeued(p, e) ==
  /\ Adds(cq'[p], e, cq[p]) /\ context'[p] = <<e>>
  /\ InOrder(cq[p]) => /\ InOrder(cq'[p])
                       /\ \A x \in Range(cq'[p]) : x.data % 2 = e.data % 2 => e.data < x.data

LEMMA DequeueMoves ==
  ASSUME EvType, NEW p \in 0..2, Ev!DequeueAt(p)
  PROVE  /\ cq' \in [0..2 -> Seq(EvEvent)] /\ context' \in [0..2 -> Seq(EvEvent)]
         /\ \A r \in (0..2) \ {p} : cq'[r] = cq[r] /\ context'[r] = context[r]
         /\ \/ cq' = cq /\ context'[p] = <<>>
            \/ \E e \in EvEvent : Dequeued(p, e)
<1>1. PICK s \in Seq(EvEvent), n \in Nat : s = cq[p] /\ n = Len(s) /\ DOMAIN s = 1..n
  BY LenProperties DEF EvType
<1>2. /\ context' = [context EXCEPT ![p] = Ev!Taken(s, Ev!Least(1, n))]
      /\ cq' = [cq EXCEPT ![p] = Ev!Rest(s, 1)]
  BY <1>1 DEF Ev!DequeueAt
<1>3. /\ cq'[p] = Ev!Rest(s, 1) /\ context'[p] = Ev!Taken(s, Ev!Least(1, n))
      /\ \A r \in (0..2) \ {p} : cq'[r] = cq[r] /\ context'[r] = context[r]
      /\ DOMAIN cq' = 0..2 /\ DOMAIN context' = 0..2
  BY <1>2 DEF EvType
<1>4. CASE n = 0
  <2>1. s = <<>>
    BY <1>1, <1>4, EmptySeq
  <2>2. Ev!Rest(s, 1) = <<>> /\ Ev!Taken(s, Ev!Least(1, n)) = <<>>
    <3>1. SubSeq(s, 2, 0) = <<>> /\ SubSeq(s, 1, 0) = <<>>
      BY SubSeqEmpty
    <3>. QED  BY <1>1, <1>4, <3>1 DEF Ev!Rest, Ev!Taken, Ev!Least
  <2>3. cq' = cq
    BY <1>1, <1>2, <2>1, <2>2 DEF EvType
  <2>4. context' \in [0..2 -> Seq(EvEvent)]
    BY <1>2, <2>2, EmptySeq DEF EvType
  <2>. QED  BY <1>3, <2>2, <2>3, <2>4 DEF EvType
<1>5. CASE n # 0
  <2>1. 1 \in DOMAIN s /\ Ev!Least(1, n) = 1
    BY <1>1, <1>5 DEF Ev!Least
  <2>2. /\ Adds(Without(s, 1), s[1], s)
        /\ InOrder(s) => InOrder(Without(s, 1))
        /\ InOrder(s) => \A e \in Range(Without(s, 1)) : e.data % 2 = s[1].data % 2 => s[1].data < e.data
    <3>1. 1..(1 - 1) = {}
      OBVIOUS
    <3>2. \A j \in 1..(1 - 1) : s[j].data % 2 # s[1].data % 2
      BY <3>1
    <3>. QED  BY <1>1, <2>1, <3>2, TakeEvent
  <2>3. s[1] \in EvEvent
    BY <2>2 DEF Adds
  <2>4. Ev!Rest(s, 1) \in Seq(EvEvent)
    <3>1. \A j \in 2..n : s[j] \in EvEvent
      BY <1>1
    <3>2. SubSeq(s, 2, n) \in Seq(EvEvent)
      BY <3>1, SubSeqProperties
    <3>. QED  BY <1>1, <3>2 DEF Ev!Rest
  <2>5. Without(s, 1) = Ev!Rest(s, 1)
    <3>1. SubSeq(s, 1, 0) = <<>>
      BY SubSeqEmpty
    <3>2. Ev!Taken(s, 1 - 1) = <<>>
      BY <3>1 DEF Ev!Taken
    <3>. QED  BY <2>4, <3>2, ConcatEmptySeq DEF Without
  <2>6. Ev!Taken(s, 1) = <<s[1]>>
    <3>1. PICK e \in EvEvent : e = s[1]
      BY <2>3
    <3>2. \A j \in 1..1 : s[j] \in EvEvent
      BY <3>1
    <3>3. /\ SubSeq(s, 1, 1) \in Seq(EvEvent) /\ Len(SubSeq(s, 1, 1)) = 1
          /\ \A j \in 1..(1 - 1 + 1) : SubSeq(s, 1, 1)[j] = s[1 + j - 1]
      BY <3>2, SubSeqProperties
    <3>4. SubSeq(s, 1, 1)[1] = e
      <4>1. 1 \in 1..(1 - 1 + 1) /\ 1 + 1 - 1 = 1
        OBVIOUS
      <4>2. SubSeq(s, 1, 1)[1] = s[1 + 1 - 1]
        BY <3>3, <4>1
      <4>. QED  BY <3>1, <4>1, <4>2
    <3>5. PICK t \in Seq(EvEvent) : t = SubSeq(s, 1, 1) /\ Len(t) = 1 /\ t[1] = e
      BY <3>3, <3>4
    <3>6. PICK o \in Seq(EvEvent) : o = <<e>> /\ Len(o) = 1 /\ o[1] = e
      <4>1. <<e>> \in Seq(EvEvent) /\ Len(<<e>>) = 1 /\ <<e>>[1] = e
        BY <3>1
      <4>. QED  BY <4>1
    <3>7. DOMAIN t = 1..1 /\ DOMAIN o = 1..1 /\ \A j \in 1..1 : t[j] = o[j]
      BY <3>5, <3>6, LenProperties
    <3>8. t = o
      BY <3>5, <3>6, <3>7, SeqEqual
    <3>. QED  BY <3>1, <3>5, <3>6, <3>8 DEF Ev!Taken
  <2>7. <<s[1]>> \in Seq(EvEvent)
    BY <2>3
  <2>8. cq' \in [0..2 -> Seq(EvEvent)] /\ context' \in [0..2 -> Seq(EvEvent)]
    BY <1>2, <2>1, <2>4, <2>6, <2>7 DEF EvType
  <2>9. Dequeued(p, s[1])
    <3>1. cq'[p] = Without(s, 1) /\ context'[p] = <<s[1]>> /\ cq[p] = s
      BY <1>1, <1>3, <2>1, <2>5, <2>6
    <3>. QED  BY <2>2, <3>1 DEF Dequeued
  <2>. QED  BY <1>3, <2>3, <2>8, <2>9
<1>. QED  BY <1>4, <1>5

LEMMA DequeuedFromQueue ==
  ASSUME EvType, NEW p \in 0..2, NEW e \in EvEvent, Dequeued(p, e), UNCHANGED waiting,
         \A r \in (0..2) \ {p} : cq'[r] = cq[r]
  PROVE  AllEvents = AllEvents' \cup {e} /\ Ev!Queued = Ev!Queued' + 1 /\ Len(context'[p]) = 1
<1>1. /\ Len(cq[p]) = Len(cq'[p]) + 1 /\ Len(cq'[p]) \in Nat /\ Range(cq[p]) = Range(cq'[p]) \cup {e}
      /\ context'[p] = <<e>>
  BY DEF Dequeued, Adds
<1>2. AllEvents = AllEvents' \cup {e}
  <2>1. \A r \in 0..2 : r # p => cq'[r] = cq[r]
    OBVIOUS
  <2>2. ASSUME NEW x \in AllEvents PROVE x \in AllEvents' \cup {e}
    <3>1. CASE x \in Range(waiting)
      BY <3>1 DEF AllEvents
    <3>2. CASE \E r \in 0..2 : x \in Range(cq[r])
      <4>1. PICK r \in 0..2 : x \in Range(cq[r])
        BY <3>2
      <4>2. x \in Range(cq'[r]) \/ x = e
        BY <1>1, <2>1, <4>1
      <4>. QED  BY <4>1, <4>2 DEF AllEvents
    <3>. QED  BY <2>2, <3>1, <3>2 DEF AllEvents
  <2>3. ASSUME NEW x \in AllEvents' PROVE x \in AllEvents
    <3>1. CASE x \in Range(waiting')
      BY <3>1 DEF AllEvents
    <3>2. CASE \E r \in 0..2 : x \in Range(cq'[r])
      <4>1. PICK r \in 0..2 : x \in Range(cq'[r])
        BY <3>2
      <4>2. x \in Range(cq[r])
        BY <1>1, <2>1, <4>1
      <4>. QED  BY <4>1, <4>2 DEF AllEvents
    <3>. QED  BY <2>3, <3>1, <3>2 DEF AllEvents
  <2>4. e \in AllEvents
    BY <1>1 DEF AllEvents
  <2>. QED  BY <2>2, <2>3, <2>4
<1>3. Ev!Queued = Ev!Queued' + 1
  <2>1. PICK w \in Nat, a \in Nat, b \in Nat, c \in Nat :
          /\ w = Len(waiting) /\ a = Len(cq[0]) /\ b = Len(cq[1]) /\ c = Len(cq[2])
          /\ Ev!Queued = w + a + b + c
    BY QueuedSum
  <2>2. PICK n \in Nat : n = Len(cq'[p]) /\ Len(cq[p]) = n + 1
    BY <1>1
  <2>3. p \in {0, 1, 2} /\ \A r \in {0, 1, 2} : r # p => cq'[r] = cq[r]
    OBVIOUS
  <2>4. CASE p = 0
    <3>1. Ev!Queued' = w + n + b + c
      <4>1. n = Len(cq'[0]) /\ b = Len(cq'[1]) /\ c = Len(cq'[2])
        BY <2>1, <2>2, <2>3, <2>4
      <4>. QED  BY <2>1, <4>1, Zenon DEF Ev!Queued
    <3>2. w \in Nat /\ a \in Nat /\ b \in Nat /\ c \in Nat /\ n \in Nat
          /\ Ev!Queued = w + a + b + c /\ a = n + 1
      BY <2>1, <2>2, <2>4
    <3>. QED  BY <3>1, <3>2
  <2>5. CASE p = 1
    <3>1. Ev!Queued' = w + a + n + c
      <4>1. a = Len(cq'[0]) /\ n = Len(cq'[1]) /\ c = Len(cq'[2])
        BY <2>1, <2>2, <2>3, <2>5
      <4>. QED  BY <2>1, <4>1, Zenon DEF Ev!Queued
    <3>2. w \in Nat /\ a \in Nat /\ b \in Nat /\ c \in Nat /\ n \in Nat
          /\ Ev!Queued = w + a + b + c /\ b = n + 1
      BY <2>1, <2>2, <2>5
    <3>. QED  BY <3>1, <3>2
  <2>6. CASE p = 2
    <3>1. Ev!Queued' = w + a + b + n
      <4>1. a = Len(cq'[0]) /\ b = Len(cq'[1]) /\ n = Len(cq'[2])
        BY <2>1, <2>2, <2>3, <2>6
      <4>. QED  BY <2>1, <4>1, Zenon DEF Ev!Queued
    <3>2. w \in Nat /\ a \in Nat /\ b \in Nat /\ c \in Nat /\ n \in Nat
          /\ Ev!Queued = w + a + b + c /\ c = n + 1
      BY <2>1, <2>2, <2>6
    <3>. QED  BY <3>1, <3>2
  <2>. QED  BY <2>3, <2>4, <2>5, <2>6
<1>. QED  BY <1>1, <1>2, <1>3

\* The scheduler moves the i-th waiting event to port p.
Scheduled(i, p) ==
  /\ \A j \in 1..(i - 1) : ~Ev!SameFlow(waiting[j], waiting[i])
  /\ Ev!Pinned(waiting[i]) \subseteq {p}
  /\ waiting' = Without(waiting, i)
  /\ cq'[p] = Append(cq[p], waiting[i])
  /\ \A r \in (0..2) \ {p} : cq'[r] = cq[r]

LEMMA ScheduleMoves ==
  ASSUME EvType, Ev!Schedule
  PROVE  /\ \E i \in DOMAIN waiting, p \in 0..2 : Scheduled(i, p)
         /\ waiting' \in Seq(EvEvent) /\ cq' \in [0..2 -> Seq(EvEvent)]
         /\ AllEvents' = AllEvents /\ Ev!Queued' = Ev!Queued
         /\ UNCHANGED <<ev_app, ev_pc, worker_pc, dev_up, context, sent, got, ev_mbuf, ev_pool, ev_lost>>
<1>1. PICK i \in DOMAIN waiting, p \in Ev!Linked :
        /\ \A j \in 1..(i - 1) : ~Ev!SameFlow(waiting[j], waiting[i])
        /\ Ev!Pinned(waiting[i]) \subseteq {p}
        /\ cq' = [cq EXCEPT ![p] = Append(@, waiting[i])]
        /\ waiting' = Without(waiting, i)
        /\ UNCHANGED <<ev_app, ev_pc, worker_pc, dev_up, context, sent, got, ev_mbuf, ev_pool, ev_lost>>
  BY DEF Ev!Schedule, Without, Ev!mbufs
<1>2. p \in 0..2
  <2>1. ev_app \in {"one_event", "two_ports", "one_worker", "parsing", "processes"}
    BY DEF EvType, Ev!Counting
  <2>2. Ev!Linked \subseteq {0, 1, 2}
    BY <2>1 DEF Ev!Linked
  <2>. QED  BY <1>1, <2>2
<1>3. PICK e \in EvEvent : e = waiting[i]
  BY <1>1 DEF EvType
<1>4. Adds(Without(waiting, i), e, waiting)
  BY <1>1, <1>3, TakeEvent DEF EvType
<1>5. cq[p] \in Seq(EvEvent) /\ Adds(cq[p], e, Append(cq[p], e))
  BY <1>2, <1>3, AppendEvent DEF EvType
<1>6. /\ cq'[p] = Append(cq[p], e) /\ \A r \in (0..2) \ {p} : cq'[r] = cq[r]
      /\ cq' \in [0..2 -> Seq(EvEvent)]
  <2>1. Append(cq[p], e) \in Seq(EvEvent)
    BY <1>5 DEF Adds
  <2>2. cq' = [cq EXCEPT ![p] = Append(cq[p], e)]
    BY <1>1, <1>3
  <2>. QED  BY <1>2, <2>1, <2>2 DEF EvType
<1>7. Scheduled(i, p)
  BY <1>1, <1>3, <1>6 DEF Scheduled
<1>8. waiting' \in Seq(EvEvent) /\ Adds(waiting', e, waiting) /\ Adds(cq[p], e, cq'[p])
  BY <1>1, <1>4, <1>5, <1>6 DEF Adds
<1>9. AllEvents' = AllEvents
  <2>1. /\ Range(waiting) = Range(waiting') \cup {e} /\ Range(cq'[p]) = Range(cq[p]) \cup {e}
        /\ \A r \in 0..2 : r # p => cq'[r] = cq[r]
    BY <1>6, <1>8 DEF Adds
  <2>2. ASSUME NEW x \in AllEvents PROVE x \in AllEvents'
    <3>1. CASE x \in Range(waiting)
      <4>1. x \in Range(waiting') \/ x \in Range(cq'[p])
        BY <2>1, <3>1
      <4>. QED  BY <1>2, <4>1 DEF AllEvents
    <3>2. CASE \E r \in 0..2 : x \in Range(cq[r])
      <4>1. PICK r \in 0..2 : x \in Range(cq[r])
        BY <3>2
      <4>2. x \in Range(cq'[r])
        BY <2>1, <4>1
      <4>. QED  BY <4>1, <4>2 DEF AllEvents
    <3>. QED  BY <2>2, <3>1, <3>2 DEF AllEvents
  <2>3. ASSUME NEW x \in AllEvents' PROVE x \in AllEvents
    <3>1. CASE x \in Range(waiting')
      BY <2>1, <3>1 DEF AllEvents
    <3>2. CASE \E r \in 0..2 : x \in Range(cq'[r])
      <4>1. PICK r \in 0..2 : x \in Range(cq'[r])
        BY <3>2
      <4>2. x \in Range(cq[r]) \/ x \in Range(waiting)
        BY <2>1, <4>1
      <4>. QED  BY <4>1, <4>2 DEF AllEvents
    <3>. QED  BY <2>3, <3>1, <3>2 DEF AllEvents
  <2>. QED  BY <2>2, <2>3
<1>10. Ev!Queued' = Ev!Queued
  <2>1. PICK w \in Nat, a \in Nat, b \in Nat, c \in Nat :
          /\ w = Len(waiting) /\ a = Len(cq[0]) /\ b = Len(cq[1]) /\ c = Len(cq[2])
          /\ Ev!Queued = w + a + b + c
    BY QueuedSum
  <2>2. PICK v \in Nat : v = Len(waiting') /\ w = v + 1
    BY <1>8, <2>1 DEF Adds
  <2>3. PICK n \in Nat : n = Len(cq[p]) /\ Len(cq'[p]) = n + 1
    BY <1>8 DEF Adds
  <2>4. p \in {0, 1, 2} /\ \A r \in {0, 1, 2} : r # p => cq'[r] = cq[r]
    BY <1>2, <1>6
  <2>5. CASE p = 0
    <3>1. Ev!Queued' = v + (n + 1) + b + c
      <4>1. n + 1 = Len(cq'[0]) /\ b = Len(cq'[1]) /\ c = Len(cq'[2])
        BY <2>1, <2>3, <2>4, <2>5
      <4>. QED  BY <2>2, <4>1, Zenon DEF Ev!Queued
    <3>2. v \in Nat /\ n \in Nat /\ b \in Nat /\ c \in Nat /\ Ev!Queued = (v + 1) + n + b + c
      BY <2>1, <2>2, <2>3, <2>5
    <3>. QED  BY <3>1, <3>2
  <2>6. CASE p = 1
    <3>1. Ev!Queued' = v + a + (n + 1) + c
      <4>1. a = Len(cq'[0]) /\ n + 1 = Len(cq'[1]) /\ c = Len(cq'[2])
        BY <2>1, <2>3, <2>4, <2>6
      <4>. QED  BY <2>2, <4>1, Zenon DEF Ev!Queued
    <3>2. v \in Nat /\ n \in Nat /\ a \in Nat /\ c \in Nat /\ Ev!Queued = (v + 1) + a + n + c
      BY <2>1, <2>2, <2>3, <2>6
    <3>. QED  BY <3>1, <3>2
  <2>7. CASE p = 2
    <3>1. Ev!Queued' = v + a + b + (n + 1)
      <4>1. a = Len(cq'[0]) /\ b = Len(cq'[1]) /\ n + 1 = Len(cq'[2])
        BY <2>1, <2>3, <2>4, <2>7
      <4>. QED  BY <2>2, <4>1, Zenon DEF Ev!Queued
    <3>2. v \in Nat /\ n \in Nat /\ a \in Nat /\ b \in Nat /\ Ev!Queued = (v + 1) + a + b + n
      BY <2>1, <2>2, <2>3, <2>7
    <3>. QED  BY <3>1, <3>2
  <2>. QED  BY <2>4, <2>5, <2>6, <2>7
<1>. QED  BY <1>1, <1>2, <1>6, <1>7, <1>8, <1>9, <1>10

\* What has to be shown of a step of the applications that count events, and
\* of one of the others.
LEMMA CountingKept ==
  ASSUME EvInv, ev_app \in Ev!Counting, ev_app' = ev_app, EvType', EvControl',
         Ev!Queued' + Len(got') = sent', Data(AllEvents') \cup Range(got') = 0 .. sent' - 1
  PROVE  EvInv'
<1>1. Ev!QueuedData' = Data(AllEvents')
  BY EventsIn2
<1>2. ev_lost' = 0
  BY DEF EvControl
<1>3. {got'[i] : i \in DOMAIN got'} = Range(got')
  BY DEF Range
<1>4. ~(ev_lost' > 0)
  BY <1>2
<1>. QED  BY <1>1, <1>3, <1>4 DEF EvInv, EventsConserved, Ev!EventsConserved

LEMMA MbufsKept ==
  ASSUME EvInv, ev_app \notin Ev!Counting, ev_app' = ev_app, EvType', EvControl',
         ev_pool' + Ev!Queued' + Ev!Held' + ev_lost' = EV_MBUFS,
         \/ ev_lost' = ev_lost /\ (dev_up' => dev_up \/ ev_lost = 0)
         \/ ev_lost' + LIMIT - 1 <= EV_MBUFS
         \/ ~dev_up'
  PROVE  EvInv'
<1>1. ev_lost \in Nat /\ ev_lost' \in Nat
  BY DEF EvInv, EvType
<1>2. dev_up' /\ ev_lost' > 0 => ev_lost' + LIMIT - 1 <= EV_MBUFS
  BY <1>1 DEF EvInv, EventsConserved, Ev!EventsConserved
<1>. QED  BY <1>2 DEF EvInv, EventsConserved, Ev!EventsConserved

LEMMA EvFacts ==
  ASSUME EvInv
  PROVE  /\ EvType /\ EvControl /\ Ev!Queued \in Nat
         /\ ev_app \in Ev!Counting => Ev!Queued + Len(got) = sent /\ Data(AllEvents) \cup Range(got) = 0 .. sent - 1
         /\ ev_app \notin Ev!Counting => ev_pool + Ev!Queued + Ev!Held + ev_lost = EV_MBUFS
<1>1. EvType /\ Ev!Queued \in Nat /\ Ev!QueuedData = Data(AllEvents)
  BY EventsIn DEF EvInv
<1>2. {got[i] : i \in DOMAIN got} = Range(got)
  BY DEF Range
<1>. QED  BY <1>1, <1>2 DEF EvInv, EventsConserved, Ev!EventsConserved

\* A step that leaves the events and the mbufs where they are.
LEMMA EvIdle ==
  ASSUME EvInv, UNCHANGED <<ev_app, waiting, cq, context, sent, got, ev_mbuf, ev_pool, ev_lost>>,
         EvControl', worker_pc' = "forward" <=> worker_pc = "forward",
         dev_up' => dev_up \/ ev_lost = 0
  PROVE  EvInv'
<1>1. /\ EvType' /\ AllEvents' = AllEvents /\ Ev!Queued' = Ev!Queued /\ Ev!Held' = Ev!Held
  BY DEF EvInv, EvType, AllEvents, Ev!Queued, Ev!Held
<1>2. CASE ev_app \in Ev!Counting
  BY <1>1, <1>2, EvFacts, CountingKept
<1>3. CASE ev_app \notin Ev!Counting
  <2>1. ev_pool' + Ev!Queued' + Ev!Held' + ev_lost' = EV_MBUFS
    BY <1>1, <1>3, EvFacts
  <2>. QED  BY <1>1, <1>3, <2>1, MbufsKept
<1>. QED  BY <1>2, <1>3

LEMMA EvIdleSteps ==
  ASSUME EvInv,
         \/ Ev!SetupChecked \/ Ev!SetupWorker \/ Ev!SetupParsing \/ Ev!SetupPrimary \/ Ev!SecondaryInit
         \/ Ev!Stop \/ Ev!WaitWorker \/ Ev!PrimaryRetry \/ UNCHANGED ev_vars
  PROVE  EvInv'
<1>1. EvControl
  BY DEF EvInv
<1>2. CASE Ev!SetupChecked \/ Ev!SetupWorker \/ Ev!SetupParsing \/ Ev!SetupPrimary
  <2>1. /\ UNCHANGED <<ev_app, waiting, cq, context, sent, got, ev_mbuf, ev_pool, ev_lost>>
        /\ ev_pc = "setup" /\ ev_pc' \in {"enqueue", "wait", "alloc", "exited"}
        /\ worker_pc' = worker_pc \/ worker_pc' \in {"off", "poll"}
        /\ (Ev!SetupChecked \/ Ev!SetupPrimary => worker_pc' = worker_pc)
        /\ (Ev!SetupWorker => ev_app = "one_worker") /\ (Ev!SetupParsing => ev_app = "parsing")
    BY <1>2 DEF Ev!SetupChecked, Ev!SetupWorker, Ev!SetupParsing, Ev!SetupPrimary, Ev!SetupExits,
      Ev!device, Ev!mbufs
  <2>2. EvControl'
    BY <1>1, <2>1 DEF EvControl, Polled
  <2>3. ev_lost = 0 /\ worker_pc # "forward" /\ worker_pc' # "forward"
    BY <1>1, <2>1 DEF EvControl
  <2>. QED  BY <2>1, <2>2, <2>3, EvIdle
<1>3. CASE Ev!SecondaryInit \/ Ev!Stop \/ Ev!WaitWorker \/ Ev!PrimaryRetry \/ UNCHANGED ev_vars
  <2>1. /\ UNCHANGED <<ev_app, waiting, cq, context, sent, got, ev_mbuf, ev_pool, ev_lost>>
        /\ (worker_pc' = "forward" <=> worker_pc = "forward")
        /\ dev_up' => dev_up
        /\ ev_pc' = ev_pc \/ (ev_pc \in {"stop", "wait"} /\ ev_pc' = "done")
        /\ worker_pc' = worker_pc \/ (ev_pc = "setup" => worker_pc' = "exited")
    BY <1>3 DEF Ev!SecondaryInit, Ev!Stop, Ev!WaitWorker, Ev!PrimaryRetry, ev_vars, Ev!device, Ev!mbufs, Ev!vars
  <2>2. EvControl'
    BY <1>1, <2>1 DEF EvControl, Polled
  <2>. QED  BY <2>1, <2>2, EvIdle
<1>. QED  BY <1>2, <1>3

LEMMA EnqueueCountedKept ==
  ASSUME EvInv, Ev!EnqueueCounted
  PROVE  EvInv'
<1>1. EvType /\ EvControl /\ Ev!Queued \in Nat /\ sent \in Nat /\ got \in Seq(Nat)
  BY EvFacts DEF EvType
<1>2. /\ ev_app \in Ev!Counting /\ sent' = sent + 1 /\ ev_pc = "enqueue" /\ ev_pc' \in {"enqueue", "wait", "poll1"}
      /\ waiting' = Append(waiting, Ev!Event(0, Ev!FlowId(sent), sent))
      /\ UNCHANGED <<ev_app, worker_pc, dev_up, cq, context, got, ev_mbuf, ev_pool, ev_lost>>
  BY DEF Ev!EnqueueCounted, Ev!mbufs
<1>3. PICK e \in EvEvent : e = Ev!Event(0, Ev!FlowId(sent), sent) /\ e.data = sent
  <2>1. Ev!FlowId(sent) \in Nat
    BY <1>1 DEF Ev!FlowId
  <2>2. Ev!Event(0, Ev!FlowId(sent), sent) \in EvEvent /\ Ev!Event(0, Ev!FlowId(sent), sent).data = sent
    BY <1>1, <2>1 DEF Ev!Event, EvEvent
  <2>. QED  BY <2>2
<1>4. /\ waiting' \in Seq(EvEvent) /\ AllEvents' = AllEvents \cup {e} /\ Ev!Queued' = Ev!Queued + 1
  BY <1>1, <1>2, <1>3, EnqueueMoves
<1>5. EvType'
  BY <1>1, <1>2, <1>4 DEF EvType
<1>6. EvControl'
  BY <1>1, <1>2 DEF EvControl, Polled, Ev!Counting
<1>7. Ev!Queued + Len(got) = sent /\ Data(AllEvents) \cup Range(got) = 0 .. sent - 1 /\ Len(got) \in Nat
  BY <1>1, <1>2, EvFacts, LenProperties
<1>8. Ev!Queued' + Len(got') = sent'
  BY <1>1, <1>2, <1>4, <1>7
<1>9. Data(AllEvents') = Data(AllEvents) \cup {sent}
  BY <1>3, <1>4 DEF Data
<1>10. Data(AllEvents') \cup Range(got') = (0 .. sent - 1) \cup {sent}
  BY <1>2, <1>7, <1>9
<1>11. (0 .. sent - 1) \cup {sent} = 0 .. sent' - 1
  BY <1>1, <1>2
<1>. QED  BY <1>2, <1>5, <1>6, <1>8, <1>10, <1>11, CountingKept

LEMMA AppendNumber ==
  ASSUME NEW g \in Seq(Nat), NEW d \in Nat
  PROVE  /\ Append(g, d) \in Seq(Nat) /\ Len(Append(g, d)) = Len(g) + 1
         /\ Range(Append(g, d)) = Range(g) \cup {d}
         /\ Len(g) \in Nat /\ DOMAIN g = 1..Len(g) /\ DOMAIN Append(g, d) = 1..(Len(g) + 1)
         /\ \A i \in 1..Len(g) : Append(g, d)[i] = g[i]
         /\ Append(g, d)[Len(g) + 1] = d
<1>1. /\ Append(g, d) \in Seq(Nat) /\ Len(Append(g, d)) = Len(g) + 1
      /\ \A i \in 1..Len(g) : Append(g, d)[i] = g[i]
      /\ Append(g, d)[Len(g) + 1] = d
  BY AppendProperties
<1>2. PICK n \in Nat, t \in {Append(g, d)} : n = Len(g) /\ DOMAIN g = 1..n /\ t = Append(g, d)
  BY LenProperties
<1>3. DOMAIN t = 1..(n + 1)
  BY <1>1, <1>2, LenProperties
<1>4. /\ \A i \in 1..(n + 1) : i \in 1..n \/ i = n + 1
      /\ \A i \in 1..n : i \in 1..(n + 1)
      /\ n + 1 \in 1..(n + 1)
  BY <1>2
<1>5. t[n + 1] = d /\ \A i \in 1..n : t[i] = g[i]
  BY <1>1, <1>2
<1>6. Range(t) \subseteq Range(g) \cup {d}
  BY <1>2, <1>3, <1>4, <1>5 DEF Range
<1>7. Range(g) \subseteq Range(t) /\ d \in Range(t)
  BY <1>2, <1>3, <1>4, <1>5 DEF Range
<1>. QED  BY <1>1, <1>2, <1>3, <1>6, <1>7

\* An event is received: got grows by its number, or nothing happens.
LEMMA ReceiveKept ==
  ASSUME EvInv, ev_app \in Ev!Counting, NEW p \in 0..2, Ev!DequeueAt(p),
         got' = got \o [i \in DOMAIN context'[p] |-> context'[p][i].data],
         UNCHANGED <<ev_app, dev_up, waiting, sent, ev_mbuf, ev_pool, ev_lost>>,
         ev_pc' = ev_pc \/ (ev_pc' \in {"poll1", "poll2", "stop"} /\ ev_pc # "setup"),
         worker_pc' = worker_pc \/ (worker_pc' # "forward" /\ worker_pc = "poll")
  PROVE  /\ EvInv'
         /\ \/ got' = got /\ cq' = cq
            \/ \E e \in EvEvent : Dequeued(p, e) /\ got' = Append(got, e.data)
<1>1. EvType /\ EvControl /\ Ev!Queued \in Nat /\ sent \in Nat /\ got \in Seq(Nat)
  BY EvFacts DEF EvType
<1>2. /\ cq' \in [0..2 -> Seq(EvEvent)] /\ context' \in [0..2 -> Seq(EvEvent)]
      /\ \A r \in (0..2) \ {p} : cq'[r] = cq[r] /\ context'[r] = context[r]
      /\ \/ cq' = cq /\ context'[p] = <<>>
         \/ \E e \in EvEvent : Dequeued(p, e)
  BY <1>1, DequeueMoves
<1>3. EvControl'
  BY <1>1 DEF EvControl, Polled, Ev!Counting
<1>4. Ev!Queued + Len(got) = sent /\ Data(AllEvents) \cup Range(got) = 0 .. sent - 1 /\ Len(got) \in Nat
  BY <1>1, EvFacts, LenProperties
<1>5. CASE cq' = cq /\ context'[p] = <<>>
  <2>1. [i \in DOMAIN context'[p] |-> context'[p][i].data] = <<>>
    BY <1>5
  <2>2. got' = got
    BY <1>1, <2>1, ConcatEmptySeq
  <2>3. EvType'
    BY <1>1, <1>2, <2>2 DEF EvType
  <2>4. AllEvents' = AllEvents /\ Ev!Queued' = Ev!Queued
    BY <1>5 DEF AllEvents, Ev!Queued
  <2>. QED  BY <1>3, <1>4, <1>5, <2>2, <2>3, <2>4, CountingKept
<1>6. ASSUME NEW e \in EvEvent, Dequeued(p, e) PROVE EvInv' /\ got' = Append(got, e.data)
  <2>1. AllEvents = AllEvents' \cup {e} /\ Ev!Queued = Ev!Queued' + 1 /\ context'[p] = <<e>>
    BY <1>1, <1>2, <1>6, DequeuedFromQueue DEF Dequeued
  <2>2. e.data \in Nat
    BY DEF EvEvent
  <2>3. [i \in DOMAIN <<e>> |-> <<e>>[i].data] = <<e.data>>
    <3>1. DOMAIN <<e>> = 1..1 /\ DOMAIN <<e.data>> = 1..1 /\ <<e>>[1] = e /\ <<e.data>>[1] = e.data /\ 1..1 = {1}
      OBVIOUS
    <3>. QED  BY <3>1
  <2>4. got' = Append(got, e.data)
    <3>1. got' = got \o <<e.data>>
      BY <2>1, <2>3
    <3>. QED  BY <1>1, <2>2, <3>1, AppendIsConcat
  <2>5. got' \in Seq(Nat) /\ Len(got') = Len(got) + 1 /\ Range(got') = Range(got) \cup {e.data}
    <3>1. PICK d \in Nat : d = e.data
      BY <2>2
    <3>2. /\ Append(got, d) \in Seq(Nat) /\ Len(Append(got, d)) = Len(got) + 1
          /\ Range(Append(got, d)) = Range(got) \cup {d}
      BY <1>1, AppendNumber
    <3>. QED  BY <2>4, <3>1, <3>2
  <2>6. EvType'
    BY <1>1, <1>2, <2>5 DEF EvType
  <2>7. Ev!Queued' \in Nat
    BY <2>6, EventsIn2
  <2>8. Ev!Queued' + Len(got') = sent'
    BY <1>1, <1>4, <2>1, <2>5, <2>7
  <2>9. Data(AllEvents) = Data(AllEvents') \cup {e.data}
    BY <2>1 DEF Data
  <2>10. Data(AllEvents') \cup Range(got') = 0 .. sent' - 1
    BY <1>4, <2>5, <2>9
  <2>. QED  BY <1>3, <2>4, <2>6, <2>8, <2>10, CountingKept
<1>. QED
  <2>1. CASE cq' = cq /\ context'[p] = <<>>
    <3>1. [i \in DOMAIN context'[p] |-> context'[p][i].data] = <<>>
      BY <2>1
    <3>2. got' = got
      BY <1>1, <3>1, ConcatEmptySeq
    <3>. QED  BY <1>5, <2>1, <3>2
  <2>2. CASE \E e \in EvEvent : Dequeued(p, e)
    BY <1>6, <2>2
  <2>. QED  BY <1>2, <2>1, <2>2

\* The device holds at most one event that is not queued.
LEMMA InDeviceBound ==
  ASSUME EvType, EvControl, ev_app \notin Ev!Counting
  PROVE  Ev!InDevice \in Nat /\ Ev!InDevice <= Ev!Queued + 1
<1>1. PICK w \in Nat, a \in Nat, b \in Nat, c \in Nat :
        /\ w = Len(waiting) /\ a = Len(cq[0]) /\ b = Len(cq[1]) /\ c = Len(cq[2])
        /\ Ev!Queued = w + a + b + c
  BY QueuedSum
<1>2. PICK x \in Nat, y \in Nat, z \in Nat :
        x = Len(context[0]) /\ y = Len(context[1]) /\ z = Len(context[2])
  <2>1. context[0] \in Seq(EvEvent) /\ context[1] \in Seq(EvEvent) /\ context[2] \in Seq(EvEvent)
    BY DEF EvType
  <2>. QED  BY <2>1, LenProperties
<1>3. Ev!InDevice = w + (a + x) + (b + y) + (c + z)
  BY <1>1, <1>2, Zenon DEF Ev!InDevice, Ev!AtPort
<1>4. z = 0 /\ ((x <= 1 /\ y = 0) \/ (x = 0 /\ y <= 1))
  <2>1. Len(<<>>) = 0
    OBVIOUS
  <2>2. Len(context[Polled]) <= 1 /\ \A p \in (0..2) \ {Polled} : context[p] = <<>>
    BY DEF EvControl
  <2>3. CASE ev_app = "parsing"
    <3>1. Polled = 0
      BY <2>3 DEF Polled
    <3>2. context[1] = <<>> /\ context[2] = <<>> /\ Len(context[0]) <= 1
      BY <2>2, <3>1
    <3>. QED  BY <1>2, <2>1, <3>2
  <2>4. CASE ev_app # "parsing"
    <3>1. Polled = 1
      BY <2>4 DEF Polled
    <3>2. context[0] = <<>> /\ context[2] = <<>> /\ Len(context[1]) <= 1
      BY <2>2, <3>1
    <3>. QED  BY <1>2, <2>1, <3>2
  <2>. QED  BY <2>3, <2>4
<1>5. /\ w \in Nat /\ a \in Nat /\ b \in Nat /\ c \in Nat /\ x \in Nat /\ y \in Nat /\ z \in Nat
      /\ Ev!Queued = w + a + b + c
  BY <1>1, <1>2
<1>. QED  BY <1>3, <1>4, <1>5

LEMMA SameQueues ==
  ASSUME UNCHANGED <<waiting, cq>>
  PROVE  Ev!Queued' = Ev!Queued
BY DEF Ev!Queued

\* The held mbufs, as a number.
LEMMA HeldIs ==
  /\ ~ev_mbuf /\ worker_pc # "forward" => Ev!Held = 0
  /\ ev_mbuf /\ worker_pc # "forward" => Ev!Held = 1
  /\ ~ev_mbuf /\ worker_pc = "forward" => Ev!Held = 1
BY DEF Ev!Held

LEMMA HeldIs2 ==
  /\ ~ev_mbuf' /\ worker_pc' # "forward" => Ev!Held' = 0
  /\ ev_mbuf' /\ worker_pc' # "forward" => Ev!Held' = 1
  /\ ~ev_mbuf' /\ worker_pc' = "forward" => Ev!Held' = 1
BY DEF Ev!Held

LEMMA MbufSum ==
  ASSUME EvInv, ev_app \notin Ev!Counting
  PROVE  \E o, n, h, l \in Nat :
           /\ o = ev_pool /\ n = Ev!Queued /\ h = Ev!Held /\ l = ev_lost
           /\ o + n + h + l = EV_MBUFS
<1>1. EvType /\ EvControl /\ Ev!Queued \in Nat /\ ev_pool + Ev!Queued + Ev!Held + ev_lost = EV_MBUFS
  BY EvFacts
<1>2. ev_pool \in Nat /\ ev_lost \in Nat
  BY <1>1 DEF EvType
<1>3. Ev!Held \in Nat
  <2>1. Ev!Held = 0 \/ Ev!Held = 1 \/ Ev!Held = 2
    BY DEF Ev!Held
  <2>. QED  BY <2>1
<1>. QED  BY <1>1, <1>2, <1>3

LEMMA RxAdapterKept ==
  ASSUME EvInv, Ev!RxAdapter
  PROVE  EvInv'
<1>1. /\ ev_app = "parsing" /\ dev_up /\ ev_pool > 0 /\ ev_pool' = ev_pool - 1
      /\ \E flow \in {0, 1} : waiting' = Append(waiting, Ev!Event(0, flow, 0))
      /\ UNCHANGED <<ev_app, ev_pc, worker_pc, dev_up, cq, context, sent, got, ev_mbuf, ev_lost>>
  BY DEF Ev!RxAdapter
<1>2. EvType /\ EvControl /\ ev_app \notin Ev!Counting
  BY <1>1, EvFacts DEF Ev!Counting
<1>3. PICK e \in EvEvent : waiting' = Append(waiting, e)
  <2>1. PICK flow \in {0, 1} : waiting' = Append(waiting, Ev!Event(0, flow, 0))
    BY <1>1
  <2>2. Ev!Event(0, flow, 0) \in EvEvent
    BY <2>1 DEF Ev!Event, EvEvent
  <2>. QED  BY <2>1, <2>2
<1>4. waiting' \in Seq(EvEvent) /\ Ev!Queued' = Ev!Queued + 1
  BY <1>1, <1>2, <1>3, EnqueueMoves
<1>5. PICK o \in Nat, n \in Nat, h \in Nat, l \in Nat :
           /\ o = ev_pool /\ n = Ev!Queued /\ h = Ev!Held /\ l = ev_lost
           /\ o + n + h + l = EV_MBUFS
  BY <1>2, MbufSum
<1>6. EvType'
  BY <1>1, <1>2, <1>4, <1>5 DEF EvType
<1>7. EvControl'
  BY <1>1, <1>2 DEF EvControl, Polled
<1>8. Ev!Held' = Ev!Held
  BY <1>1 DEF Ev!Held
<1>9. ev_pool' + Ev!Queued' + Ev!Held' + ev_lost' = EV_MBUFS
  BY <1>1, <1>4, <1>5, <1>8
<1>. QED  BY <1>1, <1>2, <1>6, <1>7, <1>9, MbufsKept

LEMMA PollContext ==
  ASSUME EvType, EvControl, Ev!DequeueAt(Polled), UNCHANGED <<ev_app, waiting>>, ev_app \notin Ev!Counting
  PROVE  /\ cq' \in [0..2 -> Seq(EvEvent)] /\ context' \in [0..2 -> Seq(EvEvent)]
         /\ Len(context'[Polled]) <= 1 /\ \A p \in (0..2) \ {Polled} : context'[p] = <<>>
         /\ \/ Ev!Queued' = Ev!Queued /\ context'[Polled] = <<>> /\ Len(context'[Polled]) = 0
            \/ Ev!Queued = Ev!Queued' + 1 /\ context'[Polled] # <<>> /\ Len(context'[Polled]) = 1
<1>1. PICK p \in 0..2 : p = Polled
  BY DEF Polled
<1>2. /\ cq' \in [0..2 -> Seq(EvEvent)] /\ context' \in [0..2 -> Seq(EvEvent)]
      /\ \A r \in (0..2) \ {p} : cq'[r] = cq[r] /\ context'[r] = context[r]
      /\ \/ cq' = cq /\ context'[p] = <<>>
         \/ \E e \in EvEvent : Dequeued(p, e)
  BY <1>1, DequeueMoves
<1>3. \A r \in (0..2) \ {p} : context'[r] = <<>>
  BY <1>1, <1>2 DEF EvControl
<1>4. CASE cq' = cq /\ context'[p] = <<>>
  <2>1. Len(<<>>) = 0
    OBVIOUS
  <2>2. Ev!Queued' = Ev!Queued /\ Len(context'[p]) = 0
    BY <1>4, <2>1, SameQueues
  <2>. QED  BY <1>1, <1>2, <1>3, <1>4, <2>2
<1>5. CASE \E e \in EvEvent : Dequeued(p, e)
  <2>1. PICK e \in EvEvent : Dequeued(p, e)
    BY <1>5
  <2>2. Ev!Queued = Ev!Queued' + 1 /\ Len(context'[p]) = 1
    BY <1>2, <2>1, DequeuedFromQueue
  <2>3. context'[p] # <<>>
    <3>1. PICK x : x = context'[p] /\ Len(x) = 1
      BY <2>2
    <3>2. x # <<>>
      BY <3>1
    <3>. QED  BY <3>1, <3>2
  <2>. QED  BY <1>1, <1>2, <1>3, <2>2, <2>3
<1>. QED  BY <1>2, <1>4, <1>5

LEMMA MbufPollKept ==
  ASSUME EvInv, Ev!ParserPoll \/ Ev!SecondaryPoll
  PROVE  EvInv'
<1>1. /\ ev_app \in {"parsing", "processes"} /\ worker_pc = "poll" /\ Ev!DequeueAt(Polled)
      /\ UNCHANGED <<ev_app, ev_pc, dev_up, waiting, sent, got, ev_mbuf, ev_lost>>
      /\ \/ /\ ev_app = "parsing" /\ UNCHANGED ev_pool
            /\ worker_pc' = IF context'[Polled] # <<>> THEN "forward" ELSE "poll"
         \/ /\ ev_app = "processes" /\ UNCHANGED worker_pc
            /\ ev_pool' = ev_pool + Len(context'[Polled])
  BY DEF Ev!ParserPoll, Ev!SecondaryPoll, Ev!mbufs, Polled
<1>2. EvType /\ EvControl /\ ev_app \notin Ev!Counting
  BY <1>1, EvFacts DEF Ev!Counting
<1>3. /\ cq' \in [0..2 -> Seq(EvEvent)] /\ context' \in [0..2 -> Seq(EvEvent)]
      /\ Len(context'[Polled]) <= 1 /\ \A p \in (0..2) \ {Polled} : context'[p] = <<>>
      /\ \/ Ev!Queued' = Ev!Queued /\ context'[Polled] = <<>> /\ Len(context'[Polled]) = 0
         \/ Ev!Queued = Ev!Queued' + 1 /\ context'[Polled] # <<>> /\ Len(context'[Polled]) = 1
  BY <1>1, <1>2, PollContext
<1>4. PICK o \in Nat, n \in Nat, h \in Nat, l \in Nat :
           /\ o = ev_pool /\ n = Ev!Queued /\ h = Ev!Held /\ l = ev_lost
           /\ o + n + h + l = EV_MBUFS
  BY <1>2, MbufSum
<1>5. ev_pool' \in Nat
  BY <1>1, <1>3, <1>4
<1>6. EvType'
  BY <1>1, <1>2, <1>3, <1>5 DEF EvType
<1>7. Polled' = Polled
  BY <1>1 DEF Polled
<1>8. EvControl'
  BY <1>1, <1>2, <1>3, <1>7 DEF EvControl
<1>9. Ev!Queued' \in Nat
  BY <1>6, EventsIn2
<1>10. ev_pool' + Ev!Queued' + Ev!Held' + ev_lost' = EV_MBUFS
  <2>1. CASE ev_app = "parsing"
    <3>1. ~ev_mbuf /\ ~ev_mbuf' /\ Ev!Held = 0 /\ ev_pool' = ev_pool /\ ev_lost' = ev_lost
      BY <1>1, <1>2, <2>1, HeldIs DEF EvControl
    <3>2. CASE Ev!Queued' = Ev!Queued /\ context'[Polled] = <<>>
      <4>1. Ev!Held' = 0
        BY <1>1, <2>1, <3>1, <3>2, HeldIs2
      <4>. QED  BY <1>4, <3>1, <3>2, <4>1
    <3>3. CASE Ev!Queued = Ev!Queued' + 1 /\ context'[Polled] # <<>>
      <4>1. Ev!Held' = 1
        BY <1>1, <2>1, <3>1, <3>3, HeldIs2
      <4>. QED  BY <1>4, <1>9, <3>1, <3>3, <4>1
    <3>. QED  BY <1>3, <3>2, <3>3
  <2>2. CASE ev_app = "processes"
    <3>1. Ev!Held' = Ev!Held /\ ev_pool' = ev_pool + Len(context'[Polled]) /\ ev_lost' = ev_lost
      BY <1>1, <2>2 DEF Ev!Held
    <3>2. CASE Ev!Queued' = Ev!Queued /\ Len(context'[Polled]) = 0
      BY <1>4, <3>1, <3>2
    <3>3. CASE Ev!Queued = Ev!Queued' + 1 /\ Len(context'[Polled]) = 1
      BY <1>4, <1>9, <3>1, <3>3
    <3>. QED  BY <1>3, <3>2, <3>3
  <2>. QED  BY <1>1, <2>1, <2>2
<1>. QED  BY <1>1, <1>2, <1>6, <1>8, <1>10, MbufsKept

\* The event that the parser enqueues again.
ToTxQueue(e) == [e EXCEPT !.queue = 1]

LEMMA ParserForwardKept ==
  ASSUME EvInv, Ev!ParserForward
  PROVE  EvInv'
<1>1. /\ worker_pc = "forward" /\ worker_pc' = "poll" /\ context' = [context EXCEPT ![0] = <<>>]
      /\ \/ /\ \E i \in DOMAIN context[0] : waiting' = Append(waiting, ToTxQueue(context[0][i]))
            /\ UNCHANGED ev_lost
         \/ Ev!InDevice >= LIMIT /\ ev_lost' = ev_lost + 1 /\ UNCHANGED waiting
      /\ UNCHANGED <<ev_app, ev_pc, dev_up, cq, sent, got, ev_mbuf, ev_pool>>
  BY DEF Ev!ParserForward, ToTxQueue
<1>2. EvType /\ EvControl /\ ev_app = "parsing" /\ ev_app \notin Ev!Counting /\ ~ev_mbuf
  BY <1>1, EvFacts DEF Ev!Counting, EvControl
<1>3. \A i \in DOMAIN context[0] : ToTxQueue(context[0][i]) \in EvEvent
  <2>1. context[0] \in Seq(EvEvent)
    BY <1>2 DEF EvType
  <2>2. \A x \in EvEvent : ToTxQueue(x) \in EvEvent
    BY DEF ToTxQueue, EvEvent
  <2>. QED  BY <2>1, <2>2, ElementOfSeq, LenProperties
<1>4. PICK o \in Nat, n \in Nat, h \in Nat, l \in Nat :
           /\ o = ev_pool /\ n = Ev!Queued /\ h = Ev!Held /\ l = ev_lost
           /\ o + n + h + l = EV_MBUFS
  BY <1>2, MbufSum
<1>5. h = 1 /\ Ev!Held' = 0
  BY <1>1, <1>2, <1>4, HeldIs, HeldIs2
<1>6. context' \in [0..2 -> Seq(EvEvent)] /\ context'[0] = <<>> /\ \A p \in (0..2) \ {0} : context'[p] = <<>>
  BY <1>1, <1>2, EmptySeq DEF EvType, EvControl, Polled
<1>7. EvControl'
  <2>1. Polled' = 0 /\ Len(context'[0]) <= 1
    <3>1. Len(<<>>) = 0
      OBVIOUS
    <3>2. Len(context'[0]) = 0
      BY <1>6, <3>1
    <3>. QED  BY <1>1, <1>2, <3>2 DEF Polled
  <2>2. ev_pc # "setup"
    BY <1>1, <1>2 DEF EvControl
  <2>. QED  BY <1>1, <1>2, <1>6, <2>1, <2>2 DEF EvControl
<1>8. CASE /\ \E i \in DOMAIN context[0] : waiting' = Append(waiting, ToTxQueue(context[0][i]))
           /\ UNCHANGED ev_lost
  <2>e. PICK e \in EvEvent : waiting' = Append(waiting, e)
    BY <1>3, <1>8
  <2>1. waiting' \in Seq(EvEvent) /\ Ev!Queued' = Ev!Queued + 1
    BY <1>1, <1>2, <2>e, EnqueueMoves
  <2>2. EvType'
    BY <1>1, <1>2, <1>6, <1>8, <2>1 DEF EvType
  <2>3. ev_pool' + Ev!Queued' + Ev!Held' + ev_lost' = EV_MBUFS
    BY <1>1, <1>4, <1>5, <1>8, <2>1
  <2>. QED  BY <1>1, <1>2, <1>7, <1>8, <2>2, <2>3, MbufsKept
<1>9. CASE Ev!InDevice >= LIMIT /\ ev_lost' = ev_lost + 1 /\ UNCHANGED waiting
  <2>1. Ev!Queued' = Ev!Queued
    BY <1>1, <1>9, SameQueues
  <2>2. EvType'
    BY <1>1, <1>2, <1>6, <1>9 DEF EvType
  <2>3. ev_pool' + Ev!Queued' + Ev!Held' + ev_lost' = EV_MBUFS
    BY <1>1, <1>4, <1>5, <1>9, <2>1
  <2>4. Ev!InDevice \in Nat /\ Ev!InDevice <= Ev!Queued + 1
    BY <1>2, InDeviceBound
  <2>5. ev_lost' + LIMIT - 1 <= EV_MBUFS
    BY <1>4, <1>5, <1>9, <2>4, EventAssumption
  <2>. QED  BY <1>1, <1>2, <1>7, <2>2, <2>3, <2>5, MbufsKept
<1>. QED  BY <1>1, <1>8, <1>9

LEMMA PrimaryKept ==
  ASSUME EvInv, Ev!PrimaryAlloc \/ Ev!PrimarySend
  PROVE  EvInv'
<1>1. /\ ev_app = "processes"
      /\ UNCHANGED <<ev_app, worker_pc, dev_up, cq, context, sent, got>>
  BY DEF Ev!PrimaryAlloc, Ev!PrimarySend, Ev!device
<1>2. EvType /\ EvControl /\ ev_app \notin Ev!Counting /\ worker_pc # "forward"
  BY <1>1, EvFacts DEF Ev!Counting, EvControl
<1>3. PICK o \in Nat, n \in Nat, h \in Nat, l \in Nat :
           /\ o = ev_pool /\ n = Ev!Queued /\ h = Ev!Held /\ l = ev_lost
           /\ o + n + h + l = EV_MBUFS
  BY <1>2, MbufSum
<1>4. CASE Ev!PrimaryAlloc
  <2>1. /\ ev_pc = "alloc" /\ ev_pc' = "send" /\ ev_pool > 0 /\ ev_pool' = ev_pool - 1 /\ ev_mbuf' = TRUE
        /\ UNCHANGED <<waiting, ev_lost>>
    BY <1>4 DEF Ev!PrimaryAlloc, Ev!device
  <2>2. EvType'
    BY <1>1, <1>2, <1>3, <2>1 DEF EvType
  <2>3. EvControl'
    BY <1>1, <1>2, <2>1 DEF EvControl, Polled
  <2>4. h = 0 /\ Ev!Held' = 1
    BY <1>1, <1>2, <1>3, <2>1, HeldIs, HeldIs2 DEF EvControl
  <2>5. Ev!Queued' = Ev!Queued
    BY <1>1, <2>1, SameQueues
  <2>6. ev_pool' + Ev!Queued' + Ev!Held' + ev_lost' = EV_MBUFS
    BY <1>3, <2>1, <2>4, <2>5
  <2>. QED  BY <1>1, <1>2, <2>1, <2>2, <2>3, <2>6, MbufsKept
<1>5. CASE Ev!PrimarySend
  <2>1. /\ ev_pc = "send" /\ ev_pc' = "alloc" /\ ev_pool' = ev_pool /\ ev_mbuf' = FALSE
        /\ \/ /\ waiting' = Append(waiting, Ev!Event(0, Ev!FlowId(0), 0))
              /\ UNCHANGED ev_lost
           \/ /\ ~dev_up \/ Ev!InDevice >= LIMIT
              /\ ev_lost' = ev_lost + 1
              /\ UNCHANGED waiting
    BY <1>5 DEF Ev!PrimarySend
  <2>2. EvControl'
    BY <1>1, <1>2, <2>1 DEF EvControl, Polled
  <2>3. h = 1 /\ Ev!Held' = 0
    BY <1>1, <1>2, <1>3, <2>1, HeldIs, HeldIs2 DEF EvControl
  <2>4. CASE waiting' = Append(waiting, Ev!Event(0, Ev!FlowId(0), 0)) /\ UNCHANGED ev_lost
    <3>1. PICK e \in EvEvent : e = Ev!Event(0, Ev!FlowId(0), 0)
      <4>1. Ev!FlowId(0) = 0
        BY <1>1 DEF Ev!FlowId
      <4>2. Ev!Event(0, 0, 0) \in EvEvent
        BY DEF Ev!Event, EvEvent
      <4>. QED  BY <4>1, <4>2
    <3>2. waiting' \in Seq(EvEvent) /\ Ev!Queued' = Ev!Queued + 1
      BY <1>1, <1>2, <2>4, <3>1, EnqueueMoves
    <3>3. EvType'
      BY <1>1, <1>2, <2>1, <2>4, <3>2 DEF EvType
    <3>4. ev_pool' + Ev!Queued' + Ev!Held' + ev_lost' = EV_MBUFS
      BY <1>3, <2>1, <2>3, <2>4, <3>2
    <3>. QED  BY <1>1, <1>2, <2>2, <2>4, <3>3, <3>4, MbufsKept
  <2>5. CASE /\ ~dev_up \/ Ev!InDevice >= LIMIT
             /\ ev_lost' = ev_lost + 1 /\ UNCHANGED waiting
    <3>1. Ev!Queued' = Ev!Queued
      BY <1>1, <2>5, SameQueues
    <3>2. EvType'
      <4>1. ev_lost' \in Nat
        BY <1>3, <2>5
      <4>. QED  BY <1>1, <1>2, <2>1, <2>5, <4>1 DEF EvType
    <3>3. ev_pool' + Ev!Queued' + Ev!Held' + ev_lost' = EV_MBUFS
      BY <1>3, <2>1, <2>3, <2>5, <3>1
    <3>4. Ev!InDevice \in Nat /\ Ev!InDevice <= Ev!Queued + 1
      BY <1>2, InDeviceBound
    <3>5. ~dev_up' \/ ev_lost' + LIMIT - 1 <= EV_MBUFS
      BY <1>1, <1>3, <2>3, <2>5, <3>4, EventAssumption
    <3>. QED  BY <1>1, <1>2, <2>2, <3>2, <3>3, <3>5, MbufsKept
  <2>. QED  BY <2>1, <2>4, <2>5
<1>. QED  BY <1>4, <1>5

LEMMA ScheduleKept ==
  ASSUME EvInv, Ev!Schedule
  PROVE  EvInv'
<1>1. EvType /\ EvControl
  BY EvFacts
<1>2. /\ waiting' \in Seq(EvEvent) /\ cq' \in [0..2 -> Seq(EvEvent)]
      /\ AllEvents' = AllEvents /\ Ev!Queued' = Ev!Queued
      /\ UNCHANGED <<ev_app, ev_pc, worker_pc, dev_up, context, sent, got, ev_mbuf, ev_pool, ev_lost>>
  BY <1>1, ScheduleMoves
<1>3. EvType'
  BY <1>1, <1>2 DEF EvType
<1>4. EvControl'
  BY <1>1, <1>2 DEF EvControl, Polled
<1>5. CASE ev_app \in Ev!Counting
  BY <1>2, <1>3, <1>4, <1>5, EvFacts, CountingKept
<1>6. CASE ev_app \notin Ev!Counting
  <2>1. Ev!Held' = Ev!Held
    BY <1>2 DEF Ev!Held
  <2>2. ev_pool' + Ev!Queued' + Ev!Held' + ev_lost' = EV_MBUFS
    BY <1>2, <1>6, <2>1, EvFacts
  <2>. QED  BY <1>2, <1>3, <1>4, <1>6, <2>2, MbufsKept
<1>. QED  BY <1>5, <1>6

\* The three receive loops.
Receives(p) == /\ ev_app \in Ev!Counting /\ Ev!DequeueAt(p)
               /\ got' = got \o [i \in DOMAIN context'[p] |-> context'[p][i].data]
               /\ UNCHANGED <<ev_app, dev_up, waiting, sent, ev_mbuf, ev_pool, ev_lost>>
               /\ ev_pc' = ev_pc \/ (ev_pc' \in {"poll1", "poll2", "stop"} /\ ev_pc # "setup")
               /\ worker_pc' = worker_pc \/ (worker_pc' # "forward" /\ worker_pc = "poll")

LEMMA PollReceives ==
  ASSUME EvInv, Ev!Poll1 \/ Ev!Poll2 \/ Ev!WorkerPoll
  PROVE  \E p \in 0..2 : Receives(p)
<1>1. EvControl
  BY DEF EvInv
<1>2. CASE Ev!Poll1
  <2>1. Receives(1)
    BY <1>1, <1>2 DEF Ev!Poll1, Ev!Poll, Receives, EvControl, Ev!mbufs
  <2>. QED  BY <2>1
<1>3. CASE Ev!Poll2
  <2>1. Receives(2)
    BY <1>1, <1>3 DEF Ev!Poll2, Ev!Poll, Receives, EvControl, Ev!mbufs
  <2>. QED  BY <2>1
<1>4. CASE Ev!WorkerPoll
  <2>1. Receives(0)
    BY <1>1, <1>4 DEF Ev!WorkerPoll, Receives, Ev!Counting, Ev!mbufs
  <2>. QED  BY <2>1
<1>. QED  BY <1>2, <1>3, <1>4

LEMMA EvStep == EvInv /\ [Next]_vars => EvInv'
<1>. SUFFICES ASSUME EvInv, [Next]_vars PROVE EvInv'
  OBVIOUS
<1>1. Ev!Next \/ UNCHANGED ev_vars
  BY DEF Next, vars, Telemetry, Rings, EventApps, RssWorkers, Reorder, FeatureArc, MacTable
<1>2. CASE \/ Ev!SetupChecked \/ Ev!SetupWorker \/ Ev!SetupParsing \/ Ev!SetupPrimary \/ Ev!SecondaryInit
           \/ Ev!Stop \/ Ev!WaitWorker \/ Ev!PrimaryRetry \/ UNCHANGED ev_vars
  BY <1>2, EvIdleSteps
<1>3. CASE Ev!EnqueueCounted
  BY <1>3, EnqueueCountedKept
<1>4. CASE Ev!Poll1 \/ Ev!Poll2 \/ Ev!WorkerPoll
  <2>1. PICK p \in 0..2 : Receives(p)
    BY <1>4, PollReceives
  <2>. QED  BY <2>1, ReceiveKept DEF Receives
<1>5. CASE Ev!ParserPoll \/ Ev!SecondaryPoll
  BY <1>5, MbufPollKept
<1>6. CASE Ev!ParserForward
  BY <1>6, ParserForwardKept
<1>7. CASE Ev!PrimaryAlloc \/ Ev!PrimarySend
  BY <1>7, PrimaryKept
<1>8. CASE Ev!Schedule
  BY <1>8, ScheduleKept
<1>9. CASE Ev!RxAdapter
  BY <1>9, RxAdapterKept
<1>10. Ev!Ended => UNCHANGED ev_vars
  BY DEF Ev!Ended, Ev!vars, ev_vars
<1>. QED
  BY <1>1, <1>2, <1>3, <1>4, <1>5, <1>6, <1>7, <1>8, <1>9, <1>10 DEF Ev!Next, Ev!Main, Ev!Worker

LEMMA EvInit == Init => EvInv
<1>. SUFFICES ASSUME Init PROVE EvInv
  OBVIOUS
<1>1. /\ ev_app \in Ev!Counting \cup {"parsing", "processes"} /\ ev_pc = "setup" /\ worker_pc = "off"
      /\ dev_up = FALSE /\ waiting = <<>>
      /\ cq = [p \in 0..2 |-> <<>>] /\ context = [p \in 0..2 |-> <<>>]
      /\ sent = 0 /\ got = <<>> /\ ev_mbuf = FALSE /\ ev_pool = EV_MBUFS /\ ev_lost = 0
  BY DEF Init, Ev!Init
<1>2. Range(<<>>) = {} /\ Len(<<>>) = 0 /\ <<>> \in Seq(EvEvent) /\ <<>> \in Seq(Nat)
  BY EmptySeq DEF Range
<1>3. \A p \in 0..2 : cq[p] = <<>> /\ context[p] = <<>>
  BY <1>1
<1>4. EvType
  BY <1>1, <1>2, EventAssumption DEF EvType
<1>5. EvControl
  <2>1. Polled \in 0..2
    BY DEF Polled
  <2>2. Len(context[Polled]) = 0
    BY <1>2, <1>3, <2>1
  <2>. QED  BY <1>1, <1>3, <2>2 DEF EvControl
<1>6. AllEvents = {} /\ Data({}) = {}
  BY <1>1, <1>2, <1>3 DEF AllEvents, Data
<1>7. Ev!Queued = 0
  <2>1. Len(waiting) = 0 /\ Len(cq[0]) = 0 /\ Len(cq[1]) = 0 /\ Len(cq[2]) = 0
    BY <1>1, <1>2, <1>3
  <2>2. Ev!Queued = 0 + 0 + 0 + 0
    BY <2>1, Zenon DEF Ev!Queued
  <2>. QED  BY <2>2
<1>8. Ev!QueuedData = {}
  BY <1>4, <1>6, EventsIn
<1>9. Ev!Held = 0
  BY <1>1, HeldIs
<1>10. {got[i] : i \in DOMAIN got} = {} /\ 0 .. sent - 1 = {}
  BY <1>1
<1>11. EventsConserved
  <2>1. Ev!Queued + Len(got) = sent
    BY <1>1, <1>2, <1>7
  <2>2. ev_pool + Ev!Queued + Ev!Held + ev_lost = EV_MBUFS
    BY <1>1, <1>7, <1>9, EventAssumption
  <2>. QED  BY <1>1, <1>8, <1>10, <2>1, <2>2 DEF EventsConserved, Ev!EventsConserved
<1>. QED  BY <1>4, <1>5, <1>11 DEF EvInv

\* The event applications lose and invent nothing: every event that was
\* enqueued is queued or received, and every mbuf is free, queued, held or
\* counted as lost; mbufs are lost only when the device is full, for every
\* limit of the device and every size of the pool.
THEOREM EventsAreConserved == Spec => []EventsConserved
<1>1. EvInv => EventsConserved
  BY DEF EvInv
<1>. QED  BY <1>1, EvInit, EvStep, PTL DEF Spec

LEMMA OrderSame ==
  ASSUME EvOrder, UNCHANGED <<ev_app, waiting, cq, sent, got>>
  PROVE  EvOrder'
BY DEF EvOrder, AllEvents

LEMMA OrderEnqueue ==
  ASSUME EvInv, EvOrder, Ev!EnqueueCounted, ev_app = "two_ports"
  PROVE  EvOrder'
<1>1. EvType /\ sent \in Nat /\ got \in Seq(Nat) /\ waiting \in Seq(EvEvent)
  BY DEF EvInv, EvType
<1>2. /\ sent' = sent + 1 /\ UNCHANGED <<ev_app, cq, got>>
      /\ waiting' = Append(waiting, Ev!Event(0, Ev!FlowId(sent), sent))
  BY DEF Ev!EnqueueCounted
<1>3. PICK f : f = sent % 2 /\ f \in Nat
  BY <1>1
<1>4. PICK e \in EvEvent : e = Ev!Event(0, Ev!FlowId(sent), sent) /\ e.data = sent /\ e.queue = 0 /\ e.flow = f
  <2>1. Ev!FlowId(sent) = f
    BY <1>3 DEF Ev!FlowId
  <2>2. /\ Ev!Event(0, f, sent) \in EvEvent /\ Ev!Event(0, f, sent).data = sent
        /\ Ev!Event(0, f, sent).queue = 0 /\ Ev!Event(0, f, sent).flow = f
    BY <1>1, <1>3 DEF Ev!Event, EvEvent
  <2>. QED  BY <2>1, <2>2
<1>5. e.flow = e.data % 2
  BY <1>3, <1>4
<1>6. AllEvents' = AllEvents \cup {e}
  BY <1>1, <1>2, <1>4, EnqueueMoves
<1>7. /\ Adds(waiting, e, waiting')
      /\ InOrder(waiting) /\ (\A x \in Range(waiting) : x.data % 2 = e.data % 2 => x.data < e.data) => InOrder(waiting')
  BY <1>1, <1>2, <1>4, AppendEvent
<1>8. Range(waiting') = Range(waiting) \cup {e}
  BY <1>7 DEF Adds
<1>9. Range(waiting) \subseteq AllEvents /\ \A p \in 0..2 : Range(cq[p]) \subseteq AllEvents
  BY DEF AllEvents
<1>10. \A x \in AllEvents : x \in EvEvent /\ x.data \in Nat /\ x.data < sent
  <2>1. \A x \in AllEvents : x.data < sent
    BY DEF EvOrder
  <2>2. Range(waiting) \subseteq EvEvent /\ \A p \in 0..2 : Range(cq[p]) \subseteq EvEvent
    <3>1. \A s \in Seq(EvEvent) : Range(s) \subseteq EvEvent
      BY RangeOfSeq DEF Range
    <3>. QED  BY <1>1, <3>1 DEF EvType
  <2>. QED  BY <2>1, <2>2 DEF AllEvents, EvEvent
<1>11. InOrder(waiting')
  BY <1>4, <1>7, <1>9, <1>10 DEF EvOrder
<1>12. \A n \in Range(got) : n \in Nat /\ n < sent
  <2>1. \A s \in Seq(Nat) : Range(s) \subseteq Nat
    BY RangeOfSeq DEF Range
  <2>. QED  BY <1>1, <2>1 DEF EvOrder
<1>13. \A x \in AllEvents' : x.queue = 0 /\ x.flow = x.data % 2 /\ x.data < sent'
  <2>1. \A x \in AllEvents : x.queue = 0 /\ x.flow = x.data % 2 /\ x.data < sent'
    BY <1>1, <1>2, <1>10 DEF EvOrder
  <2>2. e.queue = 0 /\ e.flow = e.data % 2 /\ e.data < sent'
    BY <1>1, <1>2, <1>4, <1>5
  <2>. QED  BY <1>6, <2>1, <2>2
<1>14. \A p \in 0..2 : \A c \in Range(cq'[p]), d \in Range(waiting') : c.flow = d.flow => c.data < d.data
  BY <1>2, <1>4, <1>8, <1>9, <1>10 DEF EvOrder
<1>15. \A n \in Range(got') : n < sent'
  BY <1>1, <1>2, <1>12
<1>16. \A n \in Range(got'), x \in AllEvents' : n % 2 = x.flow => n < x.data
  BY <1>2, <1>4, <1>6, <1>12 DEF EvOrder
<1>. QED  BY <1>2, <1>11, <1>13, <1>14, <1>15, <1>16 DEF EvOrder

LEMMA OrderReceive ==
  ASSUME EvInv, EvOrder, ev_app = "two_ports", NEW p \in 0..2, Receives(p)
  PROVE  EvOrder'
<1>1. EvType /\ got \in Seq(Nat)
  BY DEF EvInv, EvType
<1>2. UNCHANGED <<ev_app, waiting, sent>>
  BY DEF Receives
<1>3. \A r \in (0..2) \ {p} : cq'[r] = cq[r]
  BY <1>1, DequeueMoves DEF Receives
<1>4. \/ got' = got /\ cq' = cq
      \/ \E e \in EvEvent : Dequeued(p, e) /\ got' = Append(got, e.data)
  BY ReceiveKept DEF Receives
<1>5. CASE got' = got /\ cq' = cq
  BY <1>2, <1>5, OrderSame
<1>6. CASE \E e \in EvEvent : Dequeued(p, e) /\ got' = Append(got, e.data)
  <2>1. PICK e \in EvEvent : Dequeued(p, e) /\ got' = Append(got, e.data)
    BY <1>6
  <2>2. AllEvents = AllEvents' \cup {e}
    BY <1>1, <1>2, <1>3, <2>1, DequeuedFromQueue, SMTT(30)
  <2>3. /\ Range(cq[p]) = Range(cq'[p]) \cup {e}
        /\ InOrder(cq[p]) => /\ InOrder(cq'[p])
                             /\ \A x \in Range(cq'[p]) : x.data % 2 = e.data % 2 => e.data < x.data
    BY <2>1 DEF Dequeued, Adds
  <2>4. PICK d \in Nat, n \in Nat :
          /\ d = e.data /\ n = Len(got) /\ DOMAIN got = 1..n /\ DOMAIN got' = 1..(n + 1)
          /\ Range(got') = Range(got) \cup {d}
          /\ (\A i \in 1..n : got'[i] = got[i]) /\ got'[n + 1] = d
    <3>1. e.data \in Nat
      BY DEF EvEvent
    <3>2. PICK d \in Nat : d = e.data
      BY <3>1
    <3>3. /\ Range(Append(got, d)) = Range(got) \cup {d}
          /\ Len(got) \in Nat /\ DOMAIN got = 1..Len(got) /\ DOMAIN Append(got, d) = 1..(Len(got) + 1)
          /\ \A i \in 1..Len(got) : Append(got, d)[i] = got[i]
          /\ Append(got, d)[Len(got) + 1] = d
      BY <1>1, AppendNumber
    <3>. QED  BY <2>1, <3>2, <3>3
  <2>5. \A r \in 0..2 : Range(cq'[r]) \subseteq Range(cq[r])
    <3>1. \A r \in 0..2 : r # p => cq'[r] = cq[r]
      BY <1>3
    <3>. QED  BY <2>3, <3>1
  <2>6. e \in AllEvents /\ e.flow = d % 2 /\ d < sent /\ InOrder(cq[p])
    BY <2>2, <2>4 DEF EvOrder
  <2>7. \A x \in AllEvents' : x.queue = 0 /\ x.flow = x.data % 2 /\ x.data < sent'
    BY <1>2, <2>2 DEF EvOrder
  <2>8. InOrder(waiting') /\ \A r \in 0..2 : InOrder(cq'[r])
    <3>1. \A r \in 0..2 : r # p => InOrder(cq'[r])
      BY <1>3 DEF EvOrder
    <3>. QED  BY <1>2, <2>3, <2>6, <3>1 DEF EvOrder
  <2>9. \A o, r \in 0..2 : \A b \in Range(cq'[o]), c \in Range(cq'[r]) : b.flow = c.flow => o = r
    BY <2>5 DEF EvOrder
  <2>10. \A r \in 0..2 : \A b \in Range(cq'[r]), c \in Range(waiting') : b.flow = c.flow => b.data < c.data
    BY <1>2, <2>5 DEF EvOrder
  <2>11. \A m \in Range(got') : m < sent'
    BY <1>2, <2>4, <2>6 DEF EvOrder
  <2>12. ASSUME NEW x \in AllEvents', d % 2 = x.flow PROVE d < x.data
    <3>1. e.flow = x.flow /\ x.flow = x.data % 2 /\ e \in Range(cq[p])
      BY <2>3, <2>6, <2>7, <2>12
    <3>2. CASE x \in Range(waiting)
      BY <2>4, <3>1, <3>2 DEF EvOrder
    <3>3. CASE \E r \in 0..2 : x \in Range(cq'[r])
      <4>1. PICK r \in 0..2 : x \in Range(cq'[r])
        BY <3>3
      <4>2. r = p
        BY <2>5, <3>1, <4>1 DEF EvOrder
      <4>3. x.data % 2 = e.data % 2
        BY <2>4, <2>12, <3>1
      <4>. QED  BY <2>3, <2>4, <2>6, <4>1, <4>2, <4>3
    <3>. QED  BY <1>2, <2>12, <3>2, <3>3 DEF AllEvents
  <2>13. \A m \in Range(got'), x \in AllEvents' : m % 2 = x.flow => m < x.data
    BY <2>2, <2>4, <2>12 DEF EvOrder
  <2>14. ASSUME NEW i \in 1..(n + 1), NEW j \in 1..(n + 1), i < j, got'[i] % 2 = got'[j] % 2
         PROVE  got'[i] < got'[j]
    <3>1. i \in 1..n /\ got'[i] = got[i] /\ got[i] \in Range(got)
      BY <2>4, <2>14 DEF Range
    <3>2. CASE j \in 1..n
      BY <2>4, <2>14, <3>1, <3>2 DEF EvOrder
    <3>3. CASE j = n + 1
      <4>1. got'[j] = d /\ got[i] % 2 = e.flow
        BY <2>4, <2>6, <2>14, <3>1, <3>3
      <4>. QED  BY <2>4, <2>6, <3>1, <4>1 DEF EvOrder
    <3>. QED  BY <2>4, <3>2, <3>3
  <2>. QED  BY <1>2, <2>4, <2>7, <2>8, <2>9, <2>10, <2>11, <2>13, <2>14 DEF EvOrder
<1>. QED  BY <1>4, <1>5, <1>6

\* A flow with an event at a port is pinned to it.
LEMMA PinnedBy ==
  ASSUME EvType, NEW e, NEW r \in 0..2, NEW d \in Range(cq[r]), Ev!SameFlow(e, d)
  PROVE  r \in Ev!Pinned(e)
<1>1. PICK s \in Seq(EvEvent), t \in Seq(EvEvent) : s = cq[r] /\ t = context[r]
  BY DEF EvType
<1>2. PICK m \in Nat, n \in Nat : m = Len(s) /\ n = Len(t) /\ DOMAIN s = 1..m
  BY LenProperties
<1>3. PICK i \in 1..m : d = s[i]
  BY <1>1, <1>2 DEF Range
<1>4. /\ Len(s \o t) = m + n
      /\ \A j \in 1 .. m + n : (s \o t)[j] = IF j <= m THEN s[j] ELSE t[j - m]
  BY <1>2, ConcatProperties
<1>5. i \in 1 .. m + n /\ i <= m
  BY <1>2, <1>3
<1>6. i \in 1..Len(s \o t) /\ (s \o t)[i] = d
  BY <1>3, <1>4, <1>5
<1>. QED  BY <1>1, <1>6 DEF Ev!Pinned

LEMMA OrderSchedule ==
  ASSUME EvInv, EvOrder, ev_app = "two_ports", Ev!Schedule
  PROVE  EvOrder'
<1>1. EvType /\ waiting \in Seq(EvEvent)
  BY DEF EvInv, EvType
<1>2. /\ \E i \in DOMAIN waiting, p \in 0..2 : Scheduled(i, p)
      /\ AllEvents' = AllEvents /\ UNCHANGED <<ev_app, sent, got>>
  BY <1>1, ScheduleMoves
<1>3. PICK i \in DOMAIN waiting, p \in 0..2 : Scheduled(i, p)
  BY <1>2
<1>4. PICK e \in EvEvent : e = waiting[i]
  BY <1>1
<1>5. cq[p] \in Seq(EvEvent)
  BY <1>1 DEF EvType
<1>6. /\ \A j \in 1..(i - 1) : ~Ev!SameFlow(waiting[j], e)
      /\ Ev!Pinned(e) \subseteq {p}
      /\ waiting' = Without(waiting, i)
      /\ cq'[p] = Append(cq[p], e)
      /\ \A r \in 0..2 : r # p => cq'[r] = cq[r]
  BY <1>3, <1>4 DEF Scheduled
<1>7. Range(waiting) \subseteq AllEvents /\ \A r \in 0..2 : Range(cq[r]) \subseteq AllEvents
  BY DEF AllEvents
<1>8. \A x \in AllEvents : x.queue = 0 /\ x.flow = x.data % 2
  BY DEF EvOrder
<1>9. Range(waiting) = Range(waiting') \cup {e}
  BY <1>1, <1>3, <1>4, <1>6, TakeEvent DEF Adds
<1>10. InOrder(waiting)
  BY DEF EvOrder
<1>11. \A j \in 1..(i - 1) : waiting[j].data % 2 # waiting[i].data % 2
  <2>. SUFFICES ASSUME NEW j \in 1..(i - 1), waiting[j].data % 2 = e.data % 2 PROVE FALSE
    BY <1>4
  <2>1. j \in DOMAIN waiting
    BY <1>1, <1>3, LenProperties
  <2>2. waiting[j] \in AllEvents /\ e \in AllEvents
    BY <1>7, <1>9, <2>1 DEF Range
  <2>3. Ev!SameFlow(waiting[j], e)
    BY <1>8, <2>2 DEF Ev!SameFlow
  <2>. QED  BY <1>6, <2>3
<1>12. InOrder(waiting') /\ \A x \in Range(waiting') : x.data % 2 = e.data % 2 => e.data < x.data
  BY <1>1, <1>3, <1>4, <1>6, <1>10, <1>11, TakeEvent
<1>13. e \in Range(waiting) /\ e \in AllEvents
  BY <1>7, <1>9
<1>14. ASSUME NEW r \in 0..2, NEW x \in Range(cq[r]), x.flow = e.flow
       PROVE  r = p /\ x.data < e.data
  <2>1. Ev!SameFlow(e, x)
    BY <1>7, <1>8, <1>13, <1>14 DEF Ev!SameFlow
  <2>2. r = p
    BY <1>1, <1>6, <2>1, PinnedBy
  <2>3. x.data < e.data
    BY <1>13, <1>14 DEF EvOrder
  <2>. QED  BY <2>2, <2>3
<1>15. Range(cq'[p]) = Range(cq[p]) \cup {e} /\ InOrder(cq'[p])
  <2>1. InOrder(cq[p])
    BY DEF EvOrder
  <2>2. \A x \in Range(cq[p]) : x.data % 2 = e.data % 2 => x.data < e.data
    BY <1>7, <1>8, <1>13, <1>14
  <2>. QED  BY <1>5, <1>6, <2>1, <2>2, AppendEvent DEF Adds
<1>16. \A r \in 0..2 : InOrder(cq'[r])
  <2>1. \A r \in 0..2 : r # p => InOrder(cq'[r])
    BY <1>6 DEF EvOrder
  <2>. QED  BY <1>15, <2>1
<1>17. \A r \in 0..2 : \A x \in Range(cq'[r]) : x \in Range(cq[r]) \/ (x = e /\ r = p)
  BY <1>6, <1>15
<1>18. ASSUME NEW o \in 0..2, NEW r \in 0..2, NEW b \in Range(cq'[o]), NEW c \in Range(cq'[r]), b.flow = c.flow
       PROVE  o = r
  <2>1. CASE b \in Range(cq[o]) /\ c \in Range(cq[r])
    BY <1>18, <2>1 DEF EvOrder
  <2>2. CASE b = e /\ o = p /\ c \in Range(cq[r])
    BY <1>14, <1>18, <2>2
  <2>3. CASE c = e /\ r = p /\ b \in Range(cq[o])
    BY <1>14, <1>18, <2>3
  <2>. QED  BY <1>17, <1>18, <2>1, <2>2, <2>3
<1>19. ASSUME NEW r \in 0..2, NEW c \in Range(cq'[r]), NEW d \in Range(waiting'), c.flow = d.flow
       PROVE  c.data < d.data
  <2>1. d \in Range(waiting)
    BY <1>9, <1>19
  <2>2. CASE c \in Range(cq[r])
    BY <1>19, <2>1, <2>2 DEF EvOrder
  <2>3. CASE c = e
    <3>1. d.data % 2 = e.data % 2
      BY <1>7, <1>8, <1>13, <1>19, <2>1, <2>3
    <3>. QED  BY <1>12, <1>19, <2>3, <3>1
  <2>. QED  BY <1>17, <1>19, <2>2, <2>3
<1>20. \A x \in AllEvents' : x.queue = 0 /\ x.flow = x.data % 2 /\ x.data < sent'
  BY <1>2 DEF EvOrder
<1>21. /\ \A n \in Range(got') : n < sent'
       /\ \A n \in Range(got'), x \in AllEvents' : n % 2 = x.flow => n < x.data
       /\ \A k, j \in DOMAIN got' : k < j /\ got'[k] % 2 = got'[j] % 2 => got'[k] < got'[j]
  BY <1>2 DEF EvOrder
<1>. QED  BY <1>12, <1>16, <1>18, <1>19, <1>20, <1>21 DEF EvOrder

LEMMA OrderStep == EvInv /\ EvOrder /\ [Next]_vars => EvOrder'
<1>. SUFFICES ASSUME EvInv, EvOrder, [Next]_vars PROVE EvOrder'
  OBVIOUS
<1>1. Ev!Next \/ UNCHANGED ev_vars
  BY DEF Next, vars, Telemetry, Rings, EventApps, RssWorkers, Reorder, FeatureArc, MacTable
<1>2. ev_app' = ev_app
  <2>1. Ev!Main => ev_app' = ev_app
    BY DEF Ev!Main, Ev!SetupChecked, Ev!SetupWorker, Ev!SetupParsing, Ev!SetupPrimary,
      Ev!EnqueueCounted, Ev!Poll1, Ev!Poll2, Ev!Poll, Ev!Stop, Ev!WaitWorker, Ev!PrimaryAlloc,
      Ev!PrimaryRetry, Ev!PrimarySend, Ev!vars
  <2>2. Ev!Worker => ev_app' = ev_app
    BY DEF Ev!Worker, Ev!SecondaryInit, Ev!WorkerPoll, Ev!ParserPoll, Ev!ParserForward, Ev!SecondaryPoll
  <2>3. Ev!Schedule \/ Ev!RxAdapter \/ Ev!Ended => ev_app' = ev_app
    BY DEF Ev!Schedule, Ev!RxAdapter, Ev!Ended, Ev!vars
  <2>. QED  BY <1>1, <2>1, <2>2, <2>3 DEF Ev!Next, ev_vars
<1>3. CASE ev_app # "two_ports"
  BY <1>2, <1>3 DEF EvOrder
<1>4. CASE ev_app = "two_ports"
  <2>1. CASE Ev!EnqueueCounted
    BY <1>4, <2>1, OrderEnqueue
  <2>2. CASE Ev!Poll1 \/ Ev!Poll2 \/ Ev!WorkerPoll
    <3>1. PICK p \in 0..2 : Receives(p)
      BY <2>2, PollReceives
    <3>. QED  BY <1>4, <3>1, OrderReceive
  <2>3. CASE Ev!Schedule
    BY <1>4, <2>3, OrderSchedule
  <2>4. CASE Ev!SetupChecked \/ Ev!Stop \/ Ev!Ended \/ UNCHANGED ev_vars
    <3>1. UNCHANGED <<ev_app, waiting, cq, sent, got>>
      BY <2>4 DEF Ev!SetupChecked, Ev!Stop, Ev!Ended, ev_vars, Ev!vars, Ev!device
    <3>. QED  BY <3>1, OrderSame
  <2>5. ~Ev!ParserForward
    BY <1>4 DEF Ev!ParserForward, EvInv, EvControl
  <2>6. /\ ~Ev!SetupWorker /\ ~Ev!SetupParsing /\ ~Ev!SetupPrimary /\ ~Ev!SecondaryInit
        /\ ~Ev!WaitWorker /\ ~Ev!RxAdapter /\ ~Ev!ParserPoll /\ ~Ev!PrimaryAlloc
        /\ ~Ev!PrimaryRetry /\ ~Ev!PrimarySend /\ ~Ev!SecondaryPoll
    BY <1>4 DEF Ev!SetupWorker, Ev!SetupParsing, Ev!SetupPrimary, Ev!SecondaryInit, Ev!WaitWorker,
      Ev!RxAdapter, Ev!ParserPoll, Ev!PrimaryAlloc, Ev!PrimaryRetry, Ev!PrimarySend, Ev!SecondaryPoll
  <2>. QED  BY <1>1, <2>1, <2>2, <2>3, <2>4, <2>5, <2>6 DEF Ev!Next, Ev!Main, Ev!Worker
<1>. QED  BY <1>3, <1>4

LEMMA OrderInit == Init => EvOrder
<1>. SUFFICES ASSUME Init PROVE EvOrder
  OBVIOUS
<1>1. waiting = <<>> /\ cq = [p \in 0..2 |-> <<>>] /\ got = <<>>
  BY DEF Init, Ev!Init
<1>2. Range(<<>>) = {} /\ DOMAIN <<>> = {}
  BY EmptySeq DEF Range
<1>3. \A p \in 0..2 : Range(cq[p]) = {} /\ DOMAIN cq[p] = {}
  BY <1>1, <1>2
<1>4. AllEvents = {}
  BY <1>1, <1>2, <1>3 DEF AllEvents
<1>. QED  BY <1>1, <1>2, <1>3, <1>4 DEF EvOrder, InOrder

\* eventdev/02practice: whatever ports the scheduler chooses, the events of one
\* flow are received in the order they were sent, for every number of events,
\* limit of the device and depth of a port.
THEOREM FlowsStayInOrder == Spec => []FlowsInOrder
<1>1. EvOrder => FlowsInOrder
  BY DEF EvOrder, FlowsInOrder, Ev!FlowsInOrder
<1>. QED  BY <1>1, EvInit, EvStep, OrderInit, OrderStep, PTL DEF Spec

-----------------------------------------------------------------------------
(* Loops *)

\* Every set of numbers has a least one.
LEMMA LeastNumber ==
  ASSUME NEW T, T \subseteq Nat, T # {}
  PROVE  \E x \in T : \A y \in T : x <= y
<1> DEFINE R == StrictSubsetOrdering(Nat)
           F == FiniteSubsetsOf(Nat)
           U == {0..x : x \in T}
<1>1. IsWellFoundedOn(R, F)
  BY FS_StrictSubsetOrderingWellFounded
<1>2. U \subseteq F /\ U # {}
  <2>1. \A x \in T : 0..x \in SUBSET Nat /\ IsFiniteSet(0..x)
    BY FS_Interval
  <2>. QED  BY <2>1, Zenon DEF FiniteSubsetsOf
<1>3. PICK u \in U : \A v \in U : ~(<<v, u>> \in R)
  <2> HIDE DEF R, F, U
  <2>. QED  BY <1>1, <1>2, WFMin
<1>4. PICK x \in T : u = 0..x
  BY <1>3
<1>5. ASSUME NEW y \in T, ~(x <= y) PROVE FALSE
  <2>1. 0..y \in U /\ 0..y \subseteq Nat /\ 0..y \subseteq 0..x /\ 0..y # 0..x
    BY <1>5
  <2>2. <<0..y, 0..x>> \in R
    BY <2>1 DEF StrictSubsetOrdering
  <2>. QED  BY <2>1, <2>2, <1>3, <1>4
<1>. QED  BY <1>5

\* Induction up to n: a set with 0 that is closed under adding one.
LEMMA UpTo ==
  ASSUME NEW n \in Nat, NEW T, 0 \in T, \A i \in 0..(n - 1) : i \in T => i + 1 \in T
  PROVE  0..n \subseteq T
<1> SUFFICES ASSUME ~(0..n \subseteq T) PROVE FALSE
  OBVIOUS
<1> DEFINE B == (0..n) \ T
<1>1. B \subseteq Nat /\ B # {}
  OBVIOUS
<1>2. PICK x \in B : \A y \in B : x <= y
  <2> HIDE DEF B
  <2>. QED  BY <1>1, LeastNumber
<1>3. x \in 0..n /\ x # 0
  BY <1>2
<1>4. x - 1 \in 0..(n - 1) /\ ~(x <= x - 1) /\ (x - 1) + 1 = x
  BY <1>3
<1>5. x - 1 \notin B
  BY <1>2, <1>4
<1>. QED  BY <1>2, <1>4, <1>5

\* The values of a variable that a loop of n rounds changes.
Rounds(n, A, h) == \A i \in 1..n, x \in A : h[i][x] \in A
Runs(n, A, a, h) == \E f \in [0..n -> A] : f[0] = a /\ \A i \in 1..n : f[i] = h[i][f[i - 1]]

LEMMA Loop ==
  ASSUME NEW n \in Nat, NEW A, NEW a \in A, NEW h, Rounds(n, A, h)
  PROVE  Runs(n, A, a, h)
<1>r. \A i \in 1..n, x \in A : h[i][x] \in A
  BY DEF Rounds
<1> DEFINE P(m) == \E f \in [0..m -> A] : f[0] = a /\ \A i \in 1..m : f[i] = h[i][f[i - 1]]
           T == {m \in 0..n : P(m)}
<1>1. 0 \in T
  <2>1. [i \in 0..0 |-> a] \in [0..0 -> A] /\ [i \in 0..0 |-> a][0] = a /\ 1..0 = {}
    OBVIOUS
  <2>2. P(0)
    BY <2>1
  <2>. QED  BY <2>2
<1>2. ASSUME NEW m \in 0..(n - 1), m \in T PROVE m + 1 \in T
  <2>1. PICK f \in [0..m -> A] : f[0] = a /\ \A i \in 1..m : f[i] = h[i][f[i - 1]]
    BY <1>2
  <2> DEFINE g == [i \in 0..(m + 1) |-> IF i <= m THEN f[i] ELSE h[i][f[m]]]
  <2>2. g \in [0..(m + 1) -> A]
    <3>1. m + 1 \in 1..n /\ m \in 0..m
      OBVIOUS
    <3>2. f[m] \in A
      BY <3>1
    <3>3. ASSUME NEW i \in 0..(m + 1) PROVE g[i] \in A
      <4>1. CASE i <= m
        BY <4>1, i \in 0..m
      <4>2. CASE i = m + 1
        BY <1>r, <4>2, <3>1, <3>2
      <4>. QED  BY <4>1, <4>2
    <3>. QED  BY <3>3
  <2>3. g[0] = a
    BY <2>1
  <2>4. ASSUME NEW i \in 1..(m + 1) PROVE g[i] = h[i][g[i - 1]]
    <3>1. CASE i <= m
      <4>1. i \in 1..m /\ i \in 0..(m + 1) /\ i - 1 \in 0..(m + 1) /\ i - 1 <= m
        BY <3>1
      <4>2. g[i] = f[i] /\ g[i - 1] = f[i - 1]
        BY <4>1
      <4>. QED  BY <4>1, <4>2, <2>1
    <3>2. CASE i = m + 1
      <4>1. i - 1 = m /\ ~(i <= m) /\ i \in 0..(m + 1) /\ m \in 0..(m + 1) /\ m <= m
        BY <3>2
      <4>2. g[i] = h[i][f[m]] /\ g[i - 1] = f[m]
        BY <4>1
      <4>. QED  BY <4>2
    <3>. QED  BY <3>1, <3>2
  <2>5. P(m + 1)
    <3> HIDE DEF g
    <3>. QED  BY <2>2, <2>3, <2>4
  <2>. QED  BY <2>5
<1>3. n \in T
  <2> HIDE DEF T
  <2>1. 0..n \subseteq T
    BY <1>1, <1>2, UpTo
  <2>. QED  BY <2>1
<1>. QED  BY <1>3 DEF Runs

-----------------------------------------------------------------------------
(* The reorder buffer *)

\* Sequence numbers wrap around once.
LEMMA Wrap ==
  ASSUME NEW M \in Nat, M > 0, NEW a \in Int, -M <= a, a < 2 * M
  PROVE  a % M = IF a < 0 THEN a + M ELSE IF a < M THEN a ELSE a - M
<1>1. CASE a < 0
  <2>1. a % M = a + M
    BY <1>1
  <2>. QED  BY <1>1, <2>1
<1>2. CASE 0 <= a /\ a < M
  <2>1. a % M = a
    BY <1>2
  <2>. QED  BY <1>2, <2>1
<1>3. CASE M <= a
  <2>1. a % M = a - M
    BY <1>3
  <2>. QED  BY <1>3, <2>1
<1>. QED  BY <1>1, <1>2, <1>3

Numbers == 0 .. SEQ_MOD - 1

\* The k-th number after a.
After(a, k) == IF a + k < SEQ_MOD THEN a + k ELSE a + k - SEQ_MOD

LEMMA SeqSizes ==
  /\ SEQ_MOD \in Nat /\ BURST \in Nat /\ 8 <= BURST /\ 8 * BURST <= SEQ_MOD
  /\ Ord!Window \in Nat /\ BURST <= Ord!Window
BY SmallAppsAssumption, ReorderAssumption DEF Ord!Window

LEMMA AfterIs ==
  ASSUME NEW a \in Numbers, NEW k \in 0..BURST
  PROVE  /\ After(a, k) \in Numbers /\ (a + k) % SEQ_MOD = After(a, k)
         /\ (After(a, k) - a) % SEQ_MOD = k
<1>1. PICK M \in Nat : M = SEQ_MOD /\ M > 0 /\ k < M /\ a \in Int /\ 0 <= a /\ a < M /\ k \in Int /\ 0 <= k
  BY SeqSizes DEF Numbers
<1>2. PICK b : b = After(a, k) /\ b = IF a + k < M THEN a + k ELSE a + k - M
  BY <1>1 DEF After
<1>3. b \in Int /\ 0 <= b /\ b < M
  BY <1>1, <1>2
<1>4. (a + k) % M = b
  <2>1. a + k \in Int /\ -M <= a + k /\ a + k < 2 * M /\ ~(a + k < 0)
    BY <1>1
  <2>. QED  BY <1>1, <1>2, <2>1, Wrap
<1>5. (b - a) % M = k
  <2>1. b - a \in Int /\ -M <= b - a /\ b - a < 2 * M /\ b - a < M
    BY <1>1, <1>3
  <2>2. (b - a) % M = IF b - a < 0 THEN b - a + M ELSE b - a
    BY <1>1, <2>1, Wrap
  <2>. QED  BY <1>1, <1>2, <2>2
<1>. QED  BY <1>1, <1>2, <1>3, <1>4, <1>5 DEF Numbers

LEMMA AfterDistinct ==
  ASSUME NEW a \in Numbers, NEW i \in 0..BURST, NEW j \in 0..BURST, After(a, i) = After(a, j)
  PROVE  i = j
BY SeqSizes DEF After, Numbers

\* The first n numbers from a on.
From(a, n) == {After(a, i) : i \in 0 .. n - 1}

Buffers == [started : BOOLEAN, min_seqn : Numbers, held : SUBSET Numbers]

\* Numbers that lie in the window are all kept.
Fitting(s) ==
  /\ s \in Seq(Numbers) /\ Len(s) >= 1
  /\ ~buf.started => s[1] = due
  /\ \A i \in 1..Len(s) : (s[i] - due) % SEQ_MOD < Ord!Window

LEMMA InsertOne ==
  ASSUME NEW b \in Buffers, NEW n \in Numbers, b.min_seqn = due, ~b.started => n = due,
         (n - due) % SEQ_MOD < Ord!Window
  PROVE  /\ Ord!Fits(b, n)
         /\ Ord!Insert(b, n) = [started |-> TRUE, min_seqn |-> due, held |-> b.held \cup {n}]
<1>1. Ord!Started(b, n) = [started |-> TRUE, min_seqn |-> due, held |-> b.held]
  BY DEF Ord!Started, Buffers
<1>2. Ord!Fits(b, n)
  BY <1>1 DEF Ord!Fits, Ord!InWindow
<1>3. PICK c : c = Ord!Started(b, n)
  OBVIOUS
<1>4. [c EXCEPT !.held = @ \cup {n}] = [started |-> TRUE, min_seqn |-> due, held |-> b.held \cup {n}]
  <2>1. PICK h : h = b.held \cup {n}
    OBVIOUS
  <2>2. c = [started |-> TRUE, min_seqn |-> due, held |-> b.held] /\ c.held = b.held
    BY <1>1, <1>3
  <2>3. [c EXCEPT !.held = h] = [started |-> TRUE, min_seqn |-> due, held |-> h]
    <3>1. PICK t : t = TRUE
      OBVIOUS
    <3>2. c = [started |-> t, min_seqn |-> due, held |-> b.held]
      BY <2>2, <3>1
    <3>3. [c EXCEPT !.held = h] = [started |-> t, min_seqn |-> due, held |-> h]
      BY <3>2
    <3>. QED  BY <3>1, <3>3
  <2>4. [c EXCEPT !.held = @ \cup {n}] = [c EXCEPT !.held = h]
    BY <2>1, <2>2
  <2>. QED  BY <2>1, <2>3, <2>4
<1>5. Ord!Insert(b, n) = [c EXCEPT !.held = @ \cup {n}]
  BY <1>2, <1>3 DEF Ord!Insert
<1>. QED  BY <1>2, <1>4, <1>5

LEMMA InsertAllFits ==
  ASSUME buf \in Buffers, buf.min_seqn = due, buf.held = {}, failed = 0, NEW s, Fitting(s), Ord!InsertAll(s)
  PROVE  /\ buf' = [started |-> TRUE, min_seqn |-> due, held |-> Range(s)] /\ failed' = 0
         /\ seq_pc' = "drain" /\ UNCHANGED <<seq_app, drained, due>>
<1>1. PICK n \in Nat : n = Len(s) /\ n >= 1 /\ DOMAIN s = 1..n /\ \A i \in 1..n : s[i] \in Numbers
  BY LenProperties DEF Fitting
<1>2. due \in Numbers
  BY DEF Buffers
<1> DEFINE held(i) == {s[j] : j \in 1..i}
           full(i) == [started |-> TRUE, min_seqn |-> due, held |-> held(i)]
           state(i) == [buf |-> IF i = 0 THEN buf ELSE full(i), failed |-> 0]
           more(g, i) == [buf |-> Ord!Insert(g.buf, s[i]),
                          failed |-> g.failed + IF Ord!Fits(g.buf, s[i]) THEN 0 ELSE 1]
<1>3. ASSUME NEW i \in 1..n PROVE state(i) = more(state(i - 1), i)
  <2>1. PICK b \in Buffers : b = state(i - 1).buf /\ b.min_seqn = due /\ b.held = held(i - 1) /\ (~b.started => s[i] = due)
    <3>1. CASE i = 1
      <4>1. held(i - 1) = {} /\ state(i - 1).buf = buf
        BY <3>1
      <4>. QED  BY <3>1, <4>1 DEF Fitting
    <3>2. CASE i # 1
      <4>1. held(i - 1) \subseteq Numbers
        BY <1>1
      <4>2. full(i - 1) \in Buffers
        BY <1>2, <4>1 DEF Buffers
      <4>3. state(i - 1).buf = full(i - 1)
        BY <3>2
      <4>. QED  BY <4>2, <4>3
    <3>. QED  BY <3>1, <3>2
  <2>2. held(i) = held(i - 1) \cup {s[i]}
    <3>1. 1..i = (1..(i - 1)) \cup {i}
      OBVIOUS
    <3>. QED  BY <3>1
  <2>3. s[i] \in Numbers /\ (s[i] - due) % SEQ_MOD < Ord!Window
    BY <1>1 DEF Fitting
  <2>4. Ord!Fits(b, s[i]) /\ Ord!Insert(b, s[i]) = full(i)
    <3>1. PICK m \in Numbers, h \in {held(i - 1)}, o \in {held(i)} : m = s[i] /\ h = held(i - 1) /\ o = held(i) /\ o = h \cup {m}
      BY <2>2, <2>3
    <3>2. /\ Ord!Fits(b, m)
          /\ Ord!Insert(b, m) = [started |-> TRUE, min_seqn |-> due, held |-> b.held \cup {m}]
      BY <2>1, <2>3, <3>1, InsertOne
    <3>3. b.held \cup {m} = o
      BY <2>1, <3>1
    <3>. QED  BY <3>1, <3>2, <3>3
  <2> HIDE DEF full
  <2>5. state(i) = [buf |-> full(i), failed |-> 0]
    OBVIOUS
  <2>6. PICK old : old = state(i - 1) /\ old.buf = b /\ old.failed = 0
    <3>1. state(i - 1).failed = 0
      OBVIOUS
    <3> HIDE DEF state
    <3>. QED  BY <2>1, <3>1
  <2>7. more(old, i) = [buf |-> full(i), failed |-> 0]
    BY <2>4, <2>6
  <2>. QED  BY <2>5, <2>6, <2>7
<1> DEFINE g == [i \in 0..n |-> state(i)]
<1>4. g = [i \in 0..n |-> IF i = 0 THEN [buf |-> buf, failed |-> failed]
                          ELSE [buf    |-> Ord!Insert(g[i - 1].buf, s[i]),
                                failed |-> g[i - 1].failed + IF Ord!Fits(g[i - 1].buf, s[i]) THEN 0 ELSE 1]]
  <2>1. g[0] = [buf |-> buf, failed |-> failed]
    OBVIOUS
  <2>2. ASSUME NEW i \in 1..n
        PROVE  g[i] = [buf    |-> Ord!Insert(g[i - 1].buf, s[i]),
                       failed |-> g[i - 1].failed + IF Ord!Fits(g[i - 1].buf, s[i]) THEN 0 ELSE 1]
    <3>1. i \in 0..n /\ i - 1 \in 0..n
      OBVIOUS
    <3>2. g[i] = state(i) /\ g[i - 1] = state(i - 1)
      BY <3>1
    <3> HIDE DEF g, state
    <3>. QED  BY <1>3, <3>2
  <2>3. \A i \in 0..n : i = 0 \/ i \in 1..n
    OBVIOUS
  <2>4. DOMAIN g = 0..n /\ g = [i \in 0..n |-> g[i]]
    OBVIOUS
  <2> HIDE DEF g
  <2>. QED  BY <2>1, <2>2, <2>3, <2>4
<1> HIDE DEF g
<1> DEFINE k == CHOOSE after : after = [i \in 0..Len(s) |->
                  IF i = 0 THEN [buf |-> buf, failed |-> failed]
                  ELSE [buf    |-> Ord!Insert(after[i - 1].buf, s[i]),
                        failed |-> after[i - 1].failed + IF Ord!Fits(after[i - 1].buf, s[i]) THEN 0 ELSE 1]]
<1>5. buf' = k[n].buf /\ failed' = k[n].failed /\ seq_pc' = "drain" /\ UNCHANGED <<seq_app, drained, due>>
  BY <1>1 DEF Ord!InsertAll
<1>6. k = [i \in 0..n |-> IF i = 0 THEN [buf |-> buf, failed |-> failed]
                          ELSE [buf    |-> Ord!Insert(k[i - 1].buf, s[i]),
                                failed |-> k[i - 1].failed + IF Ord!Fits(k[i - 1].buf, s[i]) THEN 0 ELSE 1]]
  BY <1>1, <1>4, Zenon
<1> HIDE DEF k
<1>7. k[0] = state(0)
  <2>1. 0 \in 0..n
    OBVIOUS
  <2>2. k[0] = [buf |-> buf, failed |-> failed]
    BY <1>6, <2>1
  <2>. QED  BY <2>2
<1>8. ASSUME NEW i \in 0..(n - 1), k[i] = state(i) PROVE k[i + 1] = state(i + 1)
  <2>1. PICK j \in 1..n : j = i + 1 /\ j - 1 = i /\ j # 0 /\ j \in 0..n
    OBVIOUS
  <2>2. k[j] = more(k[i], j)
    BY <1>6, <2>1
  <2> HIDE DEF state, more
  <2>3. state(j) = more(state(i), j)
    BY <1>3, <2>1
  <2>. QED  BY <1>8, <2>1, <2>2, <2>3
<1>9. k[n] = state(n)
  <2> DEFINE G == {i \in 0..n : k[i] = state(i)}
  <2> HIDE DEF state
  <2>1. 0 \in G /\ \A i \in 0..(n - 1) : i \in G => i + 1 \in G
    BY <1>7, <1>8
  <2>2. 0..n \subseteq G
    <3> HIDE DEF G
    <3>. QED  BY <2>1, UpTo
  <2>. QED  BY <2>2
<1>10. held(n) = Range(s)
  BY <1>1 DEF Range
<1>11. state(n) = [buf |-> full(n), failed |-> 0]
  <2> HIDE DEF full
  <2>. QED  BY <1>1
<1>12. full(n) = [started |-> TRUE, min_seqn |-> due, held |-> Range(s)]
  BY <1>10
<1>13. k[n].buf = full(n) /\ k[n].failed = 0
  <2> HIDE DEF full, state
  <2>. QED  BY <1>9, <1>11
<1>. QED  BY <1>5, <1>12, <1>13

\* A burst of n numbers from due on is in the buffer.
BurstHeld(n) ==
  /\ seq_app # "dynamic_seqno" /\ buf.started /\ buf.held = From(due, n)
  /\ seq_app \in {"rx_burst", "rx_burst_wide"} => seq_counter = (due + n) % SEQ_MOD
  /\ seq_app = "sample" => n = 8

SeqInv ==
  /\ seq_app \in {"rx_burst", "rx_burst_wide", "sample", "dynamic_seqno"}
  /\ buf \in Buffers /\ buf.min_seqn = due /\ failed = 0
  /\ drained = [i \in DOMAIN drained |-> (due - Len(drained) + i - 1) % SEQ_MOD]
  /\ seq_pc # "drain" => buf.held = {}
  /\ seq_pc # "drain" /\ ~buf.started => due = 0
  /\ seq_pc # "drain" /\ seq_app \in {"rx_burst", "rx_burst_wide"} => seq_counter = due
  /\ seq_app = "sample" => /\ seq_pc \in {"setup", "rx"} => due = 0 /\ seq_counter = 0
                           /\ seq_pc = "done" => Len(drained) = 8
  /\ seq_pc = "drain" => \E n \in 1..BURST : BurstHeld(n)

\* What Insert* leaves behind.
LEMMA InsertKept ==
  ASSUME SeqInv, seq_pc = "rx", seq_app # "dynamic_seqno", NEW s, NEW n \in 1..BURST, Fitting(s),
         Ord!InsertAll(s), Range(s) = From(due, n),
         seq_app \in {"rx_burst", "rx_burst_wide"} => seq_counter' = (due + n) % SEQ_MOD,
         seq_app = "sample" => n = 8
  PROVE  SeqInv'
<1>1. buf \in Buffers /\ buf.min_seqn = due /\ buf.held = {} /\ failed = 0 /\ due \in Numbers
  BY DEF SeqInv, Buffers
<1>2. /\ buf' = [started |-> TRUE, min_seqn |-> due, held |-> Range(s)] /\ failed' = 0
      /\ seq_pc' = "drain" /\ UNCHANGED <<seq_app, drained, due>>
  BY <1>1, InsertAllFits
<1>3. From(due, n) \subseteq Numbers
  <2>1. \A i \in 0 .. n - 1 : i \in 0..BURST
    BY SeqSizes
  <2>. QED  BY <1>1, <2>1, AfterIs DEF From
<1>4. buf' \in Buffers /\ buf'.started /\ buf'.min_seqn = due' /\ buf'.held = From(due, n)
  BY <1>1, <1>2, <1>3 DEF Buffers
<1>5. From(due', n) = From(due, n)
  BY <1>2
<1>6. BurstHeld(n)'
  BY <1>2, <1>4, <1>5 DEF BurstHeld
<1>7. drained' = [i \in DOMAIN drained' |-> (due' - Len(drained') + i - 1) % SEQ_MOD]
  BY <1>2 DEF SeqInv
<1>8. seq_pc' = "drain" /\ failed' = 0 /\ seq_app' \in {"rx_burst", "rx_burst_wide", "sample", "dynamic_seqno"}
  BY <1>2 DEF SeqInv
<1>. QED  BY <1>4, <1>6, <1>7, <1>8 DEF SeqInv

LEMMA InsertBurstKept ==
  ASSUME SeqInv, NEW n \in 1..BURST, Ord!InsertBurst(n)
  PROVE  SeqInv'
<1>1. seq_pc = "rx" /\ seq_app \in {"rx_burst", "rx_burst_wide"} /\ seq_counter = due /\ due \in Numbers
  BY DEF SeqInv, Ord!InsertBurst, Buffers
<1>2. PICK s : s = [i \in 1..n |-> (due + i - 1) % SEQ_MOD] /\ Ord!InsertAll(s)
  BY <1>1 DEF Ord!InsertBurst
<1>3. n \in Nat /\ n >= 1 /\ n <= BURST
  BY SeqSizes
<1>4. ASSUME NEW i \in 1..n PROVE s[i] = After(due, i - 1) /\ s[i] \in Numbers /\ (s[i] - due) % SEQ_MOD = i - 1
  <2>1. PICK k \in 0..BURST : k = i - 1 /\ due + i - 1 = due + k
    BY <1>1, <1>3, SeqSizes DEF Numbers
  <2>2. s[i] = (due + k) % SEQ_MOD
    BY <1>2, <2>1
  <2>. QED  BY <1>1, <2>1, <2>2, AfterIs
<1>5. s \in Seq(Numbers) /\ Len(s) = n /\ DOMAIN s = 1..n
  <2>1. DOMAIN s = 1..n
    BY <1>2
  <2>2. s \in [1..n -> Numbers]
    BY <1>2, <1>4, <2>1
  <2>3. s \in Seq(Numbers)
    BY <1>3, <2>2
  <2>. QED  BY <1>3, <2>1, <2>3, LenProperties
<1>6. Fitting(s)
  <2>1. 1 \in 1..n /\ s[1] = due
    <3>1. 1 \in 1..n /\ due \in Nat /\ due < SEQ_MOD /\ due + 0 = due /\ SEQ_MOD \in Nat
      BY <1>1, <1>3, SeqSizes DEF Numbers
    <3>2. After(due, 1 - 1) = due
      BY <3>1 DEF After
    <3>. QED  BY <1>4, <3>1, <3>2
  <2>2. \A i \in 1..n : (s[i] - due) % SEQ_MOD < Ord!Window
    <3>1. \A i \in 1..n : i - 1 < Ord!Window
      BY <1>3, SeqSizes
    <3>. QED  BY <1>4, <3>1
  <2>. QED  BY <1>3, <1>5, <2>1, <2>2 DEF Fitting
<1>7. Range(s) = From(due, n)
  <2>1. \A i \in 0..(n - 1) : i + 1 \in 1..n /\ (i + 1) - 1 = i
    BY <1>3
  <2>2. \A i \in 1..n : i - 1 \in 0..(n - 1)
    BY <1>3
  <2>3. \A i \in 0..(n - 1) : s[i + 1] = After(due, i)
    BY <1>4, <2>1
  <2>4. Range(s) \subseteq From(due, n)
    BY <1>4, <1>5, <2>2 DEF Range, From
  <2>5. From(due, n) \subseteq Range(s)
    BY <1>5, <2>1, <2>3 DEF Range, From
  <2>. QED  BY <2>4, <2>5
<1>8. seq_counter' = (due + n) % SEQ_MOD
  BY <1>1 DEF Ord!InsertBurst
<1>. QED  BY <1>1, <1>2, <1>6, <1>7, <1>8, InsertKept

LEMMA InsertSampleKept ==
  ASSUME SeqInv, Ord!InsertSample
  PROVE  SeqInv'
<1>1. seq_pc = "rx" /\ seq_app = "sample" /\ due = 0 /\ Ord!InsertAll(Ord!seq_list)
  BY DEF SeqInv, Ord!InsertSample
<1>2. SEQ_MOD \in Nat /\ SEQ_MOD >= 64 /\ 8 \in 1..BURST /\ 8 <= Ord!Window /\ Ord!Window \in Nat
  BY SeqSizes
<1>3. PICK s : s = Ord!seq_list
  OBVIOUS
<1>4. /\ Len(s) = 8 /\ DOMAIN s = 1..8 /\ s[1] = 0
      /\ Range(s) = 0..7 /\ s \in Seq(0..7)
  <2>1. s = <<0, 2, 1, 4, 3, 6, 5, 7>>
    BY <1>3 DEF Ord!seq_list
  <2>2. Len(s) = 8 /\ DOMAIN s = 1..8 /\ s \in Seq(0..7)
    BY <2>1
  <2>3. s[1] = 0 /\ s[2] = 2 /\ s[3] = 1 /\ s[4] = 4 /\ s[5] = 3 /\ s[6] = 6 /\ s[7] = 5 /\ s[8] = 7
    BY <2>1
  <2>4. 1..8 = {1, 2, 3, 4, 5, 6, 7, 8} /\ 0..7 = {0, 1, 2, 3, 4, 5, 6, 7}
    OBVIOUS
  <2>5. Range(s) = 0..7
    BY <2>2, <2>3, <2>4 DEF Range
  <2>. QED  BY <2>2, <2>3, <2>5
<1>5. \A i \in 1..8 : s[i] \in 0..7
  <2>1. \A i \in 1..8 : s[i] \in Range(s)
    BY <1>4 DEF Range
  <2>. QED  BY <1>4, <2>1
<1>6. \A x \in 0..7 : x \in Numbers /\ (x - 0) % SEQ_MOD = x /\ After(0, x) = x
  <2>. SUFFICES ASSUME NEW x \in 0..7 PROVE x \in Numbers /\ (x - 0) % SEQ_MOD = x /\ After(0, x) = x
    OBVIOUS
  <2>1. x \in Int /\ 0 <= x /\ x < SEQ_MOD /\ x - 0 = x
    BY <1>2
  <2>2. x % SEQ_MOD = x
    BY <1>2, <2>1
  <2>. QED  BY <1>2, <2>1, <2>2 DEF Numbers, After
<1>7. Fitting(s)
  <2>1. s \in Seq(Numbers)
    <3>1. s \in [1..8 -> Numbers]
      BY <1>4, <1>5, <1>6
    <3>2. PICK n \in Nat : n = 8
      OBVIOUS
    <3>3. s \in [1..n -> Numbers]
      BY <3>1, <3>2
    <3>. QED  BY <3>3
  <2>2. \A i \in 1..8 : (s[i] - due) % SEQ_MOD < Ord!Window
    <3>1. \A i \in 1..8 : (s[i] - 0) % SEQ_MOD = s[i]
      BY <1>5, <1>6
    <3>2. \A i \in 1..8 : s[i] < Ord!Window
      BY <1>2, <1>5
    <3>. QED  BY <1>1, <3>1, <3>2
  <2>. QED  BY <1>1, <1>4, <2>1, <2>2 DEF Fitting
<1>8. From(due, 8) = 0..7
  <2>1. 0 .. 8 - 1 = 0..7
    OBVIOUS
  <2>2. {After(0, x) : x \in 0..7} = 0..7
    BY <1>6
  <2>. QED  BY <1>1, <2>1, <2>2 DEF From
<1>. QED  BY <1>1, <1>2, <1>3, <1>4, <1>7, <1>8, InsertKept

\* A drain returns the whole burst.
LEMMA DrainsBurst ==
  ASSUME buf \in Buffers, buf.min_seqn = due, NEW n \in 1..BURST, buf.held = From(due, n)
  PROVE  /\ Ord!Ready(buf, BURST) = n
         /\ Ord!Drained(buf, BURST) = [i \in 1..n |-> (due + i - 1) % SEQ_MOD]
<1>1. due \in Numbers /\ n \in Nat /\ n >= 1 /\ n <= BURST /\ BURST \in Nat
  BY SeqSizes DEF Buffers
<1>2. PICK lengths : lengths = {k \in 0..BURST : \A i \in 0 .. k - 1 : (buf.min_seqn + i) % SEQ_MOD \in buf.held}
  OBVIOUS
<1>3. \A i \in 0..BURST : (due + i) % SEQ_MOD = After(due, i)
  BY <1>1, AfterIs
<1>4. \A i \in 0..BURST : (due + i) % SEQ_MOD \in From(due, n) <=> i \in 0 .. n - 1
  <2>. SUFFICES ASSUME NEW i \in 0..BURST PROVE After(due, i) \in From(due, n) <=> i \in 0 .. n - 1
    BY <1>3
  <2>1. ASSUME After(due, i) \in From(due, n) PROVE i \in 0 .. n - 1
    <3>1. PICK j \in 0 .. n - 1 : After(due, i) = After(due, j)
      BY <2>1 DEF From
    <3>2. j \in 0..BURST
      BY <1>1
    <3>. QED  BY <1>1, <3>1, <3>2, AfterDistinct
  <2>2. ASSUME i \in 0 .. n - 1 PROVE After(due, i) \in From(due, n)
    BY <2>2 DEF From
  <2>. QED  BY <2>1, <2>2
<1>5. n \in lengths
  <2>1. \A i \in 0 .. n - 1 : i \in 0..BURST
    BY <1>1
  <2>2. \A i \in 0 .. n - 1 : (buf.min_seqn + i) % SEQ_MOD \in buf.held
    BY <1>4, <2>1
  <2>. QED  BY <1>1, <1>2, <2>2
<1>6. ASSUME NEW j \in lengths PROVE j \in 0..BURST /\ j <= n
  <2>1. j \in 0..BURST /\ \A i \in 0 .. j - 1 : (due + i) % SEQ_MOD \in From(due, n)
    BY <1>2, <1>6
  <2>2. ASSUME n < j PROVE FALSE
    <3>1. n \in 0 .. j - 1 /\ n \in 0..BURST /\ n \notin 0 .. n - 1
      BY <1>1, <2>1, <2>2
    <3>. QED  BY <1>4, <2>1, <3>1
  <2>. QED  BY <1>1, <2>1, <2>2
<1>7. Ord!Ready(buf, BURST) = n
  <2>1. Ord!Ready(buf, BURST) = CHOOSE k \in lengths : \A j \in lengths : j <= k
    BY <1>2 DEF Ord!Ready
  <2>2. \A k \in lengths : (\A j \in lengths : j <= k) <=> k = n
    BY <1>1, <1>5, <1>6
  <2>. QED  BY <1>5, <2>1, <2>2
<1>8. Ord!Drained(buf, BURST) = [i \in 1..n |-> (due + i - 1) % SEQ_MOD]
  BY <1>7 DEF Ord!Drained
<1>. QED  BY <1>7, <1>8

\* The same numbers, counted back from the one after the last.
LEMMA BackFrom ==
  ASSUME NEW a \in Numbers, NEW n \in 1..BURST, NEW i \in 1..n
  PROVE  (After(a, n) - n + i - 1) % SEQ_MOD = (a + i - 1) % SEQ_MOD
<1>1. PICK M \in Nat : M = SEQ_MOD /\ M > 0 /\ n < M /\ a \in Int /\ 0 <= a /\ a < M /\ n \in Int /\ i \in Int /\ 1 <= i /\ i <= n
  BY SeqSizes DEF Numbers
<1>2. PICK b \in Int : b = After(a, n) /\ b = IF a + n < M THEN a + n ELSE a + n - M
  BY <1>1 DEF After
<1>3. CASE a + n < M
  <2>1. b - n + i - 1 = a + i - 1
    BY <1>1, <1>2, <1>3
  <2>. QED  BY <1>1, <1>2, <2>1
<1>4. CASE ~(a + n < M)
  <2>1. PICK x \in Int, y \in Int : x = a + i - 1 /\ y = b - n + i - 1 /\ y = x - M
    BY <1>1, <1>2, <1>4
  <2>2. 0 <= x /\ x < 2 * M /\ -M <= y /\ y < M /\ -M <= x /\ y < 2 * M
    BY <1>1, <2>1
  <2>3. x % M = IF x < 0 THEN x + M ELSE IF x < M THEN x ELSE x - M
    BY <1>1, <2>1, <2>2, Wrap
  <2>4. y % M = IF y < 0 THEN y + M ELSE IF y < M THEN y ELSE y - M
    BY <1>1, <2>1, <2>2, Wrap
  <2>5. x % M = y % M
    BY <1>1, <2>1, <2>2, <2>3, <2>4
  <2>. QED  BY <1>1, <1>2, <2>1, <2>5
<1>. QED  BY <1>3, <1>4

LEMMA DrainKept ==
  ASSUME SeqInv, Ord!Drain
  PROVE  SeqInv'
<1>1. seq_pc = "drain" /\ buf \in Buffers /\ buf.min_seqn = due /\ failed = 0 /\ due \in Numbers
  BY DEF SeqInv, Ord!Drain, Buffers
<1>2. PICK n \in 1..BURST : BurstHeld(n)
  BY <1>1 DEF SeqInv
<1>3. n \in Nat /\ n >= 1 /\ n \in 0..BURST
  BY SeqSizes
<1>4. buf.held = From(due, n) /\ seq_app # "dynamic_seqno"
  BY <1>2 DEF BurstHeld
<1>5. PICK out : out = Ord!Drained(buf, BURST) /\ out = [i \in 1..n |-> (due + i - 1) % SEQ_MOD]
  BY <1>1, <1>4, DrainsBurst
<1>6. \A i \in 1..n : out[i] = After(due, i - 1)
  <2>. SUFFICES ASSUME NEW i \in 1..n PROVE out[i] = After(due, i - 1)
    OBVIOUS
  <2>1. PICK k \in 0..BURST : k = i - 1 /\ due + i - 1 = due + k
    BY <1>1, <1>3, SeqSizes DEF Numbers
  <2>2. out[i] = (due + k) % SEQ_MOD
    BY <1>5, <2>1
  <2>. QED  BY <1>1, <2>1, <2>2, AfterIs
<1>7. DOMAIN out = 1..n /\ Len(out) = n
  BY <1>3, <1>5
<1>8. Ord!Range(out) = From(due, n)
  <2>1. \A i \in 0..(n - 1) : i + 1 \in 1..n /\ (i + 1) - 1 = i
    BY <1>3
  <2>2. \A i \in 1..n : i - 1 \in 0..(n - 1)
    BY <1>3
  <2>3. \A i \in 0..(n - 1) : out[i + 1] = After(due, i)
    BY <1>6, <2>1
  <2>4. Ord!Range(out) \subseteq From(due, n)
    BY <1>6, <1>7, <2>2 DEF Ord!Range, From
  <2>5. From(due, n) \subseteq Ord!Range(out)
    BY <1>7, <2>1, <2>3 DEF Ord!Range, From
  <2>. QED  BY <2>4, <2>5
<1>9. (due + n) % SEQ_MOD = After(due, n) /\ After(due, n) \in Numbers
  BY <1>1, <1>3, AfterIs
<1>10. /\ buf' = [buf EXCEPT !.min_seqn = After(due, n), !.held = {}]
       /\ drained' = out /\ due' = After(due, n)
       /\ seq_pc' = IF seq_app = "sample" THEN "done" ELSE "rx"
       /\ UNCHANGED <<seq_app, seq_counter, failed>>
  <2>1. /\ buf' = [buf EXCEPT !.min_seqn = (buf.min_seqn + Len(out)) % SEQ_MOD, !.held = buf.held \ Ord!Range(out)]
        /\ drained' = out /\ due' = (due + Len(out)) % SEQ_MOD
        /\ seq_pc' = IF seq_app = "sample" THEN "done" ELSE "rx"
        /\ UNCHANGED <<seq_app, seq_counter, failed>>
    BY <1>5 DEF Ord!Drain
  <2>2. buf.held \ Ord!Range(out) = {}
    BY <1>4, <1>8
  <2>. QED  BY <1>1, <1>7, <1>9, <2>1, <2>2
<1>11. buf' \in Buffers /\ buf'.min_seqn = due' /\ buf'.held = {} /\ buf'.started = buf.started
  BY <1>1, <1>9, <1>10 DEF Buffers
<1>12. buf.started
  BY <1>2 DEF BurstHeld
<1>13. drained' = [i \in DOMAIN drained' |-> (due' - Len(drained') + i - 1) % SEQ_MOD]
  <2>1. \A i \in 1..n : (After(due, n) - n + i - 1) % SEQ_MOD = (due + i - 1) % SEQ_MOD
    BY <1>1, BackFrom
  <2>2. out = [i \in 1..n |-> (After(due, n) - n + i - 1) % SEQ_MOD]
    BY <1>5, <2>1
  <2>. QED  BY <1>7, <1>10, <2>2
<1>14. seq_app \in {"rx_burst", "rx_burst_wide"} => seq_counter' = due'
  BY <1>2, <1>9, <1>10 DEF BurstHeld
<1>15. seq_app = "sample" => seq_pc' = "done" /\ Len(drained') = 8
  BY <1>2, <1>7, <1>10 DEF BurstHeld
<1>16. failed' = 0 /\ seq_app' = seq_app /\ seq_app' \in {"rx_burst", "rx_burst_wide", "sample", "dynamic_seqno"}
  BY <1>1, <1>10 DEF SeqInv
<1>17. seq_pc' \in {"rx", "done"}
  BY <1>10
<1>. QED  BY <1>11, <1>12, <1>13, <1>14, <1>15, <1>16, <1>17 DEF SeqInv

LEMMA SeqStep == SeqInv /\ [Next]_vars => SeqInv'
<1>. SUFFICES ASSUME SeqInv, [Next]_vars PROVE SeqInv'
  OBVIOUS
<1>1. Ord!Next \/ UNCHANGED seq_vars
  BY DEF Next, vars, Telemetry, Rings, EventApps, RssWorkers, Reorder, FeatureArc, MacTable
<1>2. CASE UNCHANGED seq_vars \/ Ord!Ended
  <2>1. UNCHANGED <<seq_app, seq_pc, buf, seq_counter, failed, drained, due>>
    BY <1>2 DEF seq_vars, Ord!Ended, Ord!vars
  <2>2. (\E n \in 1..BURST : BurstHeld(n)) <=> (\E n \in 1..BURST : BurstHeld(n)')
    BY <2>1 DEF BurstHeld, From
  <2>. QED  BY <2>1, <2>2 DEF SeqInv
<1>3. CASE Ord!Setup
  <2>1. /\ seq_pc = "setup" /\ seq_pc' \in {"rx", "exited"}
        /\ UNCHANGED <<seq_app, buf, seq_counter, failed, drained, due>>
    BY <1>3 DEF Ord!Setup
  <2>. QED  BY <2>1 DEF SeqInv
<1>4. ASSUME NEW n \in 1..BURST, Ord!Number(n) PROVE SeqInv'
  <2>1. /\ seq_app = "dynamic_seqno" /\ seq_pc = "rx" /\ seq_pc' \in {"rx", "done"}
        /\ UNCHANGED <<seq_app, buf, failed, drained, due>>
    BY <1>4 DEF Ord!Number
  <2>. QED  BY <2>1 DEF SeqInv
<1>. QED
  BY <1>1, <1>2, <1>3, <1>4, InsertBurstKept, InsertSampleKept, DrainKept DEF Ord!Next, Ord!Receive

LEMMA SeqInit == Init => SeqInv
<1>. SUFFICES ASSUME Init PROVE SeqInv
  OBVIOUS
<1>1. /\ seq_app \in {"rx_burst", "rx_burst_wide", "sample", "dynamic_seqno"}
      /\ seq_pc = "setup"
      /\ buf = [started |-> FALSE, min_seqn |-> 0, held |-> {}]
      /\ seq_counter = 0 /\ due = 0 /\ failed = 0 /\ drained = <<>>
  BY DEF Init, Ord!Init
<1>2. 0 \in Numbers
  BY SeqSizes DEF Numbers
<1>3. buf \in Buffers /\ buf.min_seqn = due /\ buf.held = {}
  BY <1>1, <1>2 DEF Buffers
<1>4. drained = [i \in DOMAIN drained |-> (due - Len(drained) + i - 1) % SEQ_MOD]
  BY <1>1
<1>. QED  BY <1>1, <1>3, <1>4 DEF SeqInv

\* The reordering applications drain every burst completely, in order and
\* without a gap, and no insert is refused, for every burst size of at least
\* the sample's eight packets and every counter of at least twice the window,
\* also when the counter wraps around.
THEOREM ReorderDrainsInOrder == Spec => []DrainedInOrder
<1>1. SeqInv => DrainedInOrder
  <2>. SUFFICES ASSUME SeqInv PROVE DrainedInOrder
    OBVIOUS
  <2>1. Len(Ord!seq_list) = 8
    BY DEF Ord!seq_list
  <2>2. failed = 0 /\ drained = [i \in DOMAIN drained |-> (due - Len(drained) + i - 1) % SEQ_MOD]
    BY DEF SeqInv
  <2>3. seq_pc \in {"rx", "done"} => buf.held = {}
    BY DEF SeqInv
  <2>4. seq_pc = "rx" /\ seq_app # "dynamic_seqno" => due = seq_counter
    BY DEF SeqInv
  <2>5. seq_pc = "done" /\ seq_app = "sample" => Len(drained) = 8
    BY DEF SeqInv
  <2>. QED  BY <2>1, <2>2, <2>3, <2>4, <2>5 DEF DrainedInOrder, Ord!DrainedInOrder
<1>. QED  BY <1>1, SeqInit, SeqStep, PTL DEF Spec

-----------------------------------------------------------------------------
(* The feature arc *)

NodesOrNull == Arc!Nodes \cup {NULL}

LEMMA ArcNames ==
  /\ Arc!Start \in Arc!Nodes /\ Arc!End \in Arc!Nodes /\ Arc!Start # Arc!End
  /\ Features \subseteq Arc!Nodes /\ Arc!Start \notin Features /\ Arc!End \notin Features
  /\ NULL \notin Arc!Nodes /\ NULL \notin Seq(Features)
BY ArcAssumption DEF Arc!Start, Arc!End, Arc!Nodes

\* The chain: the start node, then the features of s.
At(s, j) == IF j = 0 THEN Arc!Start ELSE s[j]

Distinct(s) == \A i, j \in DOMAIN s : s[i] = s[j] => i = j

\* The features of s are linked one to the next, after the start node.
Linked(nx, s) == \A j \in 0 .. Len(s) - 1 : nx[At(s, j)] = At(s, j + 1)

\* A chain of distinct features in links that are otherwise anything.
Chain(nx, s) ==
  /\ nx \in [Arc!Nodes -> NodesOrNull] /\ nx[Arc!End] = NULL
  /\ s \in Seq(Features) /\ Distinct(s) /\ Linked(nx, s)

ArcInv ==
  /\ features \in Seq(Features) /\ Distinct(features)
  /\ \/ built = NULL /\ next = [n \in Arc!Nodes |-> NULL]
     \/ /\ Chain(next, built) /\ next[At(built, Len(built))] = Arc!End
        /\ Len(built) <= Len(features)

\* dump_pipeline prints the chain, if it is given enough steps.
Walk(c) ==
  /\ c \in Seq(Arc!Nodes) /\ Len(c) >= 1 /\ c[1] = Arc!Start
  /\ \A i \in 1 .. Len(c) - 1 : next[c[i]] = c[i + 1]
  /\ next[c[Len(c)]] = NULL

LEMMA WalkPrints ==
  ASSUME NEW c, Walk(c), NEW k \in Nat, Len(c) <= k + 1
  PROVE  Arc!dump_pipeline[k] = c
<1>1. PICK l \in Nat : l = Len(c) /\ l >= 1 /\ DOMAIN c = 1..l /\ \A i \in 1..l : c[i] \in Arc!Nodes
  BY LenProperties DEF Walk
<1> DEFINE pre(n) == IF n + 1 <= l THEN SubSeq(c, 1, n + 1) ELSE c
           step(w) == IF next[Arc!Last(w)] = NULL THEN w ELSE Append(w, next[Arc!Last(w)])
           g == [n \in Nat |-> pre(n)]
<1>2. ASSUME NEW n \in 1..l
      PROVE  /\ SubSeq(c, 1, n) \in Seq(Arc!Nodes) /\ Len(SubSeq(c, 1, n)) = n
             /\ \A j \in 1..n : SubSeq(c, 1, n)[j] = c[j]
  <2>1. \A j \in 1..n : c[j] \in Arc!Nodes
    BY <1>1
  <2>2. /\ SubSeq(c, 1, n) \in Seq(Arc!Nodes) /\ Len(SubSeq(c, 1, n)) = n
        /\ \A j \in 1..(n - 1 + 1) : SubSeq(c, 1, n)[j] = c[1 + j - 1]
    BY <1>1, <2>1, SubSeqProperties DEF Walk
  <2>3. n - 1 + 1 = n /\ \A j \in 1..n : 1 + j - 1 = j
    BY <1>1
  <2>. QED  BY <2>2, <2>3
<1>3. ASSUME NEW n \in Nat, n # 0 PROVE pre(n) = step(pre(n - 1))
  <2>1. CASE n <= l - 1
    <3>1. n \in 1..l /\ n + 1 \in 1..l /\ (n - 1) + 1 = n /\ n \in 1 .. l - 1
      BY <1>1, <1>3, <2>1
    <3>2. PICK w \in Seq(Arc!Nodes) : w = SubSeq(c, 1, n) /\ Len(w) = n /\ DOMAIN w = 1..n /\ \A j \in 1..n : w[j] = c[j]
      <4>1. /\ SubSeq(c, 1, n) \in Seq(Arc!Nodes) /\ Len(SubSeq(c, 1, n)) = n
            /\ \A j \in 1..n : SubSeq(c, 1, n)[j] = c[j]
        BY <1>2, <3>1
      <4>. QED  BY <4>1, LenProperties
    <3>3. PICK v \in Seq(Arc!Nodes) : v = SubSeq(c, 1, n + 1) /\ Len(v) = n + 1 /\ DOMAIN v = 1..(n + 1) /\ \A j \in 1..(n + 1) : v[j] = c[j]
      <4>1. PICK m \in 1..l : m = n + 1
        BY <3>1
      <4>2. /\ SubSeq(c, 1, m) \in Seq(Arc!Nodes) /\ Len(SubSeq(c, 1, m)) = m
            /\ \A j \in 1..m : SubSeq(c, 1, m)[j] = c[j]
        BY <1>2
      <4>. QED  BY <4>1, <4>2, LenProperties
    <3>4. pre(n - 1) = w /\ pre(n) = v
      BY <1>1, <3>1, <3>2, <3>3
    <3>5. PICK x \in Arc!Nodes : x = c[n + 1] /\ next[Arc!Last(w)] = x /\ x # NULL
      <4>1. Arc!Last(w) = c[n]
        BY <3>1, <3>2 DEF Arc!Last
      <4>2. next[c[n]] = c[n + 1] /\ c[n + 1] \in Arc!Nodes
        BY <1>1, <3>1 DEF Walk
      <4>. QED  BY <4>1, <4>2, ArcNames
    <3>6. Append(w, x) = v
      <4>1. PICK u \in Seq(Arc!Nodes) : /\ u = Append(w, x) /\ Len(u) = n + 1 /\ u[n + 1] = x
                                        /\ DOMAIN u = 1..(n + 1) /\ \A j \in 1..n : u[j] = w[j]
        <5>1. /\ Append(w, x) \in Seq(Arc!Nodes) /\ Len(Append(w, x)) = n + 1
              /\ Append(w, x)[n + 1] = x /\ \A j \in 1..n : Append(w, x)[j] = w[j]
          BY <3>2, <3>5, AppendProperties
        <5>. QED  BY <5>1, LenProperties
      <4>2. \A j \in 1..(n + 1) : j \in 1..n \/ j = n + 1
        BY <3>1
      <4>3. \A j \in 1..(n + 1) : u[j] = v[j]
        BY <3>2, <3>3, <3>5, <4>1, <4>2
      <4>. QED  BY <3>3, <4>1, <4>3, SeqEqual
    <3> HIDE DEF pre
    <3>. QED  BY <3>4, <3>5, <3>6
  <2>2. CASE ~(n <= l - 1)
    <3>1. pre(n) = c
      BY <1>1, <1>3, <2>2
    <3>2. pre(n - 1) = c
      <4>1. CASE n = l
        <5>1. SubSeq(c, 1, l) = c
          <6>1. l \in 1..l
            BY <1>1
          <6>2. PICK w \in Seq(Arc!Nodes) : w = SubSeq(c, 1, l) /\ Len(w) = l /\ \A j \in 1..l : w[j] = c[j]
            BY <1>2, <6>1
          <6>. QED  BY <1>1, <6>2, SeqEqual DEF Walk
        <5>. QED  BY <1>1, <4>1, <5>1
      <4>2. CASE n # l
        BY <1>1, <1>3, <2>2, <4>2
      <4>. QED  BY <4>1, <4>2
    <3>3. next[Arc!Last(c)] = NULL
      BY DEF Walk, Arc!Last
    <3> HIDE DEF pre
    <3>. QED  BY <3>1, <3>2, <3>3
  <2>. QED  BY <2>1, <2>2
<1>4. pre(0) = <<Arc!Start>>
  <2>1. 1 \in 1..l
    BY <1>1
  <2>2. PICK w \in Seq(Arc!Nodes) : w = SubSeq(c, 1, 1) /\ Len(w) = 1 /\ w[1] = Arc!Start
    <3>1. /\ SubSeq(c, 1, 1) \in Seq(Arc!Nodes) /\ Len(SubSeq(c, 1, 1)) = 1
          /\ \A j \in 1..1 : SubSeq(c, 1, 1)[j] = c[j]
      BY <1>2, <2>1
    <3>2. SubSeq(c, 1, 1)[1] = c[1]
      BY <3>1, 1 \in 1..1
    <3>. QED  BY <3>1, <3>2 DEF Walk
  <2>3. PICK x \in Arc!Nodes : x = Arc!Start
    BY ArcNames
  <2>4. w = <<x>>
    <3>1. <<x>> \in Seq(Arc!Nodes) /\ Len(<<x>>) = 1 /\ <<x>>[1] = x
      OBVIOUS
    <3>2. \A j \in 1..1 : j = 1
      OBVIOUS
    <3>3. \A j \in 1..Len(w) : w[j] = <<x>>[j]
      BY <2>2, <2>3, <3>1, <3>2
    <3>. QED  BY <2>2, <3>1, <3>3, SeqEqual
  <2>5. 0 + 1 = 1 /\ 0 + 1 <= l
    BY <1>1
  <2>6. pre(0) = SubSeq(c, 1, 1)
    BY <2>5
  <2>. QED  BY <2>2, <2>3, <2>4, <2>6
<1> HIDE DEF pre
<1>5. g = [n \in Nat |-> IF n = 0 THEN <<Arc!Start>>
                         ELSE IF next[Arc!Last(g[n - 1])] = NULL THEN g[n - 1]
                              ELSE Append(g[n - 1], next[Arc!Last(g[n - 1])])]
  <2>1. ASSUME NEW n \in Nat, n # 0
        PROVE  g[n] = IF next[Arc!Last(g[n - 1])] = NULL THEN g[n - 1]
                      ELSE Append(g[n - 1], next[Arc!Last(g[n - 1])])
    <3>1. n - 1 \in Nat
      BY <2>1
    <3>2. g[n] = pre(n) /\ g[n - 1] = pre(n - 1)
      BY <3>1
    <3>3. pre(n) = step(pre(n - 1))
      BY <1>3, <2>1
    <3> HIDE DEF g
    <3>. QED  BY <3>2, <3>3
  <2>2. g[0] = <<Arc!Start>>
    BY <1>4
  <2>3. g = [n \in Nat |-> g[n]]
    OBVIOUS
  <2> HIDE DEF g
  <2>. QED  BY <2>1, <2>2, <2>3
<1> HIDE DEF g
<1> DEFINE f == CHOOSE dump : dump = [n \in Nat |-> IF n = 0 THEN <<Arc!Start>>
                         ELSE IF next[Arc!Last(dump[n - 1])] = NULL THEN dump[n - 1]
                              ELSE Append(dump[n - 1], next[Arc!Last(dump[n - 1])])]
<1>6. Arc!dump_pipeline = f
  BY DEF Arc!dump_pipeline
<1>7. f = [n \in Nat |-> IF n = 0 THEN <<Arc!Start>>
                         ELSE IF next[Arc!Last(f[n - 1])] = NULL THEN f[n - 1]
                              ELSE Append(f[n - 1], next[Arc!Last(f[n - 1])])]
  BY <1>5, Zenon
<1> HIDE DEF f
<1>8. f[0] = pre(0)
  BY <1>4, <1>7
<1>9. ASSUME NEW n \in 0..(k - 1), f[n] = pre(n) PROVE f[n + 1] = pre(n + 1)
  <2>1. PICK m \in Nat : m = n + 1 /\ m # 0 /\ m - 1 = n
    OBVIOUS
  <2>2. f[m] = step(f[n])
    BY <1>7, <2>1
  <2>3. pre(m) = step(pre(n))
    BY <1>3, <2>1
  <2> HIDE DEF step
  <2>. QED  BY <1>9, <2>1, <2>2, <2>3
<1>10. f[k] = pre(k)
  <2> DEFINE G == {n \in 0..k : f[n] = pre(n)}
  <2>1. 0 \in G /\ \A n \in 0..(k - 1) : n \in G => n + 1 \in G
    BY <1>8, <1>9
  <2>2. 0..k \subseteq G
    <3> HIDE DEF G
    <3>. QED  BY <2>1, UpTo
  <2>. QED  BY <2>2
<1>11. pre(k) = c
  <2>1. CASE k + 1 <= l
    <3>1. k + 1 = l /\ l \in 1..l
      BY <1>1, <2>1
    <3>2. PICK w \in Seq(Arc!Nodes) : w = SubSeq(c, 1, l) /\ Len(w) = l /\ \A j \in 1..l : w[j] = c[j]
      BY <1>2, <3>1
    <3>3. w = c
      BY <1>1, <3>2, SeqEqual DEF Walk
    <3>. QED  BY <1>1, <3>1, <3>2, <3>3 DEF pre
  <2>2. CASE ~(k + 1 <= l)
    BY <2>2 DEF pre
  <2>. QED  BY <2>1, <2>2
<1>. QED  BY <1>6, <1>10, <1>11

\* One more feature at the end of the chain.
LEMMA ChainGrows ==
  ASSUME NEW nx, NEW s, Chain(nx, s), NEW f \in Features, f \notin Range(s)
  PROVE  /\ Chain(Arc!set_next(nx, At(s, Len(s)), f), Append(s, f))
         /\ At(Append(s, f), Len(Append(s, f))) = f
         /\ Len(Append(s, f)) = Len(s) + 1 /\ Range(Append(s, f)) = Range(s) \cup {f}
<1>1. PICK n \in Nat : n = Len(s) /\ DOMAIN s = 1..n /\ \A i \in 1..n : s[i] \in Features
  BY LenProperties DEF Chain
<1>2. PICK t \in Seq(Features) : /\ t = Append(s, f) /\ Len(t) = n + 1 /\ DOMAIN t = 1..(n + 1)
                                 /\ t[n + 1] = f /\ \A i \in 1..n : t[i] = s[i]
  <2>1. /\ Append(s, f) \in Seq(Features) /\ Len(Append(s, f)) = n + 1
        /\ Append(s, f)[n + 1] = f /\ \A i \in 1..n : Append(s, f)[i] = s[i]
    BY <1>1, AppendProperties DEF Chain
  <2>. QED  BY <2>1, LenProperties
<1>3. \A j \in 1..(n + 1) : j \in 1..n \/ j = n + 1
  BY <1>1
<1>4. \A j \in 1..n : j \in 1..(n + 1)
  BY <1>1
<1>5. n + 1 \in 1..(n + 1) /\ n + 1 # 0
  BY <1>1
<1>6. Range(t) = Range(s) \cup {f}
  <2>1. Range(t) \subseteq Range(s) \cup {f}
    BY <1>1, <1>2, <1>3 DEF Range
  <2>2. Range(s) \subseteq Range(t)
    BY <1>1, <1>2, <1>4 DEF Range
  <2>3. f \in Range(t)
    BY <1>2, <1>5 DEF Range
  <2>. QED  BY <2>1, <2>2, <2>3
<1>7. \A i \in 1..n : s[i] # f
  BY <1>1 DEF Range
<1>8. Distinct(t)
  BY <1>1, <1>2, <1>3, <1>7 DEF Distinct, Chain
<1>9. \A j \in 0..n : At(s, j) \in Arc!Nodes /\ At(s, j) # Arc!End /\ At(t, j) = At(s, j)
  <2>1. \A j \in 0..n : j = 0 \/ j \in 1..n
    BY <1>1
  <2>. QED  BY <1>1, <1>2, <2>1, ArcNames DEF At
<1>10. \A j \in 0..(n - 1) : At(s, j) # At(s, n)
  <2>. SUFFICES ASSUME NEW j \in 0..(n - 1) PROVE At(s, j) # At(s, n)
    OBVIOUS
  <2>1. n \in 1..n /\ n # 0 /\ j # n /\ (j = 0 \/ j \in 1..n)
    BY <1>1
  <2>. QED  BY <1>1, <2>1, ArcNames DEF At, Distinct, Chain
<1>11. PICK last \in Arc!Nodes : last = At(s, n) /\ last # Arc!End
  BY <1>1, <1>9
<1>12. PICK more : more = Arc!set_next(nx, last, f)
  OBVIOUS
<1>13. /\ more \in [Arc!Nodes -> NodesOrNull] /\ more[last] = f
       /\ \A x \in Arc!Nodes : x # last => more[x] = nx[x]
  BY <1>11, <1>12, ArcNames DEF Arc!set_next, Chain, NodesOrNull
<1>14. more[Arc!End] = NULL
  BY <1>11, <1>13, ArcNames DEF Chain
<1>15. At(t, n + 1) = f
  BY <1>2, <1>5 DEF At
<1>16. Linked(more, t)
  <2>. SUFFICES ASSUME NEW j \in 0..n PROVE more[At(t, j)] = At(t, j + 1)
    BY <1>1, <1>2 DEF Linked
  <2>1. CASE j = n
    BY <1>9, <1>11, <1>13, <1>15, <2>1
  <2>2. CASE j # n
    <3>1. j \in 0..(n - 1) /\ j + 1 \in 0..n
      BY <1>1, <2>2
    <3>2. nx[At(s, j)] = At(s, j + 1)
      BY <1>1, <3>1 DEF Chain, Linked
    <3>. QED  BY <1>9, <1>10, <1>11, <1>13, <3>1, <3>2
  <2>. QED  BY <2>1, <2>2
<1>17. Chain(more, t)
  BY <1>2, <1>8, <1>13, <1>14, <1>16 DEF Chain
<1>. QED  BY <1>1, <1>2, <1>6, <1>11, <1>12, <1>15, <1>17

\* The last link of a rebuild.
LEMMA ChainEnds ==
  ASSUME NEW nx, NEW s, Chain(nx, s)
  PROVE  /\ Chain(Arc!set_next(nx, At(s, Len(s)), Arc!End), s)
         /\ Arc!set_next(nx, At(s, Len(s)), Arc!End)[At(s, Len(s))] = Arc!End
<1>1. PICK n \in Nat : n = Len(s) /\ DOMAIN s = 1..n /\ \A i \in 1..n : s[i] \in Features
  BY LenProperties DEF Chain
<1>2. \A j \in 0..n : At(s, j) \in Arc!Nodes /\ At(s, j) # Arc!End
  <2>1. \A j \in 0..n : j = 0 \/ j \in 1..n
    BY <1>1
  <2>. QED  BY <1>1, <2>1, ArcNames DEF At
<1>3. \A j \in 0..(n - 1) : At(s, j) # At(s, n)
  <2>. SUFFICES ASSUME NEW j \in 0..(n - 1) PROVE At(s, j) # At(s, n)
    OBVIOUS
  <2>1. n \in 1..n /\ n # 0 /\ j # n /\ (j = 0 \/ j \in 1..n)
    BY <1>1
  <2>. QED  BY <1>1, <2>1, ArcNames DEF At, Distinct, Chain
<1>4. PICK last \in Arc!Nodes : last = At(s, n) /\ last # Arc!End
  BY <1>1, <1>2
<1>5. PICK more : more = Arc!set_next(nx, last, Arc!End)
  OBVIOUS
<1>6. /\ more \in [Arc!Nodes -> NodesOrNull] /\ more[last] = Arc!End
      /\ \A x \in Arc!Nodes : x # last => more[x] = nx[x]
  BY <1>4, <1>5, ArcNames DEF Arc!set_next, Chain, NodesOrNull
<1>7. more[Arc!End] = NULL
  BY <1>4, <1>6, ArcNames DEF Chain
<1>8. Linked(more, s)
  <2>. SUFFICES ASSUME NEW j \in 0..(n - 1) PROVE more[At(s, j)] = At(s, j + 1)
    BY <1>1 DEF Linked
  <2>1. j \in 0..n
    BY <1>1
  <2>2. nx[At(s, j)] = At(s, j + 1)
    BY <1>1 DEF Chain, Linked
  <2>. QED  BY <1>2, <1>3, <1>4, <1>6, <2>1, <2>2
<1>9. Chain(more, s)
  BY <1>6, <1>7, <1>8 DEF Chain
<1>. QED  BY <1>1, <1>4, <1>5, <1>6, <1>9

\* The first i registered features.
Registered(i) == {features[j] : j \in 1..i}

\* The links l.next and the last node linked, l.prev, after i features, of
\* which those of s are on.
Built(l, s, i) ==
  /\ Chain(l.next, s) /\ l.prev = At(s, Len(s))
  /\ Len(s) \in Nat /\ Len(s) <= i /\ Range(s) \subseteq Registered(i)

\* The two loops of the model of a rebuild, and what they have done.
BothLoops(l, s, n) ==
  /\ l = [i \in 0..n |-> IF i = 0 THEN [next |-> next, prev |-> Arc!Start] ELSE Arc!Link(l[i - 1], features[i])]
  /\ s = [i \in 0..n |-> IF i = 0 THEN <<>>
                         ELSE IF features[i] \in enabled THEN Append(s[i - 1], features[i]) ELSE s[i - 1]]

LEMMA LoopsBuild ==
  ASSUME ArcInv, NEW l, NEW s, BothLoops(l, s, Len(features))
  PROVE  Built(l[Len(features)], s[Len(features)], Len(features))
<1>1. PICK n \in Nat : /\ n = Len(features) /\ DOMAIN features = 1..n
                       /\ \A i \in 1..n : features[i] \in Features
  BY LenProperties DEF ArcInv
<1>2. \A i \in 1..n : /\ l[i] = Arc!Link(l[i - 1], features[i])
                      /\ s[i] = IF features[i] \in enabled THEN Append(s[i - 1], features[i]) ELSE s[i - 1]
  <2>1. \A i \in 1..n : i \in 0..n /\ i # 0
    BY <1>1
  <2>2. \A i \in 1..n : l[i] = Arc!Link(l[i - 1], features[i])
    BY <1>1, <2>1 DEF BothLoops
  <2>3. \A i \in 1..n : s[i] = IF features[i] \in enabled THEN Append(s[i - 1], features[i]) ELSE s[i - 1]
    BY <1>1, <2>1 DEF BothLoops
  <2>. QED  BY <2>2, <2>3
<1>3. Built(l[0], s[0], 0)
  <2>1. 0 \in 0..n
    BY <1>1
  <2>2. l[0] = [next |-> next, prev |-> Arc!Start] /\ s[0] = <<>>
    BY <1>1, <2>1 DEF BothLoops
  <2>3. next \in [Arc!Nodes -> NodesOrNull] /\ next[Arc!End] = NULL
    BY ArcNames DEF ArcInv, Chain, NodesOrNull
  <2>4. Len(<<>>) = 0 /\ <<>> \in Seq(Features) /\ DOMAIN <<>> = {} /\ Range(<<>>) = {}
    BY EmptySeq DEF Range
  <2>5. Linked(next, <<>>)
    BY <2>4 DEF Linked
  <2>6. Distinct(<<>>)
    BY <2>4 DEF Distinct
  <2>7. Chain(next, <<>>)
    BY <2>3, <2>4, <2>5, <2>6 DEF Chain
  <2>8. l[0].next = next /\ l[0].prev = At(<<>>, Len(<<>>))
    BY <2>2, <2>4 DEF At
  <2>. QED  BY <2>2, <2>4, <2>7, <2>8 DEF Built
<1>4. ASSUME NEW i \in 0..(n - 1), Built(l[i], s[i], i) PROVE Built(l[i + 1], s[i + 1], i + 1)
  <2>1. PICK j \in 1..n : j = i + 1 /\ j - 1 = i
    BY <1>1
  <2>2. PICK f \in Features : f = features[j]
    BY <1>1
  <2>3. PICK a, b : a = l[i] /\ b = s[i]
    OBVIOUS
  <2>4. l[j] = Arc!Link(a, f) /\ s[j] = IF f \in enabled THEN Append(b, f) ELSE b
    BY <1>2, <2>1, <2>2, <2>3
  <2>5. Registered(j) = Registered(i) \cup {f}
    <3>1. 1..j = 1..i \cup {j}
      BY <2>1
    <3>. QED  BY <2>2, <3>1 DEF Registered
  <2>6. /\ Chain(a.next, b) /\ a.prev = At(b, Len(b))
        /\ Len(b) \in Nat /\ Len(b) <= i /\ Range(b) \subseteq Registered(i)
    BY <1>4, <2>3 DEF Built
  <2>7. CASE f \in enabled
    <3>1. f \notin Registered(i)
      <4>1. \A m \in 1..i : m \in 1..n /\ m # j
        BY <1>1, <2>1
      <4>2. \A m \in 1..i : features[m] # features[j]
        BY <1>1, <4>1 DEF ArcInv, Distinct
      <4>. QED  BY <2>2, <4>2 DEF Registered
    <3>2. /\ Chain(Arc!set_next(a.next, At(b, Len(b)), f), Append(b, f))
          /\ At(Append(b, f), Len(Append(b, f))) = f
          /\ Len(Append(b, f)) = Len(b) + 1 /\ Range(Append(b, f)) = Range(b) \cup {f}
      BY <2>6, <3>1, ChainGrows
    <3>3. PICK c, d : /\ c = Arc!set_next(a.next, a.prev, f) /\ d = Append(b, f) /\ Len(d) \in Nat /\ Len(d) <= j
                      /\ Chain(c, d) /\ At(d, Len(d)) = f /\ Range(d) \subseteq Registered(j)
      <4>1. Len(Append(b, f)) \in Nat /\ Len(Append(b, f)) <= j
        BY <2>1, <2>6, <3>2
      <4>. QED  BY <2>5, <2>6, <3>2, <4>1
    <3>4. l[j].next = c /\ l[j].prev = f /\ s[j] = d
      BY <2>4, <2>7, <3>3 DEF Arc!Link
    <3>. QED  BY <2>1, <3>3, <3>4 DEF Built
  <2>8. CASE f \notin enabled
    <3>1. l[j] = a /\ s[j] = b
      BY <2>4, <2>8 DEF Arc!Link
    <3>2. Len(b) <= j /\ Range(b) \subseteq Registered(j)
      BY <2>1, <2>5, <2>6
    <3>. QED  BY <2>1, <2>6, <3>1, <3>2 DEF Built
  <2>. QED  BY <2>7, <2>8
<1>5. Built(l[n], s[n], n)
  <2> DEFINE G == {i \in 0..n : Built(l[i], s[i], i)}
  <2>1. 0 \in G /\ \A i \in 0..(n - 1) : i \in G => i + 1 \in G
    BY <1>3, <1>4
  <2>2. 0..n \subseteq G
    <3> HIDE DEF G
    <3>. QED  BY <2>1, UpTo
  <2>. QED  BY <2>2
<1>. QED  BY <1>1, <1>5

\* A rebuild runs the two loops.
LEMMA RebuildLoops ==
  ASSUME ArcInv, Arc!feature_arc_rebuild
  PROVE  \E l, s : /\ BothLoops(l, s, Len(features)) /\ built' = s[Len(features)]
                   /\ next' = Arc!set_next(l[Len(features)].next, l[Len(features)].prev, Arc!End)
<1>1. PICK n \in Nat : /\ n = Len(features) /\ DOMAIN features = 1..n
                       /\ \A i \in 1..n : features[i] \in Features
  BY LenProperties DEF ArcInv
<1>2. next \in [Arc!Nodes -> NodesOrNull]
  BY ArcNames DEF ArcInv, Chain, NodesOrNull
<1> DEFINE A == [next : [Arc!Nodes -> NodesOrNull], prev : Arc!Nodes]
           first == [next |-> next, prev |-> Arc!Start]
           h == [i \in 1..n |-> [x \in A |-> Arc!Link(x, features[i])]]
           e == [i \in 1..n |-> [x \in Seq(Features) |-> IF features[i] \in enabled THEN Append(x, features[i]) ELSE x]]
<1>3. PICK f \in [0..n -> A] : f[0] = first /\ \A i \in 1..n : f[i] = h[i][f[i - 1]]
  <2>1. first \in A
    BY <1>2, ArcNames
  <2>2. Rounds(n, A, h)
    <3>. SUFFICES ASSUME NEW i \in 1..n, NEW x \in A PROVE Arc!Link(x, features[i]) \in A
      BY DEF Rounds
    <3>1. features[i] \in Arc!Nodes
      BY <1>1, ArcNames
    <3>. QED  BY <3>1 DEF Arc!Link, Arc!set_next, NodesOrNull
  <2>3. Runs(n, A, first, h)
    <3> HIDE DEF A, first, h
    <3>. QED  BY <2>1, <2>2, Loop
  <2>. QED  BY <2>3 DEF Runs
<1>4. PICK g \in [0..n -> Seq(Features)] : g[0] = <<>> /\ \A i \in 1..n : g[i] = e[i][g[i - 1]]
  <2>1. Rounds(n, Seq(Features), e)
    BY <1>1, AppendProperties DEF Rounds
  <2>2. <<>> \in Seq(Features)
    BY EmptySeq
  <2>3. Runs(n, Seq(Features), <<>>, e)
    <3> HIDE DEF e
    <3>. QED  BY <2>1, <2>2, Loop
  <2>. QED  BY <2>3 DEF Runs
<1>5. \A i \in 0..n : i = 0 \/ i \in 1..n
  OBVIOUS
<1>6. f = [i \in 0..n |-> IF i = 0 THEN [next |-> next, prev |-> Arc!Start] ELSE Arc!Link(f[i - 1], features[i])]
  <2>1. ASSUME NEW i \in 1..n PROVE f[i] = Arc!Link(f[i - 1], features[i])
    <3>1. f[i - 1] \in A
      <4> HIDE DEF A
      <4>. QED  BY <1>3, i - 1 \in 0..n
    <3> HIDE DEF A
    <3>. QED  BY <1>3, <3>1
  <2> HIDE DEF A
  <2>. QED  BY <1>3, <1>5, <2>1
<1>7. g = [i \in 0..n |-> IF i = 0 THEN <<>>
                          ELSE IF features[i] \in enabled THEN Append(g[i - 1], features[i]) ELSE g[i - 1]]
  <2>1. ASSUME NEW i \in 1..n
        PROVE  g[i] = IF features[i] \in enabled THEN Append(g[i - 1], features[i]) ELSE g[i - 1]
    <3>1. g[i - 1] \in Seq(Features)
      BY <1>4, i - 1 \in 0..n
    <3>. QED  BY <1>4, <3>1
  <2>. QED  BY <1>4, <1>5, <2>1
<1> DEFINE l == CHOOSE linked : linked = [i \in 0..Len(features) |->
                  IF i = 0 THEN [next |-> next, prev |-> Arc!Start] ELSE Arc!Link(linked[i - 1], features[i])]
           s == CHOOSE on : on = [i \in 0..Len(features) |->
                  IF i = 0 THEN <<>>
                  ELSE IF features[i] \in enabled THEN Append(on[i - 1], features[i]) ELSE on[i - 1]]
<1>8. /\ next' = Arc!set_next(l[n].next, l[n].prev, Arc!End)
      /\ built' = s[n]
  BY <1>1 DEF Arc!feature_arc_rebuild, Arc!EnabledFeatures
<1>9. l = [i \in 0..n |-> IF i = 0 THEN [next |-> next, prev |-> Arc!Start] ELSE Arc!Link(l[i - 1], features[i])]
  BY <1>1, <1>6, Zenon
<1>10. s = [i \in 0..n |-> IF i = 0 THEN <<>>
                           ELSE IF features[i] \in enabled THEN Append(s[i - 1], features[i]) ELSE s[i - 1]]
  BY <1>1, <1>7, Zenon
<1> HIDE DEF l, s, A, h, e, first
<1>11. BothLoops(l, s, n)
  BY <1>9, <1>10, Zenon DEF BothLoops
<1>. QED  BY <1>1, <1>8, <1>11, Zenon

LEMMA RegisterKept ==
  ASSUME ArcInv, NEW f \in Arc!Unregistered, Arc!feature_register(f)
  PROVE  ArcInv'
<1>1. PICK n \in Nat : n = Len(features) /\ DOMAIN features = 1..n /\ features \in Seq(Features) /\ Distinct(features)
  BY LenProperties DEF ArcInv
<1>2. /\ features' = Append(features, f) /\ UNCHANGED <<next, built>>
      /\ f \in Features /\ \A i \in 1..n : features[i] # f
  BY <1>1 DEF Arc!feature_register, Arc!Unregistered, Arc!Range
<1>3. /\ features' \in Seq(Features) /\ Len(features') = n + 1 /\ DOMAIN features' = 1..(n + 1)
      /\ features'[n + 1] = f /\ \A i \in 1..n : features'[i] = features[i]
  <2>1. /\ Append(features, f) \in Seq(Features) /\ Len(Append(features, f)) = n + 1
        /\ Append(features, f)[n + 1] = f /\ \A i \in 1..n : Append(features, f)[i] = features[i]
    BY <1>1, <1>2, AppendProperties
  <2>. QED  BY <1>2, <2>1, LenProperties
<1>4. \A j \in 1..(n + 1) : j \in 1..n \/ j = n + 1
  OBVIOUS
<1>5. Distinct(features')
  BY <1>1, <1>2, <1>3, <1>4 DEF Distinct
<1>6. CASE built = NULL /\ next = [x \in Arc!Nodes |-> NULL]
  BY <1>2, <1>3, <1>5, <1>6 DEF ArcInv
<1>7. CASE /\ Chain(next, built) /\ next[At(built, Len(built))] = Arc!End
           /\ Len(built) <= Len(features)
  <2>1. Len(built) \in Nat
    BY <1>7, LenProperties DEF Chain
  <2>2. Len(built') <= Len(features')
    BY <1>1, <1>2, <1>3, <1>7, <2>1
  <2>3. Chain(next', built') /\ next'[At(built', Len(built'))] = Arc!End
    BY <1>2, <1>7
  <2>. QED  BY <1>3, <1>5, <2>2, <2>3 DEF ArcInv
<1>. QED  BY <1>6, <1>7 DEF ArcInv

LEMMA RebuildKept ==
  ASSUME ArcInv, Arc!feature_arc_rebuild
  PROVE  ArcInv'
<1>1. PICK n \in Nat : n = Len(features) /\ features \in Seq(Features) /\ Distinct(features)
  BY LenProperties DEF ArcInv
<1>2. UNCHANGED features
  BY DEF Arc!feature_arc_rebuild
<1>3. PICK l, s : /\ BothLoops(l, s, n) /\ built' = s[n]
                  /\ next' = Arc!set_next(l[n].next, l[n].prev, Arc!End)
  BY <1>1, RebuildLoops
<1>4. Built(l[n], s[n], n)
  BY <1>1, <1>3, LoopsBuild
<1>5. Chain(l[n].next, s[n]) /\ l[n].prev = At(s[n], Len(s[n])) /\ Len(s[n]) <= n
  BY <1>4 DEF Built
<1>6. /\ Chain(Arc!set_next(l[n].next, At(s[n], Len(s[n])), Arc!End), s[n])
      /\ Arc!set_next(l[n].next, At(s[n], Len(s[n])), Arc!End)[At(s[n], Len(s[n]))] = Arc!End
  BY <1>5, ChainEnds
<1>7. Chain(next', built') /\ next'[At(built', Len(built'))] = Arc!End /\ Len(built') <= Len(features')
  BY <1>1, <1>2, <1>3, <1>5, <1>6
<1>. QED  BY <1>1, <1>2, <1>7 DEF ArcInv

LEMMA ArcStep == ArcInv /\ [Next]_vars => ArcInv'
<1>. SUFFICES ASSUME ArcInv, [Next]_vars PROVE ArcInv'
  OBVIOUS
<1>1. Arc!Next \/ UNCHANGED arc_vars
  BY DEF Next, vars, Telemetry, Rings, EventApps, RssWorkers, Reorder, FeatureArc, MacTable
<1>2. CASE UNCHANGED arc_vars
  BY <1>2 DEF arc_vars, ArcInv
<1>3. ASSUME NEW f \in Features, Arc!feature_enable(f) \/ Arc!feature_disable(f) PROVE ArcInv'
  <2>1. UNCHANGED <<next, features, built>>
    BY <1>3 DEF Arc!feature_enable, Arc!feature_disable
  <2>. QED  BY <2>1 DEF ArcInv
<1>. QED  BY <1>1, <1>2, <1>3, RegisterKept, RebuildKept DEF Arc!Next

LEMMA ArcInit == Init => ArcInv
<1>. SUFFICES ASSUME Init PROVE ArcInv
  OBVIOUS
<1>1. next = [n \in Arc!Nodes |-> NULL] /\ features = <<>> /\ built = NULL
  BY DEF Init, Arc!Init
<1>2. <<>> \in Seq(Features) /\ DOMAIN <<>> = {}
  BY EmptySeq
<1>3. Distinct(<<>>)
  BY <1>2 DEF Distinct
<1>. QED  BY <1>1, <1>2, <1>3 DEF ArcInv

\* The walk over a finished chain.
LEMMA ChainWalks ==
  ASSUME Chain(next, built), next[At(built, Len(built))] = Arc!End
  PROVE  Walk(<<Arc!Start>> \o built \o <<Arc!End>>) /\ Len(<<Arc!Start>> \o built \o <<Arc!End>>) = Len(built) + 2
<1>1. PICK m \in Nat : /\ m = Len(built) /\ DOMAIN built = 1..m /\ \A i \in 1..m : built[i] \in Features
                       /\ built \in Seq(Arc!Nodes)
  <2>1. PICK m \in Nat : m = Len(built) /\ DOMAIN built = 1..m /\ built \in [1..m -> Features]
    BY LenProperties DEF Chain
  <2>2. built \in [1..m -> Arc!Nodes]
    BY <2>1, ArcNames
  <2>3. built \in Seq(Arc!Nodes)
    BY <2>2
  <2>4. \A i \in 1..m : built[i] \in Features
    BY <2>1
  <2>. QED  BY <2>1, <2>3, <2>4
<1>2. PICK a \in Arc!Nodes, z \in Arc!Nodes : a = Arc!Start /\ z = Arc!End
  BY ArcNames
<1>3. PICK u \in Seq(Arc!Nodes), w \in Seq(Arc!Nodes) :
        /\ u = <<a>> /\ Len(u) = 1 /\ u[1] = a /\ w = <<z>> /\ Len(w) = 1 /\ w[1] = z
  <2>1. /\ <<a>> \in Seq(Arc!Nodes) /\ Len(<<a>>) = 1 /\ <<a>>[1] = a
        /\ <<z>> \in Seq(Arc!Nodes) /\ Len(<<z>>) = 1 /\ <<z>>[1] = z
    OBVIOUS
  <2>. QED  BY <2>1
<1>4. PICK v \in Seq(Arc!Nodes) :
        /\ v = u \o built /\ Len(v) = m + 1
        /\ \A i \in 1..(m + 1) : v[i] = IF i <= 1 THEN u[i] ELSE built[i - 1]
  <2>1. /\ u \o built \in Seq(Arc!Nodes) /\ Len(u \o built) = Len(u) + Len(built)
        /\ \A i \in 1 .. Len(u) + Len(built) : (u \o built)[i] = IF i <= Len(u) THEN u[i] ELSE built[i - Len(u)]
    BY <1>1, ConcatProperties
  <2>2. PICK v : v = u \o built
    OBVIOUS
  <2>3. Len(u) = 1 /\ Len(u) + Len(built) = m + 1
    BY <1>1, <1>3
  <2>. QED  BY <2>1, <2>2, <2>3
<1>5. PICK c \in Seq(Arc!Nodes) :
        /\ c = v \o w /\ Len(c) = m + 2
        /\ \A i \in 1..(m + 2) : c[i] = IF i <= m + 1 THEN v[i] ELSE w[i - (m + 1)]
  <2>1. /\ v \o w \in Seq(Arc!Nodes) /\ Len(v \o w) = Len(v) + Len(w)
        /\ \A i \in 1 .. Len(v) + Len(w) : (v \o w)[i] = IF i <= Len(v) THEN v[i] ELSE w[i - Len(v)]
    BY ConcatProperties
  <2>2. PICK c : c = v \o w
    OBVIOUS
  <2>3. Len(v) = m + 1 /\ Len(v) + Len(w) = m + 2
    BY <1>1, <1>3, <1>4
  <2>. QED  BY <2>1, <2>2, <2>3
<1>6. \A j \in 0..m : c[j + 1] = At(built, j)
  <2>. SUFFICES ASSUME NEW j \in 0..m PROVE c[j + 1] = At(built, j)
    OBVIOUS
  <2>1. j + 1 \in 1..(m + 2) /\ j + 1 <= m + 1 /\ j + 1 \in 1..(m + 1) /\ (j + 1) - 1 = j
    BY <1>1
  <2>2. c[j + 1] = v[j + 1]
    BY <1>5, <2>1
  <2>3. CASE j = 0
    <3>1. v[1] = u[1]
      BY <1>4, <2>1, <2>3
    <3>. QED  BY <1>2, <1>3, <2>2, <2>3, <3>1 DEF At
  <2>4. CASE j # 0
    <3>1. ~(j + 1 <= 1)
      BY <2>4
    <3>2. v[j + 1] = built[j]
      BY <1>4, <2>1, <3>1
    <3>. QED  BY <2>2, <2>4, <3>2 DEF At
  <2>. QED  BY <2>3, <2>4
<1>7. c[m + 2] = Arc!End
  <2>1. m + 2 \in 1..(m + 2) /\ ~(m + 2 <= m + 1) /\ (m + 2) - (m + 1) = 1
    BY <1>1
  <2>2. c[m + 2] = w[1]
    BY <1>5, <2>1
  <2>. QED  BY <1>2, <1>3, <2>2
<1>8. c[1] = Arc!Start
  <2>1. 0 \in 0..m /\ 0 + 1 = 1
    BY <1>1
  <2>2. c[0 + 1] = At(built, 0)
    BY <1>6, <2>1
  <2>. QED  BY <2>1, <2>2 DEF At
<1>9. ASSUME NEW i \in 1 .. (m + 2) - 1 PROVE next[c[i]] = c[i + 1]
  <2>1. PICK j \in 0..m : j = i - 1 /\ i = j + 1
    BY <1>1
  <2>2. c[i] = At(built, j)
    BY <1>6, <2>1
  <2>3. CASE j = m
    <3>1. i + 1 = m + 2
      BY <1>1, <2>1, <2>3
    <3>. QED  BY <1>1, <1>7, <2>2, <2>3, <3>1
  <2>4. CASE j # m
    <3>1. j \in 0..(m - 1) /\ j + 1 \in 0..m /\ (j + 1) + 1 = i + 1
      BY <1>1, <2>1, <2>4
    <3>2. next[At(built, j)] = At(built, j + 1)
      BY <1>1, <3>1 DEF Chain, Linked
    <3>3. c[i + 1] = At(built, j + 1)
      <4>1. c[(j + 1) + 1] = At(built, j + 1)
        BY <1>6, <3>1
      <4>. QED  BY <3>1, <4>1
    <3>. QED  BY <2>2, <3>2, <3>3
  <2>. QED  BY <2>3, <2>4
<1>10. next[c[m + 2]] = NULL
  BY <1>7 DEF Chain
<1>11. Walk(c)
  <2>1. Len(c) >= 1
    BY <1>1, <1>5
  <2>. QED  BY <1>5, <1>8, <1>9, <1>10, <2>1 DEF Walk
<1>12. c = <<Arc!Start>> \o built \o <<Arc!End>>
  BY <1>2, <1>3, <1>4, <1>5
<1>. QED  BY <1>1, <1>5, <1>11, <1>12

\* feature_arc/sample: after any sequence of registrations, switches and
\* rebuilds, dump_pipeline walks exactly the features that were on at the last
\* rebuild, in the order of registration, and stops at the end node; links
\* left over from earlier rebuilds are never reached.  The theorem holds for
\* every set of features and every size of the arc's table.
THEOREM ArcChainIsEnabled == Spec => []ChainIsEnabled
<1>1. ArcInv => ChainIsEnabled
  <2>. SUFFICES ASSUME ArcInv PROVE ChainIsEnabled
    OBVIOUS
  <2>1. PICK k \in Nat : k = Arc!Steps /\ k = Len(features) + 1 /\ Len(features) \in Nat
    BY LenProperties DEF ArcInv, Arc!Steps
  <2>2. CASE built = NULL /\ next = [n \in Arc!Nodes |-> NULL]
    <3>1. PICK a \in Arc!Nodes : a = Arc!Start
      BY ArcNames
    <3>2. <<a>> \in Seq(Arc!Nodes) /\ Len(<<a>>) = 1 /\ <<a>>[1] = a /\ next[a] = NULL
      BY <2>2
    <3>3. Walk(<<a>>)
      <4>1. PICK c \in Seq(Arc!Nodes) : c = <<a>> /\ Len(c) = 1 /\ c[1] = a
        BY <3>2
      <4>2. 1 .. Len(c) - 1 = {} /\ Len(c) >= 1
        BY <4>1
      <4>3. Walk(c)
        BY <3>1, <3>2, <4>1, <4>2 DEF Walk
      <4>. QED  BY <4>1, <4>3
    <3>4. Arc!dump_pipeline[k] = <<a>>
      <4>1. PICK c : c = <<a>> /\ Walk(c) /\ Len(c) = 1
        BY <3>2, <3>3
      <4>2. Len(c) <= k + 1
        BY <2>1, <4>1
      <4>3. Arc!dump_pipeline[k] = c
        BY <4>1, <4>2, WalkPrints
      <4>. QED  BY <4>1, <4>3
    <3>. QED  BY <2>1, <2>2, <3>1, <3>4 DEF ChainIsEnabled, Arc!ChainIsEnabled
  <2>3. CASE /\ Chain(next, built) /\ next[At(built, Len(built))] = Arc!End
             /\ Len(built) <= Len(features)
    <3>1. built # NULL /\ next[Arc!End] = NULL /\ Len(built) \in Nat
      BY <2>3, ArcNames, LenProperties DEF Chain
    <3>2. PICK c : c = <<Arc!Start>> \o built \o <<Arc!End>> /\ Walk(c) /\ Len(c) = Len(built) + 2
      BY <2>3, ChainWalks
    <3>3. Len(c) <= k + 1
      BY <2>1, <2>3, <3>1, <3>2
    <3>4. Arc!dump_pipeline[k] = c
      BY <2>1, <3>2, <3>3, WalkPrints
    <3>. QED  BY <2>1, <3>1, <3>2, <3>4 DEF ChainIsEnabled, Arc!ChainIsEnabled
  <2>. QED  BY <2>2, <2>3 DEF ArcInv
<1>. QED  BY <1>1, ArcInit, ArcStep, PTL DEF Spec
=============================================================================
