----------------------------- MODULE Telemetry -----------------------------
(***************************************************************************)
(* telementry/advanced_stats: every worker lcore counts its loops twice,   *)
(* in its own slot of g_lcore_stats and in the shared g_total_loops.  The  *)
(* second is a plain increment, a read and a write with other lcores'      *)
(* steps between them.  Two telemetry commands report the counters while   *)
(* they change.                                                            *)
(***************************************************************************)
EXTENDS Naturals, Sequences, FiniteSets

CONSTANTS Lcores,      \* number of worker lcores
          MaxLoops     \* bound: loops of each worker

VARIABLES
  tel_pc,          \* where main is
  launched,        \* workers 1..launched run
  done,            \* what each worker has done of the current loop
  seen_total,      \* the value of g_total_loops each worker has read
  g_lcore_stats,   \* loops of each lcore, the main lcore 0 included
  g_total_loops,
  registered,      \* commands the telemetry thread answers
  summary,         \* last answer to /adv/summary
  array            \* answer to /adv/lcore_stats, as far as it is filled in

vars == <<tel_pc, launched, done, seen_total, g_lcore_stats, g_total_loops, registered,
          summary, array>>

Workers == 1..Lcores

Init ==
  /\ tel_pc = "init"
  /\ launched = 0
  /\ done = [w \in Workers |-> {}]
  /\ seen_total = [w \in Workers |-> 0]
  /\ g_lcore_stats = [l \in 0..Lcores |-> 0]
  /\ g_total_loops = 0
  /\ registered = {}
  /\ summary = 0 /\ array = <<>>

answers == <<registered, summary, array>>

-----------------------------------------------------------------------------
(* main *)

EalInit == /\ tel_pc = "init"
           /\ tel_pc' \in {"launch", "exited"}
           /\ UNCHANGED <<launched, done, seen_total, g_lcore_stats, g_total_loops, answers>>

\* RTE_LCORE_FOREACH_WORKER: the workers start one after the other.
Launch == /\ tel_pc = "launch"
          /\ launched' = launched + 1
          /\ tel_pc' = IF launched' = Lcores THEN "register" ELSE "launch"
          /\ UNCHANGED <<done, seen_total, g_lcore_stats, g_total_loops, answers>>

\* A registration that fails is only printed.
Register ==
  /\ tel_pc = "register"
  /\ tel_pc' = "sleep"
  /\ registered' \in SUBSET {"/adv/summary", "/adv/lcore_stats"}
  /\ UNCHANGED <<launched, done, seen_total, g_lcore_stats, g_total_loops, summary, array>>

-----------------------------------------------------------------------------
(* worker_loop.  The two counters are stored in the order of the program;  *)
(* the compiler may move the load of the second above the first store (gcc *)
(* -O2 does), so either may come first here.                               *)

CountOwn(w) ==
  /\ w <= launched /\ "own" \notin done[w]
  /\ g_lcore_stats[w] < MaxLoops
  /\ g_lcore_stats' = [g_lcore_stats EXCEPT ![w] = @ + 1]
  /\ done' = [done EXCEPT ![w] = @ \cup {"own"}]
  /\ UNCHANGED <<tel_pc, launched, seen_total, g_total_loops, answers>>

ReadTotal(w) ==
  /\ w <= launched /\ "read" \notin done[w]
  /\ seen_total' = [seen_total EXCEPT ![w] = g_total_loops]
  /\ done' = [done EXCEPT ![w] = @ \cup {"read"}]
  /\ UNCHANGED <<tel_pc, launched, g_lcore_stats, g_total_loops, answers>>

\* The total is stored although the lcore's own loop may not be counted yet.
WriteTotal_First(w) ==
  /\ "read" \in done[w]
  /\ g_total_loops' = seen_total[w] + 1
  /\ done' = [done EXCEPT ![w] = {}]
  /\ UNCHANGED <<tel_pc, launched, seen_total, g_lcore_stats, answers>>

WriteTotal(w) ==
  /\ done[w] = {"own", "read"}
  /\ g_total_loops' = seen_total[w] + 1
  /\ done' = [done EXCEPT ![w] = {}]
  /\ UNCHANGED <<tel_pc, launched, seen_total, g_lcore_stats, answers>>

-----------------------------------------------------------------------------
(* The telemetry thread.  A client asks for the summary and then, if it    *)
(* wants, for the counters of the lcores.                                  *)

adv_summary_handler ==
  /\ "/adv/summary" \in registered
  /\ summary' = g_total_loops
  /\ array' = <<>>
  /\ UNCHANGED <<tel_pc, launched, done, seen_total, g_lcore_stats, g_total_loops, registered>>

\* One element of RTE_LCORE_FOREACH; the workers go on between two of them.
adv_lcore_stats_handler ==
  /\ "/adv/lcore_stats" \in registered
  /\ Len(array) <= Lcores
  /\ array' = Append(array, g_lcore_stats[Len(array)])
  /\ UNCHANGED <<tel_pc, launched, done, seen_total, g_lcore_stats, g_total_loops, registered, summary>>

-----------------------------------------------------------------------------
Main      == EalInit \/ Launch \/ Register
Worker(w) == CountOwn(w) \/ ReadTotal(w) \/ WriteTotal(w)

\* All workers are at the bound, or the process has exited.
Ended == /\ \/ tel_pc = "exited"
            \/ \A w \in Workers : g_lcore_stats[w] = MaxLoops
         /\ UNCHANGED vars

Next == Main \/ (\E w \in Workers : Worker(w)) \/ adv_summary_handler
          \/ adv_lcore_stats_handler \/ Ended

Spec == Init /\ [][Next]_vars

-----------------------------------------------------------------------------
(* Properties *)

\* The sum of the counters f: how many loops they count together.
Counted(f) == UNION {{x} \X (1..f[x]) : x \in DOMAIN f}
Total(f)   == Cardinality(Counted(f))

\* Unsynchronised increments of g_total_loops lose loops and may even turn
\* the total back, but they invent none: a client that asks for the summary
\* and then for the lcores' counters, filled in while the workers run, never
\* sees a total above the sum.
SummaryNeverAhead ==
  /\ g_total_loops <= Total(g_lcore_stats)
  /\ Len(array) = Lcores + 1 => summary <= Total(array)
=============================================================================
