---------------------------- MODULE MCGraphWalk ----------------------------
(***************************************************************************)
(* All graph applications.  The pool of two_start_node holds one mbuf, so  *)
(* that its second source finds the pool empty.                            *)
(***************************************************************************)
EXTENDS GraphWalk

MCApps == {"pipeline", "rx_drop_sample", "two_start_node", "two_start_with_worker",
           "sample", "node_sched", "graph_arc"}

MCPools == [a \in MCApps |-> IF a = "two_start_node" THEN 1 ELSE 3]
=============================================================================
