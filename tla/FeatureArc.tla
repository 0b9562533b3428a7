----------------------------- MODULE FeatureArc -----------------------------
(***************************************************************************)
(* feature_arc/sample: features are registered on an arc from a start to   *)
(* an end node and switched on and off by name; a rebuild links the ones   *)
(* that are on, and dump_pipeline follows the links.  A feature that is    *)
(* switched off keeps its link.  main makes some of these calls in a fixed *)
(* order; here they come in any.                                           *)
(***************************************************************************)
EXTENDS Naturals, SequencesExt

CONSTANTS Features,      \* names of features
          MAX_FEATURES,  \* size of the arc's table (8)
          NULL           \* no node

VARIABLES
  next,       \* the link of each node
  features,   \* the registered names, in order
  enabled,    \* names whose flag is set
  built       \* the features that were on at the last rebuild, in order, or NULL

vars == <<next, features, enabled, built>>

Start == "L3"
End   == "L4"
Nodes == Features \cup {Start, End}

\* add_node for every node, and feature_arc_init.
Init == /\ next = [n \in Nodes |-> NULL]
        /\ features = <<>>
        /\ enabled = {}
        /\ built = NULL

-----------------------------------------------------------------------------
\* The operation checks nothing; main calls it for new names, within the table.
feature_register(f) ==
  /\ features' = Append(features, f)
  /\ enabled' = enabled \ {f}
  /\ UNCHANGED <<next, built>>

\* A name that is not registered has no flag.
feature_enable(f) ==
  /\ enabled' = enabled \cup ({f} \cap Range(features))
  /\ UNCHANGED <<next, features, built>>

feature_disable(f) ==
  /\ enabled' = enabled \ {f}
  /\ UNCHANGED <<next, features, built>>

set_next(links, from, to) == [links EXCEPT ![from] = to]

\* The last node linked is forgotten.
Link_KeepsPrev(s, f) ==
  IF f \in enabled THEN [s EXCEPT !.next = set_next(s.next, s.prev, f)] ELSE s

\* The links made for one feature: `s` is the links and the last node linked.
Link(s, f) ==
  IF f \in enabled THEN [next |-> set_next(s.next, s.prev, f), prev |-> f] ELSE s

\* The registered features that are on, in the order of registration.
EnabledFeatures ==
  LET on[i \in 0..Len(features)] ==
        IF i = 0 THEN <<>>
        ELSE IF features[i] \in enabled THEN Append(on[i - 1], features[i]) ELSE on[i - 1]
  IN on[Len(features)]

feature_arc_rebuild ==
  LET linked[i \in 0..Len(features)] ==
        IF i = 0 THEN [next |-> next, prev |-> Start] ELSE Link(linked[i - 1], features[i])
      s == linked[Len(features)]
  IN /\ next' = set_next(s.next, s.prev, End)
     /\ built' = EnabledFeatures
     /\ UNCHANGED <<features, enabled>>

\* The nodes dump_pipeline prints in its first n steps.
dump_pipeline[n \in Nat] ==
  IF n = 0 THEN <<Start>>
  ELSE LET walked == dump_pipeline[n - 1] IN
         IF next[Last(walked)] = NULL THEN walked ELSE Append(walked, next[Last(walked)])

-----------------------------------------------------------------------------
\* What main keeps to when it registers: each name once, and three in all.
Unregistered == IF Len(features) < MAX_FEATURES THEN Features \ Range(features) ELSE {}

Next == \/ \E f \in Unregistered : feature_register(f)
        \/ \E f \in Features : feature_enable(f) \/ feature_disable(f)
        \/ feature_arc_rebuild

Spec == Init /\ [][Next]_vars

-----------------------------------------------------------------------------
(* Properties *)

Steps == Len(features) + 1

\* Whatever was on before and still has its link, the walk passes exactly
\* the features that were on at the last rebuild, in the order of
\* registration, and ends at the end node: dump_pipeline never loops and no
\* stale link is reached.
ChainIsEnabled ==
  IF built = NULL
  THEN dump_pipeline[Steps] = <<Start>>
  ELSE /\ dump_pipeline[Steps] = <<Start>> \o built \o <<End>>
       /\ next[End] = NULL
=============================================================================
