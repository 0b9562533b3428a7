------------------------------ MODULE MacTable ------------------------------
(***************************************************************************)
(* The MAC tables: l2_forwarding learns the source address of every packet *)
(* and forwards it to the port its destination was learned at, or floods   *)
(* it; hashing/mac_learning calls the same two functions by themselves.    *)
(* Their mains make a few of these calls with fixed addresses; here        *)
(* addresses and ports are arbitrary.                                      *)
(*                                                                         *)
(* rte_hash is external: adding a key that is there replaces its data; a   *)
(* new key may find no place.                                              *)
(***************************************************************************)
EXTENDS Naturals, FiniteSets

CONSTANTS Macs,           \* addresses
          HASH_ENTRIES,   \* entries of the table (1024)
          MAX_PORTS       \* ports (4)

VARIABLES
  mac_table,   \* the port of each address in the table
  decided,     \* the last packet or lookup and the ports chosen for it
  seen         \* the port each address was last seen at

vars == <<mac_table, decided, seen>>

Ports == 0 .. MAX_PORTS - 1

Init == /\ mac_table = <<>>
        /\ decided = <<>>
        /\ seen = <<>>

-----------------------------------------------------------------------------
\* A key gets this value, whether it is new or not.
Put(table, key, value) ==
  [k \in DOMAIN table \cup {key} |-> IF k = key THEN value ELSE table[k]]

\* An address that is known stays where it was first seen.
mac_learn_Once(src, port) ==
  \/ /\ src \notin DOMAIN mac_table /\ Cardinality(DOMAIN mac_table) < HASH_ENTRIES
     /\ mac_table' = Put(mac_table, src, port)
  \/ UNCHANGED mac_table

\* The result of rte_hash_add_key_data is ignored.
mac_learn(src, port) ==
  \/ /\ src \in DOMAIN mac_table \/ Cardinality(DOMAIN mac_table) < HASH_ENTRIES
     /\ mac_table' = Put(mac_table, src, port)
  \/ src \notin DOMAIN mac_table /\ UNCHANGED mac_table

\* The ports a packet for dst goes to: where dst is known to be, or all but
\* the one it came from.
flood_packet(in_port) == Ports \ {in_port}

mac_lookup(table, dst, flood) == IF dst \in DOMAIN table THEN {table[dst]} ELSE flood

Saw(src, port) == seen' = Put(seen, src, port)

\* l2_forwarding: learn, then look up in the table as it is then.
process_packet(src, dst, in_port) ==
  /\ mac_learn(src, in_port)
  /\ decided' = [dst |-> dst, in_port |-> in_port,
                 out |-> mac_lookup(mac_table', dst, flood_packet(in_port))]
  /\ Saw(src, in_port)

\* hashing/mac_learning
Learn(src, port) == mac_learn(src, port) /\ Saw(src, port) /\ decided' = <<>>

-----------------------------------------------------------------------------
Next == \E src \in Macs, in_port \in Ports :
          \/ \E dst \in Macs : process_packet(src, dst, in_port)
          \/ Learn(src, in_port)

Spec == Init /\ [][Next]_vars

-----------------------------------------------------------------------------
(* Properties *)

\* A station that moves is found at its new port also when the table is full:
\* a packet goes to the port at which its destination was seen last, or, if
\* the table has no entry for it, to every port but the one it came from.
ForwardsWhereLastSeen ==
  /\ \A m \in DOMAIN mac_table : mac_table[m] = seen[m]
  /\ decided # <<>> =>
       IF decided.dst \in DOMAIN mac_table
       THEN decided.out = {seen[decided.dst]}
       ELSE decided.out = Ports \ {decided.in_port}
=============================================================================
