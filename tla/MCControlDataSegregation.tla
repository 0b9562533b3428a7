---------------------- MODULE MCControlDataSegregation ----------------------
(***************************************************************************)
(* Frames for model checking the segregation loop.                         *)
(***************************************************************************)
EXTENDS ControlDataSegregation

Frame(len, type, inner, ihl, proto, port) ==
  [data_len |-> len, ether_type |-> type, eth_proto |-> inner, ihl |-> ihl,
   proto |-> proto, dst_port |-> port]

\* One control and one data frame: an SSH and an HTTP segment.
TwoFrames == {Frame(54, "ipv4", "other", 5, TCP, <<0, 22>>),
              Frame(54, "ipv4", "other", 5, TCP, <<0, 80>>)}

\* Frames around every length the classifier compares with, tagged or not,
\* with and without IP options, for every protocol; ports 22, 53, 67, 80 and
\* 389 (1 * 256 + 133).
AllFrames ==
  {Frame(len, tags[1], tags[2], ihl, proto, port) :
     len \in {0, 13, 14, 17, 18, 33, 34, 37, 38, 41, 42, 45, 46, 53, 54, 57, 58, 98},
     tags \in {<<"ipv4", "other">>, <<"other", "other">>, <<"vlan", "ipv4">>, <<"vlan", "vlan">>},
     ihl \in {0, 5, 15}, proto \in {ICMP, TCP, UDP, OSPF, 2},
     port \in {<<0, 22>>, <<0, 53>>, <<0, 67>>, <<0, 80>>, <<1, 133>>}}
=============================================================================
