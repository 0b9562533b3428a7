--------------------------- MODULE MCPacketLoops ---------------------------
(***************************************************************************)
(* Frames that take every branch of the packet loops.                      *)
(***************************************************************************)
EXTENDS PacketLoops

Frame(type, inner, proto, src, dst, port) ==
  [ether_type |-> type, inner_type |-> inner, proto |-> proto, src_addr |-> src,
   dst_addr |-> dst, dst_port |-> port]

Ip(proto, src, dst) == Frame("ipv4", "", proto, src, dst, <<0, 80>>)

Host    == <<8, 8, 8, 8>>
AclHost == <<172, 17, 166, 200>>
Ssdp    == <<239, 255, 255, 250>>
Arp     == Frame("arp", "", 0, Host, PUBLIC_IP, <<0, 0>>)

NatFrames == {Arp, Ip(TCP, PRIVATE_IP, Host), Ip(TCP, PRIVATE_IP, PUBLIC_IP),
              Ip(TCP, Host, PUBLIC_IP)}

AclFrames == {Arp, Ip(TCP, AclHost, Host), Ip(UDP, AclHost, Host),
              Frame("vlan", "ipv4", TCP, AclHost, Ssdp, <<7, 108>>),
              Frame("ipv4", "", UDP, Host, Ssdp, <<7, 108>>),
              Frame("ipv4", "", UDP, Host, Ssdp, <<108, 7>>)}

MCApps == {"tun_echo", "port_mempool", "packet_parsing", "vhost_backend", "vhost_frontend",
           "swap_addr", "static_nat", "l2fwd_acl", "acl_exp", "acl_real", "lpm",
           "packet_change", "meter", "rx_callback"}

\* The applications that look at nothing get two frames to tell apart.
MCFrames == [a \in MCApps |->
               CASE a = "static_nat"                          -> NatFrames
                 [] a \in {"l2fwd_acl", "acl_exp", "acl_real"} -> AclFrames
                 [] OTHER                                     -> {Arp, Ip(TCP, Host, AclHost)}]
=============================================================================
