----------------------------- MODULE HostTable -----------------------------
(***************************************************************************)
(* How action_packout (_con.cpp) turns a packet-in that carries ARP, IPv4  *)
(* or IPv6 into a row of the hosts table and an OpenFlow message.  The     *)
(* table is the sequence of rows that hosts.get_object() walks.            *)
(***************************************************************************)
EXTENDS Naturals, Sequences, FiniteSets

CONSTANTS Macs,        \* Ethernet addresses of hosts
          Broadcast    \* ff:ff:ff:ff:ff:ff

ASSUME HostTableAssumption == Broadcast \notin Macs

\* A frame.  A VLAN tag hides the EtherType from the controller, which has no
\* branch for it.  proto is the ARP operation, or the protocol field of the
\* IPv4 header, tos its type of service; tp is the ICMP type, or stands for the
\* two ports of TCP and UDP.  These follow the IPv4 header, which is 20 bytes
\* long but for its options: at20 is what stands there, tp or something else.
Packet == [type : {"arp", "ip", "ip6", "vlan"}, proto : Nat, tos : Nat,
           tp : Nat, at20 : Nat, src : Macs, dst : Macs \cup {Broadcast}]

OFP_VLAN_NONE == 65535

IP_TYPE_ICMP == 1
IP_TYPE_TCP == 6
IP_TYPE_UDP == 17
IP_PROTO_UNKNOWN == 255

Known(hosts, mac) == \E i \in DOMAIN hosts : hosts[i].mac = mac

\* Where the walk from the first row finds this address.
RowOf(hosts, mac) ==
    CHOOSE i \in DOMAIN hosts :
        hosts[i].mac = mac /\ \A j \in DOMAIN hosts : hosts[j].mac = mac => i <= j

\* The port of the first row with this address, and 0 for none.
PortOf(hosts, mac) == IF Known(hosts, mac) THEN hosts[RowOf(hosts, mac)].port_no ELSE 0

\* Mutant of Learn: a host that is in the table is added again.
LearnAlways(hosts, pkt, in_port, dpid) ==
    IF pkt.type = "arp"
    THEN Append(hosts, [mac |-> pkt.src, port_no |-> in_port, datapath_id |-> dpid])
    ELSE hosts

\* Only ARP teaches, and only an address not yet in the table.
Learn(hosts, pkt, in_port, dpid) ==
    IF pkt.type = "arp" /\ ~Known(hosts, pkt.src)
    THEN Append(hosts, [mac |-> pkt.src, port_no |-> in_port, datapath_id |-> dpid])
    ELSE hosts

\* htons on the little-endian hosts the Makefiles build for.
htons(n) == (n % 256) * 256 + (n \div 256)

\* create_of_flow_mod takes the protocol as a uint8_t; the ARP caller passes
\* htons(op) of an op that is a uint8_t too, the IPv4 callers the protocol.
NwProto(pkt) ==
    (IF pkt.type = "arp" THEN htons(pkt.proto % 256) ELSE pkt.proto) % 256

\* Mutant of Tp: the ports are left out of the match.
TpNone(pkt) == 0

\* tp_src and tp_dst: only the TCP and UDP callers fill them in, with what
\* stands 20 bytes after the start of the IPv4 header.
Tp(pkt) == IF pkt.type = "ip" /\ pkt.proto # IP_TYPE_ICMP THEN pkt.at20 ELSE 0

Nothing == [kind |-> "nothing"]

Flood(in_port) == [kind |-> "packet_out", in_port |-> in_port]

\* An exact match on the frame (wildcards is 0), of an untagged frame whose type
\* of service is 0.
FlowMod(pkt, in_port, out_port) ==
    [kind |-> "flow_mod", in_port |-> in_port, out_port |-> out_port,
     src |-> pkt.src, dst |-> pkt.dst, type |-> pkt.type,
     dl_vlan |-> OFP_VLAN_NONE, nw_tos |-> 0,
     nw_proto |-> NwProto(pkt), tp |-> Tp(pkt)]

\* Mutant of ToKnownHost: a port for the sender instead of the receiver.
ToKnownSender(hosts, pkt, in_port) ==
    IF PortOf(hosts, pkt.src) = 0 THEN Nothing
    ELSE FlowMod(pkt, in_port, PortOf(hosts, pkt.src))

\* Mutant of ToKnownHost: a flow for any host.
ToAnyHost(hosts, pkt, in_port) == FlowMod(pkt, in_port, PortOf(hosts, pkt.dst))

ToKnownHost(hosts, pkt, in_port) ==
    IF PortOf(hosts, pkt.dst) = 0 THEN Nothing
    ELSE FlowMod(pkt, in_port, PortOf(hosts, pkt.dst))

\* The frames that are flooded, and those that go to a host of the table; the
\* others are left unanswered.
Floods(pkt, cbench) ==
    \/ pkt.type = "ip6" /\ cbench
    \/ pkt.type = "arp" /\ pkt.dst = Broadcast
    \/ pkt.type = "ip" /\ pkt.proto = IP_PROTO_UNKNOWN

Directs(pkt) ==
    \/ pkt.type = "arp" /\ pkt.dst # Broadcast
    \/ pkt.type = "ip" /\ pkt.proto \in {IP_TYPE_ICMP, IP_TYPE_TCP, IP_TYPE_UDP}

\* What the handler sends, given the table after Learn.
Answer(hosts, pkt, in_port, cbench) ==
    IF Floods(pkt, cbench) THEN Flood(in_port)
    ELSE IF Directs(pkt) THEN ToKnownHost(hosts, pkt, in_port)
    ELSE Nothing
============================================================================
