-------------------------- MODULE MCAniController --------------------------
(* Small instances of the controller for TLC. *)
EXTENDS AniController, TLC

CONSTANTS s1, s2, h1, h2

\* s1 numbers its two ports 1 and 3; s2 has none.
MCPortsOf == (s1 :> <<1, 3>>) @@ (s2 :> <<>>)

Neighbour == [datapath_id |-> s2, port_no |-> 1]
MCNodes == {Neighbour}

Lldp(kind) == [type |-> "lldp", in_port |-> 1, kind |-> kind]
NodeMessage == [type |-> "lldp", in_port |-> 1, kind |-> "node", node |-> Neighbour]
Arp == [type |-> "data", in_port |-> 1,
        pkt |-> [type |-> "arp", proto |-> 1, tos |-> 0, tp |-> 0, at20 |-> 0,
                src |-> h1, dst |-> Broadcast]]
Ip == [type |-> "data", in_port |-> 1,
       pkt |-> [type |-> "ip", proto |-> 1, tos |-> 0, tp |-> 0, at20 |-> 0,
               src |-> h1, dst |-> h2]]

AllTraffic == {Lldp("request"), Lldp("reply"), NodeMessage, Arp, Ip,
               [type |-> "echo"], [type |-> "other"]}
LldpTraffic == {Lldp("request"), Lldp("reply"), NodeMessage}

Symmetry == Permutations(Threads)
============================================================================
