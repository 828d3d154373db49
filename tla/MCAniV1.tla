------------------------------ MODULE MCAniV1 ------------------------------
(* Two hosts, a switch with two ports. *)
EXTENDS AniV1, TLC

CONSTANTS h1, h2

Frame(type, proto, tp, src, dst) ==
    [type |-> "data", in_port |-> IF src = h1 THEN 1 ELSE 2,
     pkt |-> [type |-> type, proto |-> proto, tos |-> 0, tp |-> tp, at20 |-> tp,
             src |-> src, dst |-> dst]]

Ask == Frame("arp", 1, 0, h1, Broadcast)
Tell == Frame("arp", 2, 0, h2, h1)
Tcp == Frame("ip", 6, 80, h2, h1)
Udp == Frame("ip", 17, 53, h1, h2)
Igmp == Frame("ip", 2, 0, h1, h2)
Ip6 == Frame("ip6", 0, 0, h1, Broadcast)

Plain(type) == [type |-> type]

Features(list) == [type |-> "features", list |-> list]

MCTraffic == {Ask, Tell, Tcp, Udp, Igmp, Ip6, Features(<<>>), Features(<<3>>)}
             \cup {Plain(type) : type \in {"hello", "echo", "other", "alien"}}
============================================================================
