------------------------------ MODULE MCAniV21 ------------------------------
(* Two switches with different numbers of ports, and one without. *)
EXTENDS AniV21, TLC

CONSTANTS s1, s2, s3, h1, h2

MCPortsOf == (s1 :> <<1, 3>>) @@ (s2 :> <<2>>) @@ (s3 :> <<>>)

Arp == [type |-> "data", in_port |-> 1,
        pkt |-> [type |-> "arp", proto |-> 1, tos |-> 0, tp |-> 0, at20 |-> 0,
                src |-> h1, dst |-> Broadcast]]

MCTraffic == {Arp} \cup {[type |-> type] : type \in {"echo", "other", "alien", "lldp"}}
=============================================================================
