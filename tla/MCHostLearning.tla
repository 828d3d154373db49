--------------------------- MODULE MCHostLearning ---------------------------
(* Two hosts, a switch with three ports and one where they sit elsewhere. *)
EXTENDS HostLearning, TLC

CONSTANTS s1, s2, h1, h2

MCPlace == (s1 :> (h1 :> 1 @@ h2 :> 2)) @@ (s2 :> (h1 :> 2 @@ h2 :> 1))

Frame(type, proto, tp, src, dst) ==
    [type |-> type, proto |-> proto, tos |-> 0, tp |-> tp, at20 |-> tp,
     src |-> src, dst |-> dst]

Ask == Frame("arp", 1, 0, h1, Broadcast)
Tell == Frame("arp", 2, 0, h2, h1)
Tcp == Frame("ip", 6, 80, h1, h2)
Ping == Frame("ip", 1, 8, h2, h1)
Odd == Frame("ip", 255, 0, h1, h2)
Ip6 == Frame("ip6", 0, 0, h1, h2)
Marked == [Tcp EXCEPT !.tos = 16]
Optioned == [Tcp EXCEPT !.at20 = 443]

Talk == {Ask, Tell, Tcp, Ping, Ip6}

\* Frames that are flooded or directed, and two for TCP that the flows made for
\* them do not match.
SomeFrames == {Ask, Tell, Tcp, Odd, Marked, Optioned}
=============================================================================
