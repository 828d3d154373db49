-------------------------- MODULE MCLinkDiscovery --------------------------
(* Two controllers, of which one may change its switch; and a row of three. *)
EXTENDS LinkDiscovery, TLC

CONSTANTS s1, s2, s3, k1, k2, k3

Cable(s, m, t, n) ==
    {[datapath_id |-> s, port_no |-> m], [datapath_id |-> t, port_no |-> n]}

\* Port 2 of s2 is one that s2 does not probe.
MCPortsOf == (s1 :> 1) @@ (s2 :> 1) @@ (s3 :> 1)
MCCables == {Cable(s1, 1, s2, 1), Cable(s2, 2, s3, 1)}
MCHomes == (k1 :> {s1, s3}) @@ (k2 :> {s2})
MCMaxConn == (k1 :> 2) @@ (k2 :> 1)

RowPortsOf == (s1 :> 1) @@ (s2 :> 2) @@ (s3 :> 1)
RowCables == {Cable(s1, 1, s2, 1), Cable(s2, 2, s3, 1)}
RowHomes == (k1 :> {s1}) @@ (k2 :> {s2}) @@ (k3 :> {s3})
RowMaxConn == (k1 :> 1) @@ (k2 :> 1) @@ (k3 :> 1)
=============================================================================
