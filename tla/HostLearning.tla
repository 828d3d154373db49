---------------------------- MODULE HostLearning ----------------------------
(***************************************************************************)
(* The learning switch that the controller and an OpenFlow switch make     *)
(* together: hosts send frames, the switch forwards what a flow matches    *)
(* and passes the rest to the controller, whose hosts table (action_packout*)
(* in ANIv41/_con.cpp) answers with a flow or a flood, or not at all.      *)
(* Switches and hosts are the environment: a switch or its connection may  *)
(* be lost, another one may connect, flows expire, hosts move.             *)
(***************************************************************************)
EXTENDS Integers, HostTable

CONSTANTS
    Switches, Ports,
    Place,        \* where the hosts are at first: [Switches -> [Macs -> Ports]]
    Frames,       \* what the hosts may send
    None,         \* for the datapath_id of a row, which is only printed
    MaxConn,      \* bound: connections
    MaxFrames,    \* bound: frames sent
    MaxMoves      \* bound: hosts that move

ASSUME LearningAssumption ==
    /\ Ports \subseteq Nat \ {0}
    /\ Place \in [Switches -> [Macs -> Ports]]
    /\ Frames \subseteq Packet
    /\ MaxConn \in Nat /\ MaxFrames \in Nat /\ MaxMoves \in Nat

VARIABLES
    proc,         \* "running" or "ended"
    cbench,       \* the option -c
    link,         \* "down", "up", or "gone": the peer left, the socket is open
    sw, conn,     \* the switch of the last connection, and their number
    hosts, buf,
    inq, outq,    \* to and from the controller
    flows,        \* the flow table of each switch
    at, moved,    \* where each host is; the hosts that moved
    frames,       \* history: the frames sent
    out           \* history: for each frame, the sets of ports it left by

controller == <<proc, cbench, hosts, buf>>
channel == <<link, sw, conn, inq, outq>>
network == <<flows, at, moved, frames, out>>
vars == <<controller, channel, network>>

Init ==
    /\ proc = "running" /\ link = "down" /\ sw \in Switches /\ conn = 0
    /\ cbench \in BOOLEAN /\ hosts = <<>> /\ buf = <<>>
    /\ inq = <<>> /\ outq = <<>>
    /\ flows = [s \in Switches |-> {}]
    /\ at = Place /\ moved = {}
    /\ frames = <<>> /\ out = <<>>

Running == proc = "running"

----------------------------------------------------------------------------
(* The controller. *)

\* create_switch_socket; a recv failure left the tables empty.
Connect(s) ==
    /\ Running /\ link = "down" /\ conn < MaxConn
    /\ link' = "up" /\ sw' = s /\ conn' = conn + 1
    /\ inq' = <<>> /\ outq' = <<>>
    /\ UNCHANGED <<controller, network>>

\* Mutant of Read: the messages after the first are lost with -c, too.
ReadFirst ==
    /\ Running /\ link # "down" /\ buf = <<>>
    /\ \E n \in 1 .. Len(inq) :
        /\ buf' = <<Head(inq)>>
        /\ inq' = SubSeq(inq, n + 1, Len(inq))
    /\ UNCHANGED <<proc, cbench, hosts, link, sw, conn, outq, network>>

Read ==
    /\ Running /\ link # "down" /\ buf = <<>>
    /\ \E n \in 1 .. Len(inq) :
        /\ buf' = IF cbench THEN SubSeq(inq, 1, n) ELSE <<Head(inq)>>
        /\ inq' = SubSeq(inq, n + 1, Len(inq))
    /\ UNCHANGED <<proc, cbench, hosts, link, sw, conn, outq, network>>

\* Mutant of ReadFails: the hosts of the lost switch are kept.
ReadFailsKeepsHosts ==
    /\ Running /\ link = "gone" /\ buf = <<>>
    /\ link' = "down" /\ inq' = <<>>
    /\ UNCHANGED <<proc, cbench, hosts, buf, sw, conn, outq, network>>

\* recv returns 0 or fails: communicate_with_switch frees the hosts.
ReadFails ==
    /\ Running /\ link = "gone" /\ buf = <<>>
    /\ link' = "down" /\ inq' = <<>>
    /\ hosts' = <<>>
    /\ UNCHANGED <<proc, cbench, buf, sw, conn, outq, network>>

\* send: what is sent to a lost switch is lost, or ends the program.
Send(m) ==
    CASE link = "up" -> outq' = Append(outq, m) /\ UNCHANGED proc
      [] OTHER -> proc' \in {"running", "ended"} /\ UNCHANGED outq

\* action_packout on a frame of a host; the answer names the buffer that the
\* switch keeps the frame in, and 0 for none.
PacketIn ==
    /\ Running /\ buf # <<>>
    /\ LET m == Head(buf)
           answer == Answer(hosts', m.pkt, m.in_port, cbench)
       IN  /\ hosts' = Learn(hosts, m.pkt, m.in_port, None)
           /\ IF answer = Nothing THEN UNCHANGED <<proc, outq>>
              ELSE Send([msg |-> answer, buffer |-> m.buffer])
    /\ buf' = Tail(buf)
    /\ UNCHANGED <<cbench, link, sw, conn, inq, network>>

----------------------------------------------------------------------------
(* The switch (external).  A flow matches exactly, as wildcards is 0.      *)

Tagged(pkt) == pkt.type = "vlan"

\* The switch finds the ports of TCP and UDP behind the options, too.
Matches(f, port, pkt) ==
    /\ f.in_port = port /\ f.src = pkt.src /\ f.dst = pkt.dst
    /\ f.type = pkt.type /\ (f.dl_vlan = OFP_VLAN_NONE <=> ~Tagged(pkt))
    /\ f.nw_tos = pkt.tos
    /\ f.nw_proto = pkt.proto % 256
    /\ f.tp = pkt.tp

\* A frame of a host: forwarded by a flow, or passed to the controller, in a
\* buffer if there is one; one that is dropped at once is left out.
HostSends(pkt) ==
    /\ Len(frames) < MaxFrames
    /\ LET port == at[sw][pkt.src]
           hits == {f \in flows[sw] : Matches(f, port, pkt)}
           n == Len(frames) + 1
       IN  /\ frames' = Append(frames, [pkt |-> pkt, in_port |-> port,
                                      sw |-> sw, conn |-> conn])
           /\ \/ \E f \in hits : out' = Append(out, <<{f.out_port} \ {port}>>) /\ UNCHANGED inq
              \/ /\ hits = {} /\ link = "up"
                 /\ out' = Append(out, <<>>)
                 /\ \E b \in {0, n} :
                       inq' = Append(inq, [pkt |-> pkt, in_port |-> port, buffer |-> b])
    /\ UNCHANGED <<controller, link, sw, conn, outq, flows, at, moved>>

\* The frame in the buffer leaves by these ports, but never by the one it
\* came in by.
Output(buffer, to) ==
    out' = IF buffer = 0 THEN out
           ELSE [out EXCEPT ![buffer] = Append(@, to \ {frames[buffer].in_port})]

SwitchTakes ==
    /\ link = "up" /\ outq # <<>>
    /\ LET m == Head(outq)
       IN  \/ /\ m.msg.kind = "flow_mod"
              /\ flows' = [flows EXCEPT ![sw] = @ \cup {m.msg}]
              /\ Output(m.buffer, {m.msg.out_port})
           \/ /\ m.msg.kind = "packet_out"
              /\ UNCHANGED flows
              /\ Output(m.buffer, Ports)
    /\ outq' = Tail(outq)
    /\ UNCHANGED <<controller, link, sw, conn, inq, at, moved, frames>>

\* The idle timeout of 60 seconds.
FlowExpires(s) ==
    /\ \E f \in flows[s] : flows' = [flows EXCEPT ![s] = @ \ {f}]
    /\ UNCHANGED <<controller, channel, at, moved, frames, out>>

\* The connection is lost, with the switch and its flows or without.
SwitchLost ==
    /\ link = "up"
    /\ link' = "gone" /\ outq' = <<>>
    /\ UNCHANGED flows \/ flows' = [flows EXCEPT ![sw] = {}]
    /\ UNCHANGED <<controller, sw, conn, inq, at, moved, frames, out>>

HostMoves(mac, port) ==
    /\ mac \notin moved /\ Cardinality(moved) < MaxMoves
    /\ port # at[sw][mac]
    /\ at' = [at EXCEPT ![sw][mac] = port]
    /\ moved' = moved \cup {mac}
    /\ UNCHANGED <<controller, channel, flows, frames, out>>

----------------------------------------------------------------------------
Controller == Read \/ ReadFails \/ PacketIn

Environment ==
    \/ SwitchLost
    \/ \E pkt \in Frames : HostSends(pkt)
    \/ \E s \in Switches : Connect(s) \/ FlowExpires(s)
    \/ \E mac \in Macs, port \in Ports : HostMoves(mac, port)

Next == Controller \/ SwitchTakes \/ Environment

Spec == Init /\ [][Next]_vars

\* The controller's loop runs while there is something to read, and the
\* switch takes what it is sent.
FairSpec == Spec /\ WF_vars(Controller) /\ WF_vars(SwitchTakes)

----------------------------------------------------------------------------
(* Properties. *)

Row == [mac : Macs, port_no : Ports, datapath_id : {None}]
Flow == [kind : {"flow_mod"}, in_port : Ports, out_port : Ports, src : Macs,
         dst : Macs \cup {Broadcast}, type : {"arp", "ip"}, dl_vlan : {OFP_VLAN_NONE},
         nw_tos : {0}, nw_proto : Nat, tp : Nat]
Reply == Flow \cup [kind : {"packet_out"}, in_port : Ports]
Request == [pkt : Packet, in_port : Ports, buffer : Nat]
Sent == [pkt : Packet, in_port : Ports, sw : Switches, conn : Nat]

TypeOK ==
    /\ proc \in {"running", "ended"} /\ cbench \in BOOLEAN
    /\ link \in {"down", "up", "gone"}
    /\ sw \in Switches /\ conn \in Nat 
    /\ hosts \in Seq(Row) /\ buf \in Seq(Request) /\ inq \in Seq(Request)
    /\ outq \in Seq([msg : Reply, buffer : Nat])
    /\ flows \in [Switches -> SUBSET Flow]
    /\ at \in [Switches -> [Macs -> Ports]] /\ moved \subseteq Macs
    /\ frames \in Seq(Sent) /\ out \in Seq(Seq(SUBSET Ports))
    /\ Len(out) = Len(frames)

\* A host has one row, however often, from wherever and over however many
\* connections it sends (the walk before add_object, _con.cpp:407).
HostsUnique ==
    \A i, j \in DOMAIN hosts : hosts[i].mac = hosts[j].mac => i = j

\* "do not use flow mod unless host in the table" (ChangeLog:35): a flow on
\* its way to the switch leads to a host of the table, to the table's port.
FlowsFollowTable ==
    link = "up" => \A i \in DOMAIN outq :
        outq[i].msg.kind = "flow_mod" =>
            /\ Known(hosts, outq[i].msg.dst)
            /\ outq[i].msg.out_port = PortOf(hosts, outq[i].msg.dst)

\* Flows outlive the table they were made from; still they lead to where the
\* host is, unless it moved.
FlowsLeadHome ==
    \A s \in Switches : \A f \in flows[s] :
        f.dst \notin moved => f.out_port = at[s][f.dst]

\* A frame leaves the switch at most once, and one for a host that did not
\* move leaves at that host only (but an IP frame of protocol 255 is flooded,
\* and with -c every IPv6 frame).
UnicastGoesHome ==
    \A n \in DOMAIN frames :
        /\ Len(out[n]) <= 1
        /\ LET pkt == frames[n].pkt
           IN  pkt.dst \in Macs \ moved /\ ~Floods(pkt, cbench) =>
                 \A i \in DOMAIN out[n] : out[n][i] \subseteq {at[frames[n].sw][pkt.dst]}

\* What the controller is for: flows lead home, and so does every frame, though
\* hosts are learned, flows expire and switches are replaced meanwhile.
LeadsHome == FlowsLeadHome /\ UnicastGoesHome

Session(f) == f.type = "ip" /\ f.nw_proto \in {IP_TYPE_TCP, IP_TYPE_UDP}

\* A frame that a TCP or UDP flow can have been made for, and one whose flow is
\* of use: no type of service, no options before the ports.
MadeFor(s, f, sent) ==
    /\ sent.sw = s /\ sent.in_port = f.in_port
    /\ sent.pkt.type = "ip" /\ sent.pkt.src = f.src /\ sent.pkt.dst = f.dst
    /\ sent.pkt.proto = f.nw_proto /\ sent.pkt.at20 = f.tp

Plain(pkt) == pkt.tos = 0 /\ pkt.at20 = pkt.tp

\* A TCP or UDP flow was made for a frame that a host sent to this switch, and
\* matches it, so that the next frames of the session do not come to the
\* controller again - but the flow made for a frame with a type of service other
\* than 0, or with IP options before its ports, does not match that frame.
SessionFlowsMatch ==
    \A s \in Switches : \A f \in flows[s] :
        Session(f) =>
            /\ \E n \in DOMAIN frames : MadeFor(s, f, frames[n])
            /\ \A n \in DOMAIN frames : MadeFor(s, f, frames[n]) =>
                  (Matches(f, frames[n].in_port, frames[n].pkt) <=> Plain(frames[n].pkt))

\* A buffered frame for a host of the table is delivered, unless the
\* connection is lost.  (With -c; the normal mode may drop the packet-in.)
Waiting(n) ==
    \E i \in DOMAIN (buf \o inq) :
        LET m == (buf \o inq)[i]
        IN  /\ m.buffer = n
            /\ Directs(m.pkt) /\ Known(hosts, m.pkt.dst)

KnownIsReached ==
    \A n \in 1 .. MaxFrames : cbench /\ Waiting(n) ~> link # "up" \/ (n \in DOMAIN out /\ out[n] # <<>>)
============================================================================
