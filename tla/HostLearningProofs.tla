------------------------- MODULE HostLearningProofs -------------------------
(* Proofs about the learning switch: its types, that its flows follow the   *)
(* hosts table, and that flows and frames lead home, for any hosts, ports, *)
(* frames, switches and bounds.                                            *)
EXTENDS HostLearning, TLAPS

Unique(rows) == \A i, j \in DOMAIN rows : rows[i].mac = rows[j].mac => i = j

\* In a table without doubles, the walk finds the one row of an address.
LEMMA PortOfRow ==
    ASSUME NEW rows \in Seq(Row), Unique(rows), NEW i \in DOMAIN rows
    PROVE  Known(rows, rows[i].mac) /\ PortOf(rows, rows[i].mac) = rows[i].port_no
<1> DEFINE P(k) == k \in DOMAIN rows /\ rows[k].mac = rows[i].mac
                   /\ \A j \in DOMAIN rows : rows[j].mac = rows[i].mac => k <= j
<1>1. DOMAIN rows \subseteq Nat
    OBVIOUS
<1>2. P(i)
    BY <1>1 DEF Unique
<1>3. \A k : P(k) => k = i
    BY DEF Unique
<1>4. RowOf(rows, rows[i].mac) = CHOOSE k \in DOMAIN rows :
          rows[k].mac = rows[i].mac
          /\ \A j \in DOMAIN rows : rows[j].mac = rows[i].mac => k <= j
    BY DEF RowOf
<1>5. RowOf(rows, rows[i].mac) = i
    BY <1>2, <1>3, <1>4
<1>6. QED BY <1>5 DEF PortOf, Known

\* A known host has a row, with a port.
LEMMA KnownRow ==
    ASSUME NEW rows \in Seq(Row), Unique(rows), NEW mac, Known(rows, mac)
    PROVE  \E i \in DOMAIN rows : rows[i].mac = mac /\ PortOf(rows, mac) = rows[i].port_no
BY PortOfRow DEF Known

\* Learning keeps the table free of doubles, and what it knew of every host.
LEMMA LearnKeeps ==
    ASSUME NEW rows \in Seq(Row), Unique(rows),
           NEW pkt \in Packet, NEW in_port \in Ports
    PROVE  LET new == Learn(rows, pkt, in_port, None)
           IN  /\ new \in Seq(Row) /\ Unique(new)
               /\ \A mac : Known(rows, mac) =>
                     Known(new, mac) /\ PortOf(new, mac) = PortOf(rows, mac)
<1> DEFINE row == [mac |-> pkt.src, port_no |-> in_port, datapath_id |-> None]
           new == Learn(rows, pkt, in_port, None)
<1>1. CASE new = rows
    BY <1>1
<1>2. CASE pkt.type = "arp" /\ ~Known(rows, pkt.src)
    <2>1. new = Append(rows, row)
        BY <1>2 DEF Learn
    <2>2. row \in Row
        BY DEF Row, Packet
    <2>3. new \in Seq(Row) /\ DOMAIN new = 1 .. Len(rows) + 1 /\ DOMAIN rows = 1 .. Len(rows)
          /\ (\A i \in DOMAIN rows : new[i] = rows[i]) /\ new[Len(rows) + 1] = row
        BY <2>1, <2>2
    <2>4. \A i \in DOMAIN rows : rows[i].mac # row.mac
        BY <1>2 DEF Known
    <2> HIDE DEF new, row
    <2>5. Unique(new)
        <3> SUFFICES ASSUME NEW i \in DOMAIN new, NEW j \in DOMAIN new,
                            new[i].mac = new[j].mac
                     PROVE  i = j
            BY DEF Unique
        <3>1. CASE i \in DOMAIN rows /\ j \in DOMAIN rows
            BY <3>1, <2>3 DEF Unique
        <3>2. CASE i = Len(rows) + 1 /\ j \in DOMAIN rows
            BY <3>2, <2>3, <2>4
        <3>3. CASE i \in DOMAIN rows /\ j = Len(rows) + 1
            BY <3>3, <2>3, <2>4
        <3>4. QED BY <3>1, <3>2, <3>3, <2>3
    <2>6. ASSUME NEW mac, Known(rows, mac)
          PROVE  Known(new, mac) /\ PortOf(new, mac) = PortOf(rows, mac)
        <3>1. PICK i \in DOMAIN rows : rows[i].mac = mac /\ PortOf(rows, mac) = rows[i].port_no
            BY <2>6, KnownRow
        <3>2. i \in DOMAIN new /\ new[i] = rows[i]
            BY <2>3
        <3>3. Known(new, new[i].mac) /\ PortOf(new, new[i].mac) = new[i].port_no
            BY <2>3, <2>5, <3>2, PortOfRow
        <3>4. QED BY <3>1, <3>2, <3>3
    <2>7. QED BY <2>3, <2>5, <2>6 DEF new
<1>3. QED BY <1>1, <1>2 DEF Learn

\* The protocol fits the match, whatever htons makes of it.
LEMMA MatchFields ==
    ASSUME NEW pkt \in Packet
    PROVE  NwProto(pkt) \in Nat /\ Tp(pkt) \in Nat
<1>1. pkt.proto \in Nat /\ pkt.at20 \in Nat
    BY DEF Packet
<1>2. \A n \in Nat : n % 256 \in Nat /\ n \div 256 \in Nat /\ htons(n) \in Nat
    BY DEF htons
<1>3. htons(pkt.proto % 256) \in Nat
    BY <1>1, <1>2
<1>4. NwProto(pkt) \in Nat
    BY <1>1, <1>2, <1>3 DEF NwProto
<1>5. QED BY <1>1, <1>4 DEF Tp

\* The handler's answer is well formed, and a flow leads to a known host.
LEMMA AnswerIsSound ==
    ASSUME NEW rows \in Seq(Row), Unique(rows), NEW pkt \in Packet,
           NEW in_port \in Ports, Answer(rows, pkt, in_port, cbench) # Nothing
    PROVE  LET m == Answer(rows, pkt, in_port, cbench)
           IN  /\ m \in Reply
               /\ m.kind = "flow_mod" =>
                     Known(rows, m.dst) /\ m.out_port = PortOf(rows, m.dst)
<1> DEFINE flow == FlowMod(pkt, in_port, PortOf(rows, pkt.dst))
<1>1. \/ Answer(rows, pkt, in_port, cbench) = Flood(in_port)
      \/ /\ Answer(rows, pkt, in_port, cbench) = flow
         /\ PortOf(rows, pkt.dst) # 0 /\ pkt.type \in {"arp", "ip"}
    BY DEF Answer, ToKnownHost, Directs
<1>2. CASE Answer(rows, pkt, in_port, cbench) = Flood(in_port)
    BY <1>2 DEF Flood, Reply
<1>3. CASE Answer(rows, pkt, in_port, cbench) = flow /\ PortOf(rows, pkt.dst) # 0
           /\ pkt.type \in {"arp", "ip"}
    <2>1. Known(rows, pkt.dst)
        BY <1>3 DEF PortOf
    <2>2. PortOf(rows, pkt.dst) \in Ports
        <3>1. PICK i \in DOMAIN rows : PortOf(rows, pkt.dst) = rows[i].port_no
            BY <2>1, KnownRow
        <3>2. rows[i] \in Row
            OBVIOUS
        <3>3. QED BY <3>1, <3>2 DEF Row
    <2>3. flow \in Flow
        BY <1>3, <2>2, MatchFields DEF FlowMod, Flow, Packet
    <2>4. flow.dst = pkt.dst /\ flow.out_port = PortOf(rows, pkt.dst)
        BY DEF FlowMod
    <2>5. QED BY <1>3, <2>1, <2>3, <2>4 DEF Reply
<1>4. QED BY <1>1, <1>2, <1>3

----------------------------------------------------------------------------
(* Type correctness. *)

USE DEF vars, controller, channel, network

LEMMA TypeInitially == Init => TypeOK
BY LearningAssumption DEF Init, TypeOK

\* Reading keeps the messages well formed.
LEMMA ReadTyped == TypeOK /\ Read => TypeOK'
<1> SUFFICES ASSUME TypeOK, Read PROVE TypeOK'
    OBVIOUS
<1>1. PICK n \in 1 .. Len(inq) :
        /\ buf' = IF cbench THEN SubSeq(inq, 1, n) ELSE <<Head(inq)>>
        /\ inq' = SubSeq(inq, n + 1, Len(inq))
    BY DEF Read
<1>2. inq \in Seq(Request) /\ inq # <<>>
    BY <1>1 DEF TypeOK
<1>3. Head(inq) \in Request
    BY <1>2
<1>4. SubSeq(inq, 1, n) \in Seq(Request) /\ SubSeq(inq, n + 1, Len(inq)) \in Seq(Request)
    BY <1>1, <1>2
<1>5. buf' \in Seq(Request) /\ inq' \in Seq(Request)
    BY <1>1, <1>3, <1>4
<1>6. QED BY <1>5 DEF Read, TypeOK

\* What the handler of a packet-in does to the table and to what is sent.
LEMMA PacketInEffect ==
    ASSUME TypeOK, HostsUnique, PacketIn
    PROVE  /\ hosts' \in Seq(Row) /\ HostsUnique'
           /\ \A mac : Known(hosts, mac) =>
                 Known(hosts', mac) /\ PortOf(hosts', mac) = PortOf(hosts, mac)
           /\ buf' \in Seq(Request)
           /\ proc' \in {"running", "ended"}
           /\ \/ outq' = outq
              \/ \E m \in Reply, b \in Nat :
                    /\ outq' = Append(outq, [msg |-> m, buffer |-> b])
                    /\ m.kind = "flow_mod" =>
                          Known(hosts', m.dst) /\ m.out_port = PortOf(hosts', m.dst)
<1> DEFINE m == Head(buf)
           answer == Answer(hosts', m.pkt, m.in_port, cbench)
<1>1. hosts \in Seq(Row) /\ Unique(hosts) /\ buf \in Seq(Request) /\ buf # <<>>
      /\ proc \in {"running", "ended"}
    BY DEF TypeOK, HostsUnique, Unique, PacketIn
<1>2. m \in Request
    BY <1>1
<1>3. m.pkt \in Packet /\ m.in_port \in Ports /\ m.buffer \in Nat
    BY <1>2 DEF Request
<1>4. hosts' = Learn(hosts, m.pkt, m.in_port, None)
    BY DEF PacketIn
<1>5. hosts' \in Seq(Row) /\ Unique(hosts')
      /\ \A mac : Known(hosts, mac) =>
            Known(hosts', mac) /\ PortOf(hosts', mac) = PortOf(hosts, mac)
    BY <1>1, <1>3, <1>4, LearnKeeps
<1>6. buf' \in Seq(Request)
    BY <1>1 DEF PacketIn
<1>7. CASE answer = Nothing
    <2>1. proc' = proc /\ outq' = outq
        BY <1>7 DEF PacketIn
    <2>2. QED BY <1>1, <1>5, <1>6, <2>1 DEF HostsUnique, Unique
<1>8. CASE answer # Nothing
    <2>1. Send([msg |-> answer, buffer |-> m.buffer])
        BY <1>8 DEF PacketIn
    <2>2. \/ outq' = Append(outq, [msg |-> answer, buffer |-> m.buffer]) /\ proc' = proc
          \/ outq' = outq /\ proc' \in {"running", "ended"}
        BY <2>1 DEF Send
    <2>3. answer \in Reply
          /\ (answer.kind = "flow_mod" =>
                Known(hosts', answer.dst) /\ answer.out_port = PortOf(hosts', answer.dst))
        BY <1>3, <1>5, <1>8, AnswerIsSound
    <2> HIDE DEF answer, m
    <2>4. QED BY <1>1, <1>3, <1>5, <1>6, <2>2, <2>3 DEF HostsUnique, Unique
<1>9. QED BY <1>7, <1>8

\* The history of a buffered frame stays a sequence of sets of ports.
LEMMA OutputTyped ==
    ASSUME TypeOK, NEW buffer \in Nat, NEW to \in SUBSET Ports, Output(buffer, to)
    PROVE  out' \in Seq(Seq(SUBSET Ports)) /\ Len(out') = Len(out)
<1> DEFINE add == to \ {frames[buffer].in_port}
<1>1. out \in Seq(Seq(SUBSET Ports))
    BY DEF TypeOK
<1>2. CASE buffer \in DOMAIN out
    <2>1. out' = [out EXCEPT ![buffer] = Append(@, add)]
        BY <1>1, <1>2 DEF Output
    <2>2. out[buffer] \in Seq(SUBSET Ports) /\ add \in SUBSET Ports
        BY <1>1, <1>2
    <2> HIDE DEF add
    <2>3. Append(out[buffer], add) \in Seq(SUBSET Ports)
        BY <2>2
    <2>4. QED BY <1>1, <1>2, <2>1, <2>3
<1>3. CASE buffer \notin DOMAIN out
    <2>1. out' = out
        BY <1>1, <1>3 DEF Output
    <2>2. QED BY <1>1, <2>1
<1>4. QED BY <1>2, <1>3

LEMMA HeadAndTail ==
    ASSUME NEW S, NEW s \in Seq(S), s # <<>>
    PROVE  Head(s) \in S /\ Tail(s) \in Seq(S)
OBVIOUS

LEMMA SwitchTakesTyped == TypeOK /\ SwitchTakes => TypeOK'
<1> SUFFICES ASSUME TypeOK, SwitchTakes PROVE TypeOK'
    OBVIOUS
<1> DEFINE m == Head(outq)
<1>1. m \in [msg : Reply, buffer : Nat] /\ Tail(outq) \in Seq([msg : Reply, buffer : Nat])
    <2>1. outq # <<>> /\ outq \in Seq([msg : Reply, buffer : Nat])
        BY DEF TypeOK, SwitchTakes
    <2>2. QED BY <2>1, HeadAndTail
<1>2. CASE m.msg.kind = "flow_mod" /\ flows' = [flows EXCEPT ![sw] = @ \cup {m.msg}]
           /\ Output(m.buffer, {m.msg.out_port})
    <2>1. m.msg \in Flow /\ m.msg.out_port \in Ports
        BY <1>1, <1>2 DEF Reply, Flow
    <2> HIDE DEF m
    <2>2. out' \in Seq(Seq(SUBSET Ports)) /\ Len(out') = Len(out)
        BY <1>1, <1>2, <2>1, OutputTyped
    <2>3. flows' \in [Switches -> SUBSET Flow]
        BY <1>2, <2>1 DEF TypeOK
    <2>4. QED BY <1>1, <2>2, <2>3 DEF TypeOK, SwitchTakes, m
<1>3. CASE UNCHANGED flows /\ Output(m.buffer, Ports)
    <2> HIDE DEF m
    <2>1. out' \in Seq(Seq(SUBSET Ports)) /\ Len(out') = Len(out)
        BY <1>1, <1>3, OutputTyped
    <2>2. QED BY <1>1, <1>3, <2>1 DEF TypeOK, SwitchTakes, m
<1>4. QED BY <1>2, <1>3 DEF SwitchTakes

LEMMA HostSendsTyped ==
    ASSUME TypeOK, NEW pkt \in Frames, HostSends(pkt)
    PROVE  TypeOK'
<1> DEFINE port == at[sw][pkt.src]
           sent == [pkt |-> pkt, in_port |-> port, sw |-> sw, conn |-> conn]
<1>1. pkt \in Packet
    BY LearningAssumption
<1>2. port \in Ports
    BY <1>1 DEF TypeOK, Packet
<1>3. sent \in Sent /\ frames' = Append(frames, sent)
    BY <1>1, <1>2 DEF HostSends, Sent, TypeOK
<1>4. frames' \in Seq(Sent) /\ Len(frames') = Len(frames) + 1
    BY <1>3 DEF TypeOK
<1>5. \E o \in Seq(SUBSET Ports) : out' = Append(out, o)
    <2>1. \A f \in flows[sw] : <<{f.out_port} \ {port}>> \in Seq(SUBSET Ports)
        BY DEF TypeOK, Flow
    <2>2. <<>> \in Seq(SUBSET Ports)
        OBVIOUS
    <2>3. QED BY <2>1, <2>2 DEF HostSends
<1>6. out' \in Seq(Seq(SUBSET Ports)) /\ Len(out') = Len(frames')
    BY <1>4, <1>5 DEF TypeOK
<1>7. inq' \in Seq(Request)
    <2>1. CASE inq' = inq
        BY <2>1 DEF TypeOK
    <2>2. CASE \E b \in {0, Len(frames) + 1} :
                 inq' = Append(inq, [pkt |-> pkt, in_port |-> port, buffer |-> b])
        <3>1. PICK b \in {0, Len(frames) + 1} :
                 inq' = Append(inq, [pkt |-> pkt, in_port |-> port, buffer |-> b])
            BY <2>2
        <3>2. [pkt |-> pkt, in_port |-> port, buffer |-> b] \in Request
            BY <1>1, <1>2 DEF Request, TypeOK
        <3>3. QED BY <3>1, <3>2 DEF TypeOK
    <2>3. QED BY <2>1, <2>2 DEF HostSends
<1>8. QED BY <1>4, <1>6, <1>7 DEF HostSends, TypeOK

\* The invariant behind the theorems: the table has no doubles.
TableInv == TypeOK /\ HostsUnique

LEMMA TableInductive == TableInv /\ [Next]_vars => TableInv'
<1> SUFFICES ASSUME TableInv, [Next]_vars PROVE TableInv'
    OBVIOUS
<1> USE DEF TableInv
<1>1. CASE Read
    BY <1>1, ReadTyped DEF Read, HostsUnique
<1>2. CASE ReadFails
    BY <1>2 DEF ReadFails, TypeOK, HostsUnique
<1>3. CASE PacketIn
    <2>1. outq' \in Seq([msg : Reply, buffer : Nat])
        <3>1. CASE outq' = outq
            BY <3>1 DEF TypeOK
        <3>2. CASE \E m \in Reply, b \in Nat : outq' = Append(outq, [msg |-> m, buffer |-> b])
            <4>1. PICK m \in Reply, b \in Nat : outq' = Append(outq, [msg |-> m, buffer |-> b])
                BY <3>2
            <4>2. [msg |-> m, buffer |-> b] \in [msg : Reply, buffer : Nat]
                OBVIOUS
            <4>3. QED BY <4>1, <4>2 DEF TypeOK
        <3>3. QED BY <1>3, <3>1, <3>2, PacketInEffect
    <2>2. QED BY <1>3, <2>1, PacketInEffect DEF PacketIn, TypeOK
<1>4. CASE SwitchTakes
    BY <1>4, SwitchTakesTyped DEF SwitchTakes, HostsUnique
<1>5. CASE \E pkt \in Frames : HostSends(pkt)
    BY <1>5, HostSendsTyped DEF HostSends, HostsUnique
<1>6. ASSUME NEW s \in Switches, Connect(s) PROVE TableInv'
    BY <1>6 DEF Connect, TypeOK, HostsUnique
<1>7. ASSUME NEW s \in Switches, FlowExpires(s) PROVE TableInv'
    <2>1. PICK f \in flows[s] : flows' = [flows EXCEPT ![s] = @ \ {f}]
        BY <1>7 DEF FlowExpires
    <2>2. flows' \in [Switches -> SUBSET Flow]
        BY <2>1 DEF TypeOK
    <2>3. QED BY <1>7, <2>2 DEF FlowExpires, TypeOK, HostsUnique
<1>8. CASE SwitchLost
    <2>1. flows' \in [Switches -> SUBSET Flow]
        BY <1>8 DEF SwitchLost, TypeOK
    <2>2. QED BY <1>8, <2>1 DEF SwitchLost, TypeOK, HostsUnique
<1>9. ASSUME NEW mac \in Macs, NEW port \in Ports, HostMoves(mac, port) PROVE TableInv'
    <2>1. at' \in [Switches -> [Macs -> Ports]]
        BY <1>9 DEF HostMoves, TypeOK
    <2>2. QED BY <1>9, <2>1 DEF HostMoves, TypeOK, HostsUnique
<1>10. CASE UNCHANGED vars
    BY <1>10 DEF TypeOK, HostsUnique
<1>11. QED BY <1>1, <1>2, <1>3, <1>4, <1>5, <1>6, <1>7, <1>8, <1>9, <1>10
           DEF Next, Controller, Environment

LEMMA TableAlways == Spec => []TableInv
<1>1. Init => TableInv
    BY TypeInitially DEF Init, TableInv, HostsUnique
<1>2. QED BY <1>1, TableInductive, PTL DEF Spec

\* Every value stays of its type.
THEOREM LearningTypeCorrect == Spec => []TypeOK
<1>1. TableInv => TypeOK
    BY DEF TableInv
<1>2. QED BY <1>1, TableAlways, PTL

\* A host never gets a second row, however many hosts, ports and connections.
THEOREM HostsStayUnique == Spec => []HostsUnique
<1>1. TableInv => HostsUnique
    BY DEF TableInv
<1>2. QED BY <1>1, TableAlways, PTL

----------------------------------------------------------------------------
(* Flows follow the table.  The table only grows while a connection lasts,  *)
(* so what it said when a flow was made it says for ever.                  *)

FlowInv == TableInv /\ FlowsFollowTable

LEMMA FlowInductive == FlowInv /\ [Next]_vars => FlowsFollowTable'
<1> SUFFICES ASSUME FlowInv, [Next]_vars PROVE FlowsFollowTable'
    OBVIOUS
<1> USE DEF FlowInv, TableInv
<1>1. CASE PacketIn
    <2> SUFFICES ASSUME link' = "up", NEW i \in DOMAIN outq', outq'[i].msg.kind = "flow_mod"
                 PROVE  /\ Known(hosts', outq'[i].msg.dst)
                        /\ outq'[i].msg.out_port = PortOf(hosts', outq'[i].msg.dst)
        BY DEF FlowsFollowTable
    <2>1. link = "up"
        BY <1>1 DEF PacketIn
    <2>2. CASE i \in DOMAIN outq /\ outq'[i] = outq[i]
        <3>1. Known(hosts, outq[i].msg.dst) /\ outq[i].msg.out_port = PortOf(hosts, outq[i].msg.dst)
            BY <2>1, <2>2 DEF FlowsFollowTable
        <3>2. QED BY <1>1, <2>2, <3>1, PacketInEffect
    <2>3. CASE ~(i \in DOMAIN outq /\ outq'[i] = outq[i])
        <3>1. PICK m \in Reply, b \in Nat :
                /\ outq' = Append(outq, [msg |-> m, buffer |-> b])
                /\ m.kind = "flow_mod" =>
                      Known(hosts', m.dst) /\ m.out_port = PortOf(hosts', m.dst)
            BY <1>1, <2>3, PacketInEffect
        <3>2. outq \in Seq([msg : Reply, buffer : Nat])
            BY DEF TypeOK
        <3>3. i = Len(outq) + 1 /\ outq'[i] = [msg |-> m, buffer |-> b]
            BY <2>3, <3>1, <3>2
        <3>4. QED BY <3>1, <3>3
    <2>4. QED BY <2>2, <2>3
<1>2. CASE SwitchTakes
    <2>1. outq # <<>> /\ outq \in Seq([msg : Reply, buffer : Nat])
        BY <1>2 DEF SwitchTakes, TypeOK
    <2>2. outq' = Tail(outq) /\ link = "up" /\ hosts' = hosts
        BY <1>2 DEF SwitchTakes
    <2>3. \A i \in DOMAIN outq' : i + 1 \in DOMAIN outq /\ outq'[i] = outq[i + 1]
        BY <2>1, <2>2
    <2>4. QED BY <2>2, <2>3 DEF FlowsFollowTable
<1>3. CASE Read \/ ReadFails \/ SwitchLost
    BY <1>3 DEF Read, ReadFails, SwitchLost, FlowsFollowTable
<1>4. ASSUME NEW s \in Switches, Connect(s) PROVE FlowsFollowTable'
    BY <1>4 DEF Connect, FlowsFollowTable
<1>5. ASSUME NEW s \in Switches, FlowExpires(s) PROVE FlowsFollowTable'
    BY <1>5 DEF FlowExpires, FlowsFollowTable
<1>6. CASE \E pkt \in Frames : HostSends(pkt)
    BY <1>6 DEF HostSends, FlowsFollowTable
<1>7. ASSUME NEW mac \in Macs, NEW port \in Ports, HostMoves(mac, port) PROVE FlowsFollowTable'
    BY <1>7 DEF HostMoves, FlowsFollowTable
<1>8. CASE UNCHANGED vars
    BY <1>8 DEF FlowsFollowTable
<1>9. QED BY <1>1, <1>2, <1>3, <1>4, <1>5, <1>6, <1>7, <1>8
          DEF Next, Controller, Environment

\* A flow on its way to the switch leads to a host of the table, to the port
\* that the table has for it at that time.
THEOREM FlowsAlwaysFollowTable == Spec => []FlowsFollowTable
<1>1. Init => FlowInv
    BY TypeInitially DEF Init, FlowInv, TableInv, HostsUnique, FlowsFollowTable
<1>2. FlowInv /\ [Next]_vars => FlowInv'
    BY TableInductive, FlowInductive DEF FlowInv
<1>3. FlowInv => FlowsFollowTable
    BY DEF FlowInv
<1>4. QED BY <1>1, <1>2, <1>3, PTL DEF Spec

----------------------------------------------------------------------------
(* Flows and frames lead home.  What the controller learns and answers is  *)
(* about frames of the connected switch, and stays true while their hosts  *)
(* do not move.                                                            *)

\* The port leads to the host, unless it moved.
Home(s, mac, port) == mac \notin moved => port = at[s][mac]

\* The frame in the buffer is from this switch, and has not left it.
Kept(b, pkt) ==
    b # 0 => /\ b \in DOMAIN frames
             /\ frames[b].pkt = pkt /\ frames[b].sw = sw
             /\ out[b] = <<>>

\* A request is about a frame that was sent, from where its host is.
RequestOK(r) ==
    /\ Home(sw, r.pkt.src, r.in_port)
    /\ Kept(r.buffer, r.pkt)
    /\ \E n \in DOMAIN frames :
          frames[n].pkt = r.pkt /\ frames[n].in_port = r.in_port /\ frames[n].sw = sw

\* A flow leads to a host, and was made for a frame that was sent.
FlowOK(s, f) ==
    /\ f.dst \in Macs /\ Home(s, f.dst, f.out_port)
    /\ Session(f) =>
          \E n \in DOMAIN frames : MadeFor(s, f, frames[n])

\* An answer is a flow for the host that the frame is for, or a flood of a
\* frame that may be flooded.
AnswerOK(a) ==
    /\ a.msg.kind = "flow_mod" => FlowOK(sw, a.msg)
    /\ \E pkt \in Packet :
          /\ Kept(a.buffer, pkt)
          /\ IF a.msg.kind = "flow_mod" THEN a.msg.dst = pkt.dst ELSE Floods(pkt, cbench)

PendingInv ==
    /\ link = "down" => buf = <<>> /\ inq = <<>> /\ hosts = <<>>
    /\ link # "up" => outq = <<>>
    /\ \A i \in DOMAIN hosts : Home(sw, hosts[i].mac, hosts[i].port_no)
    /\ \A i \in DOMAIN buf : RequestOK(buf[i])
    /\ \A i \in DOMAIN inq : RequestOK(inq[i])
    /\ \A i \in DOMAIN outq : AnswerOK(outq[i])

\* No buffer is named twice.
Once(q) == \A i, j \in DOMAIN q : q[i].buffer = q[j].buffer /\ q[i].buffer # 0 => i = j
Apart(q, r) ==
    \A i \in DOMAIN q, j \in DOMAIN r : q[i].buffer = r[j].buffer => q[i].buffer = 0

BuffersInv ==
    /\ Once(buf) /\ Once(inq) /\ Once(outq)
    /\ Apart(buf, inq) /\ Apart(buf, outq) /\ Apart(inq, outq)

\* What MadeFor compares, without the switch.
FieldsOf(f, in_port, pkt) ==
    /\ f.in_port = in_port
    /\ pkt.type = "ip" /\ f.src = pkt.src /\ f.dst = pkt.dst
    /\ f.nw_proto = pkt.proto /\ f.tp = pkt.at20

FlowsInv == \A s \in Switches : \A f \in flows[s] : FlowOK(s, f)

LearnInv == TableInv /\ PendingInv /\ BuffersInv /\ FlowsInv /\ UnicastGoesHome

\* A flow for TCP or UDP names the fields of the frame that it
\* is made for.
LEMMA FlowFields ==
    ASSUME NEW pkt \in Packet, NEW in_port, NEW out_port, Directs(pkt),
           Session(FlowMod(pkt, in_port, out_port))
    PROVE  FieldsOf(FlowMod(pkt, in_port, out_port), in_port, pkt)
<1>1. pkt.type = "ip" /\ NwProto(pkt) \in {6, 17}
    BY DEF Session, FlowMod, IP_TYPE_TCP, IP_TYPE_UDP
<1>2. pkt.proto \in {1, 6, 17} /\ NwProto(pkt) = pkt.proto % 256
    BY <1>1 DEF Directs, NwProto, IP_TYPE_ICMP, IP_TYPE_TCP, IP_TYPE_UDP
<1>3. NwProto(pkt) = pkt.proto /\ pkt.proto \in {6, 17}
    BY <1>1, <1>2
<1>4. Tp(pkt) = pkt.at20
    BY <1>1, <1>3 DEF Tp, IP_TYPE_ICMP
<1>5. QED BY <1>1, <1>3, <1>4 DEF FieldsOf, FlowMod

\* What an answer is: a flood of a frame to be flooded, or a flow to a row.
LEMMA AnswerIsRight ==
    ASSUME NEW rows \in Seq(Row), Unique(rows), NEW pkt \in Packet,
           NEW in_port \in Ports, NEW m, m = Answer(rows, pkt, in_port, cbench), m # Nothing
    PROVE  \/ Floods(pkt, cbench) /\ m.kind = "packet_out"
           \/ /\ m.kind = "flow_mod" /\ m.dst = pkt.dst
              /\ \E i \in DOMAIN rows : rows[i].mac = m.dst /\ rows[i].port_no = m.out_port
              /\ Session(m) => FieldsOf(m, in_port, pkt)
<1> DEFINE flow == FlowMod(pkt, in_port, PortOf(rows, pkt.dst))
<1>1. CASE Floods(pkt, cbench)
    BY <1>1 DEF Answer, Flood
<1>2. CASE ~Floods(pkt, cbench)
    <2>1. Directs(pkt) /\ m = flow /\ PortOf(rows, pkt.dst) # 0
        BY <1>2 DEF Answer, ToKnownHost
    <2>2. Known(rows, pkt.dst)
        BY <2>1 DEF PortOf
    <2>3. \E i \in DOMAIN rows : rows[i].mac = pkt.dst /\ rows[i].port_no = PortOf(rows, pkt.dst)
        BY <2>2, KnownRow
    <2>4. m.kind = "flow_mod" /\ m.dst = pkt.dst /\ m.out_port = PortOf(rows, pkt.dst)
          /\ m.type = pkt.type /\ m.nw_proto = NwProto(pkt)
        BY <2>1 DEF FlowMod
    <2>5. Session(m) => FieldsOf(m, in_port, pkt)
        BY <2>1, <2>4, FlowFields
    <2>6. QED BY <2>3, <2>4, <2>5
<1>3. QED BY <1>1, <1>2

\* The frames of the past stay, and so do the hosts that never move.
Lasting ==
    /\ \A n \in DOMAIN frames : n \in DOMAIN frames' /\ frames'[n] = frames[n]
    /\ moved \subseteq moved'
    /\ \A s \in Switches, mac \in Macs \ moved' : at'[s][mac] = at[s][mac]
    /\ cbench' = cbench

\* What the switch notes of a frame of a host.
LEMMA FrameSent ==
    ASSUME TypeOK, NEW pkt \in Frames, HostSends(pkt)
    PROVE  \E sent \in Sent :
              /\ frames' = Append(frames, sent)
              /\ sent.pkt = pkt /\ sent.sw = sw /\ sent.in_port = at[sw][pkt.src]
<1> DEFINE sent == [pkt |-> pkt, in_port |-> at[sw][pkt.src], sw |-> sw, conn |-> conn]
<1>1. pkt \in Packet
    BY LearningAssumption
<1>2. at[sw][pkt.src] \in Ports
    BY <1>1 DEF TypeOK, Packet
<1>3. sent \in Sent
    BY <1>1, <1>2 DEF Sent, TypeOK
<1>4. QED BY <1>3 DEF HostSends

LEMMA StepsLast == TypeOK /\ [Next]_vars => Lasting
<1> SUFFICES ASSUME TypeOK, [Next]_vars PROVE Lasting
    OBVIOUS
<1>1. ASSUME NEW pkt \in Frames, HostSends(pkt) PROVE Lasting
    <2>1. PICK sent \in Sent : frames' = Append(frames, sent)
        BY <1>1, FrameSent
    <2>2. frames \in Seq(Sent)
        BY DEF TypeOK
    <2>3. \A n \in DOMAIN frames : n \in DOMAIN frames' /\ frames'[n] = frames[n]
        BY <2>1, <2>2
    <2>4. UNCHANGED <<moved, at, cbench>>
        BY <1>1 DEF HostSends
    <2>5. QED BY <2>3, <2>4 DEF Lasting
<1>2. ASSUME NEW mac \in Macs, NEW port \in Ports, HostMoves(mac, port) PROVE Lasting
    <2>1. at' = [at EXCEPT ![sw][mac] = port] /\ moved' = moved \cup {mac}
          /\ UNCHANGED <<frames, cbench>>
        BY <1>2 DEF HostMoves
    <2>2. at \in [Switches -> [Macs -> Ports]] /\ sw \in Switches
        BY DEF TypeOK
    <2>3. \A s \in Switches, h \in Macs \ moved' : at'[s][h] = at[s][h]
        <3> SUFFICES ASSUME NEW s \in Switches, NEW h \in Macs, h \notin moved'
                     PROVE  at'[s][h] = at[s][h]
            OBVIOUS
        <3>1. h # mac
            BY <2>1
        <3>2. at'[s] = IF s = sw THEN [at[s] EXCEPT ![mac] = port] ELSE at[s]
            BY <2>1, <2>2
        <3>3. QED BY <2>2, <3>1, <3>2
    <2>4. QED BY <2>1, <2>3 DEF Lasting
<1>3. ASSUME UNCHANGED <<frames, moved, at, cbench>> PROVE Lasting
    BY <1>3 DEF Lasting
<1>4. Controller \/ SwitchTakes \/ SwitchLost \/ (\E s \in Switches : Connect(s) \/ FlowExpires(s))
      \/ UNCHANGED vars => Lasting
    BY <1>3 DEF Controller, Read, ReadFails, PacketIn, SwitchTakes, SwitchLost, Connect, FlowExpires
<1>5. QED
    BY <1>1, <1>2, <1>4 DEF Next, Environment

\* What is right stays right while the switch is the same and the frame is in
\* its buffer.
LEMMA RequestStays ==
    ASSUME Lasting, TypeOK, sw' = sw
    PROVE  \A r \in Request :
              RequestOK(r) /\ (r.buffer # 0 => out'[r.buffer] = out[r.buffer]) => RequestOK(r)'
  BY DEF Lasting, RequestOK, Kept, Home, Request, Packet, TypeOK

LEMMA FlowStays ==
    ASSUME Lasting, TypeOK
    PROVE  \A s \in Switches, f \in Flow : FlowOK(s, f) => FlowOK(s, f)'
  BY DEF Lasting, FlowOK, Home, TypeOK

LEMMA AnswerStays ==
    ASSUME Lasting, TypeOK, sw' = sw
    PROVE  \A a \in [msg : Reply, buffer : Nat] :
              AnswerOK(a) /\ (a.buffer # 0 => out'[a.buffer] = out[a.buffer]) => AnswerOK(a)'
<1> SUFFICES ASSUME NEW a \in [msg : Reply, buffer : Nat], AnswerOK(a),
                    a.buffer # 0 => out'[a.buffer] = out[a.buffer]
             PROVE  AnswerOK(a)'
    OBVIOUS
<1>1. a.msg.kind = "flow_mod" => FlowOK(sw, a.msg)'
    <2>1. a.msg.kind = "flow_mod" => a.msg \in Flow
        BY DEF Reply
    <2>2. sw \in Switches
        BY DEF TypeOK
    <2>3. QED BY <2>1, <2>2, FlowStays DEF AnswerOK, FlowOK, Home
<1>2. \E pkt \in Packet :
          /\ Kept(a.buffer, pkt)'
          /\ IF a.msg.kind = "flow_mod" THEN a.msg.dst = pkt.dst ELSE Floods(pkt, cbench)'
    BY DEF AnswerOK, Kept, Lasting, Floods
<1>3. QED BY <1>1, <1>2 DEF AnswerOK

LEMMA FlowsStay ==
    ASSUME TypeOK, TypeOK', Lasting, FlowsInv,
           \A s \in Switches : \A f \in flows'[s] : f \in flows[s] \/ FlowOK(s, f)
    PROVE  FlowsInv'
<1> SUFFICES ASSUME NEW s \in Switches, NEW f \in flows'[s] PROVE FlowOK(s, f)'
    BY DEF FlowsInv
<1>1. f \in Flow
    BY DEF TypeOK
<1>2. FlowOK(s, f)
    BY DEF FlowsInv
<1>3. QED BY <1>1, <1>2, FlowStays

LEMMA DeliveredStays ==
    ASSUME TypeOK, Lasting, UNCHANGED <<frames, out>>, UnicastGoesHome
    PROVE  UnicastGoesHome'
<1> SUFFICES ASSUME NEW n \in DOMAIN frames
             PROVE  /\ Len(out[n]) <= 1
                    /\ LET pkt == frames[n].pkt
                       IN  pkt.dst \in Macs \ moved' /\ ~Floods(pkt, cbench) =>
                              \A i \in DOMAIN out[n] : out[n][i] \subseteq {at'[frames[n].sw][pkt.dst]}
    BY DEF UnicastGoesHome, Lasting
<1>1. frames[n] \in Sent
    BY DEF TypeOK
<1>2. frames[n].sw \in Switches
    BY <1>1 DEF Sent
<1>3. QED BY <1>2 DEF UnicastGoesHome, Lasting

LEMMA Elements ==
    ASSUME NEW S, NEW s \in Seq(S)
    PROVE  \A i \in DOMAIN s : s[i] \in S
OBVIOUS

LEMMA PendingAnswers ==
    ASSUME TypeOK, PendingInv
    PROVE  \A i \in DOMAIN outq : outq[i] \in [msg : Reply, buffer : Nat] /\ AnswerOK(outq[i])
<1>1. outq \in Seq([msg : Reply, buffer : Nat])
    BY DEF TypeOK
<1>2. \A i \in DOMAIN outq : outq[i] \in [msg : Reply, buffer : Nat]
    BY <1>1, Elements
<1>3. QED BY <1>2 DEF PendingInv

\* A step that leaves the frames alone and brings no message.
LEMMA QuietStep ==
    ASSUME LearnInv, TypeOK', Lasting, UNCHANGED <<sw, hosts, frames, out>>,
           buf' = buf, inq' = inq \/ inq' = <<>>, outq' = outq \/ outq' = <<>>,
           link' = "down" => buf' = <<>> /\ inq' = <<>> /\ hosts' = <<>>,
           link' # "up" => outq' = <<>>
    PROVE  PendingInv' /\ BuffersInv' /\ UnicastGoesHome'
<1> USE DEF LearnInv, TableInv
<1>1. UnicastGoesHome'
    BY DeliveredStays
<1>2. BuffersInv'
    BY DEF BuffersInv, Once, Apart
<1>3. \A i \in DOMAIN hosts' : Home(sw, hosts[i].mac, hosts[i].port_no)'
    <2> SUFFICES ASSUME NEW i \in DOMAIN hosts
                 PROVE  hosts[i].mac \notin moved' => hosts[i].port_no = at'[sw][hosts[i].mac]
        BY DEF Home
    <2>1. hosts[i] \in Row /\ sw \in Switches
        BY DEF TypeOK
    <2>2. QED BY <2>1 DEF Row, PendingInv, Home, Lasting
<1>4. \A i \in DOMAIN buf' : RequestOK(buf[i])'
    <2>1. \A i \in DOMAIN buf : buf[i] \in Request /\ RequestOK(buf[i])
        BY DEF TypeOK, PendingInv
    <2>2. QED BY <2>1, RequestStays
<1>5. \A i \in DOMAIN inq' : RequestOK(inq[i])'
    <2>1. \A i \in DOMAIN inq : inq[i] \in Request /\ RequestOK(inq[i])
        BY DEF TypeOK, PendingInv
    <2>2. \A i \in DOMAIN inq' : i \in DOMAIN inq /\ inq'[i] = inq[i]
        OBVIOUS
    <2>3. QED BY <2>1, <2>2, RequestStays
<1>6. \A i \in DOMAIN outq' : AnswerOK(outq[i])'
    <2>1. \A i \in DOMAIN outq : outq[i] \in [msg : Reply, buffer : Nat] /\ AnswerOK(outq[i])
        BY PendingAnswers
    <2>2. \A i \in DOMAIN outq' : i \in DOMAIN outq /\ outq'[i] = outq[i]
        OBVIOUS
    <2>3. QED BY <2>1, <2>2, AnswerStays
<1>7. QED BY <1>1, <1>2, <1>3, <1>4, <1>5, <1>6 DEF PendingInv

LEMMA ReadLearns ==
    ASSUME LearnInv, TypeOK', Lasting, Read
    PROVE  PendingInv' /\ BuffersInv' /\ UnicastGoesHome'
<1> USE DEF LearnInv, TableInv
<1>1. PICK n \in 1 .. Len(inq) :
        /\ buf' = IF cbench THEN SubSeq(inq, 1, n) ELSE <<Head(inq)>>
        /\ inq' = SubSeq(inq, n + 1, Len(inq))
    BY DEF Read
<1>2. inq \in Seq(Request) /\ inq # <<>> /\ n \in Nat
    BY <1>1 DEF TypeOK
<1>3. \A i \in DOMAIN buf' : i \in DOMAIN inq /\ i <= n /\ buf'[i] = inq[i]
    BY <1>1, <1>2
<1>4. \A i \in DOMAIN inq' : i \in Nat \ {0} /\ n + i \in DOMAIN inq /\ inq'[i] = inq[n + i]
    BY <1>1, <1>2
<1>5. UNCHANGED <<sw, hosts, frames, out, outq, link>> /\ link # "down"
    BY DEF Read
<1>6. UnicastGoesHome'
    BY <1>5, DeliveredStays
<1>7. (\A i \in DOMAIN buf' : RequestOK(buf[i])') /\ (\A i \in DOMAIN inq' : RequestOK(inq[i])')
    <2>1. \A i \in DOMAIN inq : inq[i] \in Request /\ RequestOK(inq[i])
        BY DEF TypeOK, PendingInv
    <2>2. QED BY <2>1, <1>3, <1>4, <1>5, RequestStays
<1>8. \A i \in DOMAIN hosts' : Home(sw, hosts[i].mac, hosts[i].port_no)'
    BY DEF Read, PendingInv, Home
<1>9. \A i \in DOMAIN outq' : AnswerOK(outq[i])'
    <2>1. \A i \in DOMAIN outq : outq[i] \in [msg : Reply, buffer : Nat] /\ AnswerOK(outq[i])
        BY PendingAnswers
    <2>2. QED BY <2>1, <1>5, AnswerStays
<1>10. PendingInv'
    BY <1>3, <1>4, <1>5, <1>7, <1>8, <1>9 DEF PendingInv
<1>11. \A i, j \in DOMAIN inq : inq[i].buffer = inq[j].buffer /\ inq[i].buffer # 0 => i = j
    BY DEF BuffersInv, Once
<1>12. Once(buf') /\ Once(inq') /\ Apart(buf', inq')
    <2>1. Once(buf')
        BY <1>3, <1>11 DEF Once
    <2>2. Once(inq')
        BY <1>2, <1>4, <1>11 DEF Once
    <2>3. Apart(buf', inq')
        <3> SUFFICES ASSUME NEW i \in DOMAIN buf', NEW j \in DOMAIN inq',
                            buf'[i].buffer = inq'[j].buffer
                     PROVE  buf'[i].buffer = 0
            BY DEF Apart
        <3>1. i \in DOMAIN inq /\ i <= n /\ n + j \in DOMAIN inq /\ j \in Nat \ {0} /\ i \in Nat
            BY <1>2, <1>3, <1>4
        <3>2. n + j # i
            BY <1>2, <3>1
        <3>3. QED BY <1>3, <1>4, <1>11, <3>1, <3>2
    <2>4. QED BY <2>1, <2>2, <2>3
<1>13. Apart(buf', outq') /\ Apart(inq', outq') /\ Once(outq')
    BY <1>3, <1>4, <1>5 DEF BuffersInv, Apart
<1>14. QED BY <1>6, <1>10, <1>12, <1>13 DEF BuffersInv

LEMMA Appended ==
    ASSUME NEW S, NEW s \in Seq(S), NEW x \in S
    PROVE  /\ DOMAIN Append(s, x) = DOMAIN s \cup {Len(s) + 1} /\ Len(s) + 1 \notin DOMAIN s
           /\ \A i \in DOMAIN s : Append(s, x)[i] = s[i]
           /\ Append(s, x)[Len(s) + 1] = x
OBVIOUS

LEMMA TailIndex ==
    ASSUME NEW S, NEW s \in Seq(S), s # <<>>
    PROVE  /\ 1 \in DOMAIN s /\ s[1] = Head(s)
           /\ \A i \in DOMAIN Tail(s) : i + 1 \in DOMAIN s /\ i + 1 # 1 /\ Tail(s)[i] = s[i + 1] /\ i \in Nat
OBVIOUS

\* The answer to a request that is right is right.
LEMMA NewAnswer ==
    ASSUME TypeOK, NEW m \in Request, RequestOK(m), NEW rows \in Seq(Row), Unique(rows),
           \A i \in DOMAIN rows : Home(sw, rows[i].mac, rows[i].port_no),
           NEW answer, answer = Answer(rows, m.pkt, m.in_port, cbench), answer # Nothing
    PROVE  AnswerOK([msg |-> answer, buffer |-> m.buffer])
<1> DEFINE a == [msg |-> answer, buffer |-> m.buffer]
<1>1. m.pkt \in Packet /\ m.in_port \in Ports
    BY DEF Request
<1>2. CASE Floods(m.pkt, cbench) /\ answer.kind = "packet_out"
    BY <1>1, <1>2 DEF AnswerOK, RequestOK
<1>3. CASE /\ answer.kind = "flow_mod" /\ answer.dst = m.pkt.dst
           /\ \E i \in DOMAIN rows : rows[i].mac = answer.dst /\ rows[i].port_no = answer.out_port
           /\ Session(answer) => FieldsOf(answer, m.in_port, m.pkt)
    <2>1. PICK i \in DOMAIN rows : rows[i].mac = answer.dst /\ rows[i].port_no = answer.out_port
        BY <1>3
    <2>2. rows[i] \in Row
        OBVIOUS
    <2>3. answer.dst \in Macs /\ Home(sw, answer.dst, answer.out_port)
        BY <2>1, <2>2 DEF Row
    <2>4. FlowOK(sw, answer)
        BY <1>3, <2>3 DEF FlowOK, RequestOK, MadeFor, FieldsOf
    <2>5. QED BY <1>1, <1>3, <2>4 DEF AnswerOK, RequestOK
<1>4. QED BY <1>1, <1>2, <1>3, AnswerIsRight

LEMMA PacketInLearns ==
    ASSUME LearnInv, TypeOK', HostsUnique', Lasting, PacketIn
    PROVE  PendingInv' /\ BuffersInv' /\ UnicastGoesHome'
<1> USE DEF LearnInv, TableInv
<1> DEFINE m == Head(buf)
           answer == Answer(hosts', m.pkt, m.in_port, cbench)
           a == [msg |-> answer, buffer |-> m.buffer]
<1>1. buf # <<>> /\ buf \in Seq(Request) /\ buf' = Tail(buf)
      /\ hosts' = Learn(hosts, m.pkt, m.in_port, None)
    BY DEF PacketIn, TypeOK
<1>2. UNCHANGED <<sw, inq, link, at, moved, frames, out, cbench>>
    BY DEF PacketIn
<1>3. m \in Request /\ RequestOK(m) /\ 1 \in DOMAIN buf /\ buf[1] = m
    BY <1>1, TailIndex DEF PendingInv
<1>4. link # "down"
    BY <1>1 DEF PendingInv
<1>5. \A i \in DOMAIN hosts' : Home(sw, hosts'[i].mac, hosts'[i].port_no)
    <2>1. CASE hosts' = hosts
        BY <2>1 DEF PendingInv
    <2>2. CASE hosts' = Append(hosts, [mac |-> m.pkt.src, port_no |-> m.in_port, datapath_id |-> None])
        <3> DEFINE row == [mac |-> m.pkt.src, port_no |-> m.in_port, datapath_id |-> None]
        <3>1. row \in Row /\ hosts \in Seq(Row)
            BY <1>3 DEF Row, Request, Packet, TypeOK
        <3>2. Home(sw, row.mac, row.port_no)
            BY <1>3 DEF RequestOK
        <3> HIDE DEF row
        <3>3. \A i \in DOMAIN hosts' :
                 (i \in DOMAIN hosts /\ hosts'[i] = hosts[i]) \/ hosts'[i] = row
            BY <2>2, <3>1, Appended DEF row
        <3>4. QED BY <3>2, <3>3 DEF PendingInv
    <2>3. QED BY <1>1, <2>1, <2>2 DEF Learn
<1>6. \/ outq' = outq
      \/ link = "up" /\ answer # Nothing /\ outq' = Append(outq, a)
    BY DEF PacketIn, Send
<1>7. answer # Nothing => AnswerOK(a) /\ a \in [msg : Reply, buffer : Nat]
    <2>1. hosts' \in Seq(Row) /\ Unique(hosts')
        BY DEF TypeOK, HostsUnique, Unique
    <2>2. answer # Nothing => answer \in Reply
        BY <1>3, <2>1, AnswerIsSound DEF Request
    <2>3. m.buffer \in Nat
        BY <1>3 DEF Request
    <2>4. QED BY <1>3, <1>5, <2>1, <2>2, <2>3, NewAnswer
<1> HIDE DEF m, answer, a
<1>8. UnicastGoesHome'
    BY <1>2, DeliveredStays
<1>9. (\A i \in DOMAIN buf' : RequestOK(buf[i])') /\ (\A i \in DOMAIN inq' : RequestOK(inq[i])')
    <2>1. /\ \A i \in DOMAIN inq : inq[i] \in Request /\ RequestOK(inq[i])
          /\ \A i \in DOMAIN buf : buf[i] \in Request /\ RequestOK(buf[i])
        BY DEF TypeOK, PendingInv
    <2>2. \A i \in DOMAIN buf' : i + 1 \in DOMAIN buf /\ buf'[i] = buf[i + 1]
        BY <1>1, TailIndex
    <2>3. QED BY <2>1, <2>2, <1>2, RequestStays
<1>10. outq \in Seq([msg : Reply, buffer : Nat])
    BY DEF TypeOK
<1>11. \A i \in DOMAIN outq' :
          \/ i \in DOMAIN outq /\ outq'[i] = outq[i]
          \/ i = Len(outq) + 1 /\ outq'[i] = a /\ answer # Nothing
    <2>1. CASE outq' = outq
        BY <2>1
    <2>2. CASE outq' = Append(outq, a) /\ answer # Nothing
        BY <2>2, <1>7, <1>10, Appended
    <2>3. QED BY <1>6, <2>1, <2>2
<1>12. \A i \in DOMAIN outq' : AnswerOK(outq[i])'
    <2>1. outq' \in Seq([msg : Reply, buffer : Nat])
        BY DEF TypeOK
    <2>2. \A i \in DOMAIN outq' : outq'[i] \in [msg : Reply, buffer : Nat]
        BY <2>1, Elements
    <2>3. \A i \in DOMAIN outq' : AnswerOK(outq'[i])
        BY <1>7, <1>11, PendingAnswers
    <2>4. QED BY <1>2, <2>2, <2>3, AnswerStays
<1>13. \A i \in DOMAIN hosts' : Home(sw, hosts[i].mac, hosts[i].port_no)'
    BY <1>2, <1>5 DEF Home
<1>14. PendingInv'
    BY <1>2, <1>4, <1>6, <1>9, <1>12, <1>13 DEF PendingInv
<1>15. a.buffer = m.buffer
    BY DEF a
<1>16. \A i \in DOMAIN buf' : i + 1 \in DOMAIN buf /\ buf'[i] = buf[i + 1] /\ i + 1 # 1 /\ i \in Nat
    BY <1>1, TailIndex
<1>17. Once(buf') /\ Once(inq') /\ Apart(buf', inq')
    <2>1. Once(buf')
        BY <1>16 DEF BuffersInv, Once
    <2>2. QED BY <2>1, <1>2, <1>16 DEF BuffersInv, Once, Apart
<1>18. Apart(buf', outq')
    <2> SUFFICES ASSUME NEW i \in DOMAIN buf', NEW j \in DOMAIN outq',
                        buf'[i].buffer = outq'[j].buffer
                 PROVE  buf'[i].buffer = 0
        BY DEF Apart
    <2>1. CASE j \in DOMAIN outq /\ outq'[j] = outq[j]
        BY <2>1, <1>16 DEF BuffersInv, Apart
    <2>2. CASE outq'[j] = a
        BY <2>2, <1>3, <1>15, <1>16 DEF BuffersInv, Once
    <2>3. QED BY <1>11, <2>1, <2>2
<1>19. Apart(inq', outq')
    BY <1>2, <1>3, <1>11, <1>15 DEF BuffersInv, Apart
<1>20. Once(outq')
    <2> SUFFICES ASSUME NEW i \in DOMAIN outq', NEW j \in DOMAIN outq',
                        outq'[i].buffer = outq'[j].buffer, outq'[i].buffer # 0
                 PROVE  i = j
        BY DEF Once
    <2>1. \A k \in DOMAIN outq : outq[k].buffer # m.buffer \/ m.buffer = 0
        BY <1>3 DEF BuffersInv, Apart
    <2>2. QED BY <1>11, <1>15, <2>1 DEF BuffersInv, Once
<1>21. QED BY <1>8, <1>14, <1>17, <1>18, <1>19, <1>20 DEF BuffersInv

\* The switch takes an answer: the frame in the buffer leaves for the first
\* time, by the right port.
LEMMA SwitchTakesLearns ==
    ASSUME LearnInv, TypeOK', Lasting, SwitchTakes
    PROVE  PendingInv' /\ BuffersInv' /\ FlowsInv' /\ UnicastGoesHome'
<1> USE DEF LearnInv, TableInv
<1> DEFINE m == Head(outq)
           b == m.buffer
<1>1. outq # <<>> /\ outq' = Tail(outq) /\ link = "up"
      /\ UNCHANGED <<sw, hosts, buf, inq, link, at, moved, frames, cbench>>
    BY DEF SwitchTakes
<1>2. outq \in Seq([msg : Reply, buffer : Nat])
    BY DEF TypeOK
<1>3. /\ 1 \in DOMAIN outq /\ outq[1] = m
      /\ \A i \in DOMAIN outq' : i + 1 \in DOMAIN outq /\ i + 1 # 1 /\ outq'[i] = outq[i + 1] /\ i \in Nat
    BY <1>1, <1>2, TailIndex
<1>4. m \in [msg : Reply, buffer : Nat] /\ AnswerOK(m)
    BY <1>3, PendingAnswers
<1>5. \/ m.msg.kind = "flow_mod" /\ flows' = [flows EXCEPT ![sw] = @ \cup {m.msg}]
         /\ Output(b, {m.msg.out_port})
      \/ m.msg.kind = "packet_out" /\ flows' = flows /\ Output(b, Ports)
    BY DEF SwitchTakes
<1> HIDE DEF m
<1>6. b \in Nat
    BY <1>4
<1>7. PICK pkt \in Packet :
         /\ Kept(b, pkt)
         /\ IF m.msg.kind = "flow_mod" THEN m.msg.dst = pkt.dst ELSE Floods(pkt, cbench)
    BY <1>4 DEF AnswerOK
<1> HIDE DEF b
<1>8. out \in Seq(Seq(SUBSET Ports)) /\ frames \in Seq(Sent) /\ Len(out) = Len(frames)
    BY DEF TypeOK
<1>9. b # 0 => /\ b \in DOMAIN out /\ b \in DOMAIN frames /\ out[b] = <<>>
               /\ frames[b].pkt = pkt /\ frames[b].sw = sw
    BY <1>7, <1>8 DEF Kept
<1>10. PICK to : /\ out' = IF b = 0 THEN out
                           ELSE [out EXCEPT ![b] = Append(@, to \ {frames[b].in_port})]
                 /\ m.msg.kind = "flow_mod" => to = {m.msg.out_port}
    BY <1>5 DEF Output
<1>11. \A n \in DOMAIN out : n # b => out'[n] = out[n]
    BY <1>8, <1>10
<1>12. b # 0 => out'[b] = <<to \ {frames[b].in_port}>>
    BY <1>8, <1>9, <1>10, SMTT(20)
<1>13. DOMAIN out = DOMAIN frames
    BY <1>8
<1>14. UnicastGoesHome'
    <2> SUFFICES ASSUME NEW n \in DOMAIN frames
                 PROVE  /\ Len(out'[n]) <= 1
                        /\ frames[n].pkt.dst \in Macs \ moved /\ ~Floods(frames[n].pkt, cbench) =>
                              \A i \in DOMAIN out'[n] :
                                  out'[n][i] \subseteq {at[frames[n].sw][frames[n].pkt.dst]}
        BY <1>1 DEF UnicastGoesHome
    <2>1. CASE n # b \/ b = 0
        <3>1. out'[n] = out[n]
            BY <2>1, <1>10, <1>11, <1>13
        <3>2. QED BY <3>1 DEF UnicastGoesHome
    <2>2. CASE n = b /\ b # 0
        <3>1. out'[n] = <<to \ {frames[b].in_port}>>
            BY <2>2, <1>12
        <3>2. ASSUME frames[n].pkt.dst \in Macs \ moved, ~Floods(frames[n].pkt, cbench)
              PROVE  to \subseteq {at[frames[n].sw][frames[n].pkt.dst]}
            <4>1. m.msg.kind = "flow_mod" /\ m.msg.dst = frames[n].pkt.dst /\ frames[n].sw = sw
                BY <2>2, <3>2, <1>7, <1>9
            <4>2. Home(sw, m.msg.dst, m.msg.out_port)
                BY <4>1, <1>4 DEF AnswerOK, FlowOK
            <4>3. m.msg.out_port = at[frames[n].sw][frames[n].pkt.dst]
                BY <3>2, <4>1, <4>2 DEF Home
            <4>4. QED BY <4>1, <4>3, <1>10
        <3>3. Len(out'[n]) = 1 /\ DOMAIN out'[n] = {1} /\ out'[n][1] = to \ {frames[b].in_port}
            BY <3>1
        <3>4. QED BY <3>2, <3>3
    <2>3. QED BY <2>1, <2>2
<1>15. FlowsInv'
    <2>1. m.msg.kind = "flow_mod" => FlowOK(sw, m.msg)
        BY <1>4 DEF AnswerOK
    <2>2. sw \in Switches /\ flows \in [Switches -> SUBSET Flow]
        BY DEF TypeOK
    <2>3. \A s \in Switches : \A f \in flows'[s] : f \in flows[s] \/ FlowOK(s, f)
        BY <1>5, <2>1, <2>2
    <2>4. QED BY <2>3, FlowsStay
<1>16. (\A i \in DOMAIN buf' : RequestOK(buf[i])') /\ (\A i \in DOMAIN inq' : RequestOK(inq[i])')
    <2>1. /\ \A i \in DOMAIN inq : inq[i] \in Request /\ RequestOK(inq[i]) /\ (inq[i].buffer # b \/ b = 0)
          /\ \A i \in DOMAIN buf : buf[i] \in Request /\ RequestOK(buf[i]) /\ (buf[i].buffer # b \/ b = 0)
        BY <1>3, SMTT(20) DEF TypeOK, PendingInv, BuffersInv, Apart, b
    <2>2. \A r \in Request : RequestOK(r) /\ (r.buffer # b \/ b = 0) =>
                                 (r.buffer # 0 => out'[r.buffer] = out[r.buffer])
        BY <1>10, <1>11, <1>13 DEF RequestOK, Kept
    <2>3. QED BY <1>1, <2>1, <2>2, RequestStays
<1>17. \A i \in DOMAIN outq' : AnswerOK(outq[i])'
    <2>1. \A i \in DOMAIN outq : outq[i] \in [msg : Reply, buffer : Nat] /\ AnswerOK(outq[i])
        BY PendingAnswers
    <2>2. \A i \in DOMAIN outq' : outq'[i].buffer # b \/ b = 0
        BY <1>3 DEF BuffersInv, Once, b
    <2>3. \A x \in [msg : Reply, buffer : Nat] : AnswerOK(x) /\ (x.buffer # b \/ b = 0) =>
                                 (x.buffer # 0 => out'[x.buffer] = out[x.buffer])
        BY <1>10, <1>11, <1>13 DEF AnswerOK, Kept
    <2>4. QED BY <1>1, <1>3, <2>1, <2>2, <2>3, AnswerStays
<1>18. PendingInv'
    BY <1>1, <1>16, <1>17 DEF PendingInv, Home
<1>19. BuffersInv'
    <2>1. Once(outq')
        BY <1>3 DEF BuffersInv, Once
    <2>2. QED BY <1>1, <1>3, <2>1 DEF BuffersInv, Apart
<1>20. QED BY <1>14, <1>15, <1>18, <1>19

\* A frame of a host is forwarded by a flow, or becomes a request.
LEMMA HostSendsLearns ==
    ASSUME LearnInv, TypeOK', Lasting, NEW pkt \in Frames, HostSends(pkt)
    PROVE  PendingInv' /\ BuffersInv' /\ FlowsInv' /\ UnicastGoesHome'
<1> USE DEF LearnInv, TableInv
<1> DEFINE port == at[sw][pkt.src]
           n == Len(frames) + 1
<1>1. UNCHANGED <<sw, hosts, buf, outq, link, at, moved, flows, cbench>>
    BY DEF HostSends
<1>2. PICK sent \in Sent : frames' = Append(frames, sent) /\ sent.pkt = pkt /\ sent.sw = sw /\ sent.in_port = port
    BY FrameSent
<1>3. out \in Seq(Seq(SUBSET Ports)) /\ frames \in Seq(Sent) /\ Len(out) = Len(frames)
    BY DEF TypeOK
<1>4. /\ DOMAIN frames' = DOMAIN frames \cup {n} /\ n \notin DOMAIN frames /\ n # 0
      /\ frames'[n] = sent /\ \A k \in DOMAIN frames : frames'[k] = frames[k]
    BY <1>2, <1>3, Appended
<1>5. pkt \in Packet
    BY LearningAssumption
<1>6. PICK o \in Seq(SUBSET Ports) :
         /\ out' = Append(out, o)
         /\ \/ /\ \E f \in flows[sw] : Matches(f, port, pkt) /\ o = <<{f.out_port} \ {port}>>
               /\ inq' = inq
            \/ /\ link = "up" /\ o = <<>>
               /\ \E b \in {0, n} : inq' = Append(inq, [pkt |-> pkt, in_port |-> port, buffer |-> b])
    <2>1. \A f \in flows[sw] : <<{f.out_port} \ {port}>> \in Seq(SUBSET Ports)
        BY DEF TypeOK, Flow
    <2>2. <<>> \in Seq(SUBSET Ports)
        OBVIOUS
    <2>3. QED BY <2>1, <2>2 DEF HostSends
<1> HIDE DEF n, port
<1>7. out'[n] = o /\ \A k \in DOMAIN out : out'[k] = out[k]
    BY <1>3, <1>6, Appended DEF n
<1>8. DOMAIN out = DOMAIN frames
    BY <1>3
<1>9. port = at[sw][pkt.src]
    BY DEF port
<1>10. UnicastGoesHome'
    <2> SUFFICES ASSUME NEW k \in DOMAIN frames'
                 PROVE  /\ Len(out'[k]) <= 1
                        /\ frames'[k].pkt.dst \in Macs \ moved /\ ~Floods(frames'[k].pkt, cbench) =>
                              \A i \in DOMAIN out'[k] :
                                  out'[k][i] \subseteq {at[frames'[k].sw][frames'[k].pkt.dst]}
        BY <1>1 DEF UnicastGoesHome
    <2>1. CASE k \in DOMAIN frames
        <3>1. out'[k] = out[k] /\ frames'[k] = frames[k]
            BY <2>1, <1>4, <1>7, <1>8
        <3>2. QED BY <2>1, <3>1 DEF UnicastGoesHome
    <2>2. CASE k = n
        <3>1. CASE o = <<>>
            BY <2>2, <3>1, <1>7
        <3>2. CASE \E f \in flows[sw] : Matches(f, port, pkt) /\ o = <<{f.out_port} \ {port}>>
            <4>1. PICK f \in flows[sw] : Matches(f, port, pkt) /\ o = <<{f.out_port} \ {port}>>
                BY <3>2
            <4>2. sw \in Switches
                BY DEF TypeOK
            <4>3. f.dst = pkt.dst /\ Home(sw, f.dst, f.out_port)
                BY <4>1, <4>2 DEF Matches, FlowsInv, FlowOK
            <4>4. pkt.dst \in Macs \ moved => f.out_port = at[sw][pkt.dst]
                BY <4>3 DEF Home
            <4>5. Len(o) = 1 /\ DOMAIN o = {1} /\ o[1] = {f.out_port} \ {port}
                BY <4>1
            <4>6. frames'[k].pkt = pkt /\ frames'[k].sw = sw /\ out'[k] = o
                BY <2>2, <1>2, <1>4, <1>7
            <4>7. pkt.dst \in Macs \ moved => \A i \in DOMAIN o : o[i] \subseteq {at[sw][pkt.dst]}
                BY <4>4, <4>5
            <4>8. out'[k] = o /\ Len(o) <= 1
                BY <4>5, <4>6
            <4>9. /\ frames'[k].pkt.dst \in Macs \ moved =>
                        \A i \in DOMAIN o : o[i] \subseteq {at[frames'[k].sw][frames'[k].pkt.dst]}
                BY <4>6, <4>7, Zenon
            <4>10. QED BY <4>8, <4>9, Zenon
        <3>3. QED BY <1>6, <3>1, <3>2
    <2>3. QED BY <1>4, <2>1, <2>2
<1>11. FlowsInv'
    BY <1>1, FlowsStay
<1>12. /\ \A i \in DOMAIN inq : inq[i] \in Request /\ RequestOK(inq[i])
       /\ \A i \in DOMAIN buf : buf[i] \in Request /\ RequestOK(buf[i])
       /\ \A i \in DOMAIN outq : outq[i] \in [msg : Reply, buffer : Nat] /\ AnswerOK(outq[i])
    BY PendingAnswers DEF TypeOK, PendingInv
<1>13. \A r \in Request : RequestOK(r) => RequestOK(r)' /\ r.buffer # n
    <2>1. \A r \in Request : RequestOK(r) => (r.buffer # 0 => out'[r.buffer] = out[r.buffer]) /\ r.buffer # n
        BY <1>4, <1>7, <1>8 DEF RequestOK, Kept
    <2>2. QED BY <1>1, <2>1, RequestStays
<1>14. \A x \in [msg : Reply, buffer : Nat] : AnswerOK(x) => AnswerOK(x)' /\ x.buffer # n
    <2>1. \A x \in [msg : Reply, buffer : Nat] :
             AnswerOK(x) => (x.buffer # 0 => out'[x.buffer] = out[x.buffer]) /\ x.buffer # n
        BY <1>4, <1>7, <1>8 DEF AnswerOK, Kept
    <2>2. QED BY <1>1, <2>1, AnswerStays
<1>15. CASE inq' = inq
    <2>1. BuffersInv'
        BY <1>1, <1>15 DEF BuffersInv
    <2>2. PendingInv'
        BY <1>1, <1>12, <1>13, <1>14, <1>15 DEF PendingInv, Home
    <2>3. QED BY <2>1, <2>2, <1>10, <1>11
<1>16. CASE link = "up" /\ o = <<>>
            /\ \E b \in {0, n} : inq' = Append(inq, [pkt |-> pkt, in_port |-> port, buffer |-> b])
    <2>1. PICK b \in {0, n} : inq' = Append(inq, [pkt |-> pkt, in_port |-> port, buffer |-> b])
        BY <1>16
    <2>2. PICK r \in Request : /\ r.pkt = pkt /\ r.in_port = port /\ r.buffer = b
                              /\ inq' = Append(inq, r)
        <3>1. port \in Ports /\ b \in Nat
            BY <1>3, <1>5 DEF TypeOK, Packet, port, n
        <3>2. QED BY <2>1, <3>1, <1>5 DEF Request
    <2>3. RequestOK(r)'
        BY <2>2, <1>1, <1>2, <1>4, <1>7, <1>9, <1>16 DEF RequestOK, Kept, Home
    <2>5. inq \in Seq(Request)
        BY DEF TypeOK
    <2>6. /\ DOMAIN inq' = DOMAIN inq \cup {Len(inq) + 1}
          /\ \A i \in DOMAIN inq : inq'[i] = inq[i]
          /\ inq'[Len(inq) + 1] = r
        BY <2>2, <2>5, Appended
    <2>7. \A i \in DOMAIN inq' : RequestOK(inq[i])'
        BY <2>3, <2>6, <1>12, <1>13
    <2>8. PendingInv'
        BY <2>7, <1>1, <1>12, <1>13, <1>14, <1>16 DEF PendingInv, Home
    <2>9. Once(inq')
        BY <2>1, <2>2, <2>6, <1>12, <1>13 DEF BuffersInv, Once
    <2>10. Apart(buf, inq') /\ Apart(inq', outq)
        BY <2>1, <2>2, <2>6, <1>12, <1>13, <1>14 DEF BuffersInv, Apart
    <2>11. QED BY <2>8, <2>9, <2>10, <1>1, <1>10, <1>11 DEF BuffersInv
<1>17. QED BY <1>6, <1>15, <1>16

LEMMA LearnInductive == LearnInv /\ [Next]_vars => LearnInv'
<1> SUFFICES ASSUME LearnInv, [Next]_vars PROVE LearnInv'
    OBVIOUS
<1> USE DEF LearnInv
<1>1. TableInv'
    BY TableInductive
<1>2. TypeOK /\ TypeOK' /\ HostsUnique' /\ Lasting
    BY <1>1, StepsLast DEF TableInv
<1> SUFFICES PendingInv' /\ BuffersInv' /\ FlowsInv' /\ UnicastGoesHome'
    BY <1>1
<1>3. ASSUME UNCHANGED flows PROVE FlowsInv'
    BY <1>2, <1>3, FlowsStay DEF LearnInv
<1>4. CASE Read
    BY <1>2, <1>3, <1>4, ReadLearns DEF Read
<1>5. CASE ReadFails
    <2>1. PendingInv' /\ BuffersInv' /\ UnicastGoesHome'
        <3>1. UnicastGoesHome'
            BY <1>2, <1>5, DeliveredStays DEF ReadFails
        <3>2. buf' = <<>> /\ inq' = <<>> /\ hosts' = <<>> /\ outq' = <<>>
            BY <1>5 DEF ReadFails, PendingInv
        <3>3. QED BY <3>1, <3>2 DEF PendingInv, BuffersInv, Once, Apart
    <2>2. QED BY <2>1, <1>3, <1>5 DEF ReadFails
<1>6. CASE PacketIn
    BY <1>2, <1>3, <1>6, PacketInLearns DEF PacketIn
<1>7. CASE SwitchTakes
    BY <1>2, <1>7, SwitchTakesLearns
<1>8. ASSUME NEW pkt \in Frames, HostSends(pkt)
      PROVE  PendingInv' /\ BuffersInv' /\ FlowsInv' /\ UnicastGoesHome'
    BY <1>2, <1>8, HostSendsLearns
<1>9. ASSUME NEW s \in Switches, Connect(s)
      PROVE  PendingInv' /\ BuffersInv' /\ FlowsInv' /\ UnicastGoesHome'
    <2>1. UnicastGoesHome' /\ FlowsInv'
        BY <1>2, <1>3, <1>9, DeliveredStays DEF Connect
    <2>2. buf' = <<>> /\ inq' = <<>> /\ hosts' = <<>> /\ outq' = <<>>
        BY <1>9 DEF Connect, PendingInv
    <2>3. QED BY <2>1, <2>2 DEF PendingInv, BuffersInv, Once, Apart
<1>10. ASSUME NEW s \in Switches, FlowExpires(s)
       PROVE  PendingInv' /\ BuffersInv' /\ FlowsInv' /\ UnicastGoesHome'
    <2>1. PICK f \in flows[s] : flows' = [flows EXCEPT ![s] = @ \ {f}]
        BY <1>10 DEF FlowExpires
    <2>2. \A t \in Switches : \A g \in flows'[t] : g \in flows[t]
        BY <2>1, <1>2 DEF TypeOK
    <2>3. FlowsInv'
        BY <2>2, <1>2, FlowsStay
    <2>4. PendingInv' /\ BuffersInv' /\ UnicastGoesHome'
        BY <1>2, <1>10, QuietStep DEF FlowExpires, PendingInv
    <2>5. QED BY <2>3, <2>4
<1>11. CASE SwitchLost
    <2>1. flows' = flows \/ flows' = [flows EXCEPT ![sw] = {}]
        BY <1>11 DEF SwitchLost
    <2>2. \A t \in Switches : \A g \in flows'[t] : g \in flows[t]
        BY <2>1, <1>2 DEF TypeOK
    <2>3. FlowsInv'
        BY <2>2, <1>2, FlowsStay
    <2>4. PendingInv' /\ BuffersInv' /\ UnicastGoesHome'
        BY <1>2, <1>11, QuietStep DEF SwitchLost, PendingInv
    <2>5. QED BY <2>3, <2>4
<1>12. ASSUME NEW mac \in Macs, NEW port \in Ports, HostMoves(mac, port)
       PROVE  PendingInv' /\ BuffersInv' /\ FlowsInv' /\ UnicastGoesHome'
    <2>1. FlowsInv'
        BY <1>2, <1>3, <1>12 DEF HostMoves
    <2>2. PendingInv' /\ BuffersInv' /\ UnicastGoesHome'
        BY <1>2, <1>12, QuietStep DEF HostMoves, PendingInv
    <2>3. QED BY <2>1, <2>2
<1>13. CASE UNCHANGED vars
    <2>1. FlowsInv'
        BY <1>2, <1>3, <1>13
    <2>2. PendingInv' /\ BuffersInv' /\ UnicastGoesHome'
        BY <1>2, <1>13, QuietStep DEF PendingInv
    <2>3. QED BY <2>1, <2>2
<1>14. QED BY <1>4, <1>5, <1>6, <1>7, <1>8, <1>9, <1>10, <1>11, <1>12, <1>13
           DEF Next, Controller, Environment

LEMMA LearnInitially == Init => LearnInv
BY TypeInitially DEF Init, LearnInv, TableInv, HostsUnique, PendingInv, BuffersInv,
                     Once, Apart, FlowsInv, UnicastGoesHome

LEMMA LearnInvAlways == Spec => []LearnInv
BY LearnInitially, LearnInductive, PTL DEF Spec

\* Every flow leads to where its host is, and a frame leaves at most once, and
\* at its receiver, in every network of hosts that learn over any connections.
THEOREM EverythingLeadsHome == Spec => []LeadsHome
<1>1. LearnInv => LeadsHome
    BY DEF LearnInv, FlowsInv, FlowOK, Home, LeadsHome, FlowsLeadHome
<1>2. QED BY <1>1, LearnInvAlways, PTL

\* A flow matches the frames it can have been made for exactly if there is
\* neither a type of service nor an option in them.
LEMMA MatchesIfPlain ==
    ASSUME NEW s, NEW f \in Flow, Session(f), NEW sent, MadeFor(s, f, sent)
    PROVE  Matches(f, sent.in_port, sent.pkt) <=> Plain(sent.pkt)
<1>1. f.type = "ip" /\ f.nw_proto \in {6, 17}
    BY DEF Session, IP_TYPE_TCP, IP_TYPE_UDP
<1>2. /\ sent.in_port = f.in_port /\ sent.pkt.type = f.type
      /\ sent.pkt.src = f.src /\ sent.pkt.dst = f.dst
      /\ sent.pkt.proto % 256 = f.nw_proto /\ sent.pkt.at20 = f.tp
    BY <1>1 DEF MadeFor
<1>3. f.nw_tos = 0 /\ f.dl_vlan = OFP_VLAN_NONE /\ ~Tagged(sent.pkt)
    BY <1>1, <1>2 DEF Flow, Tagged
<1>4. Matches(f, sent.in_port, sent.pkt) <=> f.nw_tos = sent.pkt.tos /\ f.tp = sent.pkt.tp
    BY <1>2, <1>3 DEF Matches
<1>5. QED BY <1>2, <1>3, <1>4 DEF Plain

\* A flow for TCP or UDP was made for a frame that was sent, and matches the
\* frames it can have been made for, but those with a type of service or IP
\* options.
THEOREM FlowsMatchSessions == Spec => []SessionFlowsMatch
<1>1. LearnInv => SessionFlowsMatch
    <2> SUFFICES ASSUME LearnInv, NEW s \in Switches, NEW f \in flows[s], Session(f)
                 PROVE  /\ \E n \in DOMAIN frames : MadeFor(s, f, frames[n])
                        /\ \A n \in DOMAIN frames : MadeFor(s, f, frames[n]) =>
                              (Matches(f, frames[n].in_port, frames[n].pkt) <=> Plain(frames[n].pkt))
        BY DEF SessionFlowsMatch
    <2>1. f \in Flow
        BY DEF LearnInv, TableInv, TypeOK
    <2>2. \E n \in DOMAIN frames : MadeFor(s, f, frames[n])
        BY DEF LearnInv, FlowsInv, FlowOK
    <2>3. QED BY <2>1, <2>2, MatchesIfPlain
<1>2. QED BY <1>1, LearnInvAlways, PTL
=============================================================================
