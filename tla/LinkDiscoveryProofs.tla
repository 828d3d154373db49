------------------------ MODULE LinkDiscoveryProofs ------------------------
(***************************************************************************)
(* Proofs about link discovery, for any controllers, switches and cables,  *)
(* any number of connections and of ports, both modes, frames as late as   *)
(* they like, and whatever the threads of earlier connections do.          *)
(***************************************************************************)
EXTENDS LinkDiscovery, SequenceTheorems, TLAPS

(* What may be on its way to end e: a node that is fresh names the other   *)
(* end of the cable.                                                       *)
Arriving(e) == {f \in Frame : f.kind = "node" /\ f.fresh => f.node = Opposite(e)}

(* A row of links, and those that are cables if they are fresh. *)
LinkRow == [node_a : NodeOf, node_b : NodeOf, fresh : BOOLEAN]

CableRow == {l \in LinkRow : l.fresh => {l.node_a, l.node_b} \in Cables}

(* switch_id is that of the switch, once a features reply of it was        *)
(* handled; without a switch none is due and the tables are empty.         *)
KnowsSwitch ==
    \A c \in Controllers :
        /\ known[c] => switch_id[c] = sw[c]
        /\ sw[c] = None =>
              asked[c] = 0 /\ ~known[c] /\ sw_replys[c] = <<>> /\ links[c] = <<>>

WireInv == \A e \in Ends : wire[e] \in Seq(Arriving(e))

LinksInv == \A c \in Controllers : links[c] \in Seq(CableRow)

DiscoveryInv == TypeOK /\ TablesOfThisSwitch /\ KnowsSwitch /\ WireInv /\ LinksInv

(* Every end has an opposite one. *)
LEMMA OppositeEnd ==
    ASSUME NEW e \in Ends
    PROVE  Opposite(e) \in Ends /\ Opposite(e) \in End /\ e \in End /\ {e, Opposite(e)} \in Cables
  <1>1. PICK cable \in Cables : e \in cable
    BY DEF Ends
  <1>2. PICK a \in cable, b \in cable : a # b /\ cable = {a, b}
    BY DiscoveryAssumption
  <1>3. \E far \in Ends : {e, far} \in Cables
    BY <1>1, <1>2 DEF Ends
  <1>4. Opposite(e) \in Ends /\ {e, Opposite(e)} \in Cables
    BY <1>3 DEF Opposite
  <1> QED
    BY <1>4, DiscoveryAssumption DEF Ends

(* Packet-outs keep what is on the way right. *)
LEMMA SendKeeps ==
    ASSUME TypeOK, WireInv, NEW c \in Controllers, NEW frame,
           \A p \in DOMAIN frame : frame[p] \in Frame,
           \A p \in DOMAIN frame : frame[p].kind = "node" /\ frame[p].fresh =>
               frame[p].node = [datapath_id |-> sw[c], port_no |-> p],
           Send(c, frame)
    PROVE  WireInv' /\ wire' \in [Ends -> Seq(Frame)]
  <1>1. ASSUME NEW far \in Ends
        PROVE  wire'[far] \in Seq(Arriving(far)) /\ wire'[far] \in Seq(Frame)
    <2>1. wire[far] \in Seq(Arriving(far)) /\ wire[far] \in Seq(Frame)
      BY DEF WireInv, TypeOK
    <2>2. CASE /\ Opposite(far).datapath_id = sw[c] /\ Opposite(far).port_no \in DOMAIN frame
               /\ wire'[far] = Append(wire[far], frame[Opposite(far).port_no])
      <3>1. Opposite(far) \in End
        BY OppositeEnd
      <3>2. Opposite(far) = [datapath_id |-> sw[c], port_no |-> Opposite(far).port_no]
        BY <2>2, <3>1 DEF End
      <3>3. frame[Opposite(far).port_no] \in Arriving(far) /\ frame[Opposite(far).port_no] \in Frame
        BY <2>2, <3>2 DEF Arriving
      <3> QED
        BY <2>1, <2>2, <3>3, AppendProperties
    <2>3. CASE wire'[far] = wire[far]
      BY <2>1, <2>3
    <2> QED
      BY <2>2, <2>3 DEF Send
  <1>2. wire' = [far \in Ends |-> wire'[far]]
    BY DEF Send
  <1> QED
    BY <1>1, <1>2 DEF WireInv

LEMMA DiscoveryInitially == Init => DiscoveryInv
  <1> SUFFICES ASSUME Init PROVE DiscoveryInv
    OBVIOUS
  <1>1. TypeOK
    BY DiscoveryAssumption, EmptySeq DEF Init, TypeOK
  <1>2. TablesOfThisSwitch /\ KnowsSwitch /\ WireInv /\ LinksInv
    BY EmptySeq DEF Init, TablesOfThisSwitch, KnowsSwitch, WireInv, LinksInv
  <1> QED
    BY <1>1, <1>2 DEF DiscoveryInv

(* The main thread: connections and features replies. *)
LEMMA SwitchKeeps ==
    ASSUME DiscoveryInv, NEW c \in Controllers,
           \/ \E s \in Switches : Connect(c, s)
           \/ Lose(c) \/ FeaturesReply(c) \/ ReplyOverlooked(c)
    PROVE  DiscoveryInv'
  <1> USE DEF DiscoveryInv
  <1>1. ASSUME NEW s \in Switches, Connect(c, s) PROVE DiscoveryInv'
    <2>1. TypeOK'
      <3>1. /\ sw' \in [Controllers -> Switches \cup {None}]
            /\ asked' \in [Controllers -> Nat] /\ conns' \in [Controllers -> Nat]
            /\ cbench' = cbench /\ known' = known
        BY <1>1 DEF Connect, Requests, Set, TypeOK
      <3>2. UNCHANGED <<features, anim_node_counter, lists, threads, wire>>
        BY <1>1 DEF Connect
      <3> QED
        BY <3>1, <3>2 DEF TypeOK, features, lists, threads
    <2>2. /\ sw' = [sw EXCEPT ![c] = s] /\ sw[c] = None
          /\ \A d \in Controllers \ {c} : asked'[d] = asked[d]
          /\ UNCHANGED <<cbench, known, switch_id, sw_replys, links, wire>>
      BY <1>1 DEF Connect, Set, TypeOK, features, lists
    <2>3. TablesOfThisSwitch'
      <3>1. sw_replys[c] = <<>> /\ links[c] = <<>>
        BY <2>2 DEF KnowsSwitch
      <3>2. \A d \in Controllers \ {c} : sw'[d] = sw[d]
        BY <2>2 DEF TypeOK
      <3> QED
        BY <2>2, <3>1, <3>2 DEF TablesOfThisSwitch
    <2>4. KnowsSwitch'
      BY <2>2, DiscoveryAssumption DEF KnowsSwitch, TypeOK
    <2>5. WireInv' /\ LinksInv'
      BY <2>2 DEF WireInv, LinksInv
    <2> QED
      BY <2>1, <2>3, <2>4, <2>5
  <1>2. CASE Lose(c)
    <2>1. /\ sw' = [sw EXCEPT ![c] = None] /\ asked' = [asked EXCEPT ![c] = 0]
          /\ known' = [known EXCEPT ![c] = FALSE]
          /\ sw_replys' = [sw_replys EXCEPT ![c] = <<>>] /\ links' = [links EXCEPT ![c] = <<>>]
          /\ wire' = [e \in Ends |-> IF e.datapath_id = sw[c] THEN <<>> ELSE wire[e]]
          /\ UNCHANGED <<cbench, conns, features, anim_node_counter, threads>>
      BY <1>2 DEF Lose, Set
    <2>2. TypeOK'
      BY <2>1, EmptySeq DEF TypeOK, features, threads
    <2>3. TablesOfThisSwitch' /\ KnowsSwitch'
      BY <2>1 DEF TablesOfThisSwitch, KnowsSwitch, TypeOK, features
    <2>4. WireInv' /\ LinksInv'
      BY <2>1, EmptySeq DEF WireInv, LinksInv, TypeOK
    <2> QED
      BY <2>2, <2>3, <2>4
  <1>3. CASE FeaturesReply(c)
    <2>1. /\ asked[c] > 0 /\ asked' = [asked EXCEPT ![c] = asked[c] - 1]
          /\ known' = [known EXCEPT ![c] = TRUE]
          /\ switch_id' = [switch_id EXCEPT ![c] = sw[c]]
          /\ no_of_ports' = [no_of_ports EXCEPT ![c] = PortsOf[sw[c]]]
          /\ UNCHANGED <<cbench, sw, conns, anim_node_counter, lists, portno, ports_count, wire>>
      BY <1>3 DEF FeaturesReply, Set
    <2>2. sw[c] \in Switches
      BY <2>1 DEF KnowsSwitch, TypeOK
    <2>3. TypeOK'
      <3>1. tpc' \in [Threads -> {"none", "round", "probe", "wait", "report"}]
        BY <1>3 DEF FeaturesReply, NewThread, Set, TypeOK
      <3>2. timer' \in [Threads -> Nat]
        BY <1>3, DiscoveryAssumption DEF FeaturesReply, NewThread, Set, TypeOK
      <3>3. PortsOf[sw[c]] \in Int
        BY <2>2, DiscoveryAssumption
      <3>4. asked' \in [Controllers -> Nat]
        BY <2>1 DEF TypeOK
      <3>5. known' \in [Controllers -> BOOLEAN]
        BY <2>1 DEF TypeOK
      <3>6. switch_id' \in [Controllers -> Switches \cup {None}] /\ no_of_ports' \in [Controllers -> Int]
        BY <2>1, <2>2, <3>3 DEF TypeOK
      <3> QED
        BY <2>1, <3>1, <3>2, <3>4, <3>5, <3>6 DEF TypeOK, lists
    <2>4. TablesOfThisSwitch'
      BY <2>1 DEF TablesOfThisSwitch, lists
    <2>6. KnowsSwitch'
      <3>1. sw'[c] # None
        BY <2>1, <2>2, DiscoveryAssumption
      <3>2. switch_id'[c] = sw'[c]
        BY <2>1 DEF TypeOK
      <3>3. \A d \in Controllers \ {c} :
               asked'[d] = asked[d] /\ known'[d] = known[d] /\ switch_id'[d] = switch_id[d]
        BY <2>1 DEF TypeOK
      <3> QED
        BY <2>1, <3>1, <3>2, <3>3 DEF KnowsSwitch, lists
    <2>5. WireInv' /\ LinksInv'
      BY <2>1 DEF WireInv, LinksInv, lists
    <2> QED
      BY <2>3, <2>4, <2>5, <2>6
  <1>4. CASE ReplyOverlooked(c)
    <2>1. /\ asked[c] > 0 /\ asked' = [asked EXCEPT ![c] = asked[c] - 1]
          /\ UNCHANGED <<cbench, sw, conns, known, features, anim_node_counter, lists, threads, wire>>
      BY <1>4 DEF ReplyOverlooked, Set
    <2>2. TypeOK'
      <3>1. asked' \in [Controllers -> Nat]
        BY <2>1 DEF TypeOK
      <3> QED
        BY <2>1, <3>1 DEF TypeOK, features, lists, threads
    <2>3. TablesOfThisSwitch' /\ KnowsSwitch'
      <3>1. sw[c] # None
        BY <2>1 DEF KnowsSwitch
      <3>2. \A d \in Controllers \ {c} : asked'[d] = asked[d]
        BY <2>1 DEF TypeOK
      <3> QED
        BY <2>1, <3>1, <3>2 DEF TablesOfThisSwitch, KnowsSwitch, features, lists
    <2>4. WireInv' /\ LinksInv'
      BY <2>1 DEF WireInv, LinksInv, lists
    <2> QED
      BY <2>2, <2>3, <2>4
  <1> QED
    BY <1>1, <1>2, <1>3, <1>4

(* The LLDP branch of action_packout. *)
LEMMA PacketKeeps ==
    ASSUME DiscoveryInv, NEW c \in Controllers, NEW e \in Ends,
           Packet(c, e) \/ FrameOverlooked(c, e)
    PROVE  DiscoveryInv'
  <1> USE DEF DiscoveryInv
  <1>1. /\ e.datapath_id = sw[c] /\ wire[e] # <<>>
        /\ wire[e] \in Seq(Arriving(e)) /\ wire[e] \in Seq(Frame)
    BY DEF Packet, EchoRequest, EchoReply, Node, FrameOverlooked, Arrives, WireInv, TypeOK
  <1>2. /\ Head(wire[e]) \in Arriving(e) /\ Tail(wire[e]) \in Seq(Arriving(e))
        /\ Head(wire[e]) \in Frame /\ Tail(wire[e]) \in Seq(Frame)
    BY <1>1, HeadTailProperties
  <1>3. e \in End /\ Opposite(e) \in Ends /\ {e, Opposite(e)} \in Cables
    BY OppositeEnd
  <1>4. e = [datapath_id |-> sw[c], port_no |-> e.port_no] /\ e.port_no \in Nat /\ sw[c] \in Switches
    BY <1>1, <1>3 DEF End
  <1>5. CASE EchoRequest(c, e)
    <2>1. UNCHANGED <<socket, features, anim_node_counter, lists, threads>>
      BY <1>5 DEF EchoRequest
    <2>2. [kind |-> "reply"] \in Frame
      BY DEF Frame
    <2>3. \A f \in Ends : [kind |-> "reply"] \in Arriving(f)
      BY <2>2 DEF Arriving
    <2>4. \A f \in Ends : Append(wire[f], [kind |-> "reply"]) \in Seq(Arriving(f))
      BY <2>3, AppendProperties DEF WireInv
    <2>5. Append(Tail(wire[e]), [kind |-> "reply"]) \in Seq(Arriving(e))
      BY <1>2, <2>3, AppendProperties
    <2>6. WireInv'
      BY <1>2, <1>5, <2>4, <2>5 DEF EchoRequest, WireInv, TypeOK
    <2>7. \A f \in Ends : wire'[f] \in Seq(Frame)
      BY <2>6, SeqMonotonic DEF WireInv, Arriving
    <2>8. TypeOK'
      BY <1>5, <2>1, <2>7 DEF EchoRequest, TypeOK, socket, features, lists, threads
    <2>9. TablesOfThisSwitch' /\ KnowsSwitch' /\ LinksInv'
      BY <2>1 DEF TablesOfThisSwitch, KnowsSwitch, LinksInv, socket, features, lists
    <2> QED
      BY <2>6, <2>8, <2>9
  <1>6. CASE EchoReply(c, e)
    <2>1. /\ sw_replys' = [sw_replys EXCEPT ![c] = Append(sw_replys[c], e.port_no)]
          /\ wire' = [wire EXCEPT ![e] = Tail(wire[e])]
          /\ UNCHANGED <<socket, features, anim_node_counter, links, threads>>
      BY <1>6 DEF EchoReply, Set
    <2>2. /\ Append(sw_replys[c], e.port_no) \in Seq(Nat)
          /\ \A i \in DOMAIN Append(sw_replys[c], e.port_no) :
                \/ Append(sw_replys[c], e.port_no)[i] = e.port_no
                \/ /\ i \in DOMAIN sw_replys[c]
                   /\ Append(sw_replys[c], e.port_no)[i] = sw_replys[c][i]
      <3>1. sw_replys[c] \in Seq(Nat)
        BY DEF TypeOK
      <3> QED
        BY <1>4, <3>1, AppendProperties
    <2>3. TypeOK'
      BY <1>2, <2>1, <2>2 DEF TypeOK, socket, features, threads
    <2>4. TablesOfThisSwitch'
      BY <1>4, <2>1, <2>2 DEF TablesOfThisSwitch, TypeOK, socket
    <2>5. KnowsSwitch' /\ LinksInv'
      <3>1. sw[c] # None
        BY <1>4, DiscoveryAssumption
      <3>2. \A d \in Controllers \ {c} : sw_replys'[d] = sw_replys[d]
        BY <2>1 DEF TypeOK
      <3>3. UNCHANGED <<sw, asked, known, switch_id, links>>
        BY <2>1 DEF socket, features
      <3> QED
        BY <3>1, <3>2, <3>3 DEF KnowsSwitch, LinksInv
    <2>6. WireInv'
      BY <1>2, <2>1 DEF WireInv, TypeOK
    <2> QED
      BY <2>3, <2>4, <2>5, <2>6
  <1>7. CASE Node(c, e)
    <2> DEFINE row == [node_a |-> [datapath_id |-> switch_id[c], port_no |-> e.port_no],
                       node_b |-> Head(wire[e]).node,
                       fresh |-> Head(wire[e]).fresh /\ known[c]]
    <2>1. /\ links' \in {links, [links EXCEPT ![c] = Append(links[c], row)]}
          /\ anim_node_counter' = [anim_node_counter EXCEPT ![c] = 0]
          /\ wire' = [wire EXCEPT ![e] = Tail(wire[e])]
          /\ UNCHANGED <<socket, features, sw_replys, threads>>
          /\ Head(wire[e]).kind = "node"
      BY <1>7 DEF Node, Set, Arrives
    <2>2. Head(wire[e]).node \in NodeOf /\ Head(wire[e]).fresh \in BOOLEAN /\ known[c] \in BOOLEAN
      BY <1>2, <2>1 DEF Frame, TypeOK
    <2>3. row \in LinkRow
      <3>1. row.node_a \in NodeOf
        BY <1>4 DEF NodeOf, TypeOK
      <3> QED
        BY <2>2, <3>1 DEF LinkRow
    <2>4. row \in CableRow
      <3> SUFFICES ASSUME row.fresh PROVE {row.node_a, row.node_b} \in Cables
        BY <2>3 DEF CableRow
      <3>1. row.node_a = e
        BY <1>4, DiscoveryAssumption DEF KnowsSwitch
      <3>2. row.node_b = Opposite(e)
        BY <1>2, <2>1 DEF Arriving
      <3> QED
        BY <1>3, <3>1, <3>2
    <2>5. row.node_a.port_no = e.port_no
      OBVIOUS
    <2> HIDE DEF row
    <2>6. /\ Append(links[c], row) \in Seq(CableRow)
          /\ \A i \in DOMAIN Append(links[c], row) :
                \/ Append(links[c], row)[i] = row
                \/ /\ i \in DOMAIN links[c]
                   /\ Append(links[c], row)[i] = links[c][i]
      <3>1. links[c] \in Seq(CableRow)
        BY DEF LinksInv
      <3> QED
        BY <2>4, <3>1, AppendProperties
    <2>7. Append(links[c], row) \in Seq(LinkRow)
      BY <2>6, SeqMonotonic DEF CableRow
    <2>8. TypeOK'
      <3>1. links' \in [Controllers -> Seq(LinkRow)]
        BY <2>1, <2>7 DEF TypeOK, LinkRow
      <3>2. anim_node_counter' \in [Controllers -> 0 .. WaitLimit + 1]
        BY <2>1, DiscoveryAssumption DEF TypeOK
      <3>3. wire' \in [Ends -> Seq(Frame)]
        BY <1>2, <2>1 DEF TypeOK
      <3> QED
        BY <2>1, <3>1, <3>2, <3>3 DEF TypeOK, LinkRow, socket, features, threads
    <2>9. TablesOfThisSwitch'
      <3>1. \A i \in DOMAIN links'[c] :
               \/ links'[c][i].node_a.port_no = e.port_no
               \/ i \in DOMAIN links[c] /\ links'[c][i] = links[c][i]
        BY <2>1, <2>5, <2>6 DEF TypeOK
      <3>2. \A d \in Controllers \ {c} : links'[d] = links[d]
        BY <2>1 DEF TypeOK
      <3>3. [datapath_id |-> sw[c], port_no |-> e.port_no] \in Ends
        BY <1>4
      <3> QED
        BY <2>1, <3>1, <3>2, <3>3 DEF TablesOfThisSwitch, socket
    <2>10. KnowsSwitch' /\ LinksInv'
      <3>1. \A d \in Controllers \ {c} : links'[d] = links[d]
        BY <2>1 DEF TypeOK
      <3>2. sw[c] # None
        BY <1>4, DiscoveryAssumption
      <3>3. links'[c] \in Seq(CableRow)
        BY <2>1, <2>6 DEF LinksInv, TypeOK
      <3> QED
        BY <2>1, <3>1, <3>2, <3>3 DEF KnowsSwitch, LinksInv, socket, features
    <2>11. WireInv'
      BY <1>2, <2>1 DEF WireInv, TypeOK
    <2> QED
      BY <2>8, <2>9, <2>10, <2>11
  <1>8. CASE FrameOverlooked(c, e)
    <2>1. /\ wire' = [wire EXCEPT ![e] = Tail(wire[e])]
          /\ UNCHANGED <<socket, features, anim_node_counter, lists, threads>>
      BY <1>8 DEF FrameOverlooked, Set
    <2>2. WireInv'
      BY <1>2, <2>1 DEF WireInv, TypeOK
    <2>3. TypeOK'
      BY <1>2, <2>1 DEF TypeOK, socket, features, lists, threads
    <2>4. TablesOfThisSwitch' /\ KnowsSwitch' /\ LinksInv'
      BY <2>1 DEF TablesOfThisSwitch, KnowsSwitch, LinksInv, socket, features, lists
    <2> QED
      BY <2>2, <2>3, <2>4
  <1> QED
    BY <1>5, <1>6, <1>7, <1>8 DEF Packet

(* node_share_func. *)
LEMMA ThreadKeeps ==
    ASSUME DiscoveryInv, NEW t \in Threads, ThreadStep(t)
    PROVE  DiscoveryInv'
  <1> USE DEF DiscoveryInv
  <1>1. t[1] \in Controllers
    BY DEF Threads
  <1>2. ASSUME TypeOK', UNCHANGED <<socket, features, lists>>, WireInv'
        PROVE  DiscoveryInv'
    BY <1>2 DEF TablesOfThisSwitch, KnowsSwitch, LinksInv, socket, features, lists
  <1>3. CASE RoundStart(t)
    <2>1. /\ UNCHANGED <<socket, features, lists, timer, wire>>
          /\ anim_node_counter' = [anim_node_counter EXCEPT ![t[1]] = 0]
          /\ ports_count' = [ports_count EXCEPT ![t] = no_of_ports[t[1]]]
          /\ portno' = [portno EXCEPT ![t] = 1] /\ tpc' = [tpc EXCEPT ![t] = "probe"]
      BY <1>3 DEF RoundStart, Set
    <2>2. anim_node_counter' \in [Controllers -> 0 .. WaitLimit + 1]
      <3>1. 0 \in 0 .. WaitLimit + 1
        BY DiscoveryAssumption
      <3>2. anim_node_counter \in [Controllers -> 0 .. WaitLimit + 1]
        BY DEF TypeOK
      <3> HIDE DEF TypeOK
      <3> QED
        BY <2>1, <3>1, <3>2
    <2>3. /\ ports_count' \in [Threads -> Int] /\ portno' \in [Threads -> Nat]
          /\ tpc' \in [Threads -> {"none", "round", "probe", "wait", "report"}]
      BY <1>1, <2>1 DEF TypeOK
    <2>4. TypeOK'
      BY <2>1, <2>2, <2>3 DEF TypeOK, socket, features, lists
    <2> QED
      BY <1>2, <2>1, <2>4 DEF WireInv
  <1>4. CASE Probe(t)
    <2> DEFINE frame == [p \in {portno[t]} |-> [kind |-> "request"]]
    <2>1. /\ UNCHANGED <<socket, features, anim_node_counter, lists, tpc, ports_count>>
          /\ portno' = [portno EXCEPT ![t] = portno[t] + 1]
          /\ timer' = [timer EXCEPT ![t] = ProbeSleep]
          /\ Send(t[1], frame)
      BY <1>4 DEF Probe, Set
    <2>2. \A p \in DOMAIN frame : frame[p] \in Frame /\ frame[p].kind # "node"
      BY DEF Frame
    <2> HIDE DEF frame
    <2>3. WireInv' /\ wire' \in [Ends -> Seq(Frame)]
      BY <1>1, <2>1, <2>2, SendKeeps
    <2>4. portno' \in [Threads -> Nat] /\ timer' \in [Threads -> Nat]
      BY <2>1, DiscoveryAssumption DEF TypeOK
    <2>5. TypeOK'
      BY <2>1, <2>3, <2>4 DEF TypeOK, socket, features, lists
    <2> QED
      BY <1>2, <2>1, <2>3, <2>5
  <1>5. CASE Announce(t)
    <2> DEFINE c == t[1]
               frame == [p \in ToSet(sw_replys[c]) |->
                            [kind |-> "node", fresh |-> known[c],
                             node |-> [datapath_id |-> switch_id[c], port_no |-> p]]]
    <2>1. /\ UNCHANGED <<socket, features, anim_node_counter, lists, portno, ports_count, timer>>
          /\ tpc' = [tpc EXCEPT ![t] = "wait"]
          /\ Send(c, frame)
      BY <1>5 DEF Announce, Set
    <2>2. ASSUME NEW p \in DOMAIN frame
          PROVE  /\ frame[p] \in Frame
                 /\ frame[p].fresh => frame[p].node = [datapath_id |-> sw[c], port_no |-> p]
      <3>1. PICK i \in DOMAIN sw_replys[c] : p = sw_replys[c][i]
        BY DEF ToSet
      <3>2. p \in Nat
        BY <1>1, <3>1, ElementOfSeq DEF TypeOK
      <3>3. [datapath_id |-> switch_id[c], port_no |-> p] \in NodeOf
        BY <1>1, <3>2 DEF NodeOf, TypeOK
      <3>4. known[c] \in BOOLEAN
        BY <1>1 DEF TypeOK
      <3>5. frame[p] \in Frame
        BY <3>3, <3>4 DEF Frame
      <3>6. sw[c] # None
        BY <1>1, <3>1 DEF KnowsSwitch
      <3> QED
        BY <1>1, <3>5, <3>6 DEF KnowsSwitch
    <2> HIDE DEF frame
    <2>3. WireInv' /\ wire' \in [Ends -> Seq(Frame)]
      BY <1>1, <2>1, <2>2, SendKeeps
    <2>4. tpc' \in [Threads -> {"none", "round", "probe", "wait", "report"}]
      BY <2>1 DEF TypeOK
    <2>5. TypeOK'
      BY <2>1, <2>3, <2>4 DEF TypeOK, socket, features, lists
    <2> QED
      BY <1>2, <2>1, <2>3, <2>5
  <1>6. CASE Wait(t)
    <2>1. /\ UNCHANGED <<socket, features, lists, tpc, portno, ports_count, wire>>
          /\ ~(anim_node_counter[t[1]] > WaitLimit)
          /\ anim_node_counter' = [anim_node_counter EXCEPT ![t[1]] = anim_node_counter[t[1]] + 1]
          /\ timer' = [timer EXCEPT ![t] = 1]
      BY <1>6 DEF Wait, Set
    <2>2. anim_node_counter' \in [Controllers -> 0 .. WaitLimit + 1]
      BY <1>1, <2>1, DiscoveryAssumption DEF TypeOK
    <2>3. timer' \in [Threads -> Nat]
      BY <2>1 DEF TypeOK
    <2>4. TypeOK'
      BY <2>1, <2>2, <2>3 DEF TypeOK, socket, features, lists
    <2> QED
      BY <1>2, <2>1, <2>4 DEF WireInv
  <1>7. CASE WaitEnd(t)
    <2>1. /\ tpc' = [tpc EXCEPT ![t] = "report"]
          /\ UNCHANGED <<socket, features, anim_node_counter, lists, portno, ports_count, timer, wire>>
      BY <1>7 DEF WaitEnd, Set
    <2>2. tpc' \in [Threads -> {"none", "round", "probe", "wait", "report"}]
      BY <2>1 DEF TypeOK
    <2>3. TypeOK'
      BY <2>1, <2>2 DEF TypeOK, socket, features, lists
    <2> QED
      BY <1>2, <2>1, <2>3 DEF WireInv
  <1>8. CASE Report(t)
    <2>1. /\ links' = [links EXCEPT ![t[1]] = <<>>] /\ sw_replys' = [sw_replys EXCEPT ![t[1]] = <<>>]
          /\ tpc' = [tpc EXCEPT ![t] = "round"]
          /\ UNCHANGED <<socket, features, anim_node_counter, portno, ports_count, timer, wire>>
      BY <1>8 DEF Report, Set
    <2>2. TypeOK'
      <3>1. tpc' \in [Threads -> {"none", "round", "probe", "wait", "report"}]
        BY <2>1 DEF TypeOK
      <3>2. sw_replys' \in [Controllers -> Seq(Nat)]
        BY <2>1, EmptySeq DEF TypeOK
      <3>3. links' \in [Controllers -> Seq(LinkRow)]
        BY <2>1, EmptySeq DEF TypeOK, LinkRow
      <3> QED
        BY <2>1, <3>1, <3>2, <3>3 DEF TypeOK, LinkRow, socket, features
    <2>3. \A c \in Controllers :
             /\ links'[c] \in {<<>>, links[c]} /\ sw_replys'[c] \in {<<>>, sw_replys[c]}
      BY <2>1 DEF TypeOK
    <2>4. TablesOfThisSwitch'
      BY <2>1, <2>3, SMTT(20) DEF TablesOfThisSwitch, socket
    <2>5. KnowsSwitch' /\ LinksInv' /\ WireInv'
      BY <2>1, <2>3, EmptySeq DEF KnowsSwitch, LinksInv, WireInv, socket, features
    <2> QED
      BY <2>2, <2>4, <2>5
  <1> QED
    BY <1>3, <1>4, <1>5, <1>6, <1>7, <1>8 DEF ThreadStep

LEMMA DiscoveryInductive == DiscoveryInv /\ [Next]_vars => DiscoveryInv'
  <1> SUFFICES ASSUME DiscoveryInv, [Next]_vars PROVE DiscoveryInv'
    OBVIOUS
  <1>1. CASE Tick
    <2>1. UNCHANGED <<socket, features, anim_node_counter, lists, tpc, portno, ports_count, wire>>
      BY <1>1 DEF Tick
    <2>2. timer' \in [Threads -> Nat]
      BY <1>1 DEF Tick, DiscoveryInv, TypeOK
    <2>3. TypeOK'
      BY <2>1, <2>2 DEF DiscoveryInv, TypeOK, socket, features, lists
    <2> QED
      BY <2>1, <2>3
      DEF DiscoveryInv, TablesOfThisSwitch, KnowsSwitch, WireInv, LinksInv, socket, features, lists
  <1>2. CASE UNCHANGED vars
    <2>1. TypeOK'
      BY <1>2 DEF DiscoveryInv, TypeOK, vars, socket, features, lists, threads
    <2> QED
      BY <1>2, <2>1
      DEF DiscoveryInv, TablesOfThisSwitch, KnowsSwitch, WireInv, LinksInv, vars, socket,
          features, lists
  <1> QED
    BY <1>1, <1>2, SwitchKeeps, PacketKeeps, ThreadKeeps DEF Next, Progress

(* Every link that two controllers with the features replies of their      *)
(* switches agree on is a cable, whatever the threads of earlier           *)
(* connections announce over the present socket (_con.cpp:640, 809).       *)
THEOREM OnlyCablesAreLinks == Spec => []LinksAreCables
<1>1. DiscoveryInv => LinksAreCables
  <2> SUFFICES ASSUME DiscoveryInv, NEW c \in Controllers, NEW i \in DOMAIN links[c]
               PROVE  links[c][i].fresh => {links[c][i].node_a, links[c][i].node_b} \in Cables
    BY DEF LinksAreCables
  <2>1. links[c] \in Seq(CableRow)
    BY DEF DiscoveryInv, LinksInv
  <2>2. links[c][i] \in CableRow
    BY <2>1, ElementOfSeq
  <2> QED
    BY <2>2 DEF CableRow
<1> QED
  BY DiscoveryInitially, DiscoveryInductive, <1>1, PTL DEF Spec

(* The tables of a controller are well-formed and speak of the ports of    *)
(* the switch that is connected (_con.cpp:148, 629).                       *)
THEOREM TablesCorrect == Spec => []TablesOK
<1>1. DiscoveryInv => TablesOK
  BY DEF DiscoveryInv, TablesOK
<1> QED
  BY DiscoveryInitially, DiscoveryInductive, <1>1, PTL DEF Spec
=============================================================================
