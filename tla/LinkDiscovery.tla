--------------------------- MODULE LinkDiscovery ---------------------------
(***************************************************************************)
(* How ANI v4.1 controllers find the links between their switches: the     *)
(* sharing threads (node_share_func) and the LLDP branch of action_packout *)
(* of several controllers, and the cables between their switches.  A       *)
(* thread asks through the ports 1..n, a controller that is asked replies, *)
(* a port with a reply is told [switch_id, port], and who is told adds a   *)
(* link, which its thread prints when no other one came for a while.       *)
(*                                                                         *)
(* AniController has the locks: here each section under links_mutex is one *)
(* step.  Time counts seconds, as the code sleeps: Tick lets one pass when *)
(* no thread is due, and at most Late frames are on their way to each end. *)
(*                                                                         *)
(* With -c every message of a recv is handled.  Without it only the first  *)
(* one is: any frame, and any features reply, may be overlooked.           *)
(***************************************************************************)
EXTENDS Integers, Sequences, SequencesExt, FiniteSets

CONSTANTS
    Controllers, Switches, None,
    PortsOf,      \* how many ports a switch lists
    Cables,       \* sets of two ends
    ProbeSleep,   \* the 5 of node_share_func
    WaitLimit,    \* its 20
    Modes,        \* how the controllers may be started, with -c or without
    Homes,        \* the switches that may connect to a controller
    MaxConn,      \* bound: connections of each controller
    MaxThreads,   \* bound: sharing threads of each controller
    MaxLinks,     \* bound: rows of a links table; it keeps no others
    Late          \* bound: frames under way to an end when a second ends; 0
                  \* when all that is sent is handled within the second

End == [datapath_id : Switches, port_no : Nat]
Ends == UNION Cables

ASSUME DiscoveryAssumption ==
    /\ None \notin Switches
    /\ PortsOf \in [Switches -> Nat \ {0}]
    /\ \A cable \in Cables :
          cable \subseteq End /\ \E a, b \in cable : a # b /\ cable = {a, b}
    /\ \A e \in Ends : Cardinality({cable \in Cables : e \in cable}) = 1
    /\ ProbeSleep \in Nat /\ WaitLimit \in Nat
    /\ Homes \in [Controllers -> SUBSET Switches] /\ MaxConn \in [Controllers -> Nat]
    /\ MaxThreads \in [Controllers -> Nat]
    /\ Modes \subseteq BOOLEAN /\ MaxLinks \in Nat /\ Late \in Nat

Threads == UNION {{c} \X (1 .. MaxThreads[c]) : c \in Controllers}

VARIABLES
    sw, asked, conns,   \* per controller: its switch, the features replies
                        \* that are due, connections so far
    cbench,             \* the option -c
    known,              \* history: whether it had one from this switch
    switch_id, no_of_ports, anim_node_counter, sw_replys, links,
    tpc, portno, ports_count, timer,  \* per thread; timer: seconds left to sleep
    wire                \* frames on the way to an end

socket == <<cbench, sw, asked, conns, known>>
features == <<switch_id, no_of_ports>>
lists == <<sw_replys, links>>
threads == <<tpc, portno, ports_count, timer>>
vars == <<socket, features, anim_node_counter, lists, threads, wire>>

Init ==
    /\ cbench \in Modes
    /\ sw = [c \in Controllers |-> None]
    /\ asked = [c \in Controllers |-> 0]
    /\ known = [c \in Controllers |-> FALSE]
    /\ conns = [c \in Controllers |-> 0]
    /\ switch_id = [c \in Controllers |-> None]
    /\ no_of_ports = [c \in Controllers |-> -1]
    /\ anim_node_counter = [c \in Controllers |-> 0]
    /\ sw_replys = [c \in Controllers |-> <<>>]
    /\ links = [c \in Controllers |-> <<>>]
    /\ tpc = [t \in Threads |-> "none"]
    /\ portno = [t \in Threads |-> 1]
    /\ ports_count = [t \in Threads |-> -1]
    /\ timer = [t \in Threads |-> 0]
    /\ wire = [e \in Ends |-> <<>>]

Set(f, x, v) == f' = [f EXCEPT ![x] = v]

Served(s) == \E c \in Controllers : sw[c] = s

Opposite(e) == CHOOSE far \in Ends : {e, far} \in Cables

\* Packet-outs of c: frame[p] leaves through each port p of its domain.  It is
\* lost without a connection, a cable or a controller on the far side.
Send(c, frame) ==
    LET reached == {e \in Ends : /\ e.datapath_id = sw[c] /\ e.port_no \in DOMAIN frame
                                 /\ Served(Opposite(e).datapath_id)}
    IN  wire' = [far \in Ends |->
                    IF Opposite(far) \in reached
                    THEN Append(wire[far], frame[Opposite(far).port_no]) ELSE wire[far]]

----------------------------------------------------------------------------
(* The main thread of controller c. *)

\* Features requests of a new connection: one answers the hello of the switch;
\* without -c one more follows a recv that failed, as send_information takes the
\* zeroed buffer for a hello.
Requests(c) == IF cbench \/ conns[c] = 0 THEN 1 ELSE 2

Connect(c, s) ==
    /\ sw[c] = None /\ s \in Homes[c] /\ ~Served(s) /\ conns[c] < MaxConn[c]
    /\ Set(sw, c, s) /\ Set(asked, c, Requests(c)) /\ Set(conns, c, conns[c] + 1)
    /\ UNCHANGED <<cbench, known>>
    /\ UNCHANGED <<features, anim_node_counter, lists, threads, wire>>

\* Mutant of Lose: the replies are kept.
LoseKeepsReplys(c) ==
    /\ sw[c] # None
    /\ Set(sw, c, None) /\ Set(asked, c, 0) /\ Set(known, c, FALSE)
    /\ Set(links, c, <<>>)
    /\ wire' = [e \in Ends |-> IF e.datapath_id = sw[c] THEN <<>> ELSE wire[e]]
    /\ UNCHANGED <<cbench, conns, features, anim_node_counter, sw_replys, threads>>

\* recv fails: both lists are freed, and what was on the way is lost.
Lose(c) ==
    /\ sw[c] # None
    /\ Set(sw, c, None) /\ Set(asked, c, 0) /\ Set(known, c, FALSE)
    /\ Set(sw_replys, c, <<>>) /\ Set(links, c, <<>>)
    /\ wire' = [e \in Ends |-> IF e.datapath_id = sw[c] THEN <<>> ELSE wire[e]]
    /\ UNCHANGED <<cbench, conns, features, anim_node_counter, threads>>

\* The thread that a features reply starts: it sleeps first.
NewThread(c) ==
    LET unused == {t \in Threads : t[1] = c /\ tpc[t] = "none"}
        t == CHOOSE t \in unused : TRUE
    IN  unused # {} /\ Set(tpc, t, "round") /\ Set(timer, t, ProbeSleep)

\* Mutant of FeaturesReply: the first switch_id stays.
FeaturesReplyKeepsId(c) ==
    /\ asked[c] > 0 /\ Set(asked, c, asked[c] - 1) /\ Set(known, c, TRUE)
    /\ Set(switch_id, c, IF switch_id[c] = None THEN sw[c] ELSE switch_id[c])
    /\ Set(no_of_ports, c, PortsOf[sw[c]])
    /\ NewThread(c)
    /\ UNCHANGED <<cbench, sw, conns, anim_node_counter, lists, portno, ports_count, wire>>

FeaturesReply(c) ==
    /\ asked[c] > 0 /\ Set(asked, c, asked[c] - 1) /\ Set(known, c, TRUE)
    /\ Set(switch_id, c, sw[c])
    /\ Set(no_of_ports, c, PortsOf[sw[c]])
    /\ NewThread(c)
    /\ UNCHANGED <<cbench, sw, conns, anim_node_counter, lists, portno, ports_count, wire>>

\* Without -c: behind an echo request, say, or a packet of a host, in one recv.
ReplyOverlooked(c) ==
    /\ ~cbench /\ asked[c] > 0 /\ Set(asked, c, asked[c] - 1)
    /\ UNCHANGED <<cbench, sw, conns, known, features, anim_node_counter, lists, threads, wire>>

FrameOverlooked(c, e) ==
    /\ ~cbench /\ e.datapath_id = sw[c] /\ wire[e] # <<>>
    /\ Set(wire, e, Tail(wire[e]))
    /\ UNCHANGED <<socket, features, anim_node_counter, lists, threads>>

\* The frame is the next one from end e.
Arrives(c, e, kind) ==
    /\ e.datapath_id = sw[c] /\ wire[e] # <<>> /\ Head(wire[e]).kind = kind

EchoRequest(c, e) ==
    /\ Arrives(c, e, "request")
    /\ LET far == Opposite(e)
       IN  wire' = [wire EXCEPT ![e] = Tail(@), ![far] =
                      IF Served(far.datapath_id) THEN Append(@, [kind |-> "reply"]) ELSE @]
    /\ UNCHANGED <<socket, features, anim_node_counter, lists, threads>>

EchoReply(c, e) ==
    /\ Arrives(c, e, "reply")
    /\ Set(sw_replys, c, Append(sw_replys[c], e.port_no))
    /\ Set(wire, e, Tail(wire[e]))
    /\ UNCHANGED <<socket, features, anim_node_counter, links, threads>>

\* history: fresh, whether both controllers had a features reply of the switch
\* they talk to.
Node(c, e) ==
    /\ Arrives(c, e, "node")
    /\ IF Len(links[c]) < MaxLinks
       THEN Set(links, c, Append(links[c],
                [node_a |-> [datapath_id |-> switch_id[c], port_no |-> e.port_no],
                 node_b |-> Head(wire[e]).node,
                 fresh |-> Head(wire[e]).fresh /\ known[c]]))
       ELSE UNCHANGED links
    /\ Set(anim_node_counter, c, 0)
    /\ Set(wire, e, Tail(wire[e]))
    /\ UNCHANGED <<socket, features, sw_replys, threads>>

----------------------------------------------------------------------------
(* Thread t of controller t[1]. *)

Due(t, pc) == tpc[t] = pc /\ timer[t] = 0

RoundStart(t) ==
    /\ Due(t, "round")
    /\ Set(ports_count, t, no_of_ports[t[1]]) /\ Set(portno, t, 1)
    /\ Set(anim_node_counter, t[1], 0)
    /\ Set(tpc, t, "probe")
    /\ UNCHANGED <<socket, features, lists, timer, wire>>

\* Mutant of Probe: the replies to the last probe are not waited for.
ProbeHasty(t) ==
    /\ Due(t, "probe") /\ portno[t] < ports_count[t] + 1
    /\ Send(t[1], [p \in {portno[t]} |-> [kind |-> "request"]])
    /\ Set(portno, t, portno[t] + 1)
    /\ Set(timer, t, IF portno[t] = ports_count[t] THEN 0 ELSE ProbeSleep)
    /\ UNCHANGED <<socket, features, anim_node_counter, lists, tpc, ports_count>>

Probe(t) ==
    /\ Due(t, "probe") /\ portno[t] < ports_count[t] + 1
    /\ Send(t[1], [p \in {portno[t]} |-> [kind |-> "request"]])
    /\ Set(portno, t, portno[t] + 1) /\ Set(timer, t, ProbeSleep)
    /\ UNCHANGED <<socket, features, anim_node_counter, lists, tpc, ports_count>>

\* The walk over sw_replys: a port is told once for each of its replies, of
\* which the model lets one do.
Announce(t) ==
    /\ Due(t, "probe") /\ ~(portno[t] < ports_count[t] + 1)
    /\ LET c == t[1]
       IN  Send(c, [p \in ToSet(sw_replys[c]) |->
                     [kind |-> "node", fresh |-> known[c],
                      node |-> [datapath_id |-> switch_id[c], port_no |-> p]]])
    /\ Set(tpc, t, "wait")
    /\ UNCHANGED <<socket, features, anim_node_counter, lists, portno, ports_count, timer>>

Wait(t) ==
    /\ Due(t, "wait") /\ ~(anim_node_counter[t[1]] > WaitLimit)
    /\ Set(anim_node_counter, t[1], anim_node_counter[t[1]] + 1)
    /\ Set(timer, t, 1)
    /\ UNCHANGED <<socket, features, lists, tpc, portno, ports_count, wire>>

WaitEnd(t) ==
    /\ Due(t, "wait") /\ anim_node_counter[t[1]] > WaitLimit
    /\ Set(tpc, t, "report")
    /\ UNCHANGED <<socket, features, anim_node_counter, lists, portno, ports_count, timer, wire>>

\* Mutant of Report: the links are kept.
ReportKeeps(t) ==
    /\ Due(t, "report")
    /\ Set(sw_replys, t[1], <<>>)
    /\ Set(tpc, t, "round")
    /\ UNCHANGED <<socket, features, anim_node_counter, links, portno, ports_count, timer, wire>>

\* The links are printed, and both lists are freed.
Report(t) ==
    /\ Due(t, "report")
    /\ Set(links, t[1], <<>>) /\ Set(sw_replys, t[1], <<>>)
    /\ Set(tpc, t, "round")
    /\ UNCHANGED <<socket, features, anim_node_counter, portno, ports_count, timer, wire>>

----------------------------------------------------------------------------
\* A second passes.  When no frame is late, every one goes its way in it and is
\* handled, and the switch answers the features requests.
Tick ==
    /\ Late = 0 => \A c \in Controllers : asked[c] = 0
    /\ \A t \in Threads : tpc[t] # "none" => timer[t] > 0
    /\ \A e \in Ends : Len(wire[e]) <= Late
    /\ timer' = [t \in Threads |-> IF timer[t] > 0 THEN timer[t] - 1 ELSE 0]
    /\ UNCHANGED <<socket, features, anim_node_counter, lists, tpc, portno, ports_count, wire>>

ThreadStep(t) ==
    RoundStart(t) \/ Probe(t) \/ Announce(t) \/ Wait(t) \/ WaitEnd(t) \/ Report(t)

Packet(c, e) == EchoRequest(c, e) \/ EchoReply(c, e) \/ Node(c, e)

Progress ==
    \/ Tick
    \/ \E t \in Threads : ThreadStep(t)
    \/ \E c \in Controllers : FeaturesReply(c) \/ \E e \in Ends : Packet(c, e)

Next ==
    \/ Progress
    \/ \E c \in Controllers :
          \/ Lose(c) \/ ReplyOverlooked(c)
          \/ \E s \in Switches : Connect(c, s)
          \/ \E e \in Ends : FrameOverlooked(c, e)

Spec == Init /\ [][Next]_vars

\* Time goes on, and all that is due within a second happens.
FairSpec == Spec /\ WF_vars(Progress)

----------------------------------------------------------------------------
(* Properties. *)

NodeOf == [datapath_id : Switches \cup {None}, port_no : Nat]

Frame == [kind : {"request", "reply"}] \cup [kind : {"node"}, node : NodeOf, fresh : BOOLEAN]

TypeOK ==
    /\ cbench \in BOOLEAN
    /\ sw \in [Controllers -> Switches \cup {None}]
    /\ asked \in [Controllers -> Nat] /\ conns \in [Controllers -> Nat]
    /\ known \in [Controllers -> BOOLEAN]
    /\ switch_id \in [Controllers -> Switches \cup {None}]
    /\ no_of_ports \in [Controllers -> Int]
    /\ anim_node_counter \in [Controllers -> 0 .. WaitLimit + 1]
    /\ sw_replys \in [Controllers -> Seq(Nat)]
    /\ links \in [Controllers -> Seq([node_a : NodeOf, node_b : NodeOf, fresh : BOOLEAN])]
    /\ tpc \in [Threads -> {"none", "round", "probe", "wait", "report"}]
    /\ portno \in [Threads -> Nat] /\ ports_count \in [Threads -> Int]
    /\ timer \in [Threads -> Nat] /\ wire \in [Ends -> Seq(Frame)]

\* Every link of a table is a cable, whatever threads of earlier connections
\* still announce, however late, and whatever is overlooked; unless one of the
\* two controllers had no features reply of its switch (switch_id is then that
\* of the last one).
LinksAreCables ==
    \A c \in Controllers : \A i \in DOMAIN links[c] :
        links[c][i].fresh => {links[c][i].node_a, links[c][i].node_b} \in Cables

\* Both tables speak of the switch that is connected now: a reply never makes
\* a controller announce itself through a port of a switch it lost.
TablesOfThisSwitch ==
    \A c \in Controllers :
        /\ \A i \in DOMAIN sw_replys[c] :
              [datapath_id |-> sw[c], port_no |-> sw_replys[c][i]] \in Ends
        /\ \A i \in DOMAIN links[c] :
              [datapath_id |-> sw[c], port_no |-> links[c][i].node_a.port_no] \in Ends

\* The tables hold what the rounds make of them, and only of the switch that is
\* connected (_con.cpp:148, 149).
TablesOK == TypeOK /\ TablesOfThisSwitch

Linked(a, b) ==
    \E c \in Controllers : \E i \in DOMAIN links[c] :
        links[c][i].node_a = a /\ links[c][i].node_b = b

OneThreadEach == \A c \in Controllers : conns[c] <= 1

\* While two switches stay connected, a cable between them is found again and
\* again by the controller at one end, if the port at the other end is one of
\* the ports 1..n that are probed there, and no controller has two threads
\* (_con.cpp:697-850).  This is of controllers with -c, and of frames that come
\* within the second: without -c the replies or the nodes that arrive together
\* but for the first are never seen (_con.cpp:218-239), and a reply that is later
\* than the 5 seconds of its probe is freed with its table (_con.cpp:850).
CablesFound ==
    \A a, b \in Ends :
        {a, b} \in Cables /\ b.port_no <= PortsOf[b.datapath_id]
            => (<>[](cbench /\ OneThreadEach /\ Served(a.datapath_id) /\ Served(b.datapath_id))
                    => []<>Linked(a, b))

\* "show links from the table" (ChangeLog:52): links that came into the table
\* are shown by the report that empties it, or given up with the switch, as
\* long as no controller has two threads.  True with -c, of two controllers whose
\* frames come in time.  With more, each node resets the counter (_con.cpp:652),
\* and no report may ever come; without -c a controller whose features reply was
\* overlooked has no thread to report.
LinksShown ==
    \A c \in Controllers :
        cbench /\ links[c] # <<>> ~> links[c] = <<>> \/ ~OneThreadEach
=============================================================================
