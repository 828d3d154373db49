------------------------------- MODULE AniV21 -------------------------------
(***************************************************************************)
(* The ANI v2.1 controller (ANIv21/_con.cpp and ani.cpp), in which         *)
(* controllers first talk to each other: every features reply starts a     *)
(* thread that takes the switch's datapath id and number of ports out of   *)
(* the global sw_in and from then on sends "Hello, I am controller from    *)
(* datapath ..." to the ports 1..n, for ever.  There is no mutex: a thread *)
(* shares sw_in and the socket with the main thread and with the threads   *)
(* of earlier connections.                                                 *)
(***************************************************************************)
EXTENDS Integers, HostTable

CONSTANTS
    Switches,     \* datapath ids of the switches that may connect
    PortsOf,      \* the port numbers a switch lists in its features reply
    Traffic,      \* messages a switch may send of its own accord
    MaxThreads,   \* bound: node threads in a behaviour
    None,         \* no switch, no thread
    Signals,      \* SIGINT and SIGTERM
    MaxConn,      \* bound: connections in a behaviour
    MaxTraffic    \* bound: messages of Traffic in a behaviour

Hello == [type |-> "hello"]
FeaturesReply(s) == [type |-> "features", dpid |-> s]

TrafficMessage == [type : {"echo", "other", "alien", "lldp"}]
                  \cup [type : {"data"}, in_port : Nat, pkt : Packet]

Message == {Hello} \cup {FeaturesReply(s) : s \in Switches} \cup TrafficMessage

ASSUME V21Assumption ==
    /\ PortsOf \in [Switches -> Seq(Nat)]
    /\ Traffic \subseteq TrafficMessage
    /\ None \notin Switches /\ None \notin Nat
    /\ MaxThreads \in Nat /\ MaxConn \in Nat /\ MaxTraffic \in Nat

Threads == 1 .. MaxThreads

VARIABLES
    proc,               \* "running", "ended", "killed", or "undefined"
    mpc,                \* where the main thread is
    buf,                \* the messages of read_buffer not yet handled
    write_buffer_len,   \* what the last send of the main thread returned
    cbench,             \* the option -c
    masked,             \* signals whose handler runs
    sw_sockfd,          \* 0 for -1, or the number of the connection
    conn, peer, sw,     \* connections so far; the peer of the last one
    inq, pend, spent,   \* its messages in flight; requests it owes; Traffic sent
    switch_id, hosts, ports,
    sw_in,              \* [datapath_id, no_of_ports], read by the node threads
    node_send_thread,
    tpc, ports_count, datap, portno,   \* per node thread
    born,               \* history: the connection a thread was started in
    torn                \* history: threads whose sw_in changed while they read it

main == <<mpc, buf, write_buffer_len>>
socket == <<sw_sockfd, conn, peer, sw, inq, pend>>
tables == <<switch_id, hosts, ports>>
reading == <<sw_in, ports_count, datap, torn>>
threads == <<node_send_thread, tpc, portno, born>>
option == <<cbench, masked, spent>>
vars == <<proc, main, socket, tables, reading, threads, option>>

Init ==
    /\ proc = "running" /\ mpc = "start" /\ buf = <<>> /\ write_buffer_len = 0
    /\ cbench \in BOOLEAN /\ masked = {}
    /\ sw_sockfd = 0 /\ conn = 0 /\ peer = "none" /\ sw = None
    /\ inq = <<>> /\ pend = 0 /\ spent = 0
    /\ switch_id = None /\ hosts = <<>> /\ ports = <<>>
    /\ sw_in = [datapath_id |-> None, no_of_ports |-> 0]
    /\ node_send_thread = None
    /\ tpc = [t \in Threads |-> "none"]
    /\ ports_count = [t \in Threads |-> -1]
    /\ datap = [t \in Threads |-> None]
    /\ portno = [t \in Threads |-> 1]
    /\ born = [t \in Threads |-> 0] /\ torn = {}

At(pc) == proc = "running" /\ mpc = pc

----------------------------------------------------------------------------
(* The socket: a send succeeds while there is a connection, even for a     *)
(* while after the switch died; then it fails or raises SIGPIPE.           *)

SendThen(next) == sw_sockfd # 0 /\ write_buffer_len' = 1 /\ next /\ UNCHANGED proc

Lost == sw_sockfd = 0 \/ peer = "gone"

SigPipe == sw_sockfd # 0 /\ peer = "gone" /\ proc' = "killed"

SendEnds ==
    /\ UNCHANGED <<buf, pend>>
    /\ \/ Lost /\ write_buffer_len' = -1 /\ mpc' = "exit" /\ UNCHANGED proc
       \/ SigPipe /\ UNCHANGED <<mpc, write_buffer_len>>

----------------------------------------------------------------------------
(* The main thread. *)

\* send_information on what is left in the buffer; nothing left: recv again.
Handle(msgs) ==
    /\ buf' = msgs
    /\ mpc' = IF msgs = <<>> THEN "recv" ELSE Head(msgs).type

Done == Handle(Tail(buf))

\* action_hello and action_echo end without a value after a send that failed:
\* the checked-in build returns -1, another one may as well return 0.
SendUndefined == SendEnds \/ (Lost /\ write_buffer_len' = -1 /\ Done /\ UNCHANGED <<proc, pend>>)

Connected(s) ==
    /\ conn < MaxConn
    /\ conn' = conn + 1 /\ sw_sockfd' = conn + 1
    /\ peer' = "open" /\ sw' = s
    /\ inq' = <<Hello>> /\ pend' = 0

CreateSwitchSocket(s) ==
    /\ At("start")
    /\ Connected(s) /\ Handle(<<>>)
    /\ UNCHANGED <<proc, write_buffer_len, tables, reading, threads, option>>

SocketFails ==
    /\ At("start") \/ At("reconnect")
    /\ mpc' = "exit"
    /\ UNCHANGED <<proc, buf, write_buffer_len, socket, tables, reading, threads, option>>

\* The normal mode looks at the first message of a recv, -c walks them all.
Read ==
    /\ At("recv")
    /\ \E n \in 1 .. Len(inq) :
        /\ Handle(IF cbench THEN SubSeq(inq, 1, n) ELSE <<Head(inq)>>)
        /\ inq' = SubSeq(inq, n + 1, Len(inq))
    /\ UNCHANGED <<proc, write_buffer_len, sw_sockfd, conn, peer, sw, pend>>
    /\ UNCHANGED <<tables, reading, threads, option>>

\* Mutant of ReadFails: the ports are not freed.
ReadFailsKeepsPorts ==
    /\ At("recv") /\ peer = "gone"
    /\ sw_sockfd' = 0 /\ inq' = <<>> /\ hosts' = <<>>
    /\ mpc' = "reconnect"
    /\ UNCHANGED <<proc, buf, write_buffer_len, conn, peer, sw, pend, switch_id, ports>>
    /\ UNCHANGED <<reading, threads, option>>

\* recv returns 0 or fails: the socket is closed and both lists are freed,
\* which no other thread uses.
ReadFails ==
    /\ At("recv") /\ peer = "gone"
    /\ sw_sockfd' = 0 /\ inq' = <<>> /\ hosts' = <<>> /\ ports' = <<>>
    /\ mpc' = "reconnect"
    /\ UNCHANGED <<proc, buf, write_buffer_len, conn, peer, sw, pend, switch_id>>
    /\ UNCHANGED <<reading, threads, option>>

\* Then send_information runs on the zeroed buffer: nothing with -c, else a
\* message of version 0 and type 0, which is taken for a hello.
Reconnect(s) ==
    /\ At("reconnect")
    /\ Connected(s) /\ Handle(IF cbench THEN <<>> ELSE <<Hello>>)
    /\ UNCHANGED <<proc, write_buffer_len, tables, reading, threads, option>>

\* check_openflow fails: with -c the rest of the buffer is dropped.
CheckOpenflow ==
    /\ At("alien")
    /\ Handle(<<>>)
    /\ UNCHANGED <<proc, write_buffer_len, socket, tables, reading, threads, option>>

Other ==
    /\ At("other")
    /\ Done
    /\ UNCHANGED <<proc, write_buffer_len, socket, tables, reading, threads, option>>

ActionHello ==
    /\ At("hello")
    /\ SendThen(mpc' = "features_request" /\ UNCHANGED <<buf, pend>>) \/ SendUndefined
    /\ UNCHANGED <<sw_sockfd, conn, peer, sw, inq, tables, reading, threads, option>>

\* Mutant of FeaturesRequest: it is sent twice.
FeaturesRequestTwice ==
    /\ At("features_request")
    /\ SendThen(pend' = pend + 2 /\ Done) \/ SendUndefined
    /\ UNCHANGED <<sw_sockfd, conn, peer, sw, inq, tables, reading, threads, option>>

FeaturesRequest ==
    /\ At("features_request")
    /\ SendThen(pend' = pend + 1 /\ Done) \/ SendUndefined
    /\ UNCHANGED <<sw_sockfd, conn, peer, sw, inq, tables, reading, threads, option>>

ActionEcho ==
    /\ At("echo")
    /\ SendThen(Done /\ UNCHANGED pend) \/ SendUndefined
    /\ UNCHANGED <<sw_sockfd, conn, peer, sw, inq, tables, reading, threads, option>>

\* Threads that were started and have not read both fields of sw_in.
Reading == {t \in Threads : tpc[t] \in {"start", "half"}}

\* Mutant of ActionFeaturesReply: sw_in keeps the id of the first switch.
FeaturesReplyKeepsId ==
    /\ At("features")
    /\ IF PortsOf[Head(buf).dpid] = <<>>
       THEN mpc' = "exit" /\ UNCHANGED <<switch_id, sw_in, torn>>
       ELSE /\ switch_id' = Head(buf).dpid
            /\ sw_in' = IF sw_in.datapath_id # None THEN sw_in
                        ELSE [sw_in EXCEPT !.datapath_id = Head(buf).dpid]
            /\ torn' = torn \cup Reading
            /\ mpc' = "features_count"
    /\ UNCHANGED <<proc, buf, write_buffer_len, socket, hosts, ports, ports_count, datap, threads, option>>

\* The datapath id goes into sw_in, in the next step the number of ports.
ActionFeaturesReply ==
    /\ At("features")
    /\ IF PortsOf[Head(buf).dpid] = <<>>
       THEN mpc' = "exit" /\ UNCHANGED <<switch_id, sw_in, torn>>
       ELSE /\ switch_id' = Head(buf).dpid
            /\ sw_in' = [sw_in EXCEPT !.datapath_id = Head(buf).dpid]
            /\ torn' = torn \cup Reading
            /\ mpc' = "features_count"
    /\ UNCHANGED <<proc, buf, write_buffer_len, socket, hosts, ports, ports_count, datap, threads, option>>

\* Mutant of FeaturesCount: pthread_create comes first.
FeaturesCountLate ==
    /\ At("features_count")
    /\ mpc' = "features_thread"
    /\ UNCHANGED <<proc, buf, write_buffer_len, socket, tables, reading, threads, option>>

FeaturesCount ==
    /\ At("features_count")
    /\ sw_in' = [sw_in EXCEPT !.no_of_ports = Len(PortsOf[switch_id])]
    /\ torn' = torn \cup Reading
    /\ mpc' = "features_thread"
    /\ UNCHANGED <<proc, buf, write_buffer_len, socket, tables, ports_count, datap, threads, option>>

Started == Cardinality({t \in Threads : tpc[t] # "none"})

\* pthread_create reports failure by a positive number, which the code takes
\* for success: node_send_thread is then unspecified.
CreateThread ==
    /\ At("features_thread")
    /\ \/ \E t \in Threads :
            /\ t = Started + 1
            /\ tpc' = [tpc EXCEPT ![t] = "start"]
            /\ born' = [born EXCEPT ![t] = conn]
            /\ node_send_thread' = t
       \/ node_send_thread' = None /\ UNCHANGED <<tpc, born>>
    /\ mpc' = "features_ports"
    /\ UNCHANGED <<proc, buf, write_buffer_len, socket, tables, reading, portno, option>>

\* The ports are added while the thread already runs, then the configuration
\* is sent.
FeaturesPorts ==
    /\ At("features_ports")
    /\ ports' = ports \o [i \in DOMAIN PortsOf[switch_id] |->
                            [datapath_id |-> switch_id, port_no |-> PortsOf[switch_id][i]]]
    /\ mpc' = "features_config"
    /\ UNCHANGED <<proc, buf, write_buffer_len, socket, switch_id, hosts, reading, threads, option>>

FeaturesConfig ==
    /\ At("features_config")
    /\ SendThen(Done /\ UNCHANGED pend) \/ SendEnds
    /\ UNCHANGED <<sw_sockfd, conn, peer, sw, inq, tables, reading, threads, option>>

\* The end of action_packout looks at the last send, and returns no value when
\* that went well: the checked-in build goes on, another one may return -1.
PackoutEnd ==
    \/ mpc' = "exit" /\ UNCHANGED buf
    \/ write_buffer_len' >= 0 /\ Done

\* Nothing was sent.
Silent == UNCHANGED <<proc, write_buffer_len, pend>> /\ PackoutEnd

\* action_packout on ARP, IPv4 and IPv6, the same code as in v4.1.
ActionPackout ==
    /\ At("data")
    /\ LET m == Head(buf)
       IN  /\ hosts' = Learn(hosts, m.pkt, m.in_port, switch_id)
           /\ IF Answer(hosts', m.pkt, m.in_port, cbench) = Nothing THEN Silent
              ELSE SendThen(PackoutEnd /\ UNCHANGED pend) \/ SendEnds
    /\ UNCHANGED <<sw_sockfd, conn, peer, sw, inq, switch_id, ports, reading, threads, option>>

\* The message of another controller is only printed.
ActionLldp ==
    /\ At("lldp")
    /\ Silent
    /\ UNCHANGED <<sw_sockfd, conn, peer, sw, inq, tables, reading, threads, option>>

----------------------------------------------------------------------------
(* The end: exit_func joins the last node thread, which never returns,     *)
(* before it closes the sockets and frees the lists.                       *)

JoinNoThread ==
    /\ At("exit") /\ node_send_thread = None
    /\ \/ mpc' = "exit_free" /\ UNCHANGED proc
       \/ proc' = "undefined" /\ UNCHANGED mpc
    /\ UNCHANGED <<buf, write_buffer_len, socket, tables, reading, threads, option>>

ExitFree ==
    /\ At("exit_free")
    /\ sw_sockfd' = 0 /\ hosts' = <<>> /\ ports' = <<>>
    /\ proc' = "ended"
    /\ UNCHANGED <<main, conn, peer, sw, inq, pend, switch_id, reading, threads, option>>

\* Before the handlers are set a signal kills; in exit it enters exit again,
\* which glibc ends without exit_func; else the handler calls exit.
Signal(s) ==
    /\ proc = "running" /\ s \notin masked
    /\ CASE mpc = "start" -> proc' = "killed" /\ UNCHANGED <<mpc, masked>>
         [] mpc \in {"exit", "exit_free"} ->
              proc' \in {"ended", "undefined"} /\ UNCHANGED <<mpc, masked>>
         [] OTHER -> mpc' = "exit" /\ masked' = masked \cup {s} /\ UNCHANGED proc
    /\ UNCHANGED <<buf, write_buffer_len, socket, tables, reading, threads, cbench, spent>>

----------------------------------------------------------------------------
(* node_share_func. *)

ThreadAt(t, pc) == proc = "running" /\ tpc[t] = pc
Goto(t, pc) == tpc' = [tpc EXCEPT ![t] = pc]

ReadCount(t) ==
    /\ ThreadAt(t, "start")
    /\ ports_count' = [ports_count EXCEPT ![t] = sw_in.no_of_ports]
    /\ Goto(t, "half")
    /\ UNCHANGED <<proc, main, socket, tables, sw_in, datap, torn>>
    /\ UNCHANGED <<node_send_thread, portno, born, option>>

ReadDatapath(t) ==
    /\ ThreadAt(t, "half")
    /\ datap' = [datap EXCEPT ![t] = sw_in.datapath_id]
    /\ Goto(t, "round")
    /\ UNCHANGED <<proc, main, socket, tables, sw_in, ports_count, torn>>
    /\ UNCHANGED <<node_send_thread, portno, born, option>>

\* A message to port portno, over whatever socket there is; an error is only
\* printed.
SendNode(t) ==
    /\ ThreadAt(t, "round")
    /\ portno[t] < ports_count[t] + 1
    /\ portno' = [portno EXCEPT ![t] = @ + 1]
    /\ UNCHANGED proc \/ SigPipe
    /\ UNCHANGED <<main, socket, tables, reading, node_send_thread, tpc, born, option>>

\* goto send_anim.
NextRound(t) ==
    /\ ThreadAt(t, "round")
    /\ ~(portno[t] < ports_count[t] + 1)
    /\ portno' = [portno EXCEPT ![t] = 1]
    /\ UNCHANGED <<proc, main, socket, tables, reading, node_send_thread, tpc, born, option>>

----------------------------------------------------------------------------
(* The switch (external). *)

SwitchUp == proc = "running" /\ peer = "open"

\* It sends while the main thread waits in recv: what it sends earlier arrives no
\* earlier.
SwitchMay == SwitchUp /\ mpc = "recv"

\* Bound: no more features replies than there are threads left to create.
SwitchFeatures ==
    /\ SwitchMay /\ pend > 0
    /\ Started + Len(SelectSeq(inq, LAMBDA m : m.type = "features")) < MaxThreads
    /\ inq' = Append(inq, FeaturesReply(sw)) /\ pend' = pend - 1
    /\ UNCHANGED <<proc, main, sw_sockfd, conn, peer, sw, tables, reading, threads, option>>

SwitchSends(m) ==
    /\ SwitchMay /\ spent < MaxTraffic
    /\ inq' = Append(inq, m) /\ spent' = spent + 1
    /\ UNCHANGED <<proc, main, sw_sockfd, conn, peer, sw, pend, tables, reading, threads>>
    /\ UNCHANGED <<cbench, masked>>

SwitchDies ==
    /\ SwitchUp
    /\ peer' = "gone"
    /\ UNCHANGED <<proc, main, sw_sockfd, conn, sw, inq, pend, tables, reading, threads, option>>

----------------------------------------------------------------------------
MainStep ==
    \/ Read \/ ReadFails \/ SocketFails \/ CheckOpenflow \/ Other
    \/ ActionHello \/ FeaturesRequest \/ ActionEcho
    \/ ActionFeaturesReply \/ FeaturesCount \/ CreateThread \/ FeaturesPorts \/ FeaturesConfig
    \/ ActionPackout \/ ActionLldp \/ JoinNoThread \/ ExitFree
    \/ \E s \in Switches : CreateSwitchSocket(s) \/ Reconnect(s)

ThreadStep(t) == ReadCount(t) \/ ReadDatapath(t) \/ SendNode(t) \/ NextRound(t)

Next ==
    \/ MainStep
    \/ \E t \in Threads : ThreadStep(t)
    \/ \E s \in Signals : Signal(s)
    \/ SwitchFeatures \/ SwitchDies \/ \E m \in Traffic : SwitchSends(m)

Spec == Init /\ [][Next]_vars

----------------------------------------------------------------------------
(* Properties. *)

Host == [mac : Macs, port_no : Nat, datapath_id : Switches \cup {None}]
Port == [datapath_id : Switches, port_no : Nat]

MainPc == {"start", "recv", "reconnect", "hello", "features_request", "echo", "other",
           "alien", "features", "features_count", "features_thread", "features_ports",
           "features_config", "data", "lldp", "exit", "exit_free"}

TypeOK ==
    /\ proc \in {"running", "ended", "killed", "undefined"} /\ mpc \in MainPc
    /\ buf \in Seq(Message) /\ inq \in Seq(Message)
    /\ write_buffer_len \in {-1, 0, 1} /\ cbench \in BOOLEAN /\ masked \subseteq Signals
    /\ sw_sockfd \in {0, conn} /\ conn \in Nat /\ sw \in Switches \cup {None}
    /\ peer \in {"none", "open", "gone"} /\ pend \in Nat /\ spent \in Nat
    /\ switch_id \in Switches \cup {None}
    /\ hosts \in Seq(Host) /\ ports \in Seq(Port)
    /\ sw_in \in [datapath_id : Switches \cup {None}, no_of_ports : Nat]
    /\ node_send_thread \in Threads \cup {None}
    /\ tpc \in [Threads -> {"none", "start", "half", "round"}]
    /\ ports_count \in [Threads -> Int] /\ portno \in [Threads -> Nat]
    /\ datap \in [Threads -> Switches \cup {None}]
    /\ born \in [Threads -> Nat] /\ torn \subseteq Threads

\* The two fields that a thread took from sw_in belong to one switch, unless
\* the main thread handled another features reply while it read: the fields
\* are written before pthread_create, the last thing the thread may wait for.
PairOfOneSwitch ==
    \A t \in Threads \ torn :
        tpc[t] = "round" => /\ datap[t] \in Switches
                            /\ ports_count[t] = Len(PortsOf[datap[t]])

\* What a neighbour is told names the switch the message goes through, unless
\* a thread of an earlier connection sends it (_con.cpp:696 uses the socket of
\* the moment, _con.cpp:645 the id of the past).
WrongSwitchOnlyFromEarlier ==
    \A t \in Threads :
        tpc[t] = "round" /\ portno[t] <= ports_count[t] /\ sw_sockfd # 0
            => datap[t] = sw \/ born[t] < sw_sockfd

\* A connection brings one node thread, and in the normal mode a second one
\* when it is a reconnection: its zeroed buffer reads as a hello.
NodeThreadsPerConnection ==
    \A c \in 1 .. conn :
        Cardinality({t \in 1 .. Started : born[t] = c}) <= IF cbench \/ c = 1 THEN 1 ELSE 2

\* Whatever connections came and went, each row of the ports table is a port
\* of the switch that is connected now, and with -c it is there once.
PortsOfThisSwitch ==
    /\ \A i \in DOMAIN ports :
          /\ ports[i].datapath_id = sw
          /\ \E j \in DOMAIN PortsOf[sw] : ports[i].port_no = PortsOf[sw][j]
    /\ cbench /\ ports # <<>> => Len(ports) <= Len(PortsOf[sw])

\* The tables are well-formed and of the switch that is connected (_con.cpp:143).
TablesOK == TypeOK /\ PortsOfThisSwitch
=============================================================================
