--------------------------- MODULE AniController ---------------------------
(***************************************************************************)
(* The ANI v4.1 OpenFlow controller (ANIv41/_con.cpp and ani.cpp): one     *)
(* main thread that serves one switch over TCP, and the node-sharing       *)
(* threads that every features reply starts.  They share the socket, the   *)
(* links and sw_replys tables, a counter and links_mutex.                  *)
(*                                                                         *)
(* The switch, its connections and the controllers of its neighbours are   *)
(* the environment: a switch answers each features request, may send any   *)
(* message of Traffic at any time, and may die at any time.                *)
(***************************************************************************)
EXTENDS Integers, HostTable

CONSTANTS
    Switches,     \* datapath ids of the switches that may connect
    PortsOf,      \* the port numbers a switch lists in its features reply
    Nodes,        \* what neighbours announce: [datapath_id, port_no]
    Traffic,      \* messages a switch may send of its own accord
    Threads,      \* node-sharing threads
    Main,         \* the main thread
    None,         \* no owner of the mutex, no thread
    Signals,      \* SIGINT and SIGTERM
    WaitLimit,    \* the 20 of node_share_func
    MaxConn,      \* bound: connections in a behaviour
    MaxTraffic    \* bound: messages of Traffic in a behaviour

Hello == [type |-> "hello"]
Features(s) == [type |-> "features", dpid |-> s, list |-> PortsOf[s]]

TrafficMessage ==
    [type : {"echo", "other"}]
    \cup [type : {"data"}, in_port : Nat, pkt : Packet]
    \cup [type : {"lldp"}, in_port : Nat, kind : {"request", "reply"}]
    \cup [type : {"lldp"}, in_port : Nat, kind : {"node"}, node : Nodes]

Message == {Hello} \cup {Features(s) : s \in Switches} \cup TrafficMessage

ASSUME ControllerAssumption ==
    /\ PortsOf \in [Switches -> Seq(Nat)]
    /\ Traffic \subseteq TrafficMessage
    /\ Main \notin Threads /\ None \notin Threads /\ None # Main
    /\ WaitLimit \in Nat /\ MaxConn \in Nat /\ MaxTraffic \in Nat

VARIABLES
    proc,               \* how the process stands
    mpc,                \* where the main thread is
    buf,                \* the messages of read_buffer not yet handled
    write_buffer_len,   \* what the last send of the main thread returned
    cbench,             \* the option -c
    masked,             \* signals whose handler runs (and is not left again)
    sw_sockfd,          \* 0 for -1, or the number of the connection
    conn, peer, sw,     \* connections so far; the peer of the last one
    inq, pend, sent,    \* its messages in flight; requests it owes; Traffic spent
    links_mutex, no_of_ports, switch_id, node_send_thread, anim_node_counter,
    hosts, ports, links, sw_replys,
    current,            \* sw_replys.current, 0 for NULL
    printed,            \* history: the links printed
    tpc, ports_count, portno   \* per sharing thread

main == <<proc, mpc, buf, masked, cbench, write_buffer_len, sw_sockfd>>
net == <<conn, peer, sw, inq, pend, sent>>
shared == <<links_mutex, no_of_ports, switch_id, node_send_thread, anim_node_counter>>
tables == <<hosts, ports, links, sw_replys, current, printed>>
threads == <<tpc, ports_count, portno>>
vars == <<main, net, shared, tables, threads>>

Init ==
    /\ proc = "running" /\ mpc = "start" /\ buf = <<>> /\ masked = {}
    /\ cbench \in BOOLEAN
    /\ sw_sockfd = 0 /\ write_buffer_len = 0
    /\ conn = 0 /\ peer = "none" /\ sw \in Switches
    /\ inq = <<>> /\ pend = 0 /\ sent = 0
    /\ links_mutex = None /\ no_of_ports = -1 /\ switch_id = None
    /\ node_send_thread = None /\ anim_node_counter = 0
    /\ hosts = <<>> /\ ports = <<>> /\ links = <<>> /\ sw_replys = <<>>
    /\ current = 0 /\ printed = <<>>
    /\ tpc = [t \in Threads |-> "none"]
    /\ ports_count = [t \in Threads |-> -1]
    /\ portno = [t \in Threads |-> 1]

----------------------------------------------------------------------------
(* Memory.  Two threads use a list at once when both are inside code that  *)
(* walks, extends or frees its objects; what the program does after that   *)
(* is undefined, and the model ends there.  Freeing an empty list and the  *)
(* walk of an empty list touch no object.                                  *)

Full(list, name) == IF list = <<>> THEN {} ELSE {name}

Both == Full(links, "links") \cup Full(sw_replys, "sw_replys")

MainUses ==
    CASE mpc = "reconnect_links" -> Full(links, "links")
      [] mpc = "reconnect_replys" -> Full(sw_replys, "sw_replys")
      [] mpc = "exit_free" -> Both
      [] mpc = "lldp" -> IF Head(buf).kind = "reply" THEN {"sw_replys"}
                         ELSE IF Head(buf).kind = "node" THEN {"links"} ELSE {}
      [] OTHER -> {}

ThreadUses(t) ==
    CASE tpc[t] = "announce" -> IF current = 0 THEN {} ELSE {"sw_replys"}
      [] tpc[t] = "report" -> Full(links, "links")
      [] tpc[t] = "report_free" -> Both
      [] OTHER -> {}

Race ==
    \E t \in Threads :
        \/ MainUses \cap ThreadUses(t) # {}
        \/ \E u \in Threads \ {t} : ThreadUses(u) \cap ThreadUses(t) # {}

Runs == proc = "running" /\ ~Race

Undefined ==
    /\ proc = "running" /\ Race
    /\ proc' = "undefined"
    /\ UNCHANGED <<mpc, buf, masked, cbench, write_buffer_len, sw_sockfd, net, shared, tables, threads>>

----------------------------------------------------------------------------
(* The socket.  send() succeeds while there is a connection, even for a    *)
(* while after the switch died; then it fails, or SIGPIPE, which nothing   *)
(* ignores, kills the process.                                             *)

SendOk == sw_sockfd # 0
SendFails == sw_sockfd = 0 \/ peer = "gone"
SigPipe == sw_sockfd # 0 /\ peer = "gone" /\ proc' = "killed"

----------------------------------------------------------------------------
(* The main thread. *)

Handler(m) ==
    CASE m.type = "hello" -> "hello"
      [] m.type = "features" -> "features_lock"
      [] m.type = "data" -> "data"
      [] m.type = "lldp" -> "lldp_lock"
      [] m.type = "echo" -> "echo"
      [] OTHER -> "other"

\* send_information on what is left in the buffer; nothing left: recv again.
Handle(msgs) ==
    /\ buf' = msgs
    /\ mpc' = IF msgs = <<>> THEN "recv" ELSE Handler(Head(msgs))

Done == Handle(Tail(buf))

At(pc) == Runs /\ mpc = pc

\* A send of the main thread, and what the handler does when it went well.
MainSends(next) ==
    /\ SendOk /\ write_buffer_len' = 1
    /\ next /\ UNCHANGED proc

\* The handler returns -1, and main calls exit.
SendEnds ==
    /\ UNCHANGED <<buf, pend>>
    /\ \/ SendFails /\ write_buffer_len' = -1 /\ mpc' = "exit" /\ UNCHANGED proc
       \/ SigPipe /\ UNCHANGED <<mpc, write_buffer_len>>

\* action_hello and action_echo then end without a return value: the checked-in
\* build returns -1, another one may as well return 0.
SendUndefined ==
    \/ SendEnds
    \/ SendFails /\ write_buffer_len' = -1 /\ Done /\ UNCHANGED <<proc, pend>>

Connected(s) ==
    /\ conn < MaxConn
    /\ conn' = conn + 1 /\ sw_sockfd' = conn + 1
    /\ peer' = "open" /\ sw' = s
    /\ inq' = <<Hello>> /\ pend' = 0

Accept(s) ==
    /\ At("start")
    /\ Connected(s)
    /\ Handle(<<>>)
    /\ UNCHANGED <<proc, masked, cbench, write_buffer_len, sent, shared, tables, threads>>

AcceptFails ==
    /\ Runs /\ mpc \in {"start", "reconnect"}
    /\ mpc' = "exit"
    /\ UNCHANGED <<proc, buf, masked, cbench, write_buffer_len, sw_sockfd, net, shared, tables, threads>>

\* recv returns some of what arrived.  The normal mode looks at the first
\* message and drops the others; -c walks them all.
Read ==
    /\ At("recv")
    /\ \E n \in 1 .. Len(inq) :
        /\ Handle(IF cbench THEN SubSeq(inq, 1, n) ELSE <<Head(inq)>>)
        /\ inq' = SubSeq(inq, n + 1, Len(inq))
    /\ UNCHANGED <<proc, masked, cbench, write_buffer_len, sw_sockfd, conn, peer, sw, pend, sent>>
    /\ UNCHANGED <<shared, tables, threads>>

\* Mutant of ReadFails: the ports table is not freed.
ReadFailsKeepsPorts ==
    /\ At("recv") /\ peer = "gone"
    /\ sw_sockfd' = 0 /\ inq' = <<>>
    /\ hosts' = <<>>
    /\ mpc' = "reconnect_links"
    /\ UNCHANGED <<proc, buf, masked, cbench, write_buffer_len, conn, peer, sw, pend, sent>>
    /\ UNCHANGED <<shared, ports, links, sw_replys, current, printed, threads>>

\* recv returns 0 or fails, with or without messages lost: the socket is
\* closed and the lists are freed one by one, without links_mutex.
ReadFails ==
    /\ At("recv") /\ peer = "gone"
    /\ sw_sockfd' = 0 /\ inq' = <<>>
    /\ hosts' = <<>> /\ ports' = <<>>
    /\ mpc' = "reconnect_links"
    /\ UNCHANGED <<proc, buf, masked, cbench, write_buffer_len, conn, peer, sw, pend, sent>>
    /\ UNCHANGED <<shared, links, sw_replys, current, printed, threads>>

ReconnectLinks ==
    /\ At("reconnect_links")
    /\ links' = <<>>
    /\ mpc' = "reconnect_replys"
    /\ UNCHANGED <<proc, buf, masked, cbench, write_buffer_len, sw_sockfd, net, shared>>
    /\ UNCHANGED <<hosts, ports, sw_replys, current, printed, threads>>

ReconnectReplys ==
    /\ At("reconnect_replys")
    /\ sw_replys' = <<>>
    /\ mpc' = "reconnect"
    /\ UNCHANGED <<proc, buf, masked, cbench, write_buffer_len, sw_sockfd, net, shared>>
    /\ UNCHANGED <<hosts, ports, links, current, printed, threads>>

\* After accept the program runs send_information on the zeroed buffer: with
\* -c there is no message in it, else version 0 and type 0 read as a hello.
Reconnect(s) ==
    /\ At("reconnect")
    /\ Connected(s)
    /\ Handle(IF cbench THEN <<>> ELSE <<Hello>>)
    /\ UNCHANGED <<proc, masked, cbench, write_buffer_len, sent, shared, tables, threads>>

ActionHello ==
    /\ At("hello")
    /\ \/ MainSends(mpc' = "hello_features" /\ UNCHANGED <<buf, pend>>)
       \/ SendUndefined
    /\ UNCHANGED <<masked, cbench, sw_sockfd, conn, peer, sw, inq, sent, shared, tables, threads>>

\* Mutant of HelloFeatures: the features request is sent twice.
HelloFeaturesTwice ==
    /\ At("hello_features")
    /\ \/ MainSends(pend' = pend + 2 /\ Done)
       \/ SendUndefined
    /\ UNCHANGED <<masked, cbench, sw_sockfd, conn, peer, sw, inq, sent, shared, tables, threads>>

HelloFeatures ==
    /\ At("hello_features")
    /\ \/ MainSends(pend' = pend + 1 /\ Done)
       \/ SendUndefined
    /\ UNCHANGED <<masked, cbench, sw_sockfd, conn, peer, sw, inq, sent, shared, tables, threads>>

ActionEcho ==
    /\ At("echo")
    /\ \/ MainSends(Done /\ UNCHANGED pend)
       \/ SendUndefined
    /\ UNCHANGED <<masked, cbench, sw_sockfd, conn, peer, sw, inq, sent, shared, tables, threads>>

\* Mutant of ActionOther: a message of another type is an error.
ActionOtherFails ==
    /\ At("other")
    /\ mpc' = "exit"
    /\ UNCHANGED <<proc, buf, masked, cbench, write_buffer_len, sw_sockfd, net, shared, tables, threads>>

ActionOther ==
    /\ At("other")
    /\ Done
    /\ UNCHANGED <<proc, masked, cbench, write_buffer_len, sw_sockfd, net, shared, tables, threads>>

Acquire(a) == links_mutex = None /\ links_mutex' = a

Release == links_mutex' = None

FeaturesLock ==
    /\ At("features_lock")
    /\ Acquire(Main)
    /\ mpc' = "features"
    /\ UNCHANGED <<proc, buf, masked, cbench, write_buffer_len, sw_sockfd, net, no_of_ports, switch_id>>
    /\ UNCHANGED <<node_send_thread, anim_node_counter, tables, threads>>

\* A switch without ports: -1 is returned with links_mutex held.
FeaturesNoPorts ==
    /\ At("features")
    /\ Head(buf).list = <<>>
    /\ no_of_ports' = 0
    /\ mpc' = "exit"
    /\ UNCHANGED <<proc, buf, masked, cbench, write_buffer_len, sw_sockfd, net, links_mutex, switch_id>>
    /\ UNCHANGED <<node_send_thread, anim_node_counter, tables, threads>>

\* pthread_create reports failure by a positive number, which the code takes
\* for success: node_send_thread is then unspecified.
CreateThread ==
    \/ \E t \in Threads :
        /\ tpc[t] = "none"
        /\ tpc' = [tpc EXCEPT ![t] = "round"]
        /\ node_send_thread' = t
    \/ UNCHANGED tpc /\ node_send_thread' = None

ActionFeaturesReply ==
    /\ At("features")
    /\ LET m == Head(buf)
       IN  /\ m.list # <<>>
           /\ no_of_ports' = Len(m.list)
           /\ switch_id' = m.dpid
           /\ ports' = ports \o [i \in DOMAIN m.list |->
                                    [datapath_id |-> m.dpid, port_no |-> m.list[i]]]
    /\ CreateThread
    /\ Release
    /\ mpc' = "features_config"
    /\ UNCHANGED <<proc, buf, masked, cbench, write_buffer_len, sw_sockfd, net, anim_node_counter>>
    /\ UNCHANGED <<hosts, links, sw_replys, current, printed, ports_count, portno>>

FeaturesConfig ==
    /\ At("features_config")
    /\ \/ MainSends(Done /\ UNCHANGED pend)
       \/ SendEnds
    /\ UNCHANGED <<masked, cbench, sw_sockfd, conn, peer, sw, inq, sent, shared, tables, threads>>

\* The end of action_packout looks at the last send, whoever made it: -1 when
\* that failed.  When it did not, the function ends without a return value: the
\* checked-in build returns the length of that send, another one may return -1.
PackoutEnd ==
    \/ mpc' = "exit" /\ UNCHANGED buf
    \/ write_buffer_len' >= 0 /\ Done

\* action_packout on ARP, IPv4 and IPv6.
ActionPackout ==
    /\ At("data")
    /\ LET m == Head(buf)
       IN  /\ hosts' = Learn(hosts, m.pkt, m.in_port, switch_id)
           /\ \/ /\ Answer(hosts', m.pkt, m.in_port, cbench) = Nothing
                 /\ UNCHANGED <<proc, pend, write_buffer_len>> /\ PackoutEnd
              \/ /\ Answer(hosts', m.pkt, m.in_port, cbench) # Nothing
                 /\ MainSends(PackoutEnd /\ UNCHANGED pend) \/ SendEnds
    /\ UNCHANGED <<masked, cbench, sw_sockfd, conn, peer, sw, inq, sent, shared>>
    /\ UNCHANGED <<ports, links, sw_replys, current, printed, threads>>

\* Mutant of LldpLock: the lists are used without links_mutex.
LldpWithoutLock ==
    /\ At("lldp_lock")
    /\ mpc' = "lldp"
    /\ UNCHANGED <<proc, buf, masked, cbench, write_buffer_len, sw_sockfd, net, links_mutex, no_of_ports, switch_id>>
    /\ UNCHANGED <<node_send_thread, anim_node_counter, tables, threads>>

\* action_packout on LLDP frames of the neighbours' controllers.
LldpLock ==
    /\ At("lldp_lock")
    /\ Acquire(Main)
    /\ mpc' = "lldp"
    /\ UNCHANGED <<proc, buf, masked, cbench, write_buffer_len, sw_sockfd, net, no_of_ports, switch_id>>
    /\ UNCHANGED <<node_send_thread, anim_node_counter, tables, threads>>

\* The result of this send is only printed.
LldpRequest ==
    /\ At("lldp") /\ Head(buf).kind = "request"
    /\ UNCHANGED write_buffer_len
    /\ \/ PackoutEnd /\ Release /\ UNCHANGED proc
       \/ SigPipe /\ UNCHANGED <<mpc, buf, links_mutex>>
    /\ UNCHANGED <<masked, cbench, sw_sockfd, net, no_of_ports, switch_id>>
    /\ UNCHANGED <<node_send_thread, anim_node_counter, tables, threads>>

LldpReply ==
    /\ At("lldp") /\ Head(buf).kind = "reply"
    /\ sw_replys' = Append(sw_replys, Head(buf).in_port)
    /\ UNCHANGED write_buffer_len /\ PackoutEnd /\ Release
    /\ UNCHANGED <<proc, masked, cbench, sw_sockfd, net, no_of_ports, switch_id, node_send_thread>>
    /\ UNCHANGED <<anim_node_counter, hosts, ports, links, current, printed, threads>>

LldpNode ==
    /\ At("lldp") /\ Head(buf).kind = "node"
    /\ links' = Append(links,
                  [node_a |-> [datapath_id |-> switch_id, port_no |-> Head(buf).in_port],
                   node_b |-> Head(buf).node])
    /\ anim_node_counter' = 0
    /\ UNCHANGED write_buffer_len /\ PackoutEnd /\ Release
    /\ UNCHANGED <<proc, masked, cbench, sw_sockfd, net, no_of_ports, switch_id, node_send_thread>>
    /\ UNCHANGED <<hosts, ports, sw_replys, current, printed, threads>>

----------------------------------------------------------------------------
(* The end: exit runs exit_func, which joins the last sharing thread,      *)
(* which never returns, before it frees anything.                          *)

\* pthread_join on a pthread_t that was never set.
JoinNoThread ==
    /\ At("exit") /\ node_send_thread = None
    /\ \/ mpc' = "exit_free" /\ UNCHANGED proc
       \/ proc' = "undefined" /\ UNCHANGED mpc
    /\ UNCHANGED <<buf, masked, cbench, write_buffer_len, sw_sockfd, net, shared, tables, threads>>

ExitFree ==
    /\ At("exit_free")
    /\ sw_sockfd' = 0
    /\ hosts' = <<>> /\ ports' = <<>> /\ links' = <<>> /\ sw_replys' = <<>>
    /\ proc' = "ended"
    /\ UNCHANGED <<mpc, buf, masked, cbench, write_buffer_len, net, shared, current, printed, threads>>

\* The kernel gives the signal to the main thread.  Before the handlers are
\* set it kills; in exit it enters exit again, which POSIX leaves undefined
\* and glibc ends without exit_func; else the handler calls exit.
Signal(s) ==
    /\ Runs /\ s \notin masked
    /\ CASE mpc = "start" ->
              proc' = "killed" /\ UNCHANGED <<mpc, masked>>
         [] mpc \in {"exit", "exit_free"} ->
              proc' \in {"ended", "undefined"} /\ UNCHANGED <<mpc, masked>>
         [] OTHER ->
              mpc' = "exit" /\ masked' = masked \cup {s} /\ UNCHANGED proc
    /\ UNCHANGED <<buf, cbench, write_buffer_len, sw_sockfd, net, shared, tables, threads>>

----------------------------------------------------------------------------
(* node_share_func. *)

ThreadAt(t, pc) == Runs /\ tpc[t] = pc

Goto(t, pc) == tpc' = [tpc EXCEPT ![t] = pc]

\* Lock links_mutex and go on at pc; nothing else changes.
LockAndGo(t, from, to) ==
    /\ ThreadAt(t, from)
    /\ Acquire(t)
    /\ Goto(t, to)
    /\ UNCHANGED <<main, net, no_of_ports, switch_id, node_send_thread, anim_node_counter>>
    /\ UNCHANGED <<ports_count, portno>>

\* An error of a thread's send is only printed.
ThreadSend ==
    /\ UNCHANGED proc \/ SigPipe
    /\ UNCHANGED <<mpc, buf, masked, cbench, write_buffer_len, sw_sockfd, net>>

RoundLock(t) == LockAndGo(t, "round", "section") /\ UNCHANGED tables

RoundStart(t) ==
    /\ ThreadAt(t, "section")
    /\ ports_count' = [ports_count EXCEPT ![t] = no_of_ports]
    /\ portno' = [portno EXCEPT ![t] = 1]
    /\ anim_node_counter' = 0
    /\ Release /\ Goto(t, "probe")
    /\ UNCHANGED <<main, net, no_of_ports, switch_id, node_send_thread, tables>>

\* An echo request to port portno.
Probe(t) ==
    /\ ThreadAt(t, "probe")
    /\ portno[t] < ports_count[t] + 1
    /\ portno' = [portno EXCEPT ![t] = @ + 1]
    /\ ThreadSend
    /\ UNCHANGED <<shared, tables, tpc, ports_count>>

ProbeEnd(t) ==
    /\ ThreadAt(t, "probe")
    /\ ~(portno[t] < ports_count[t] + 1)
    /\ Goto(t, "announce_lock")
    /\ UNCHANGED <<main, net, shared, tables, ports_count, portno>>

\* sw_replys.get_object().
NextReply == current' = IF current = Len(sw_replys) THEN 0 ELSE current + 1

AnnounceLock(t) ==
    /\ LockAndGo(t, "announce_lock", "announce")
    /\ NextReply
    /\ UNCHANGED <<hosts, ports, links, sw_replys, printed>>

\* [switch_id, port] to the port of the reply under the cursor.
Announce(t) ==
    /\ ThreadAt(t, "announce") /\ current # 0
    /\ NextReply
    /\ ThreadSend
    /\ UNCHANGED <<shared, hosts, ports, links, sw_replys, printed, threads>>

\* Mutant of AnnounceEnd: the mutex is kept.
AnnounceEndKeeps(t) ==
    /\ ThreadAt(t, "announce") /\ current = 0
    /\ Goto(t, "wait_lock")
    /\ UNCHANGED <<main, net, shared, tables, ports_count, portno>>

\* Mutant of AnnounceEnd: the walk is left without a rewind.
AnnounceEndEarly(t) ==
    /\ ThreadAt(t, "announce")
    /\ Release /\ Goto(t, "wait_lock")
    /\ UNCHANGED <<main, net, no_of_ports, switch_id, node_send_thread, anim_node_counter>>
    /\ UNCHANGED <<tables, ports_count, portno>>

AnnounceEnd(t) ==
    /\ ThreadAt(t, "announce") /\ current = 0
    /\ Release /\ Goto(t, "wait_lock")
    /\ UNCHANGED <<main, net, no_of_ports, switch_id, node_send_thread, anim_node_counter>>
    /\ UNCHANGED <<tables, ports_count, portno>>

WaitLock(t) == LockAndGo(t, "wait_lock", "wait") /\ UNCHANGED tables

Wait(t) ==
    /\ ThreadAt(t, "wait") /\ ~(anim_node_counter > WaitLimit)
    /\ anim_node_counter' = anim_node_counter + 1
    /\ Release /\ Goto(t, "wait_lock")
    /\ UNCHANGED <<main, net, no_of_ports, switch_id, node_send_thread>>
    /\ UNCHANGED <<tables, ports_count, portno>>

\* break with the mutex held and threadl set, then the unlock it asks for.
WaitEnd(t) ==
    /\ ThreadAt(t, "wait") /\ anim_node_counter > WaitLimit
    /\ Release /\ Goto(t, "report_lock")
    /\ UNCHANGED <<main, net, no_of_ports, switch_id, node_send_thread, anim_node_counter>>
    /\ UNCHANGED <<tables, ports_count, portno>>

ReportLock(t) == LockAndGo(t, "report_lock", "report") /\ UNCHANGED tables

\* Mutant of Report: the mutex is released between printing and freeing.
ReportReleases(t) ==
    /\ ThreadAt(t, "report")
    /\ printed' = printed \o links
    /\ Release /\ Goto(t, "report_free")
    /\ UNCHANGED <<main, net, no_of_ports, switch_id, node_send_thread, anim_node_counter>>
    /\ UNCHANGED <<hosts, ports, links, sw_replys, current>>
    /\ UNCHANGED <<ports_count, portno>>

Report(t) ==
    /\ ThreadAt(t, "report")
    /\ printed' = printed \o links
    /\ Goto(t, "report_free")
    /\ UNCHANGED <<main, net, shared, hosts, ports, links, sw_replys, current>>
    /\ UNCHANGED <<ports_count, portno>>

ReportFree(t) ==
    /\ ThreadAt(t, "report_free")
    /\ links' = <<>> /\ sw_replys' = <<>>
    /\ Release /\ Goto(t, "round")
    /\ UNCHANGED <<main, net, no_of_ports, switch_id, node_send_thread, anim_node_counter>>
    /\ UNCHANGED <<hosts, ports, current, printed, ports_count, portno>>

----------------------------------------------------------------------------
(* The switch (external). *)

Sharing == {t \in Threads : tpc[t] # "none"}

SwitchUp == proc = "running" /\ peer = "open"

\* Bound: no more features replies than there are threads left to create.
SwitchFeatures ==
    /\ SwitchUp /\ pend > 0
    /\ Cardinality(Sharing)
         + Len(SelectSeq(inq \o buf, LAMBDA m : m.type = "features")) < Cardinality(Threads)
    /\ inq' = Append(inq, Features(sw)) /\ pend' = pend - 1
    /\ UNCHANGED <<main, conn, peer, sw, sent, shared, tables, threads>>

SwitchSends(m) ==
    /\ SwitchUp /\ sent < MaxTraffic
    /\ inq' = Append(inq, m) /\ sent' = sent + 1
    /\ UNCHANGED <<main, conn, peer, sw, pend, shared, tables, threads>>

SwitchDies ==
    /\ SwitchUp
    /\ peer' = "gone"
    /\ UNCHANGED <<main, conn, sw, inq, pend, sent, shared, tables, threads>>

----------------------------------------------------------------------------
MainHandler ==
    \/ ReconnectLinks \/ ReconnectReplys
    \/ ActionHello \/ HelloFeatures \/ ActionEcho \/ ActionOther
    \/ FeaturesNoPorts \/ ActionFeaturesReply \/ FeaturesConfig
    \/ ActionPackout \/ LldpRequest \/ LldpReply \/ LldpNode
    \/ JoinNoThread \/ ExitFree

MainLock == FeaturesLock \/ LldpLock

MainIO == AcceptFails \/ Read \/ ReadFails \/ \E s \in Switches : Accept(s) \/ Reconnect(s)

ThreadLock(t) == RoundLock(t) \/ AnnounceLock(t) \/ WaitLock(t) \/ ReportLock(t)

ThreadStep(t) ==
    \/ RoundStart(t) \/ Probe(t) \/ ProbeEnd(t)
    \/ Announce(t) \/ AnnounceEnd(t) \/ Wait(t) \/ WaitEnd(t)
    \/ Report(t) \/ ReportFree(t)

Environment ==
    \/ SwitchFeatures \/ SwitchDies
    \/ \E m \in Traffic : SwitchSends(m)
    \/ \E s \in Signals : Signal(s)

Next ==
    \/ MainHandler \/ MainLock \/ MainIO
    \/ \E t \in Threads : ThreadLock(t) \/ ThreadStep(t)
    \/ Undefined
    \/ Environment

Spec == Init /\ [][Next]_vars

(* The scheduler runs every thread that can run.  A thread that waits for  *)
(* links_mutex gets it if it is free again and again: the holders sleep a  *)
(* second or more between two holds.  recv returns what has arrived.       *)
Fairness ==
    /\ WF_vars(MainHandler) /\ SF_vars(MainLock) /\ WF_vars(Read)
    /\ \A t \in Threads : WF_vars(ThreadStep(t)) /\ SF_vars(ThreadLock(t))

FairSpec == Spec /\ Fairness

----------------------------------------------------------------------------
(* Properties. *)

Host == [mac : Macs, port_no : Nat, datapath_id : Switches \cup {None}]
Node == [datapath_id : Switches \cup {None}, port_no : Nat]
Link == [node_a : Node, node_b : Nodes]

MainPc == {"start", "recv", "hello", "hello_features", "echo", "other",
           "features_lock", "features", "features_config", "data",
           "lldp_lock", "lldp", "reconnect_links", "reconnect_replys",
           "reconnect", "exit", "exit_free"}

ThreadPc == {"none", "round", "section", "probe", "announce_lock", "announce",
             "wait_lock", "wait", "report_lock", "report", "report_free"}

\* The types; and the walk over sw_replys starts at its first reply in every
\* round: between walks the cursor is rewound (_con.cpp:819-821).
TypeOK ==
    /\ proc \in {"running", "ended", "killed", "undefined"}
    /\ mpc \in MainPc /\ buf \in Seq(Message) /\ masked \subseteq Signals
    /\ cbench \in BOOLEAN /\ write_buffer_len \in {-1, 0, 1}
    /\ sw_sockfd \in Nat /\ conn \in Nat
    /\ peer \in {"none", "open", "gone"} /\ sw \in Switches
    /\ inq \in Seq(Message) /\ pend \in Nat /\ sent \in Nat
    /\ links_mutex \in Threads \cup {Main, None}
    /\ no_of_ports \in Int /\ switch_id \in Switches \cup {None}
    /\ node_send_thread \in Threads \cup {None} /\ anim_node_counter \in Nat
    /\ hosts \in Seq(Host) /\ ports \in Seq(Node)
    /\ links \in Seq(Link) /\ printed \in Seq(Link) /\ sw_replys \in Seq(Nat)
    /\ current \in 0 .. Len(sw_replys)
    /\ current # 0 => \E t \in Threads : tpc[t] = "announce"
    /\ tpc \in [Threads -> ThreadPc]
    /\ ports_count \in [Threads -> Int] /\ portno \in [Threads -> Nat]

\* Only one thread is inside the code between a lock and an unlock of
\* links_mutex, and it owns the mutex; the main thread may take it into exit.
Holding == {"section", "announce", "wait", "report", "report_free"}

MutexDiscipline ==
    /\ mpc \in {"features", "lldp"} => links_mutex = Main
    /\ links_mutex = Main => mpc \in {"features", "lldp", "exit", "exit_free"}
    /\ \A t \in Threads : links_mutex = t <=> tpc[t] \in Holding

\* Two threads are never inside the same list at once, but for the frees that
\* the code makes without links_mutex (_con.cpp:148, ani.cpp:108).
RaceOnlyInUnlockedFree ==
    Race => mpc \in {"reconnect_links", "reconnect_replys", "exit_free"}

\* No thread waits for links_mutex while it owns it: break leaves the wait
\* loop with the mutex (_con.cpp:828) and the next lock would hang for ever.
NoSelfDeadlock ==
    /\ mpc \in {"features_lock", "lldp_lock"} => links_mutex # Main
    /\ \A t \in Threads :
          tpc[t] \in {"round", "announce_lock", "wait_lock", "report_lock"}
              => links_mutex # t

\* Whatever connections came and went, each row of the ports table is a port
\* of the switch that is connected now (_con.cpp:147 frees the others), and
\* with -c it is there once.
PortsOfThisSwitch ==
    /\ \A i \in DOMAIN ports :
          /\ ports[i].datapath_id = sw
          /\ \E j \in DOMAIN PortsOf[sw] : ports[i].port_no = PortsOf[sw][j]
    /\ cbench => Len(ports) <= Len(PortsOf[sw])

\* One sharing thread announces the ports of the first connection, so no second
\* one resets the counter its rounds wait for (_con.cpp:702).  With -c each
\* connection adds one: a recv that fails brings no hello of its own
\* (_con.cpp:197).
SharersPerConnection == conn = 1 \/ cbench => Cardinality(Sharing) <= conn

\* The program gives up only when it was signalled, lost the switch, failed
\* to accept one, or met a switch without ports: never over the failed send of
\* an earlier connection, whose result write_buffer_len still holds when
\* action_packout looks at it (_con.cpp:658).  Excepted is the value that
\* action_packout does not return, after sends that all went well.
PackoutValueless == mpc \in {"data", "lldp"} /\ write_buffer_len' >= 0

GivesUp == mpc # "exit" /\ mpc' = "exit"

HealthySessionStays ==
    [][GivesUp => \/ masked' # {} \/ no_of_ports' = 0
                  \/ peer = "gone" \/ sw_sockfd = 0
                  \/ PackoutValueless]_vars

\* The links table under links_mutex behaves as the indivisible LinkTable: a
\* link that arrives while a round prints is not lost, nor printed twice.  The
\* abstract report is the emptying that follows the printing.
Reported == \E t \in Threads : tpc[t] = "report_free"

Settled == IF Reported THEN SubSeq(printed, 1, Len(printed) - Len(links)) ELSE printed

Table == INSTANCE LinkTable WITH pending <- links, printed <- Settled,
                                connected <- sw_sockfd # 0

ImplementsLinkTable == Table!Spec

Stopped == proc # "running" \/ Race

\* Every message the program starts to handle is handled to its end: the
\* main thread never waits for links_mutex for ever.
HandlerCompletes ==
    mpc \in {"features_lock", "lldp_lock"}
        ~> mpc \in {"recv", "exit"} \/ Stopped

----------------------------------------------------------------------------
(* What the ChangeLog says and the code does not do. *)

\* "use atexit function to properly free memories" (ChangeLog:33): exit comes
\* to an end and the tables are freed.
ExitFreesMemory == mpc = "exit" ~> proc # "running"
============================================================================
