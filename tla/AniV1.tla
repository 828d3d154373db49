------------------------------- MODULE AniV1 -------------------------------
(***************************************************************************)
(* The ANI v1 controller (ANIv1/main.cpp with ANIv1/linked.cpp): one       *)
(* thread, one switch, no reconnection.  What makes it hard are its signal *)
(* handlers: SIGINT and SIGTERM run exit_handler on whatever statement the *)
(* program is at, each handler blocks only its own signal, and the handler *)
(* walks and frees the lists the program may be changing.  So the lists    *)
(* are modelled by their pointers, statement by statement where a handler  *)
(* can see the difference, and `stack` holds the interrupted contexts.     *)
(***************************************************************************)
EXTENDS Integers, HostTable

CONSTANTS
    Traffic,      \* what the switch may send
    Signals,      \* SIGINT and SIGTERM
    SIGINT,
    NULL,         \* no row
    Junk,         \* an uninitialised pointer to a row
    Raw,          \* a row allocated and not yet filled in
    MaxTraffic,   \* bound: messages of the switch
    MaxFails      \* bound: allocations that fail

V1Message == [type : {"hello", "echo", "other", "alien"}]
             \cup [type : {"features"}, list : Seq(Nat)]
             \cup [type : {"data"}, in_port : Nat, pkt : Packet]

\* A row of hosts.
Row == [mac : Macs, port_no : Nat]

ASSUME V1Assumption ==
    /\ Traffic \subseteq V1Message
    /\ MaxTraffic \in Nat /\ MaxFails \in Nat

\* What is not a row is told from the rows.
ASSUME MarksAssumption ==
    /\ {NULL, Junk, Raw} \cap Row = {} /\ NULL \notin Signals
    /\ NULL # Junk /\ NULL # Raw /\ Junk # Raw

VARIABLES
    proc,               \* "running", "ended", "killed", or "fault"
    stack,              \* the contexts: main, and a handler for each signal
    sock, peer,         \* the switch's socket and the switch
    inq, spent,         \* messages in flight; how many were sent
    buf,                \* messages of read_buffer not yet handled
    write_buffer_len,   \* what the last send returned
    first, last, obj,   \* of hosts and of ports; obj: the objects by address
    current,            \* hosts.current
    failed,             \* history: allocations that failed
    report,             \* history: the rows of the last show_hosts
    reply               \* history: what was last sent for a packet-in

io == <<sock, peer, inq, spent, buf, write_buffer_len>>
heap == <<first, last, obj, failed>>
history == <<report, reply>>
vars == <<proc, stack, io, heap, current, history>>

Lists == {"hosts", "ports"}

\* A context: the signal it handles, where it is, the list and the object it
\* works on (or a count, or a port) with the one before, and the row in hand.
Context(sig, pc) == [sig |-> sig, pc |-> pc, l |-> "hosts", tmp |-> 0, prev |-> 0, p |-> NULL]

Init ==
    /\ proc = "running" /\ stack = <<Context(NULL, "start")>>
    /\ sock = "none" /\ peer = "none" /\ inq = <<>> /\ spent = 0
    /\ buf = <<>> /\ write_buffer_len = 0
    /\ first = [l \in Lists |-> 0] /\ last = [l \in Lists |-> 0]
    /\ obj = [l \in Lists |-> <<>>]
    /\ current = 0 /\ failed = 0
    /\ report = <<>> /\ reply = Nothing

Top == stack[Len(stack)]
At(pc) == proc = "running" /\ Top.pc = pc
Resume(c) == stack' = [stack EXCEPT ![Len(stack)] = c]
Goto(pc) == Resume([Top EXCEPT !.pc = pc])

Fault ==
    /\ proc' = "fault"
    /\ UNCHANGED <<stack, io, heap, current, history>>

----------------------------------------------------------------------------
(* linked.cpp.  An object is [p, next, live]; prev is the object before,   *)
(* as long as nothing unlinked it.  0 is NULL, -1 an uninitialised pointer.*)

Live(l, c) == c \in DOMAIN obj[l] /\ obj[l][c].live

New(l, o) == obj' = [obj EXCEPT ![l] = Append(@, o)]

\* add_object on an empty list: `first` points to the object at once, whatever
\* the memory of the object holds.
AddFirst ==
    /\ At("add") /\ first[Top.l] = 0
    /\ \E p \in {NULL, Junk}, n \in {0, -1} :
          New(Top.l, [p |-> p, next |-> n, prev |-> -1, live |-> TRUE])
    /\ first' = [first EXCEPT ![Top.l] = Len(obj[Top.l]) + 1]
    /\ Goto("add_payload")
    /\ UNCHANGED <<proc, io, last, failed, current, history>>

AddPayload ==
    /\ At("add_payload")
    /\ obj' = [obj EXCEPT ![Top.l][first[Top.l]].p = Raw]
    /\ Goto("add_links")
    /\ UNCHANGED <<proc, io, first, last, failed, current, history>>

AddLinks ==
    /\ At("add_links")
    /\ obj' = [obj EXCEPT ![Top.l][first[Top.l]].next = 0, ![Top.l][first[Top.l]].prev = 0]
    /\ Goto("add_last")
    /\ UNCHANGED <<proc, io, first, last, failed, current, history>>

\* On another list the object and its payload are made first.  Only tmp points
\* to them: a handler that comes now loses them.
AddTmp ==
    /\ At("add") /\ first[Top.l] # 0
    /\ Goto("add_next")
    /\ UNCHANGED <<proc, io, heap, current, history>>

\* The object is complete before last->next points to it.
AddNext ==
    /\ At("add_next") /\ last[Top.l] # 0
    /\ LET l == Top.l
           c == Len(obj[l]) + 1
       IN  obj' = [obj EXCEPT ![l] = Append([@ EXCEPT ![last[l]].next = c],
                       [p |-> Raw, next |-> 0, prev |-> last[l], live |-> TRUE])]
    /\ Goto("add_last")
    /\ UNCHANGED <<proc, io, first, last, failed, current, history>>

AddLast ==
    /\ At("add_last")
    /\ last' = [last EXCEPT ![Top.l] = Len(obj[Top.l])]
    /\ Goto("fill")
    /\ UNCHANGED <<proc, io, first, obj, failed, current, history>>

\* last->next with last == NULL.
AddFaults == At("add_next") /\ last[Top.l] = 0 /\ Fault

\* Where the caller goes on after add_object.
AddReturns ==
    Resume(IF Top.l = "hosts" THEN [Top EXCEPT !.pc = "learn_show", !.p = NULL]
           ELSE [Top EXCEPT !.pc = "ports", !.tmp = @ + 1])

\* The caller writes the row field by field.
Fill ==
    /\ At("fill")
    /\ obj' = [obj EXCEPT ![Top.l][last[Top.l]].p = Top.p]
    /\ AddReturns
    /\ report' = IF Top.l = "hosts" THEN <<>> ELSE report
    /\ UNCHANGED <<proc, io, first, last, failed, current, reply>>

\* new(nothrow) returns NULL: for the object, or for the payload of a first
\* object, which stays in the list as it is; on another list an object that
\* got no payload is lost.
AddFails ==
    /\ At("add") \/ At("add_payload")
    /\ failed < MaxFails /\ failed' = failed + 1
    /\ obj' = IF At("add") THEN obj ELSE [obj EXCEPT ![Top.l][first[Top.l]].p = NULL]
    /\ AddReturns
    /\ report' = IF Top.l = "hosts" THEN <<>> ELSE report
    /\ UNCHANGED <<proc, io, first, last, current, reply>>

\* hosts.get_object() with the cursor at c: the context goes on as `found`
\* with the row in hand, or as `ended` when the call returns NULL.
Wild(c) == c # 0 /\ ~Live("hosts", c)
Following(c) == IF c = 0 THEN first["hosts"] ELSE obj["hosts"][c].next
RowAt(c) == IF c = 0 THEN NULL ELSE obj["hosts"][c].p

GetObject(c, found, ended) ==
    IF Wild(c) \/ Wild(Following(c))
    THEN proc' = "fault" /\ UNCHANGED <<stack, current>>
    ELSE /\ Resume(IF RowAt(Following(c)) = NULL THEN ended
                   ELSE [found EXCEPT !.p = RowAt(Following(c))])
         /\ current' = Following(c)
         /\ UNCHANGED proc

\* list_rewind, and the get_object that every walk but show_hosts begins with.
ListRewind(found, ended) == GetObject(0, found, ended)

\* free_list, backwards from last; then exit_handler and main go on to the
\* ports, and to their end.
FreeReturns ==
    Resume(IF Top.l = "hosts" THEN [Top EXCEPT !.pc = "free", !.l = "ports"]
           ELSE [Top EXCEPT !.pc = "exit"])

FreeList ==
    /\ At("free")
    /\ IF last[Top.l] = 0 THEN FreeReturns
       ELSE Resume([Top EXCEPT !.pc = "unlink", !.tmp = last[Top.l]])
    /\ UNCHANGED <<proc, io, heap, current, history>>

\* Mutant of FreeUnlink: prev is read after it was cleared.
FreeUnlinkForgets ==
    /\ At("unlink")
    /\ IF ~Live(Top.l, Top.tmp) THEN Fault
       ELSE /\ obj' = [obj EXCEPT ![Top.l][Top.tmp].prev = 0, ![Top.l][Top.tmp].next = 0]
            /\ Resume([Top EXCEPT !.pc = "delete", !.prev = 0])
            /\ UNCHANGED <<proc, io, first, last, failed, current, history>>

FreeUnlink ==
    /\ At("unlink")
    /\ IF ~Live(Top.l, Top.tmp) THEN Fault
       ELSE /\ obj' = [obj EXCEPT ![Top.l][Top.tmp].prev = 0, ![Top.l][Top.tmp].next = 0]
            /\ Resume([Top EXCEPT !.pc = "delete", !.prev = obj[Top.l][Top.tmp].prev])
            /\ UNCHANGED <<proc, io, first, last, failed, current, history>>

FreeDelete ==
    /\ At("delete")
    /\ obj' = [obj EXCEPT ![Top.l][Top.tmp].live = FALSE]
    /\ Resume([Top EXCEPT !.pc = IF Top.prev = 0 THEN "clear_last" ELSE "unlink",
                         !.tmp = Top.prev])
    /\ UNCHANGED <<proc, io, first, last, failed, current, history>>

\* Mutant of FreeLast: last keeps pointing to the freed object.
FreeKeepsLast ==
    /\ At("clear_last")
    /\ Goto("clear_first")
    /\ UNCHANGED <<proc, io, heap, current, history>>

FreeLast ==
    /\ At("clear_last")
    /\ last' = [last EXCEPT ![Top.l] = 0]
    /\ Goto("clear_first")
    /\ UNCHANGED <<proc, io, first, obj, failed, current, history>>

FreeFirst ==
    /\ At("clear_first")
    /\ first' = [first EXCEPT ![Top.l] = 0]
    /\ FreeReturns
    /\ UNCHANGED <<proc, io, last, obj, failed, current, history>>

\* Mutant of ShowHosts: the last row is not printed.
ShowHostsButLast(pc, end) ==
    /\ At(pc)
    /\ IF Top.p = Junk THEN Fault
       ELSE /\ report' = IF Top.p = NULL \/ Following(current) = 0 THEN report
                         ELSE Append(report, Top.p)
            /\ GetObject(current, Top, [Top EXCEPT !.pc = end, !.p = NULL])
            /\ UNCHANGED <<io, heap, reply>>

\* show_hosts: print the row in hand and get the next one.
ShowHosts(pc, end) ==
    /\ At(pc)
    /\ IF Top.p = Junk THEN Fault
       ELSE /\ report' = IF Top.p = NULL THEN report ELSE Append(report, Top.p)
            /\ GetObject(current, Top, [Top EXCEPT !.pc = end, !.p = NULL])
            /\ UNCHANGED <<io, heap, reply>>

\* The list_rewind at its end.
ShowHostsEnd(end, next) ==
    /\ At(end)
    /\ current' = 0
    /\ Goto(next)
    /\ UNCHANGED <<proc, io, heap, history>>

----------------------------------------------------------------------------
(* The socket. *)

Sends == sock = "open" /\ write_buffer_len' = 1

SendFails == sock = "open" /\ peer = "gone" /\ write_buffer_len' = -1

\* SIGPIPE is not handled.
SigPipe == sock = "open" /\ peer = "gone" /\ proc' = "killed"
           /\ UNCHANGED <<stack, write_buffer_len>>

----------------------------------------------------------------------------
(* main. *)

\* The socket set-up; the handlers are set once a switch is connected.
Accept ==
    /\ At("start")
    /\ sock' = "open" /\ peer' = "open"
    /\ Goto("set_int")
    /\ UNCHANGED <<proc, inq, spent, buf, write_buffer_len, heap, current, history>>

SetUpFails ==
    /\ At("start")
    /\ Goto("exit")
    /\ UNCHANGED <<proc, io, heap, current, history>>

SetInt == At("set_int") /\ Goto("set_term") /\ UNCHANGED <<proc, io, heap, current, history>>
SetTerm == At("set_term") /\ Goto("recv") /\ UNCHANGED <<proc, io, heap, current, history>>

\* send_information on what is left of the buffer; nothing left: recv again.
Handle(msgs) ==
    /\ buf' = msgs
    /\ Resume([Context(NULL, IF msgs = <<>> THEN "recv" ELSE Head(msgs).type) EXCEPT !.l = "ports"])

Done == Handle(Tail(buf))

\* A handler or recv returned -1: show_hosts, and the lists are freed.
GiveUp == Resume(Context(NULL, "show")) /\ report' = <<>>

Recv ==
    /\ At("recv")
    /\ \E n \in 1 .. Len(inq) :
          Handle(SubSeq(inq, 1, n)) /\ inq' = SubSeq(inq, n + 1, Len(inq))
    /\ reply' = Nothing
    /\ UNCHANGED <<proc, sock, peer, spent, write_buffer_len, heap, current, report>>

\* 0 ends the program; -1 falls off the end of read_from_switch: the
\* checked-in build then returns -1; one that returns 0 stays here.
RecvFails ==
    /\ At("recv") /\ peer = "gone"
    /\ GiveUp
    /\ inq' = <<>>
    /\ UNCHANGED <<proc, sock, peer, spent, buf, write_buffer_len, heap, current, reply>>

\* check_openflow: not version 1, and the rest of the buffer is dropped.
CheckOpenflow ==
    /\ At("alien")
    /\ Handle(<<>>)
    /\ UNCHANGED <<proc, sock, peer, inq, spent, write_buffer_len, heap, current, history>>

Other ==
    /\ At("other")
    /\ Done
    /\ UNCHANGED <<proc, sock, peer, inq, spent, write_buffer_len, heap, current, history>>

\* A handler's send, and how it goes on; action_hello and action_echo end
\* without a value after a send that failed.
SendThen(next) == Sends /\ next /\ UNCHANGED <<proc, report>>
SendGivesUp == SendFails /\ GiveUp /\ UNCHANGED <<proc, buf>>
SendUndefined == SendFails /\ Done /\ UNCHANGED <<proc, report>>
SendKills == SigPipe /\ UNCHANGED <<buf, report>>

ActionHello ==
    /\ At("hello")
    /\ \/ SendThen(Goto("features_request") /\ UNCHANGED buf)
       \/ SendGivesUp \/ SendUndefined \/ SendKills
    /\ UNCHANGED <<sock, peer, inq, spent, heap, current, reply>>

FeaturesRequest ==
    /\ At("features_request")
    /\ SendThen(Done) \/ SendGivesUp \/ SendUndefined \/ SendKills
    /\ UNCHANGED <<sock, peer, inq, spent, heap, current, reply>>

ActionEcho ==
    /\ At("echo")
    /\ SendThen(Done) \/ SendGivesUp \/ SendUndefined \/ SendKills
    /\ UNCHANGED <<sock, peer, inq, spent, heap, current, reply>>

\* A switch without ports ends the program.
FeaturesReply ==
    /\ At("features")
    /\ IF Head(buf).list = <<>> THEN GiveUp ELSE Goto("ports") /\ UNCHANGED report
    /\ UNCHANGED <<proc, io, heap, current, reply>>

\* The next port goes to the table; after the last one show_ports, whose
\* cursor nothing else uses.
NextPort ==
    /\ At("ports") /\ Top.tmp < Len(Head(buf).list)
    /\ Resume([Top EXCEPT !.pc = "add", !.p = [port_no |-> Head(buf).list[Top.tmp + 1]]])
    /\ UNCHANGED <<proc, io, heap, current, history>>

SetConfig ==
    /\ At("ports") /\ Top.tmp = Len(Head(buf).list)
    /\ SendThen(Done) \/ SendGivesUp \/ SendKills
    /\ UNCHANGED <<sock, peer, inq, spent, heap, current, reply>>

----------------------------------------------------------------------------
(* action_packout. *)

SourceRow == [mac |-> Head(buf).pkt.src, port_no |-> Head(buf).in_port]

\* ARP teaches; what is not for a host of the table is answered at once.
ActionPackout ==
    /\ At("data")
    /\ Goto(CASE Head(buf).pkt.type = "arp" -> "src"
              [] Head(buf).pkt.type = "ip" -> "dst"
              [] OTHER -> "answer")
    /\ UNCHANGED <<proc, io, heap, current, history>>

AfterLearning == IF Head(buf).pkt.dst = Broadcast THEN "answer" ELSE "dst"

\* Mutant of SourceRewind: the walk goes on where the last one stopped.
SourceResume ==
    /\ At("src")
    /\ GetObject(current, [Top EXCEPT !.pc = "src_walk"],
                 [Top EXCEPT !.pc = "add", !.l = "hosts", !.p = SourceRow])
    /\ UNCHANGED <<io, heap, history>>

\* The walk for the sender; one that is not found is added.
SourceRewind ==
    /\ At("src")
    /\ ListRewind([Top EXCEPT !.pc = "src_walk"],
                  [Top EXCEPT !.pc = "add", !.l = "hosts", !.p = SourceRow])
    /\ UNCHANGED <<io, heap, history>>

SourceWalk ==
    /\ At("src_walk")
    /\ IF Top.p.mac = Head(buf).pkt.src
       THEN Resume([Top EXCEPT !.pc = AfterLearning, !.p = NULL]) /\ UNCHANGED <<proc, current>>
       ELSE GetObject(current, Top, [Top EXCEPT !.pc = "add", !.l = "hosts", !.p = SourceRow])
    /\ UNCHANGED <<io, heap, history>>

\* show_hosts after learning.
ShowLearned == ShowHosts("learn_show", "learn_rewind")
ShowLearnedEnd == ShowHostsEnd("learn_rewind", AfterLearning)

\* Mutant of DestinationRewind: the same.
DestinationResume ==
    /\ At("dst")
    /\ GetObject(current, [Top EXCEPT !.pc = "dst_walk"], [Top EXCEPT !.pc = "answer", !.tmp = 0])
    /\ UNCHANGED <<io, heap, history>>

\* The walk for the receiver: its port, or 0, is left in tmp.
DestinationRewind ==
    /\ At("dst")
    /\ ListRewind([Top EXCEPT !.pc = "dst_walk"], [Top EXCEPT !.pc = "answer", !.tmp = 0])
    /\ UNCHANGED <<io, heap, history>>

DestinationWalk ==
    /\ At("dst_walk")
    /\ IF Top.p.mac = Head(buf).pkt.dst
       THEN /\ Resume([Top EXCEPT !.pc = "answer", !.tmp = Top.p.port_no, !.p = NULL])
            /\ UNCHANGED <<proc, current>>
       ELSE GetObject(current, Top, [Top EXCEPT !.pc = "answer", !.tmp = 0, !.p = NULL])
    /\ UNCHANGED <<io, heap, history>>

Flow(m, out_port, nw_proto, tp) ==
    [FlowMod(m.pkt, m.in_port, out_port) EXCEPT !.nw_proto = nw_proto, !.tp = tp]

ArpFlow(m, out_port) == Flow(m, out_port, m.pkt.proto % 256, 0)

IcmpFlow(m, out_port) == Flow(m, out_port, IP_TYPE_ICMP, 0)

TcpFlow(m, out_port) == Flow(m, out_port, IP_TYPE_TCP, m.pkt.at20)

\* The ports of the match are those of TCP, which are 0 here.
UdpFlow(m, out_port) == Flow(m, out_port, IP_TYPE_UDP, 0)

Ip6Flood(m) == Flood(m.in_port)

ArpFlood(m) == Flood(m.in_port)

UnknownFlood(m) == Flood(m.in_port)

\* Flows are made for receivers that are not in the table, too, to port 0.
V1Answer(m, out_port) ==
    CASE m.pkt.type = "ip6" -> Ip6Flood(m)
      [] m.pkt.type = "arp" /\ m.pkt.dst = Broadcast -> ArpFlood(m)
      [] m.pkt.type = "arp" /\ m.pkt.dst # Broadcast -> ArpFlow(m, out_port)
      [] m.pkt.type = "ip" /\ m.pkt.proto = IP_TYPE_ICMP -> IcmpFlow(m, out_port)
      [] m.pkt.type = "ip" /\ m.pkt.proto = IP_TYPE_TCP -> TcpFlow(m, out_port)
      [] m.pkt.type = "ip" /\ m.pkt.proto = IP_TYPE_UDP -> UdpFlow(m, out_port)
      [] m.pkt.type = "ip" /\ m.pkt.proto = IP_PROTO_UNKNOWN -> UnknownFlood(m)
      [] OTHER -> Nothing

\* The end of action_packout looks at the last send, and returns no value when
\* that went well: what it then returns may be -1.
PackoutEnd ==
    \/ GiveUp /\ UNCHANGED buf
    \/ write_buffer_len' >= 0 /\ Done /\ UNCHANGED report

Silent == UNCHANGED <<proc, write_buffer_len, reply>> /\ PackoutEnd

Respond ==
    /\ At("answer")
    /\ LET answer == V1Answer(Head(buf), Top.tmp)
       IN  \/ answer = Nothing /\ Silent
          \/ /\ answer # Nothing
             /\ \/ Sends /\ UNCHANGED proc /\ reply' = answer /\ PackoutEnd
                \/ SendGivesUp /\ UNCHANGED reply
                \/ SendKills /\ UNCHANGED reply
    /\ UNCHANGED <<sock, peer, inq, spent, heap, current>>

----------------------------------------------------------------------------
(* The end. *)

\* exit_handler and the end of main show the hosts and free both lists.
ShowFinal == ShowHosts("show", "rewind")
ShowFinalEnd == ShowHostsEnd("rewind", "free")

\* close_sockets (which exit_handler does first) and exit.
Exit ==
    /\ At("exit")
    /\ proc' = "ended"
    /\ sock' = IF sock = "open" THEN "closed" ELSE sock
    /\ UNCHANGED <<stack, peer, inq, spent, buf, write_buffer_len, heap, current, history>>

Ending == {"show", "rewind", "free", "unlink", "delete", "clear_last", "clear_first", "exit"}

\* A signal that is not blocked: before its handler is set it kills, while it
\* is SIG_IGN it is lost, else exit_handler starts by closing the sockets.
Default(s) == \/ sock = "none" \/ Top.pc = "set_int"
              \/ s # SIGINT /\ Top.pc = "set_term"

\* exit_handler never returns: of what it interrupts only the place matters.
Signal(s) ==
    /\ proc = "running"
    /\ \A i \in DOMAIN stack : stack[i].sig # s
    /\ IF Default(s)
       THEN proc' = "killed" /\ UNCHANGED <<stack, sock, peer, inq, buf, write_buffer_len, history>>
       ELSE /\ stack' = [stack EXCEPT ![Len(stack)] = [Context(@.sig, @.pc) EXCEPT !.l = Top.l]]
                         \o <<Context(s, "show")>>
            /\ sock' = "closed" /\ peer' = "gone" /\ inq' = <<>>
            /\ report' = IF Top.pc \in Ending THEN report ELSE <<>>
            /\ buf' = <<>> /\ write_buffer_len' = 0 /\ reply' = Nothing
            /\ UNCHANGED proc
    /\ UNCHANGED <<spent, heap, current>>

----------------------------------------------------------------------------
(* The switch (external).  It sends while the program waits in recv; what  *)
(* arrives at another time is what a recv left in the queue.               *)

SwitchSends(m) ==
    /\ At("recv") /\ peer = "open" /\ spent < MaxTraffic
    /\ inq' = Append(inq, m) /\ spent' = spent + 1
    /\ UNCHANGED <<proc, stack, sock, peer, buf, write_buffer_len, heap, current, history>>

SwitchDies ==
    /\ proc = "running" /\ peer = "open"
    /\ peer' = "gone"
    /\ UNCHANGED <<proc, stack, sock, inq, spent, buf, write_buffer_len, heap, current, history>>

----------------------------------------------------------------------------
AddObject == AddFirst \/ AddPayload \/ AddLinks \/ AddTmp \/ AddNext \/ AddLast \/ AddFaults \/ Fill

FreeSteps == FreeList \/ FreeUnlink \/ FreeDelete \/ FreeLast \/ FreeFirst

Handlers ==
    \/ CheckOpenflow \/ Other \/ ActionHello \/ FeaturesRequest \/ ActionEcho
    \/ FeaturesReply \/ NextPort \/ SetConfig
    \/ ActionPackout \/ SourceRewind \/ SourceWalk \/ ShowLearned \/ ShowLearnedEnd
    \/ DestinationRewind \/ DestinationWalk \/ Respond

EndSteps == ShowFinal \/ ShowFinalEnd \/ FreeSteps \/ Exit

Next ==
    \/ Accept \/ SetUpFails \/ SetInt \/ SetTerm \/ Recv \/ RecvFails
    \/ AddObject \/ AddFails \/ Handlers \/ EndSteps
    \/ \E s \in Signals : Signal(s)
    \/ \E m \in Traffic : SwitchSends(m)
    \/ SwitchDies

Spec == Init /\ [][Next]_vars

----------------------------------------------------------------------------
(* Properties. *)

Payload == Row \cup [port_no : Nat] \cup {NULL, Junk, Raw}

Pc == {"start", "set_int", "set_term", "recv", "hello", "features_request", "echo",
       "other", "alien", "features", "ports", "data", "src", "src_walk", "add",
       "add_payload", "add_links", "add_next", "add_last", "fill", "learn_show", "learn_rewind",
       "dst", "dst_walk", "answer"} \cup Ending

ContextType == [sig : Signals \cup {NULL}, pc : Pc, l : Lists,
                tmp : Nat, prev : Nat, p : Payload]

Object == [p : Payload, next : Int, prev : Int, live : BOOLEAN]

TypeOK ==
    /\ proc \in {"running", "ended", "killed", "fault"}
    /\ stack \in Seq(ContextType) /\ stack # <<>>
    /\ sock \in {"none", "open", "closed"} /\ peer \in {"none", "open", "gone"}
    /\ inq \in Seq(V1Message) /\ buf \in Seq(V1Message) /\ spent \in Nat
    /\ write_buffer_len \in {-1, 0, 1}
    /\ first \in [Lists -> Nat] /\ last \in [Lists -> Nat]
    /\ obj \in [Lists -> Seq(Object)]
    /\ current \in Nat /\ failed \in Nat
    /\ report \in Seq(Row \cup {Raw})

\* The rows a walk of hosts from its first object meets.
Rows ==
    LET walk[n \in 0 .. Len(obj["hosts"])] ==
            IF n = 0 THEN <<first["hosts"], <<>>>>
            ELSE LET c == walk[n - 1][1]
                 IN  IF Live("hosts", c)
                     THEN <<obj["hosts"][c].next, Append(walk[n - 1][2], obj["hosts"][c].p)>>
                     ELSE walk[n - 1]
    IN  walk[Len(obj["hosts"])][2]

\* An unset, NULL or freed pointer is followed only where a list is half built
\* (a handler interrupted add_object on the empty list, or an allocation failed
\* in it), or where a handler interrupted free_list: add_object on a list with
\* rows, and every walk, can be interrupted anywhere (main.cpp:201).
HalfBuilt(l) == first[l] # 0 /\ last[l] = 0

Freeing == {"unlink", "delete", "clear_last", "clear_first"}

FaultOnlyWhenTorn ==
    proc = "fault" =>
        \/ \E l \in Lists : HalfBuilt(l)
        \/ \E i \in 1 .. Len(stack) - 1 : stack[i].pc \in Freeing

\* The program ends with its socket closed and everything freed, unless an
\* allocation failed half way or a handler interrupted a list that changed: of
\* the objects that some list points to.  One that add_object has made and not
\* yet linked when a handler comes (add_next) is lost in any case.
Adding == {"add_payload", "add_links", "add_last"}

Interrupted(pcs) == \E i \in 1 .. Len(stack) - 1 : stack[i].pc \in pcs

EndsClean ==
    proc = "ended" =>
        /\ sock # "open"
        /\ (\E l \in Lists : \E c \in DOMAIN obj[l] : obj[l][c].live)
              => failed > 0 \/ Interrupted(Adding \cup Freeing)

\* A host has one row over any sequence of ARP frames, wherever the walks
\* before left the cursor (main.cpp:480).
HostsUnique ==
    \A i, j \in DOMAIN Rows :
        Rows[i] \in Row /\ Rows[j] \in Row /\ Rows[i].mac = Rows[j].mac => i = j

\* The lists are well-formed, half built or half freed ones too, and a host has
\* one row (linked.cpp:21-81).
ListsOK == TypeOK /\ HostsUnique

\* show_hosts does not rewind before it walks: what it prints is always the
\* end of the table, and the whole table after a host was learned.
ShowsTail ==
    Top.pc = "rewind" /\ (\A i \in 1 .. Len(stack) - 1 : stack[i].pc \notin Ending) =>
        \E k \in 0 .. Len(Rows) : report = SubSeq(Rows, k + 1, Len(Rows))

ShowsAllLearned == Top.pc = "learn_rewind" /\ ~HalfBuilt("hosts") => report = Rows

\* What show_hosts prints are rows of the table, none of them left out from where
\* it starts (main.cpp:781-790).
ShowsRows == ShowsTail /\ ShowsAllLearned

\* A flow leads to where the table has its receiver, and to port 0 only if it
\* is not there.
FlowsFollowTable ==
    [][reply'.kind = "flow_mod" /\ reply # reply' /\ ~HalfBuilt("hosts") =>
          reply'.out_port = PortOf(Rows, reply'.dst)]_vars
============================================================================
