---------------------------- MODULE AniV21Proofs ----------------------------
(***************************************************************************)
(* Proofs about the v2.1 controller, for any number of threads,            *)
(* connections, switches and messages: its types, what its node threads    *)
(* take out of sw_in, how many of them a connection starts, and that the   *)
(* ports table is about the switch of the connection.                      *)
(***************************************************************************)
EXTENDS AniV21, SequenceTheorems, FiniteSetTheorems, TLAPS

(* What a switch s may have sent. *)
From(s) == {Hello, FeaturesReply(s)} \cup TrafficMessage

(* Where the main thread has no message in hand. *)
IdlePc == {"start", "recv", "reconnect", "exit", "exit_free"}

(* Messages come from the switch of the connection, and the main thread is *)
(* at the handler of the first one.                                        *)
MessageInv ==
    /\ buf \in Seq(From(sw)) /\ inq \in Seq(From(sw))
    /\ buf # <<>> \/ inq # <<>> => peer # "none"
    /\ peer # "none" => sw \in Switches
    /\ buf = <<>> => mpc \in IdlePc
    /\ mpc = "features" => Head(buf).type = "features"

(* Both fields of sw_in belong to one switch. *)
Consistent ==
    /\ sw_in.datapath_id \in Switches
    /\ sw_in.no_of_ports = Len(PortsOf[sw_in.datapath_id])

(* The features reply in hand is that of the present switch, and no thread *)
(* that is not torn reads sw_in while it is half written.                  *)
FeaturesInv ==
    /\ sw_in \in [datapath_id : Switches \cup {None}, no_of_ports : Nat]
    /\ mpc \in {"features_count", "features_thread"} =>
          sw \in Switches /\ switch_id = sw /\ sw_in.datapath_id = sw
    /\ mpc = "features_count" => Reading \subseteq torn
    /\ mpc = "features_thread" => Consistent

(* What a thread read so far, and what it is going to read, fit together. *)
ThreadInv ==
    /\ tpc \in [Threads -> {"none", "start", "half", "round"}]
    /\ ports_count \in [Threads -> Int]
    /\ datap \in [Threads -> Switches \cup {None}]
    /\ \A t \in Threads \ torn :
          /\ tpc[t] = "start" => Consistent
          /\ tpc[t] = "half" => Consistent /\ ports_count[t] = sw_in.no_of_ports
          /\ tpc[t] = "round" => /\ datap[t] \in Switches
                                 /\ ports_count[t] = Len(PortsOf[datap[t]])

(* Threads of the present connection read, or have read, its switch.  A    *)
(* thread that was not created has conn 0.                                 *)
BornInv ==
    /\ conn \in Nat /\ sw_sockfd \in {0, conn}
    /\ born \in [Threads -> 0 .. conn]
    /\ \A t \in Threads : born[t] = conn =>
          /\ tpc[t] \in {"start", "half"} => sw_in.datapath_id = sw
          /\ tpc[t] = "round" => datap[t] = sw

NodeInv == MessageInv /\ FeaturesInv /\ ThreadInv /\ BornInv

(* The end of a handler: the next message, or recv. *)
LEMMA HandleMessage ==
    ASSUME NEW d, NEW msgs \in Seq(From(d)), Handle(msgs)
    PROVE  /\ buf' = msgs
           /\ mpc' \notin {"features_count", "features_thread"}
           /\ msgs = <<>> => mpc' = "recv"
           /\ mpc' = "features" => Head(msgs).type = "features"
  <1>1. CASE msgs = <<>>
    BY <1>1 DEF Handle
  <1>2. CASE msgs # <<>>
    <2>1. Head(msgs) \in From(d)
      BY <1>2, HeadTailProperties
    <2>2. Head(msgs).type \notin {"features_count", "features_thread"}
      BY <2>1 DEF From, Hello, FeaturesReply, TrafficMessage
    <2> QED
      BY <1>2, <2>2 DEF Handle
  <1> QED
    BY <1>1, <1>2

(* The main thread keeps its message, and does not begin a features reply, *)
(* or goes on to the next one.                                             *)
LEMMA MessagesKept ==
    ASSUME MessageInv, UNCHANGED <<sw, inq, peer>>,
           \/ buf' = buf /\ mpc' # "features" /\ (buf = <<>> => mpc' \in IdlePc)
           \/ buf # <<>> /\ Done
    PROVE  MessageInv'
  <1>1. CASE buf' = buf /\ mpc' # "features" /\ (buf = <<>> => mpc' \in IdlePc)
    BY <1>1 DEF MessageInv
  <1>2. CASE buf # <<>> /\ Done
    <2>1. Tail(buf) \in Seq(From(sw))
      BY <1>2, HeadTailProperties DEF MessageInv
    <2> QED
      BY <1>2, <2>1, HandleMessage DEF Done, MessageInv, IdlePc
  <1> QED
    BY <1>1, <1>2

(* A step of the main thread outside of the handling of a features reply:  *)
(* neither sw_in nor the threads nor the switch change.                    *)
LEMMA MainElsewhere ==
    ASSUME FeaturesInv, ThreadInv, BornInv,
           UNCHANGED <<sw, reading, tpc, born, conn>>, sw_sockfd' \in {0, conn},
           \/ mpc' \notin {"features_count", "features_thread"}
           \/ mpc' = mpc /\ switch_id' = switch_id
    PROVE  FeaturesInv' /\ ThreadInv' /\ BornInv'
  <1>1. FeaturesInv'
    BY DEF FeaturesInv, Consistent, Reading, reading
  <1>2. ThreadInv'
    BY DEF ThreadInv, Consistent, reading
  <1>3. BornInv'
    BY DEF BornInv, reading
  <1> QED
    BY <1>1, <1>2, <1>3

LEMMA NodeInitially == Init => NodeInv
  <1> SUFFICES ASSUME Init PROVE NodeInv
    OBVIOUS
  <1>1. MessageInv
    BY V21Assumption, EmptySeq DEF Init, MessageInv, IdlePc
  <1>2. FeaturesInv
    BY DEF Init, FeaturesInv
  <1>3. ThreadInv
    BY DEF Init, ThreadInv
  <1>4. BornInv
    BY V21Assumption DEF Init, BornInv
  <1> QED
    BY <1>1, <1>2, <1>3, <1>4 DEF NodeInv

(* How action_packout ends. *)
LEMMA PackoutSends ==
    ASSUME ActionPackout
    PROVE  \/ SendThen(Done /\ UNCHANGED pend)
           \/ SendThen(mpc' = "exit" /\ UNCHANGED <<buf, pend>>)
           \/ SendEnds \/ Silent
  BY DEF ActionPackout, SendThen, PackoutEnd

(* A send of the main thread, in every way it ends. *)
LEMMA SendMoves ==
    ASSUME MessageInv, mpc \notin IdlePc,
           UNCHANGED <<sw_sockfd, conn, peer, sw, inq, reading, tpc, born>>,
           \/ SendUndefined
           \/ SendEnds
           \/ SendThen(mpc' = "features_request" /\ UNCHANGED <<buf, pend>>)
           \/ \E n \in {0, 1, 2} : SendThen(pend' = pend + n /\ Done)
           \/ SendThen(Done /\ UNCHANGED pend)
           \/ SendThen(mpc' = "exit" /\ UNCHANGED <<buf, pend>>)
           \/ Silent
    PROVE  /\ MessageInv'
           /\ \/ mpc' \notin {"features_count", "features_thread"}
              \/ mpc' = mpc
  <1>1. buf # <<>>
    BY DEF MessageInv
  <1>2. Tail(buf) \in Seq(From(sw))
    BY <1>1, HeadTailProperties DEF MessageInv
  <1>3. Done => MessageInv' /\ mpc' \notin {"features_count", "features_thread"}
    BY <1>1, <1>2, MessagesKept, HandleMessage DEF Done
  <1>4. UNCHANGED buf /\ mpc' \in {"exit", "features_request"} => MessageInv'
    BY <1>1, MessagesKept
  <1>5. CASE SendEnds
    <2>1. CASE mpc' = "exit"
      BY <2>1, <1>4, <1>5 DEF SendEnds
    <2>2. CASE UNCHANGED mpc
      BY <2>2, <1>5 DEF SendEnds, MessageInv
    <2> QED
      BY <2>1, <2>2, <1>5 DEF SendEnds
  <1>6. CASE SendUndefined
    BY <1>3, <1>5, <1>6 DEF SendUndefined
  <1>7. CASE SendThen(mpc' = "features_request" /\ UNCHANGED <<buf, pend>>)
    BY <1>4, <1>7 DEF SendThen
  <1>8. CASE \E n \in {0, 1, 2} : SendThen(pend' = pend + n /\ Done)
    BY <1>3, <1>8 DEF SendThen
  <1>9. CASE SendThen(Done /\ UNCHANGED pend)
    BY <1>3, <1>9 DEF SendThen
  <1>10. CASE Silent
    BY <1>3, <1>4, <1>10 DEF Silent, PackoutEnd
  <1>11. CASE SendThen(mpc' = "exit" /\ UNCHANGED <<buf, pend>>)
    BY <1>4, <1>11 DEF SendThen
  <1> QED
    BY <1>5, <1>6, <1>7, <1>8, <1>9, <1>10, <1>11

(* A connection: what came from the last switch is gone. *)
LEMMA ConnectKeeps ==
    ASSUME NodeInv, NEW s \in Switches, NEW msgs \in {<<>>, <<Hello>>},
           mpc \notin {"features_count", "features_thread"},
           Connected(s), Handle(msgs), UNCHANGED <<switch_id, reading, tpc, born>>
    PROVE  NodeInv'
  <1>1. sw' = s /\ inq' = <<Hello>> /\ peer' = "open" /\ conn' = conn + 1 /\ sw_sockfd' = conn'
    BY DEF Connected
  <1>2. <<Hello>> \in Seq(From(s)) /\ <<>> \in Seq(From(s))
    BY DEF From
  <1>3. /\ buf' = msgs /\ mpc' \notin {"features_count", "features_thread"}
        /\ msgs = <<>> => mpc' = "recv"
        /\ mpc' = "features" => Head(msgs).type = "features"
    BY <1>2, HandleMessage
  <1>4. MessageInv'
    BY <1>1, <1>2, <1>3 DEF MessageInv, IdlePc
  <1>5. FeaturesInv'
    BY <1>3 DEF NodeInv, FeaturesInv, reading
  <1>6. ThreadInv'
    BY DEF NodeInv, ThreadInv, Consistent, reading
  <1>7. BornInv'
    BY <1>1 DEF NodeInv, BornInv, reading
  <1> QED
    BY <1>4, <1>5, <1>6, <1>7 DEF NodeInv

(* The handling of a features reply (_con.cpp:312-375). *)
LEMMA FeaturesKeep ==
    ASSUME NodeInv,
           \/ ActionFeaturesReply \/ FeaturesCount \/ CreateThread
           \/ FeaturesPorts \/ FeaturesConfig
    PROVE  NodeInv'
  <1> USE DEF NodeInv
  <1>1. CASE ActionFeaturesReply
    <2>1. buf # <<>> /\ Head(buf).type = "features" /\ peer # "none"
      BY <1>1 DEF ActionFeaturesReply, At, MessageInv, IdlePc
    <2>2. Head(buf).dpid = sw /\ sw \in Switches
      <3>1. Head(buf) \in From(sw)
        BY <2>1, HeadTailProperties DEF MessageInv
      <3>2. Head(buf) = FeaturesReply(sw)
        BY <2>1, <3>1 DEF From, Hello, TrafficMessage, FeaturesReply
      <3> QED
        BY <2>1, <3>2 DEF FeaturesReply, MessageInv
    <2>3. MessageInv'
      BY <1>1, <2>1, MessagesKept DEF ActionFeaturesReply, socket
    <2>4. CASE PortsOf[sw] = <<>>
      BY <1>1, <2>2, <2>3, <2>4, MainElsewhere
      DEF ActionFeaturesReply, socket, reading, threads, BornInv
    <2>5. CASE PortsOf[sw] # <<>>
      <3>1. /\ switch_id' = sw /\ sw_in' = [sw_in EXCEPT !.datapath_id = sw]
            /\ torn' = torn \cup Reading /\ mpc' = "features_count"
            /\ UNCHANGED <<socket, ports_count, datap, threads>>
        BY <1>1, <2>2, <2>5 DEF ActionFeaturesReply
      <3>2. FeaturesInv'
        BY <2>2, <3>1 DEF FeaturesInv, Reading, socket, threads
      <3>3. ThreadInv'
        BY <3>1 DEF ThreadInv, Reading, threads
      <3>4. BornInv'
        BY <3>1 DEF BornInv, FeaturesInv, socket, threads
      <3> QED
        BY <2>3, <3>2, <3>3, <3>4
    <2> QED
      BY <2>4, <2>5
  <1>2. CASE FeaturesCount
    <2>1. /\ switch_id = sw /\ sw \in Switches /\ sw_in.datapath_id = sw
          /\ sw_in' = [sw_in EXCEPT !.no_of_ports = Len(PortsOf[sw])]
          /\ torn' = torn \cup Reading /\ mpc' = "features_thread"
          /\ UNCHANGED <<buf, socket, tables, ports_count, datap, threads>>
      BY <1>2 DEF FeaturesCount, At, FeaturesInv
    <2>2. MessageInv'
      BY <1>2, <2>1, MessagesKept DEF FeaturesCount, At, MessageInv, IdlePc, socket
    <2>3. FeaturesInv'
      <3>1. Len(PortsOf[sw]) \in Nat
        BY <2>1, V21Assumption
      <3> QED
        BY <2>1, <3>1 DEF FeaturesInv, Consistent, socket, tables
    <2>4. ThreadInv'
      BY <2>1 DEF ThreadInv, Reading, threads
    <2>5. BornInv'
      BY <2>1 DEF BornInv, FeaturesInv, socket, threads
    <2> QED
      BY <2>2, <2>3, <2>4, <2>5
  <1>3. CASE CreateThread
    <2>1. /\ mpc = "features_thread" /\ mpc' = "features_ports"
          /\ UNCHANGED <<buf, socket, tables, reading>>
      BY <1>3 DEF CreateThread, At
    <2>2. MessageInv'
      BY <2>1, MessagesKept DEF MessageInv, IdlePc, socket
    <2>3. FeaturesInv'
      BY <2>1 DEF FeaturesInv, reading
    <2>4. CASE UNCHANGED <<tpc, born>>
      BY <2>1, <2>2, <2>4, MainElsewhere DEF socket, BornInv
    <2>5. ASSUME NEW t \in Threads, tpc' = [tpc EXCEPT ![t] = "start"],
                 born' = [born EXCEPT ![t] = conn]
          PROVE  ThreadInv' /\ BornInv'
      <3>1. ThreadInv'
        BY <2>1, <2>5 DEF ThreadInv, FeaturesInv, Consistent, reading
      <3>2. BornInv'
        BY <2>1, <2>5 DEF BornInv, FeaturesInv, ThreadInv, reading, socket
      <3> QED
        BY <3>1, <3>2
    <2> QED
      BY <1>3, <2>2, <2>3, <2>4, <2>5 DEF CreateThread
  <1>4. CASE FeaturesPorts
    <2>1. mpc = "features_ports" /\ mpc' = "features_config" /\ UNCHANGED <<buf, socket, reading, threads>>
      BY <1>4 DEF FeaturesPorts, At
    <2>2. MessageInv'
      BY <2>1, MessagesKept DEF MessageInv, IdlePc, socket
    <2> QED
      BY <2>1, <2>2, MainElsewhere DEF socket, threads, BornInv
  <1>5. CASE FeaturesConfig
    BY <1>5, SendMoves, MainElsewhere
    DEF FeaturesConfig, At, IdlePc, threads, tables, BornInv
  <1> QED
    BY <1>1, <1>2, <1>3, <1>4, <1>5

(* The other steps of the main thread. *)
LEMMA MainKeeps ==
    ASSUME NodeInv, MainStep
    PROVE  NodeInv'
  <1> USE DEF NodeInv
  <1>1. CASE Read
    <2>1. PICK n \in 1 .. Len(inq) :
              /\ Handle(IF cbench THEN SubSeq(inq, 1, n) ELSE <<Head(inq)>>)
              /\ inq' = SubSeq(inq, n + 1, Len(inq))
      BY <1>1 DEF Read
    <2>2. inq \in Seq(From(sw)) /\ inq # <<>>
      BY <2>1 DEF MessageInv
    <2>3. \A i \in 1 .. Len(inq) : inq[i] \in From(sw)
      BY <2>2, ElementOfSeq
    <2>4. SubSeq(inq, 1, n) \in Seq(From(sw)) /\ SubSeq(inq, n + 1, Len(inq)) \in Seq(From(sw))
      BY <2>2, <2>3, SubSeqProperties
    <2>5. <<Head(inq)>> \in Seq(From(sw))
      BY <2>2, HeadTailProperties
    <2> DEFINE msgs == IF cbench THEN SubSeq(inq, 1, n) ELSE <<Head(inq)>>
    <2>6. msgs \in Seq(From(sw)) /\ Handle(msgs)
      BY <2>1, <2>4, <2>5
    <2> HIDE DEF msgs
    <2>7. /\ buf' = msgs /\ mpc' \notin {"features_count", "features_thread"}
          /\ msgs = <<>> => mpc' = "recv"
          /\ mpc' = "features" => Head(msgs).type = "features"
      BY <2>6, HandleMessage
    <2>8. UNCHANGED <<sw_sockfd, conn, peer, sw, reading, threads>>
      BY <1>1 DEF Read
    <2>9. MessageInv'
      BY <2>1, <2>2, <2>4, <2>6, <2>7, <2>8 DEF MessageInv, IdlePc
    <2> QED
      BY <2>7, <2>8, <2>9, MainElsewhere DEF threads, BornInv
  <1>2. CASE ReadFails
    <2>1. MessageInv'
      BY <1>2 DEF ReadFails, At, MessageInv, IdlePc
    <2> QED
      BY <1>2, <2>1, MainElsewhere DEF ReadFails, threads
  <1>3. CASE SocketFails
    BY <1>3, MessagesKept, MainElsewhere DEF SocketFails, IdlePc, socket, threads, BornInv
  <1>4. CASE CheckOpenflow \/ Other
    <2>1. buf # <<>> /\ UNCHANGED <<socket, reading, threads>>
      BY <1>4 DEF CheckOpenflow, Other, At, MessageInv, IdlePc, socket
    <2>2. \E msgs \in {<<>>, Tail(buf)} : Handle(msgs)
      BY <1>4 DEF CheckOpenflow, Other, Done
    <2>3. Tail(buf) \in Seq(From(sw)) /\ <<>> \in Seq(From(sw))
      BY <2>1, HeadTailProperties, EmptySeq DEF MessageInv
    <2>4. mpc' \notin {"features_count", "features_thread"}
      BY <2>2, <2>3, HandleMessage
    <2>5. MessageInv'
      BY <2>1, <2>2, <2>3, HandleMessage DEF MessageInv, IdlePc, socket
    <2> QED
      BY <2>1, <2>4, <2>5, MainElsewhere DEF socket, threads, BornInv
  <1>5. CASE ActionHello
    BY <1>5, SendMoves, MainElsewhere
    DEF ActionHello, At, IdlePc, threads, tables, BornInv
  <1>6. CASE FeaturesRequest
    <2>1. \/ \E n \in {0, 1, 2} : SendThen(pend' = pend + n /\ Done)
          \/ SendUndefined
      BY <1>6 DEF FeaturesRequest
    <2> QED
      BY <1>6, <2>1, SendMoves, MainElsewhere
      DEF FeaturesRequest, At, IdlePc, threads, tables, BornInv
  <1>7. CASE ActionEcho
    BY <1>7, SendMoves, MainElsewhere
    DEF ActionEcho, At, IdlePc, threads, tables, BornInv
  <1>8. CASE ActionPackout \/ ActionLldp
    <2>1. /\ mpc \notin IdlePc /\ mpc \notin {"features_count", "features_thread"}
          /\ UNCHANGED <<sw_sockfd, conn, peer, sw, inq, reading, threads>>
      BY <1>8 DEF ActionPackout, ActionLldp, At, IdlePc
    <2>2. \/ SendThen(Done /\ UNCHANGED pend) \/ SendEnds \/ Silent
          \/ SendThen(mpc' = "exit" /\ UNCHANGED <<buf, pend>>)
      BY <1>8, PackoutSends DEF ActionLldp
    <2> QED
      BY <2>1, <2>2, SendMoves, MainElsewhere DEF threads, BornInv
  <1>9. CASE JoinNoThread
    BY <1>9, MessagesKept, MainElsewhere
    DEF JoinNoThread, At, MessageInv, IdlePc, socket, threads, BornInv
  <1>10. CASE ExitFree
    BY <1>10, MainElsewhere DEF ExitFree, At, MessageInv, main, threads
  <1>11. ASSUME NEW s \in Switches, CreateSwitchSocket(s) \/ Reconnect(s)
         PROVE  NodeInv'
    <2>1. /\ mpc \in {"start", "reconnect"} /\ Connected(s)
          /\ \E msgs \in {<<>>, <<Hello>>} : Handle(msgs)
          /\ UNCHANGED <<switch_id, reading, tpc, born>>
      BY <1>11 DEF CreateSwitchSocket, Reconnect, At, tables, threads
    <2> QED
      BY <2>1, ConnectKeeps
  <1> QED
    BY <1>1, <1>2, <1>3, <1>4, <1>5, <1>6, <1>7, <1>8, <1>9, <1>10, <1>11, FeaturesKeep
    DEF MainStep

(* A node thread: it reads what fits together, or is torn. *)
LEMMA ThreadKeeps ==
    ASSUME NodeInv, NEW t \in Threads, ThreadStep(t)
    PROVE  NodeInv'
  <1> USE DEF NodeInv
  <1>1. CASE ReadCount(t)
    <2>1. /\ tpc[t] = "start" /\ tpc' = [tpc EXCEPT ![t] = "half"]
          /\ ports_count' = [ports_count EXCEPT ![t] = sw_in.no_of_ports]
          /\ UNCHANGED <<main, socket, tables, sw_in, datap, torn, born>>
      BY <1>1 DEF ReadCount, ThreadAt, Goto
    <2>2. MessageInv'
      BY <2>1 DEF MessageInv, main, socket
    <2>3. FeaturesInv'
      BY <2>1 DEF FeaturesInv, Consistent, Reading, ThreadInv, main, socket, tables
    <2>4. ThreadInv'
      BY <2>1 DEF ThreadInv, Consistent, FeaturesInv
    <2>5. BornInv'
      BY <2>1 DEF BornInv, ThreadInv, socket
    <2> QED
      BY <2>2, <2>3, <2>4, <2>5
  <1>2. CASE ReadDatapath(t)
    <2>1. /\ tpc[t] = "half" /\ tpc' = [tpc EXCEPT ![t] = "round"]
          /\ datap' = [datap EXCEPT ![t] = sw_in.datapath_id]
          /\ UNCHANGED <<main, socket, tables, sw_in, ports_count, torn, born>>
      BY <1>2 DEF ReadDatapath, ThreadAt, Goto
    <2>2. MessageInv'
      BY <2>1 DEF MessageInv, main, socket
    <2>3. FeaturesInv'
      BY <2>1 DEF FeaturesInv, Consistent, Reading, ThreadInv, main, socket, tables
    <2>4. ThreadInv'
      BY <2>1 DEF ThreadInv, Consistent, FeaturesInv
    <2>5. BornInv'
      BY <2>1 DEF BornInv, ThreadInv, socket
    <2> QED
      BY <2>2, <2>3, <2>4, <2>5
  <1>3. CASE SendNode(t) \/ NextRound(t)
    <2>1. UNCHANGED <<main, socket, tables, reading, tpc, born>>
      BY <1>3 DEF SendNode, NextRound
    <2>2. MessageInv'
      BY <2>1 DEF MessageInv, main, socket
    <2> QED
      BY <2>1, <2>2, MainElsewhere DEF main, socket, tables, BornInv
  <1> QED
    BY <1>1, <1>2, <1>3 DEF ThreadStep

LEMMA EnvironmentKeeps ==
    ASSUME NodeInv,
           \/ \E s \in Signals : Signal(s)
           \/ SwitchFeatures \/ SwitchDies
           \/ \E m \in Traffic : SwitchSends(m)
    PROVE  NodeInv'
  <1> USE DEF NodeInv
  <1>1. ASSUME NEW s \in Signals, Signal(s) PROVE NodeInv'
    <2>1. /\ mpc' \in {mpc, "exit"}
          /\ UNCHANGED <<buf, socket, tables, reading, threads>>
      BY <1>1 DEF Signal
    <2>2. MessageInv'
      BY <2>1 DEF MessageInv, IdlePc, socket
    <2> QED
      BY <2>1, <2>2, MainElsewhere DEF socket, tables, threads, BornInv
  <1>2. ASSUME NEW m \in From(sw), inq' = Append(inq, m), SwitchMay,
               UNCHANGED <<main, sw_sockfd, conn, peer, sw, tables, reading, threads>>
        PROVE  NodeInv'
    <2>1. peer # "none"
      BY <1>2 DEF SwitchMay, SwitchUp
    <2>2. inq' \in Seq(From(sw))
      BY <1>2, AppendProperties DEF MessageInv
    <2>3. MessageInv'
      BY <1>2, <2>1, <2>2 DEF MessageInv, From, main
    <2> QED
      BY <1>2, <2>3, MainElsewhere DEF main, tables, threads, BornInv
  <1>3. CASE SwitchFeatures
    BY <1>2, <1>3 DEF SwitchFeatures, From
  <1>4. ASSUME NEW m \in Traffic, SwitchSends(m) PROVE NodeInv'
    BY <1>2, <1>4, V21Assumption DEF SwitchSends, From
  <1>5. CASE SwitchDies
    <2>1. MessageInv'
      BY <1>5 DEF SwitchDies, SwitchUp, MessageInv, main
    <2> QED
      BY <1>5, <2>1, MainElsewhere DEF SwitchDies, main, tables, threads, BornInv
  <1> QED
    BY <1>1, <1>3, <1>4, <1>5

LEMMA NodeInductive == NodeInv /\ [Next]_vars => NodeInv'
  <1> SUFFICES ASSUME NodeInv, [Next]_vars PROVE NodeInv'
    OBVIOUS
  <1>1. CASE UNCHANGED vars
    BY <1>1
    DEF vars, main, socket, tables, reading, threads, NodeInv, MessageInv, FeaturesInv,
        ThreadInv, BornInv, Consistent, Reading
  <1> QED
    BY <1>1, MainKeeps, ThreadKeeps, EnvironmentKeeps DEF Next

(* The id and the number of ports that a node thread sends belong to one   *)
(* switch, but for a thread that read them during another features reply:  *)
(* without a mutex the order of the assignments and of pthread_create in   *)
(* _con.cpp:325-328 is all that keeps the two together.                    *)
THEOREM PairsBelongTogether == Spec => []PairOfOneSwitch
<1>1. NodeInv => PairOfOneSwitch
  BY DEF NodeInv, ThreadInv, PairOfOneSwitch
<1> QED
  BY NodeInitially, NodeInductive, <1>1, PTL DEF Spec

(* A node thread that names another switch than the one it sends through   *)
(* is a thread of an earlier connection (_con.cpp:645, 696).               *)
THEOREM OnlyEarlierThreadsMislead == Spec => []WrongSwitchOnlyFromEarlier
<1>1. NodeInv => WrongSwitchOnlyFromEarlier
  BY DEF NodeInv, BornInv, WrongSwitchOnlyFromEarlier
<1> QED
  BY NodeInitially, NodeInductive, <1>1, PTL DEF Spec

(* The type of message that is handled where the main thread is. *)
Kind(pc) ==
    IF pc = "features_request" THEN "hello"
    ELSE IF pc \in {"features_count", "features_thread", "features_ports", "features_config"}
    THEN "features" ELSE pc

(* The main thread is at the handler of the first message, and adds ports  *)
(* of the switch that is connected.                                        *)
HandlerInv ==
    /\ mpc \notin IdlePc => buf # <<>> /\ Head(buf).type = Kind(mpc)
    /\ mpc = "features_ports" => switch_id = sw /\ sw \in Switches

TypeInv == TypeOK /\ HandlerInv

(* The types, in groups of variables that are written together. *)
MainType ==
    /\ proc \in {"running", "ended", "killed", "undefined"} /\ mpc \in MainPc
    /\ buf \in Seq(Message) /\ write_buffer_len \in {-1, 0, 1}

SocketType ==
    /\ sw_sockfd \in {0, conn} /\ conn \in Nat /\ sw \in Switches \cup {None}
    /\ peer \in {"none", "open", "gone"} /\ inq \in Seq(Message) /\ pend \in Nat

TableType == switch_id \in Switches \cup {None} /\ hosts \in Seq(Host) /\ ports \in Seq(Port)

ReadingType ==
    /\ sw_in \in [datapath_id : Switches \cup {None}, no_of_ports : Nat]
    /\ ports_count \in [Threads -> Int] /\ datap \in [Threads -> Switches \cup {None}]
    /\ torn \subseteq Threads

ThreadsType ==
    /\ node_send_thread \in Threads \cup {None}
    /\ tpc \in [Threads -> {"none", "start", "half", "round"}]
    /\ portno \in [Threads -> Nat] /\ born \in [Threads -> Nat]

OptionType == cbench \in BOOLEAN /\ masked \subseteq Signals /\ spent \in Nat

LEMMA TypeParts ==
    TypeOK <=> /\ MainType /\ SocketType /\ TableType
               /\ ReadingType /\ ThreadsType /\ OptionType
BY DEF TypeOK, MainType, SocketType, TableType, ReadingType, ThreadsType, OptionType

LEMMA TypePartsNext ==
    TypeOK' <=> /\ MainType' /\ SocketType' /\ TableType'
                /\ ReadingType' /\ ThreadsType' /\ OptionType'
BY DEF TypeOK, MainType, SocketType, TableType, ReadingType, ThreadsType, OptionType

LEMMA Untouched ==
    ASSUME TypeOK
    PROVE  /\ UNCHANGED <<proc, main>> => MainType'
           /\ UNCHANGED socket => SocketType'
           /\ UNCHANGED <<sw_sockfd, conn, peer, sw, inq>> /\ pend' \in Nat => SocketType'
           /\ UNCHANGED tables => TableType'
           /\ UNCHANGED <<switch_id, ports>> /\ hosts' \in Seq(Host) => TableType'
           /\ UNCHANGED reading => ReadingType'
           /\ UNCHANGED threads => ThreadsType'
           /\ UNCHANGED option => OptionType'
<1> USE TypeParts
<1>1. /\ UNCHANGED <<proc, main>> => MainType'
      /\ UNCHANGED socket => SocketType'
      /\ UNCHANGED <<sw_sockfd, conn, peer, sw, inq>> /\ pend' \in Nat => SocketType'
  BY DEF MainType, SocketType, main, socket
<1>2. /\ UNCHANGED tables => TableType'
      /\ UNCHANGED <<switch_id, ports>> /\ hosts' \in Seq(Host) => TableType'
  BY DEF TableType, tables
<1>3. /\ UNCHANGED reading => ReadingType'
      /\ UNCHANGED threads => ThreadsType'
      /\ UNCHANGED option => OptionType'
  BY DEF ReadingType, ThreadsType, OptionType, reading, threads, option
<1> QED
  BY <1>1, <1>2, <1>3

LEMMA HandleTyped ==
    ASSUME NEW msgs \in Seq(Message), Handle(msgs)
    PROVE  /\ buf' \in Seq(Message) /\ mpc' \in MainPc
           /\ HandlerInv'
<1>1. CASE msgs = <<>>
  BY <1>1 DEF Handle, MainPc, HandlerInv, IdlePc
<1>2. CASE msgs # <<>>
  <2>1. Head(msgs) \in Message
    BY <1>2, HeadTailProperties
  <2>2. Head(msgs).type \in {"hello", "features", "echo", "other", "alien", "lldp", "data"}
    BY <2>1 DEF Message, Hello, FeaturesReply, TrafficMessage
  <2>3. buf' = msgs /\ mpc' = Head(msgs).type
    BY <1>2 DEF Handle
  <2> QED
    BY <1>2, <2>2, <2>3 DEF MainPc, HandlerInv, Kind
<1> QED
  BY <1>1, <1>2

LEMMA SendTyped ==
    ASSUME TypeInv, mpc \notin IdlePc, hosts' \in Seq(Host),
           UNCHANGED <<sw_sockfd, conn, peer, sw, inq, switch_id, ports, reading, threads, option>>,
           \/ SendUndefined
           \/ SendEnds
           \/ mpc = "hello" /\ SendThen(mpc' = "features_request" /\ UNCHANGED <<buf, pend>>)
           \/ SendThen(pend' = pend + 1 /\ Done)
           \/ SendThen(Done /\ UNCHANGED pend)
           \/ SendThen(mpc' = "exit" /\ UNCHANGED <<buf, pend>>)
           \/ Silent
    PROVE  TypeInv'
<1>1. buf # <<>> /\ buf \in Seq(Message) /\ pend \in Nat /\ mpc \in MainPc
      /\ proc \in {"running", "ended", "killed", "undefined"} /\ write_buffer_len \in {-1, 0, 1}
  BY DEF TypeInv, TypeOK, HandlerInv
<1>2. Tail(buf) \in Seq(Message)
  BY <1>1, HeadTailProperties
<1> DEFINE Goes == buf' \in Seq(Message) /\ mpc' \in MainPc /\ HandlerInv'
<1>3. Done => Goes
  BY <1>2, HandleTyped DEF Done
<1>4. UNCHANGED buf /\ mpc' \in {mpc, "exit"} => Goes
  BY <1>1 DEF TypeInv, HandlerInv, MainPc, IdlePc
<1>5. UNCHANGED buf /\ mpc = "hello" /\ mpc' = "features_request" => Goes
  BY <1>1 DEF TypeInv, HandlerInv, MainPc, Kind, IdlePc
<1> HIDE DEF Goes
<1> DEFINE Sent == write_buffer_len' \in {-1, 0, 1} /\ pend' \in Nat
                   /\ proc' \in {"running", "ended", "killed", "undefined"}
<1>6. Goes /\ Sent
  <2>1. CASE SendEnds
    BY <2>1, <1>1, <1>4 DEF SendEnds, SigPipe
  <2>2. CASE SendUndefined
    BY <2>2, <2>1, <1>1, <1>3 DEF SendUndefined
  <2>3. CASE mpc = "hello" /\ SendThen(mpc' = "features_request" /\ UNCHANGED <<buf, pend>>)
    BY <2>3, <1>1, <1>5 DEF SendThen
  <2>4. CASE SendThen(pend' = pend + 1 /\ Done) \/ SendThen(Done /\ UNCHANGED pend)
    BY <2>4, <1>1, <1>3 DEF SendThen
  <2>5. CASE Silent
    BY <2>5, <1>1, <1>3, <1>4 DEF Silent, PackoutEnd
  <2>6. CASE SendThen(mpc' = "exit" /\ UNCHANGED <<buf, pend>>)
    BY <2>6, <1>1, <1>4 DEF SendThen
  <2> QED
    BY <2>1, <2>2, <2>3, <2>4, <2>5, <2>6
<1>7. TypeOK'
  <2>1. MainType'
    BY <1>6 DEF Goes, MainType
  <2> QED
    BY <1>6, <2>1, Untouched, TypePartsNext DEF TypeInv
<1> QED
  BY <1>6, <1>7 DEF Goes, TypeInv

(* What the handling of a packet-in learns. *)
LEMMA LearnTyped ==
    ASSUME TypeInv, mpc = "data"
    PROVE  Learn(hosts, Head(buf).pkt, Head(buf).in_port, switch_id) \in Seq(Host)
<1>1. Head(buf) \in Message /\ Head(buf).type = "data"
  BY HeadTailProperties DEF TypeInv, TypeOK, HandlerInv, IdlePc, Kind
<1>2. Head(buf).pkt \in Packet /\ Head(buf).in_port \in Nat
  BY <1>1 DEF Message, Hello, FeaturesReply, TrafficMessage
<1>3. Head(buf).pkt.src \in Macs
  BY <1>2 DEF Packet
<1> DEFINE row == [mac |-> Head(buf).pkt.src, port_no |-> Head(buf).in_port, datapath_id |-> switch_id]
<1>4. row \in Host /\ hosts \in Seq(Host)
  BY <1>2, <1>3 DEF Host, TypeInv, TypeOK
<1>5. Append(hosts, row) \in Seq(Host)
  BY <1>4, AppendProperties
<1> QED
  BY <1>4, <1>5 DEF Learn

LEMMA MainTyped == 
    ASSUME NodeInv, TypeInv, MainStep
    PROVE  TypeInv'
<1> USE V21Assumption DEF TypeInv
<1>1. CASE Read
  <2>1. PICK n \in 1 .. Len(inq) :
            /\ Handle(IF cbench THEN SubSeq(inq, 1, n) ELSE <<Head(inq)>>)
            /\ inq' = SubSeq(inq, n + 1, Len(inq))
    BY <1>1 DEF Read
  <2>2. inq \in Seq(Message) /\ inq # <<>>
    BY <2>1 DEF TypeOK
  <2>3. \A i \in 1 .. Len(inq) : inq[i] \in Message
    BY <2>2, ElementOfSeq
  <2>4. SubSeq(inq, 1, n) \in Seq(Message) /\ SubSeq(inq, n + 1, Len(inq)) \in Seq(Message)
    BY <2>2, <2>3, SubSeqProperties
  <2>5. <<Head(inq)>> \in Seq(Message)
    BY <2>2, HeadTailProperties
  <2>6. buf' \in Seq(Message) /\ mpc' \in MainPc /\ HandlerInv'
    BY <2>1, <2>4, <2>5, HandleTyped
  <2> QED
    <3>1. MainType' /\ SocketType'
      BY <1>1, <2>1, <2>4, <2>6, TypeParts DEF Read, MainType, SocketType
    <3> QED
      BY <1>1, <2>6, <3>1, Untouched, TypePartsNext DEF Read
<1>2. CASE ReadFails
  <2>1. MainType' /\ SocketType' /\ TableType' /\ HandlerInv'
    BY <1>2, EmptySeq, TypeParts
    DEF ReadFails, At, MainType, SocketType, TableType, HandlerInv, IdlePc, MainPc
  <2> QED
    BY <1>2, <2>1, Untouched, TypePartsNext DEF ReadFails
<1>3. CASE SocketFails \/ JoinNoThread
  <2>1. MainType' /\ HandlerInv'
    BY <1>3, TypeParts DEF SocketFails, JoinNoThread, At, MainType, HandlerInv, IdlePc, MainPc
  <2> QED
    BY <1>3, <2>1, Untouched, TypePartsNext DEF SocketFails, JoinNoThread
<1>4. CASE CheckOpenflow \/ Other
  <2>1. mpc \notin IdlePc
    BY <1>4 DEF CheckOpenflow, Other, At, IdlePc
  <2>2. Tail(buf) \in Seq(Message) /\ <<>> \in Seq(Message)
    BY <2>1, HeadTailProperties, EmptySeq DEF TypeOK, HandlerInv
  <2>3. buf' \in Seq(Message) /\ mpc' \in MainPc /\ HandlerInv'
    BY <1>4, <2>2, HandleTyped DEF CheckOpenflow, Other, Done
  <2> QED
    <3>1. MainType'
      BY <1>4, <2>3, TypeParts DEF CheckOpenflow, Other, MainType
    <3> QED
      BY <1>4, <2>3, <3>1, Untouched, TypePartsNext DEF CheckOpenflow, Other
<1>5. CASE ActionHello \/ FeaturesRequest \/ ActionEcho \/ ActionLldp \/ FeaturesConfig
  <2>1. mpc \notin IdlePc /\ hosts' \in Seq(Host)
    BY <1>5
    DEF ActionHello, FeaturesRequest, ActionEcho, ActionLldp, FeaturesConfig, At, IdlePc, TypeOK,
        tables
  <2> QED
    BY <1>5, <2>1, SendTyped
    DEF ActionHello, FeaturesRequest, ActionEcho, ActionLldp, FeaturesConfig, At, tables
<1>6. CASE ActionPackout
  <2>1. mpc = "data" /\ mpc \notin IdlePc
    BY <1>6 DEF ActionPackout, At, IdlePc
  <2>2. hosts' \in Seq(Host)
    BY <1>6, <2>1, LearnTyped DEF ActionPackout
  <2>3. \/ Silent \/ SendThen(Done /\ UNCHANGED pend) \/ SendEnds
        \/ SendThen(mpc' = "exit" /\ UNCHANGED <<buf, pend>>)
    BY <1>6, PackoutSends
  <2> QED
    BY <1>6, <2>1, <2>2, <2>3, SendTyped DEF ActionPackout
<1>7. CASE ActionFeaturesReply
  <2>1. buf # <<>> /\ Head(buf).type = "features"
    BY <1>7 DEF ActionFeaturesReply, At, HandlerInv, IdlePc, Kind
  <2>2. Head(buf).dpid \in Switches
    <3>1. Head(buf) \in Message
      BY <2>1, HeadTailProperties DEF TypeOK
    <3> QED
      BY <2>1, <3>1 DEF Message, Hello, TrafficMessage, FeaturesReply
  <2> QED
    <3>1. MainType' /\ HandlerInv'
      BY <1>7, <2>1, TypeParts DEF ActionFeaturesReply, MainType, HandlerInv, Kind, MainPc, IdlePc
    <3>2. TableType'
      BY <1>7, <2>2, TypeParts DEF ActionFeaturesReply, TableType
    <3>3. ReadingType'
      BY <1>7, <2>2, TypeParts DEF ActionFeaturesReply, ReadingType, Reading
    <3> QED
      BY <1>7, <3>1, <3>2, <3>3, Untouched, TypePartsNext DEF ActionFeaturesReply
<1>8. CASE FeaturesCount
  <2>1. switch_id \in Switches
    BY <1>8 DEF FeaturesCount, At, NodeInv, FeaturesInv
  <2>2. Len(PortsOf[switch_id]) \in Nat
    BY <2>1
  <2> QED
    <3>1. MainType' /\ HandlerInv'
      BY <1>8, TypeParts DEF FeaturesCount, At, MainType, HandlerInv, Kind, MainPc, IdlePc
    <3>2. ReadingType'
      BY <1>8, <2>2, TypeParts DEF FeaturesCount, ReadingType, Reading
    <3> QED
      BY <1>8, <3>1, <3>2, Untouched, TypePartsNext DEF FeaturesCount
<1>9. CASE CreateThread
  <2>1. switch_id = sw /\ sw \in Switches
    BY <1>9 DEF CreateThread, At, NodeInv, FeaturesInv
  <2> QED
    <3>1. MainType' /\ HandlerInv'
      BY <1>9, <2>1, TypeParts
      DEF CreateThread, At, MainType, HandlerInv, Kind, MainPc, IdlePc, socket, tables
    <3>2. ThreadsType'
      BY <1>9, TypeParts, ZenonT(30) DEF CreateThread, ThreadsType, SocketType
    <3> QED
      BY <1>9, <3>1, <3>2, Untouched, TypePartsNext DEF CreateThread
<1>10. CASE FeaturesPorts
  <2>1. switch_id \in Switches
    BY <1>10 DEF FeaturesPorts, At, HandlerInv
  <2> DEFINE new == [i \in DOMAIN PortsOf[switch_id] |->
                        [datapath_id |-> switch_id, port_no |-> PortsOf[switch_id][i]]]
  <2>2. PortsOf[switch_id] \in Seq(Nat)
    BY <2>1
  <2>3. new \in Seq(Port)
    <3>1. \A i \in 1 .. Len(PortsOf[switch_id]) : PortsOf[switch_id][i] \in Nat
      BY <2>2, ElementOfSeq
    <3>2. Len(PortsOf[switch_id]) \in Nat /\ DOMAIN PortsOf[switch_id] = 1 .. Len(PortsOf[switch_id])
      BY <2>2
    <3>3. new \in [1 .. Len(PortsOf[switch_id]) -> Port]
      BY <2>1, <3>1, <3>2 DEF Port
    <3> QED
      BY <3>2, <3>3, SeqDef
  <2>4. ports' = ports \o new
    BY <1>10 DEF FeaturesPorts
  <2>5. ports' \in Seq(Port)
    BY <2>3, <2>4, ConcatProperties DEF TypeOK
  <2> QED
    <3>1. MainType' /\ TableType' /\ HandlerInv'
      BY <1>10, <2>5, TypeParts
      DEF FeaturesPorts, At, MainType, TableType, HandlerInv, Kind, MainPc, IdlePc
    <3> QED
      BY <1>10, <3>1, Untouched, TypePartsNext DEF FeaturesPorts
<1>11. CASE ExitFree
  <2>1. MainType' /\ SocketType' /\ TableType' /\ HandlerInv'
    BY <1>11, EmptySeq, TypeParts
    DEF ExitFree, At, main, MainType, SocketType, TableType, HandlerInv, IdlePc, MainPc
  <2> QED
    BY <1>11, <2>1, Untouched, TypePartsNext DEF ExitFree
<1>12. ASSUME NEW s \in Switches, CreateSwitchSocket(s) \/ Reconnect(s) PROVE TypeInv'
  <2>1. <<>> \in Seq(Message) /\ <<Hello>> \in Seq(Message)
    BY DEF Message
  <2>2. Connected(s)
    BY <1>12 DEF CreateSwitchSocket, Reconnect
  <2>3. buf' \in Seq(Message) /\ mpc' \in MainPc /\ HandlerInv'
    BY <1>12, <2>1, HandleTyped DEF CreateSwitchSocket, Reconnect
  <2> QED
    <3>1. MainType' /\ SocketType'
      BY <1>12, <2>1, <2>2, <2>3, TypeParts
      DEF CreateSwitchSocket, Reconnect, Connected, MainType, SocketType
    <3> QED
      BY <1>12, <2>3, <3>1, Untouched, TypePartsNext DEF CreateSwitchSocket, Reconnect
<1> QED
  BY <1>1, <1>2, <1>3, <1>4, <1>5, <1>6, <1>7, <1>8, <1>9, <1>10, <1>11, <1>12 DEF MainStep

LEMMA OthersTyped ==
    ASSUME NodeInv, TypeInv,
           \/ \E t \in Threads : ThreadStep(t)
           \/ \E s \in Signals : Signal(s)
           \/ SwitchFeatures \/ SwitchDies
           \/ \E m \in Traffic : SwitchSends(m)
    PROVE  TypeInv'
<1> USE V21Assumption DEF TypeInv
<1>1. ASSUME NEW t \in Threads, ReadCount(t) \/ ReadDatapath(t) PROVE TypeInv'
  <2>1. ReadingType'
    <3>1. ReadingType /\ sw_in.no_of_ports \in Nat /\ sw_in.datapath_id \in Switches \cup {None}
      BY TypeParts DEF ReadingType
    <3>2. CASE ReadCount(t)
      BY <3>1, <3>2 DEF ReadCount, ReadingType
    <3>3. CASE ReadDatapath(t)
      BY <3>1, <3>3 DEF ReadDatapath, ReadingType
    <3> QED
      BY <1>1, <3>2, <3>3
  <2>2. ThreadsType' /\ HandlerInv'
    BY <1>1, TypeParts
    DEF ReadCount, ReadDatapath, Goto, ThreadsType, HandlerInv, main, socket, tables
  <2> QED
    BY <1>1, <2>1, <2>2, Untouched, TypePartsNext DEF ReadCount, ReadDatapath
<1>2. ASSUME NEW t \in Threads, SendNode(t) \/ NextRound(t) PROVE TypeInv'
  <2>1. ThreadsType' /\ MainType' /\ HandlerInv'
    BY <1>2, TypeParts
    DEF SendNode, NextRound, SigPipe, ThreadsType, MainType, HandlerInv, main, socket, tables
  <2> QED
    BY <1>2, <2>1, Untouched, TypePartsNext DEF SendNode, NextRound
<1>3. ASSUME NEW s \in Signals, Signal(s) PROVE TypeInv'
  <2>1. MainType' /\ OptionType' /\ HandlerInv'
    BY <1>3, TypeParts
    DEF Signal, MainType, OptionType, HandlerInv, MainPc, IdlePc, socket, tables
  <2> QED
    BY <1>3, <2>1, Untouched, TypePartsNext DEF Signal
<1>4. CASE SwitchFeatures
  <2>1. FeaturesReply(sw) \in Message
    BY <1>4 DEF SwitchFeatures, SwitchMay, SwitchUp, NodeInv, MessageInv, Message
  <2>2. inq' \in Seq(Message)
    BY <1>4, <2>1, AppendProperties DEF SwitchFeatures, TypeOK
  <2> QED
    <3>1. SocketType' /\ HandlerInv'
      BY <1>4, <2>2, TypeParts DEF SwitchFeatures, SocketType, HandlerInv, main, tables
    <3> QED
      BY <1>4, <3>1, Untouched, TypePartsNext DEF SwitchFeatures
<1>5. ASSUME NEW m \in Traffic, SwitchSends(m) PROVE TypeInv'
  <2>1. inq' \in Seq(Message)
    BY <1>5, AppendProperties DEF SwitchSends, TypeOK, Message
  <2> QED
    <3>1. SocketType' /\ OptionType' /\ HandlerInv'
      BY <1>5, <2>1, TypeParts
      DEF SwitchSends, SocketType, OptionType, HandlerInv, main, tables
    <3> QED
      BY <1>5, <3>1, Untouched, TypePartsNext DEF SwitchSends
<1>6. CASE SwitchDies
  <2>1. SocketType' /\ HandlerInv'
    BY <1>6, TypeParts DEF SwitchDies, SocketType, HandlerInv, main, tables
  <2> QED
    BY <1>6, <2>1, Untouched, TypePartsNext DEF SwitchDies
<1> QED
  BY <1>1, <1>2, <1>3, <1>4, <1>5, <1>6 DEF ThreadStep

LEMMA TypeInitially == Init => TypeInv
  BY V21Assumption DEF Init, TypeInv, TypeOK, HandlerInv, IdlePc, MainPc

LEMMA TypeInductive == NodeInv /\ TypeInv /\ [Next]_vars => TypeInv'
<1> SUFFICES ASSUME NodeInv, TypeInv, [Next]_vars PROVE TypeInv'
  OBVIOUS
<1>1. CASE UNCHANGED vars
  BY <1>1 DEF vars, main, socket, tables, reading, threads, option, TypeInv, TypeOK, HandlerInv
<1> QED
  BY <1>1, MainTyped, OthersTyped DEF Next

(* Counting: each node thread goes back to a hello of its connection.       *)

(* Messages that lead to a node thread: a hello to a request, a request to  *)
(* a features reply, a features reply to a thread.                          *)
Starts(m) == m.type \in {"hello", "features"}
StartsIn(q) == {i \in DOMAIN q : Starts(q[i])}

(* Those of read_buffer that have not led to it yet. *)
InHand ==
    CASE mpc \in {"exit", "exit_free"} -> {}
      [] mpc \in {"features_ports", "features_config"} -> StartsIn(buf) \ {1}
      [] OTHER -> StartsIn(buf)

Starting ==
    ({"buf"} \X InHand) \cup ({"inq"} \X StartsIn(inq)) \cup ({"pend"} \X (1 .. pend))

NodesOf(c) == {t \in Threads : born[t] = c}

(* The threads of the present connection and what may become one. *)
Tokens == Starting \cup ({"thread"} \X NodesOf(conn))

(* The tokens of a step come from tokens before it, none from the same one, *)
(* and what may become a thread does not come from a thread.                *)
Conserved ==
    \E f \in Injection(Tokens', Tokens) : \A x \in Starting' : f[x] \in Starting

LEMMA TokenCases ==
    \A x : x \in Tokens <=> \/ \E i \in InHand : x = <<"buf", i>>
                            \/ \E i \in StartsIn(inq) : x = <<"inq", i>>
                            \/ \E i \in 1 .. pend : x = <<"pend", i>>
                            \/ \E t \in NodesOf(conn) : x = <<"thread", t>>
BY DEF Tokens, Starting

LEMMA TokenCasesNext ==
    \A x : x \in Tokens' <=> \/ \E i \in InHand' : x = <<"buf", i>>
                             \/ \E i \in StartsIn(inq)' : x = <<"inq", i>>
                             \/ \E i \in 1 .. pend' : x = <<"pend", i>>
                             \/ \E t \in NodesOf(conn)' : x = <<"thread", t>>
BY DEF Tokens, Starting

(* Where each token comes from, as a function f that g inverts. *)
Moved(f, g) ==
    /\ f = [x \in Tokens' |-> f[x]]
    /\ \A i \in InHand' : f[<<"buf", i>>] \in Starting /\ g[f[<<"buf", i>>]] = <<"buf", i>>
    /\ \A i \in StartsIn(inq)' :
          f[<<"inq", i>>] \in Starting /\ g[f[<<"inq", i>>]] = <<"inq", i>>
    /\ \A i \in 1 .. pend' :
          f[<<"pend", i>>] \in Starting /\ g[f[<<"pend", i>>]] = <<"pend", i>>
    /\ \A t \in NodesOf(conn)' :
          f[<<"thread", t>>] \in Tokens /\ g[f[<<"thread", t>>]] = <<"thread", t>>

LEMMA MovedTokens ==
    ASSUME NEW f, NEW g, Moved(f, g)
    PROVE  Conserved
<1> USE DEF Moved
<1>1. Starting \subseteq Tokens /\ Starting' \subseteq Tokens'
  BY DEF Tokens
<1>2. \A x \in Tokens' : f[x] \in Tokens /\ g[f[x]] = x
  BY <1>1, TokenCasesNext
<1>3. \A x \in Starting' : f[x] \in Starting
  <2>1. \A x \in Starting' : \/ \E i \in InHand' : x = <<"buf", i>>
                             \/ \E i \in StartsIn(inq)' : x = <<"inq", i>>
                             \/ \E i \in 1 .. pend' : x = <<"pend", i>>
    BY DEF Starting
  <2> QED
    BY <2>1
<1>4. f \in [Tokens' -> Tokens]
  BY <1>2
<1>5. \A x, y \in Tokens' : f[x] = f[y] => x = y
  BY <1>2
<1>6. f \in Injection(Tokens', Tokens)
  BY <1>4, <1>5 DEF Injection, IsInjective
<1> QED
  BY <1>3, <1>6 DEF Conserved

(* Tokens that stay or vanish. *)
LEMMA FewerTokens ==
    ASSUME InHand' \subseteq InHand, StartsIn(inq)' \subseteq StartsIn(inq),
           pend \in Nat, pend' \in 0 .. pend, NodesOf(conn)' \subseteq NodesOf(conn)
    PROVE  Conserved
<1>1. Tokens' \subseteq Tokens /\ Starting' \subseteq Starting /\ Starting' \subseteq Tokens'
  BY DEF Tokens, Starting
<1> DEFINE f == [x \in Tokens' |-> x]
<1>2. f = [x \in Tokens' |-> f[x]] /\ \A x \in Tokens' : f[x] = x
  OBVIOUS
<1> HIDE DEF f
<1>3. f \in [Tokens' -> Tokens] /\ \A x, y \in Tokens' : f[x] = f[y] => x = y
  BY <1>1, <1>2
<1>4. f \in Injection(Tokens', Tokens)
  BY <1>3 DEF Injection, IsInjective
<1>5. \A x \in Starting' : f[x] \in Starting
  BY <1>1, <1>2
<1> QED
  BY <1>4, <1>5 DEF Conserved

(* The next message: tokens of the buffer move up by one, and a request     *)
(* that was sent comes from the hello it answers.                           *)
LEMMA NextTokens ==
    ASSUME InHand' \subseteq Nat \ {0}, \A i \in InHand' : i + 1 \in InHand,
           UNCHANGED <<inq, conn, born>>, pend \in Nat,
           \/ pend' = pend
           \/ pend' = pend + 1 /\ 1 \in InHand
    PROVE  Conserved
<1> DEFINE f == [x \in Tokens' |->
                    IF x[1] = "buf" THEN <<"buf", x[2] + 1>>
                    ELSE IF x = <<"pend", pend + 1>> THEN <<"buf", 1>> ELSE x]
           g == [x \in Tokens |->
                    IF x = <<"buf", 1>> THEN <<"pend", pend + 1>>
                    ELSE IF x[1] = "buf" THEN <<"buf", x[2] - 1>> ELSE x]
<1>1. StartsIn(inq)' = StartsIn(inq) /\ NodesOf(conn)' = NodesOf(conn)
  BY DEF StartsIn, NodesOf
<1>2. f = [x \in Tokens' |-> f[x]]
  OBVIOUS
<1>3. ASSUME NEW i \in InHand'
      PROVE  f[<<"buf", i>>] \in Starting /\ g[f[<<"buf", i>>]] = <<"buf", i>>
  <2>1. <<"buf", i>> \in Tokens' /\ f[<<"buf", i>>] = <<"buf", i + 1>>
    BY TokenCasesNext
  <2>2. <<"buf", i + 1>> \in Starting /\ <<"buf", i + 1>> \in Tokens
    BY DEF Starting, Tokens
  <2>3. i \in Nat \ {0}
    OBVIOUS
  <2>4. g[<<"buf", i + 1>>] = <<"buf", i>>
    BY <2>2, <2>3
  <2> QED
    BY <2>1, <2>2, <2>4
<1>4. ASSUME NEW i \in StartsIn(inq)'
      PROVE  f[<<"inq", i>>] \in Starting /\ g[f[<<"inq", i>>]] = <<"inq", i>>
  <2>1. <<"inq", i>> \in Tokens' /\ f[<<"inq", i>>] = <<"inq", i>>
    BY TokenCasesNext
  <2>2. <<"inq", i>> \in Starting /\ <<"inq", i>> \in Tokens
    BY <1>1 DEF Starting, Tokens
  <2> QED
    BY <2>1, <2>2
<1>5. ASSUME NEW i \in 1 .. pend'
      PROVE  f[<<"pend", i>>] \in Starting /\ g[f[<<"pend", i>>]] = <<"pend", i>>
  <2>1. <<"pend", i>> \in Tokens'
    BY TokenCasesNext
  <2>2. CASE i = pend + 1
    <3>1. f[<<"pend", i>>] = <<"buf", 1>>
      BY <2>1, <2>2
    <3>2. 1 \in InHand
      BY <2>2
    <3>3. <<"buf", 1>> \in Starting /\ <<"buf", 1>> \in Tokens
      BY <3>2 DEF Starting, Tokens
    <3> QED
      BY <2>2, <3>1, <3>3
  <2>3. CASE i \in 1 .. pend
    <3>1. f[<<"pend", i>>] = <<"pend", i>>
      BY <2>1, <2>3
    <3>2. <<"pend", i>> \in Starting /\ <<"pend", i>> \in Tokens
      BY <2>3 DEF Starting, Tokens
    <3> QED
      BY <3>1, <3>2, SMTT(20)
  <2>4. i = pend + 1 \/ i \in 1 .. pend
    BY SMT
  <2> QED
    BY <2>2, <2>3, <2>4
<1>6. ASSUME NEW t \in NodesOf(conn)'
      PROVE  f[<<"thread", t>>] \in Tokens /\ g[f[<<"thread", t>>]] = <<"thread", t>>
  <2>1. <<"thread", t>> \in Tokens' /\ f[<<"thread", t>>] = <<"thread", t>>
    BY TokenCasesNext
  <2>2. <<"thread", t>> \in Tokens
    BY <1>1 DEF Tokens
  <2> QED
    BY <2>1, <2>2
<1> HIDE DEF f, g
<1>7. Moved(f, g)
  BY <1>2, <1>3, <1>4, <1>5, <1>6 DEF Moved
<1> QED
  BY <1>7, MovedTokens

(* pthread_create: the features reply in hand becomes a thread. *)
LEMMA CreateTokens ==
    ASSUME NEW t \in Threads, born' = [born EXCEPT ![t] = conn],
           born \in [Threads -> Nat],
           1 \in InHand, InHand' = InHand \ {1}, UNCHANGED <<inq, pend, conn>>
    PROVE  Conserved
<1> DEFINE f == [x \in Tokens' |-> IF x = <<"thread", t>> THEN <<"buf", 1>> ELSE x]
           g == [x \in Tokens |-> IF x = <<"buf", 1>> THEN <<"thread", t>> ELSE x]
<1>1. StartsIn(inq)' = StartsIn(inq) /\ NodesOf(conn)' \subseteq NodesOf(conn) \cup {t}
  BY DEF StartsIn, NodesOf
<1>2. f = [x \in Tokens' |-> f[x]]
  OBVIOUS
<1>3. ASSUME NEW i \in InHand'
      PROVE  f[<<"buf", i>>] \in Starting /\ g[f[<<"buf", i>>]] = <<"buf", i>>
  <2>1. <<"buf", i>> \in Tokens' /\ f[<<"buf", i>>] = <<"buf", i>>
    BY TokenCasesNext
  <2>2. <<"buf", i>> \in Starting /\ <<"buf", i>> \in Tokens /\ i # 1
    BY DEF Starting, Tokens
  <2> QED
    BY <2>1, <2>2
<1>4. ASSUME NEW i \in StartsIn(inq)'
      PROVE  f[<<"inq", i>>] \in Starting /\ g[f[<<"inq", i>>]] = <<"inq", i>>
  <2>1. <<"inq", i>> \in Tokens' /\ f[<<"inq", i>>] = <<"inq", i>>
    BY TokenCasesNext
  <2>2. <<"inq", i>> \in Starting /\ <<"inq", i>> \in Tokens
    BY <1>1 DEF Starting, Tokens
  <2> QED
    BY <2>1, <2>2
<1>5. ASSUME NEW i \in 1 .. pend'
      PROVE  f[<<"pend", i>>] \in Starting /\ g[f[<<"pend", i>>]] = <<"pend", i>>
  <2>1. <<"pend", i>> \in Tokens' /\ f[<<"pend", i>>] = <<"pend", i>>
    BY TokenCasesNext
  <2>2. <<"pend", i>> \in Starting /\ <<"pend", i>> \in Tokens
    BY DEF Starting, Tokens
  <2> QED
    BY <2>1, <2>2
<1>6. ASSUME NEW u \in NodesOf(conn)'
      PROVE  f[<<"thread", u>>] \in Tokens /\ g[f[<<"thread", u>>]] = <<"thread", u>>
  <2>1. <<"thread", u>> \in Tokens'
    BY TokenCasesNext
  <2>2. CASE u = t
    <3>1. f[<<"thread", u>>] = <<"buf", 1>>
      BY <2>1, <2>2
    <3>2. <<"buf", 1>> \in Tokens
      BY DEF Starting, Tokens
    <3> QED
      BY <2>2, <3>1, <3>2
  <2>3. CASE u # t
    <3>1. f[<<"thread", u>>] = <<"thread", u>>
      BY <2>1, <2>3
    <3>2. <<"thread", u>> \in Tokens
      BY <1>1, <2>3 DEF Tokens
    <3> QED
      BY <3>1, <3>2
  <2> QED
    BY <2>2, <2>3
<1> HIDE DEF f, g
<1>7. Moved(f, g)
  BY <1>2, <1>3, <1>4, <1>5, <1>6 DEF Moved
<1> QED
  BY <1>7, MovedTokens

(* recv: the first n messages of the queue go to read_buffer. *)
LEMMA ReadTokens ==
    ASSUME NEW n \in Nat, InHand' \subseteq StartsIn(inq), InHand' \subseteq 1 .. n,
           StartsIn(inq)' \subseteq Nat \ {0}, \A i \in StartsIn(inq)' : i + n \in StartsIn(inq),
           UNCHANGED <<pend, conn, born>>
    PROVE  Conserved
<1> DEFINE f == [x \in Tokens' |-> IF x[1] = "buf" THEN <<"inq", x[2]>>
                                   ELSE IF x[1] = "inq" THEN <<"inq", x[2] + n>> ELSE x]
           g == [x \in Tokens |-> IF x[1] # "inq" THEN x
                                  ELSE IF x[2] \in 1 .. n THEN <<"buf", x[2]>>
                                  ELSE <<"inq", x[2] - n>>]
<1>1. NodesOf(conn)' = NodesOf(conn)
  BY DEF NodesOf
<1>2. f = [x \in Tokens' |-> f[x]]
  OBVIOUS
<1>3. ASSUME NEW i \in InHand'
      PROVE  f[<<"buf", i>>] \in Starting /\ g[f[<<"buf", i>>]] = <<"buf", i>>
  <2>1. <<"buf", i>> \in Tokens' /\ f[<<"buf", i>>] = <<"inq", i>>
    BY TokenCasesNext
  <2>2. <<"inq", i>> \in Starting /\ <<"inq", i>> \in Tokens /\ i \in 1 .. n
    BY DEF Starting, Tokens
  <2>3. g[<<"inq", i>>] = <<"buf", i>>
    BY <2>2
  <2> QED
    BY <2>1, <2>2, <2>3
<1>4. ASSUME NEW i \in StartsIn(inq)'
      PROVE  f[<<"inq", i>>] \in Starting /\ g[f[<<"inq", i>>]] = <<"inq", i>>
  <2>1. <<"inq", i>> \in Tokens' /\ f[<<"inq", i>>] = <<"inq", i + n>>
    BY TokenCasesNext
  <2>2. <<"inq", i + n>> \in Starting /\ <<"inq", i + n>> \in Tokens
    BY DEF Starting, Tokens
  <2>3. i \in Nat \ {0}
    OBVIOUS
  <2>4. i + n \notin 1 .. n /\ (i + n) - n = i
    BY <2>3
  <2>5. g[<<"inq", i + n>>] = <<"inq", i>>
    BY <2>2, <2>4
  <2> QED
    BY <2>1, <2>2, <2>5
<1>5. ASSUME NEW i \in 1 .. pend'
      PROVE  f[<<"pend", i>>] \in Starting /\ g[f[<<"pend", i>>]] = <<"pend", i>>
  <2>1. <<"pend", i>> \in Tokens' /\ f[<<"pend", i>>] = <<"pend", i>>
    BY TokenCasesNext
  <2>2. <<"pend", i>> \in Starting /\ <<"pend", i>> \in Tokens
    BY DEF Starting, Tokens
  <2> QED
    BY <2>1, <2>2
<1>6. ASSUME NEW t \in NodesOf(conn)'
      PROVE  f[<<"thread", t>>] \in Tokens /\ g[f[<<"thread", t>>]] = <<"thread", t>>
  <2>1. <<"thread", t>> \in Tokens' /\ f[<<"thread", t>>] = <<"thread", t>>
    BY TokenCasesNext
  <2>2. <<"thread", t>> \in Tokens
    BY <1>1 DEF Tokens
  <2> QED
    BY <2>1, <2>2
<1> HIDE DEF f, g
<1>7. Moved(f, g)
  BY <1>2, <1>3, <1>4, <1>5, <1>6 DEF Moved
<1> QED
  BY <1>7, MovedTokens

(* The switch answers a request: the reply is message k of the queue. *)
LEMMA ReplyTokens ==
    ASSUME NEW k, k \notin StartsIn(inq), StartsIn(inq)' \subseteq StartsIn(inq) \cup {k},
           pend \in Nat, pend > 0, pend' = pend - 1, InHand' = InHand, UNCHANGED <<conn, born>>
    PROVE  Conserved
<1> DEFINE f == [x \in Tokens' |-> IF x = <<"inq", k>> THEN <<"pend", pend>> ELSE x]
           g == [x \in Tokens |-> IF x = <<"pend", pend>> THEN <<"inq", k>> ELSE x]
<1>1. NodesOf(conn)' = NodesOf(conn)
  BY DEF NodesOf
<1>2. f = [x \in Tokens' |-> f[x]]
  OBVIOUS
<1>3. ASSUME NEW i \in InHand'
      PROVE  f[<<"buf", i>>] \in Starting /\ g[f[<<"buf", i>>]] = <<"buf", i>>
  <2>1. <<"buf", i>> \in Tokens' /\ f[<<"buf", i>>] = <<"buf", i>>
    BY TokenCasesNext
  <2>2. <<"buf", i>> \in Starting /\ <<"buf", i>> \in Tokens
    BY DEF Starting, Tokens
  <2> QED
    BY <2>1, <2>2
<1>4. ASSUME NEW i \in StartsIn(inq)'
      PROVE  f[<<"inq", i>>] \in Starting /\ g[f[<<"inq", i>>]] = <<"inq", i>>
  <2>1. <<"inq", i>> \in Tokens'
    BY TokenCasesNext
  <2>2. CASE i = k
    <3>1. f[<<"inq", i>>] = <<"pend", pend>>
      BY <2>1, <2>2
    <3>2. pend \in 1 .. pend
      OBVIOUS
    <3>3. <<"pend", pend>> \in Starting /\ <<"pend", pend>> \in Tokens
      BY <3>2 DEF Starting, Tokens
    <3> QED
      BY <2>2, <3>1, <3>3
  <2>3. CASE i # k
    <3>1. f[<<"inq", i>>] = <<"inq", i>>
      BY <2>1, <2>3
    <3>2. <<"inq", i>> \in Starting /\ <<"inq", i>> \in Tokens
      BY <2>3 DEF Starting, Tokens
    <3> QED
      BY <3>1, <3>2
  <2> QED
    BY <2>2, <2>3
<1>5. ASSUME NEW i \in 1 .. pend'
      PROVE  f[<<"pend", i>>] \in Starting /\ g[f[<<"pend", i>>]] = <<"pend", i>>
  <2>1. <<"pend", i>> \in Tokens' /\ f[<<"pend", i>>] = <<"pend", i>>
    BY TokenCasesNext
  <2>2. i \in 1 .. pend /\ i # pend
    OBVIOUS
  <2>3. <<"pend", i>> \in Starting /\ <<"pend", i>> \in Tokens
    BY <2>2 DEF Starting, Tokens
  <2> QED
    BY <2>1, <2>2, <2>3
<1>6. ASSUME NEW t \in NodesOf(conn)'
      PROVE  f[<<"thread", t>>] \in Tokens /\ g[f[<<"thread", t>>]] = <<"thread", t>>
  <2>1. <<"thread", t>> \in Tokens' /\ f[<<"thread", t>>] = <<"thread", t>>
    BY TokenCasesNext
  <2>2. <<"thread", t>> \in Tokens
    BY <1>1 DEF Tokens
  <2> QED
    BY <2>1, <2>2
<1> HIDE DEF f, g
<1>7. Moved(f, g)
  BY <1>2, <1>3, <1>4, <1>5, <1>6 DEF Moved
<1> QED
  BY <1>7, MovedTokens

(* What recv leaves in the queue. *)
LEMMA RestOfQueue ==
    ASSUME NEW S, NEW q \in Seq(S), NEW n \in 1 .. Len(q),
           NEW rest, rest = SubSeq(q, n + 1, Len(q))
    PROVE  /\ rest \in Seq(S) /\ Len(rest) = Len(q) - n
           /\ \A i \in 1 .. Len(q) - n : rest[i] = q[i + n]
<1>1. PICK k \in Nat : k = Len(q)
  BY LenProperties
<1>2. PICK m \in Int : m = n + 1
  BY <1>1
<1>3. \A i \in m .. k : q[i] \in S
  BY <1>1, <1>2, ElementOfSeq
<1>4. /\ SubSeq(q, m, k) \in Seq(S)
      /\ Len(SubSeq(q, m, k)) = IF m <= k THEN k - m + 1 ELSE 0
      /\ \A i \in 1 .. k - m + 1 : SubSeq(q, m, k)[i] = q[m + i - 1]
  BY <1>3, SubSeqProperties
<1>5. rest = SubSeq(q, m, k)
  BY <1>1, <1>2
<1>6. n \in Int /\ n <= k
  BY <1>1
<1>7. Len(rest) = k - n /\ k - m + 1 = k - n
  BY <1>2, <1>4, <1>5, <1>6
<1>8. \A i \in 1 .. k - n : m + i - 1 = i + n
  BY <1>2, <1>6
<1> QED
  BY <1>1, <1>4, <1>5, <1>7, <1>8

(* Where the main thread is when it has a next message, or none. *)
NextPc == {"recv", "hello", "features", "echo", "other", "alien", "lldp", "data"}

LEMMA HandlePc ==
    ASSUME NEW msgs \in Seq(Message), Handle(msgs)
    PROVE  buf' = msgs /\ mpc' \in NextPc
<1>1. CASE msgs = <<>>
  BY <1>1 DEF Handle, NextPc
<1>2. CASE msgs # <<>>
  <2>1. Head(msgs) \in Message
    BY <1>2, HeadTailProperties
  <2>2. Head(msgs).type \in {"hello", "features", "echo", "other", "alien", "lldp", "data"}
    BY <2>1 DEF Message, Hello, FeaturesReply, TrafficMessage
  <2> QED
    BY <1>2, <2>2 DEF Handle, NextPc
<1> QED
  BY <1>1, <1>2

LEMMA HandleHands ==
    ASSUME NEW msgs \in Seq(Message), Handle(msgs)
    PROVE  InHand' = StartsIn(msgs)
BY HandlePc DEF NextPc, InHand, StartsIn

(* The next message comes up. *)
LEMMA DoneTokens ==
    ASSUME TypeInv, mpc \notin IdlePc, Done, UNCHANGED <<inq, conn, born>>,
           \/ pend' = pend
           \/ pend' = pend + 1 /\ mpc = "features_request"
    PROVE  Conserved
<1>1. buf \in Seq(Message) /\ buf # <<>> /\ Head(buf).type = Kind(mpc) /\ pend \in Nat
  BY DEF TypeInv, TypeOK, HandlerInv
<1>2. Tail(buf) \in Seq(Message) /\ Len(Tail(buf)) = Len(buf) - 1 /\ Len(buf) \in Nat
      /\ \A i \in 1 .. Len(Tail(buf)) : Tail(buf)[i] = buf[i + 1]
  BY <1>1, HeadTailProperties, LenProperties
<1>3. DOMAIN buf = 1 .. Len(buf) /\ DOMAIN Tail(buf) = 1 .. Len(Tail(buf))
  BY <1>1, <1>2, LenProperties
<1>4. InHand' = StartsIn(Tail(buf))
  BY <1>2, HandleHands DEF Done
<1>5. \A i \in StartsIn(Tail(buf)) : i \in Nat \ {0} /\ i + 1 \in StartsIn(buf) /\ i + 1 # 1
  BY <1>2, <1>3 DEF StartsIn
<1>6. StartsIn(buf) \ {1} \subseteq InHand
  BY DEF InHand, IdlePc
<1>7. mpc = "features_request" => 1 \in InHand
  <2> SUFFICES ASSUME mpc = "features_request" PROVE 1 \in InHand
    OBVIOUS
  <2>1. 1 \in DOMAIN buf /\ buf[1] = Head(buf)
    BY <1>1, <1>3, EmptySeq
  <2> QED
    BY <1>1, <2>1 DEF InHand, StartsIn, Starts, Kind
<1> QED
  BY <1>1, <1>4, <1>5, <1>6, <1>7, NextTokens

(* What is in hand is lost, or the message stays at hand. *)
LEMMA KeepTokens ==
    ASSUME TypeOK, UNCHANGED <<inq, pend, conn, born>>,
           \/ mpc' \in {"exit", "exit_free"}
           \/ UNCHANGED <<mpc, buf>>
           \/ UNCHANGED buf /\ mpc \notin {"exit", "exit_free", "features_ports", "features_config"}
           \/ UNCHANGED buf /\ mpc = "features_ports" /\ mpc' = "features_config"
    PROVE  Conserved
<1>1. InHand' \subseteq InHand
  BY DEF InHand, StartsIn
<1>2. StartsIn(inq)' = StartsIn(inq) /\ NodesOf(conn)' = NodesOf(conn)
  BY DEF StartsIn, NodesOf
<1> QED
  BY <1>1, <1>2, FewerTokens DEF TypeOK

LEMMA SendTokens ==
    ASSUME TypeInv, mpc \notin IdlePc, UNCHANGED <<inq, conn, born>>,
           \/ SendUndefined
           \/ SendEnds
           \/ mpc = "hello" /\ SendThen(mpc' = "features_request" /\ UNCHANGED <<buf, pend>>)
           \/ mpc = "features_request" /\ SendThen(pend' = pend + 1 /\ Done)
           \/ SendThen(Done /\ UNCHANGED pend)
           \/ SendThen(mpc' = "exit" /\ UNCHANGED <<buf, pend>>)
           \/ Silent
    PROVE  Conserved
<1>1. CASE SendEnds
  BY <1>1, KeepTokens DEF SendEnds, TypeInv
<1>2. CASE SendUndefined
  BY <1>1, <1>2, DoneTokens DEF SendUndefined
<1>3. CASE mpc = "hello" /\ SendThen(mpc' = "features_request" /\ UNCHANGED <<buf, pend>>)
  BY <1>3, KeepTokens DEF SendThen, TypeInv
<1>4. CASE mpc = "features_request" /\ SendThen(pend' = pend + 1 /\ Done)
  BY <1>4, DoneTokens DEF SendThen
<1>5. CASE SendThen(Done /\ UNCHANGED pend)
  BY <1>5, DoneTokens DEF SendThen
<1>6. CASE Silent
  BY <1>6, DoneTokens, KeepTokens DEF Silent, PackoutEnd, TypeInv
<1>7. CASE SendThen(mpc' = "exit" /\ UNCHANGED <<buf, pend>>)
  BY <1>7, KeepTokens DEF SendThen, TypeInv
<1> QED
  BY <1>1, <1>2, <1>3, <1>4, <1>5, <1>6, <1>7

(* Every step but that of a connection. *)
LEMMA TokensConserved ==
    ASSUME NodeInv, TypeInv, [Next]_vars
    PROVE  \/ Conserved /\ conn' = conn
           \/ \E s \in Switches : CreateSwitchSocket(s) \/ Reconnect(s)
<1> USE DEF TypeInv
<1>1. CASE Read
  <2>1. PICK n \in 1 .. Len(inq) :
            /\ Handle(IF cbench THEN SubSeq(inq, 1, n) ELSE <<Head(inq)>>)
            /\ inq' = SubSeq(inq, n + 1, Len(inq))
    BY <1>1 DEF Read
  <2>2. inq \in Seq(Message) /\ inq # <<>> /\ Len(inq) \in Nat /\ DOMAIN inq = 1 .. Len(inq)
    BY <2>1, LenProperties DEF TypeOK
  <2>3. \A i \in 1 .. Len(inq) : inq[i] \in Message
    BY <2>2, ElementOfSeq
  <2>4. /\ SubSeq(inq, 1, n) \in Seq(Message) /\ Len(SubSeq(inq, 1, n)) = n
        /\ \A i \in 1 .. n : SubSeq(inq, 1, n)[i] = inq[i]
    BY <2>2, <2>3, SubSeqProperties
  <2>5. /\ inq' \in Seq(Message) /\ Len(inq') = Len(inq) - n
        /\ \A i \in 1 .. Len(inq) - n : inq'[i] = inq[i + n]
    <3>1. PICK rest : rest = inq' /\ rest = SubSeq(inq, n + 1, Len(inq))
      BY <2>1
    <3>2. /\ rest \in Seq(Message) /\ Len(rest) = Len(inq) - n
          /\ \A i \in 1 .. Len(inq) - n : rest[i] = inq[i + n]
      <4>1. inq \in Seq(Message)
        BY <2>2
      <4>2. n \in 1 .. Len(inq) /\ rest = SubSeq(inq, n + 1, Len(inq))
        BY <3>1
      <4> QED
        BY <4>1, <4>2, RestOfQueue, SMT
    <3> QED
      BY <3>1, <3>2
  <2>6. <<Head(inq)>> \in Seq(Message) /\ Head(inq) = inq[1]
    BY <2>2, HeadTailProperties
  <2> DEFINE msgs == IF cbench THEN SubSeq(inq, 1, n) ELSE <<Head(inq)>>
  <2>7. msgs \in Seq(Message) /\ DOMAIN msgs \subseteq 1 .. n
        /\ \A i \in DOMAIN msgs : i \in 1 .. Len(inq) /\ msgs[i] = inq[i]
    <3>1. DOMAIN SubSeq(inq, 1, n) = 1 .. n
      BY <2>4, LenProperties
    <3>2. CASE cbench
      BY <2>2, <2>4, <3>1, <3>2
    <3>3. CASE ~cbench
      BY <2>2, <2>6, <3>3
    <3> QED
      BY <3>2, <3>3
  <2>8. Handle(msgs)
    BY <2>1
  <2> HIDE DEF msgs
  <2>9. InHand' = StartsIn(msgs)
    BY <2>7, <2>8, HandleHands
  <2>10. InHand' \subseteq StartsIn(inq) /\ InHand' \subseteq 1 .. n
    BY <2>2, <2>7, <2>9 DEF StartsIn
  <2>11. DOMAIN inq' = 1 .. Len(inq) - n
    BY <2>5, LenProperties
  <2>12. StartsIn(inq)' \subseteq Nat \ {0} /\ \A i \in StartsIn(inq)' : i + n \in StartsIn(inq)
    BY <2>2, <2>5, <2>11 DEF StartsIn
  <2> QED
    <3>1. n \in Nat /\ UNCHANGED <<pend, conn, born>>
      BY <1>1, <2>2 DEF Read, threads
    <3> QED
      BY <2>10, <2>12, <3>1, ReadTokens
<1>2. CASE ReadFails
  <2>1. InHand' \subseteq InHand
    BY <1>2 DEF ReadFails, At, InHand, StartsIn
  <2>2. StartsIn(inq)' \subseteq StartsIn(inq) /\ NodesOf(conn)' = NodesOf(conn)
    BY <1>2 DEF ReadFails, StartsIn, NodesOf, threads
  <2> QED
    BY <1>2, <2>1, <2>2, FewerTokens DEF ReadFails, TypeOK
<1>3. CASE SocketFails \/ JoinNoThread
  BY <1>3, KeepTokens DEF SocketFails, JoinNoThread, At, socket, threads
<1>4. CASE CheckOpenflow
  <2>1. InHand' = StartsIn(<<>>)
    BY <1>4, HandleHands, EmptySeq DEF CheckOpenflow
  <2>2. InHand' = {}
    BY <2>1 DEF StartsIn
  <2>3. StartsIn(inq)' = StartsIn(inq) /\ NodesOf(conn)' = NodesOf(conn)
    BY <1>4 DEF CheckOpenflow, StartsIn, NodesOf, threads, socket
  <2> QED
    BY <1>4, <2>2, <2>3, FewerTokens DEF CheckOpenflow, TypeOK, socket
<1>5. CASE Other
  BY <1>5, DoneTokens DEF Other, At, IdlePc, socket, threads
<1>6. CASE ActionHello \/ FeaturesRequest \/ ActionEcho \/ ActionLldp \/ FeaturesConfig \/ ActionPackout
  <2>1. mpc \notin IdlePc /\ UNCHANGED <<inq, conn, born>>
    BY <1>6 DEF ActionHello, FeaturesRequest, ActionEcho, ActionLldp, FeaturesConfig, ActionPackout,
                At, IdlePc, threads
  <2> QED
    BY <1>6, <2>1, SendTokens, PackoutSends
    DEF ActionHello, FeaturesRequest, ActionEcho, ActionLldp, FeaturesConfig, At
<1>7. CASE ActionFeaturesReply \/ FeaturesCount \/ FeaturesPorts
  BY <1>7, KeepTokens DEF ActionFeaturesReply, FeaturesCount, FeaturesPorts, At, socket, threads
<1>8. CASE CreateThread
  <2>1. InHand' = StartsIn(buf) \ {1} /\ InHand = StartsIn(buf)
    BY <1>8 DEF CreateThread, At, InHand, StartsIn
  <2>2. 1 \in StartsIn(buf)
    <3>1. buf # <<>> /\ Head(buf).type = "features" /\ buf \in Seq(Message)
      BY <1>8 DEF CreateThread, At, HandlerInv, IdlePc, Kind, TypeOK
    <3>2. 1 \in DOMAIN buf /\ buf[1] = Head(buf)
      BY <3>1, EmptySeq, LenProperties
    <3> QED
      BY <3>1, <3>2 DEF StartsIn, Starts
  <2>3. CASE UNCHANGED born
    <3>1. StartsIn(inq)' = StartsIn(inq) /\ NodesOf(conn)' = NodesOf(conn)
      BY <1>8, <2>3 DEF CreateThread, StartsIn, NodesOf, socket
    <3> QED
      BY <1>8, <2>1, <3>1, FewerTokens DEF CreateThread, TypeOK, socket
  <2>4. CASE \E t \in Threads : born' = [born EXCEPT ![t] = conn]
    BY <1>8, <2>1, <2>2, <2>4, CreateTokens DEF CreateThread, TypeOK, socket
  <2> QED
    BY <1>8, <2>3, <2>4 DEF CreateThread
<1>9. CASE ExitFree
  BY <1>9, KeepTokens DEF ExitFree, At, main, threads
<1>10. ASSUME NEW t \in Threads, ThreadStep(t) PROVE Conserved /\ conn' = conn
  BY <1>10, KeepTokens
  DEF ThreadStep, ReadCount, ReadDatapath, SendNode, NextRound, main, socket
<1>11. ASSUME NEW s \in Signals, Signal(s) PROVE Conserved /\ conn' = conn
  BY <1>11, KeepTokens DEF Signal, socket, threads
<1>12. ASSUME NEW m \in Message, inq' = Append(inq, m), UNCHANGED <<main, conn, threads>>,
              \/ pend > 0 /\ pend' = pend - 1
              \/ ~Starts(m) /\ pend' = pend
       PROVE  Conserved
  <2>1. inq \in Seq(Message) /\ Len(inq) \in Nat /\ DOMAIN inq = 1 .. Len(inq)
    BY LenProperties DEF TypeOK
  <2>2. /\ inq' \in Seq(Message) /\ DOMAIN inq' = 1 .. Len(inq) + 1
        /\ \A i \in 1 .. Len(inq) : inq'[i] = inq[i]
        /\ inq'[Len(inq) + 1] = m
    BY <1>12, <2>1, AppendProperties, LenProperties
  <2>3. StartsIn(inq)' \subseteq StartsIn(inq) \cup (IF Starts(m) THEN {Len(inq) + 1} ELSE {})
    BY <2>1, <2>2 DEF StartsIn
  <2>4. Len(inq) + 1 \notin StartsIn(inq)
    BY <2>1 DEF StartsIn
  <2>5. InHand' = InHand /\ NodesOf(conn)' = NodesOf(conn)
    BY <1>12 DEF InHand, StartsIn, NodesOf, main, threads
  <2>6. CASE pend > 0 /\ pend' = pend - 1
    BY <1>12, <2>3, <2>4, <2>5, <2>6, ReplyTokens DEF TypeOK, threads
  <2>7. CASE ~Starts(m) /\ pend' = pend
    BY <1>12, <2>3, <2>5, <2>7, FewerTokens DEF TypeOK
  <2> QED
    BY <1>12, <2>6, <2>7
<1>13. CASE SwitchFeatures
  <2>1. FeaturesReply(sw) \in Message
    BY <1>13 DEF SwitchFeatures, SwitchMay, SwitchUp, NodeInv, MessageInv, Message
  <2> QED
    BY <1>12, <1>13, <2>1 DEF SwitchFeatures
<1>14. ASSUME NEW m \in Traffic, SwitchSends(m) PROVE Conserved /\ conn' = conn
  <2>1. m \in Message /\ ~Starts(m)
    BY V21Assumption DEF Message, TrafficMessage, Starts
  <2> QED
    BY <1>12, <1>14, <2>1 DEF SwitchSends
<1>15. CASE SwitchDies
  BY <1>15, KeepTokens DEF SwitchDies, main, threads
<1>16. CASE UNCHANGED vars
  BY <1>16, KeepTokens DEF vars, main, socket, threads
<1>17. CASE \E s \in Switches : CreateSwitchSocket(s) \/ Reconnect(s)
  BY <1>17
<1> QED
  BY <1>1, <1>2, <1>3, <1>4, <1>5, <1>6, <1>7, <1>8, <1>9, <1>10, <1>11, <1>13, <1>14, <1>15,
     <1>16, <1>17
  DEF Next, MainStep

(* The steps that add no ports, create no thread and make no connection. *)
Plain ==
    /\ UNCHANGED <<sw, conn, born, cbench>>
    /\ peer' # "none" => peer # "none"
    /\ \/ ports' = ports
       \/ ports' = <<>> /\ mpc' # "features_ports"
    /\ mpc' \in {"start", "reconnect"} => (ports' = <<>> \/ mpc' = mpc)
    /\ mpc' = "features_ports" => mpc = "features_ports"
    /\ mpc' = "reconnect" => (mpc = "reconnect" \/ peer # "none")

LEMMA SendPc ==
    ASSUME TypeInv, mpc \notin IdlePc,
           \/ SendUndefined
           \/ SendEnds
           \/ SendThen(mpc' = "features_request" /\ UNCHANGED <<buf, pend>>)
           \/ SendThen(pend' = pend + 1 /\ Done)
           \/ SendThen(Done /\ UNCHANGED pend)
           \/ SendThen(mpc' = "exit" /\ UNCHANGED <<buf, pend>>)
           \/ Silent
    PROVE  mpc' \in NextPc \cup {mpc, "exit", "features_request"}
<1>1. Tail(buf) \in Seq(Message)
  BY HeadTailProperties DEF TypeInv, TypeOK, HandlerInv
<1>2. Done => mpc' \in NextPc
  BY <1>1, HandlePc DEF Done
<1> QED
  BY <1>2 DEF SendUndefined, SendEnds, SendThen, Silent, PackoutEnd

LEMMA PlainSteps ==
    ASSUME NodeInv, TypeInv, [Next]_vars
    PROVE  \/ Plain \/ CreateThread \/ FeaturesPorts
           \/ \E s \in Switches : CreateSwitchSocket(s) \/ Reconnect(s)
<1> USE DEF TypeInv
<1>1. CASE Read
  <2>1. PICK n \in 1 .. Len(inq) : Handle(IF cbench THEN SubSeq(inq, 1, n) ELSE <<Head(inq)>>)
    BY <1>1 DEF Read
  <2>2. inq \in Seq(Message) /\ inq # <<>>
    BY <2>1 DEF TypeOK
  <2>3. \A i \in 1 .. Len(inq) : inq[i] \in Message
    BY <2>2, ElementOfSeq
  <2>4. SubSeq(inq, 1, n) \in Seq(Message) /\ <<Head(inq)>> \in Seq(Message)
    BY <2>2, <2>3, SubSeqProperties, HeadTailProperties
  <2>5. mpc' \in NextPc
    BY <2>1, <2>4, HandlePc
  <2> QED
    BY <1>1, <2>5 DEF Read, Plain, NextPc, tables, threads, option
<1>2. CASE ReadFails \/ SocketFails \/ JoinNoThread \/ ExitFree
  BY <1>2
  DEF ReadFails, SocketFails, JoinNoThread, ExitFree, Plain, At, socket, tables, threads, option,
      main
<1>3. CASE CheckOpenflow \/ Other
  <2>1. mpc \notin IdlePc
    BY <1>3 DEF CheckOpenflow, Other, At, IdlePc
  <2>2. Tail(buf) \in Seq(Message) /\ <<>> \in Seq(Message)
    BY <2>1, HeadTailProperties, EmptySeq DEF TypeOK, HandlerInv
  <2>3. mpc' \in NextPc
    BY <1>3, <2>2, HandlePc DEF CheckOpenflow, Other, Done
  <2> QED
    BY <1>3, <2>3 DEF CheckOpenflow, Other, Plain, NextPc, socket, tables, threads, option
<1>4. CASE ActionHello \/ FeaturesRequest \/ ActionEcho \/ ActionLldp \/ FeaturesConfig \/ ActionPackout
  <2>1. mpc \notin IdlePc /\ mpc # "features_ports" /\ UNCHANGED <<sw, conn, peer, born, cbench, ports>>
    BY <1>4 DEF ActionHello, FeaturesRequest, ActionEcho, ActionLldp, FeaturesConfig, ActionPackout,
                At, IdlePc, tables, threads, option
  <2>2. mpc' \in NextPc \cup {mpc, "exit", "features_request"}
    BY <1>4, <2>1, SendPc, PackoutSends
    DEF ActionHello, FeaturesRequest, ActionEcho, ActionLldp, FeaturesConfig
  <2> QED
    BY <2>1, <2>2 DEF Plain, NextPc, IdlePc
<1>5. CASE ActionFeaturesReply \/ FeaturesCount
  BY <1>5 DEF ActionFeaturesReply, FeaturesCount, Plain, At, socket, tables, threads, option
<1>6. ASSUME NEW t \in Threads, ThreadStep(t) PROVE Plain
  BY <1>6
  DEF ThreadStep, ReadCount, ReadDatapath, SendNode, NextRound, Plain, main, socket, tables, option
<1>7. ASSUME NEW s \in Signals, Signal(s) PROVE Plain
  BY <1>7 DEF Signal, Plain, socket, tables, threads
<1>8. ASSUME NEW m \in Traffic, SwitchSends(m) PROVE Plain
  BY <1>8 DEF SwitchSends, Plain, main, tables, threads
<1>9. CASE SwitchFeatures \/ SwitchDies
  BY <1>9 DEF SwitchFeatures, SwitchDies, SwitchUp, Plain, main, tables, threads, option
<1>10. CASE UNCHANGED vars
  BY <1>10 DEF vars, Plain, main, socket, tables, threads, option
<1> QED
  BY <1>1, <1>2, <1>3, <1>4, <1>5, <1>6, <1>7, <1>8, <1>9, <1>10 DEF Next, MainStep

Budget(c) == IF cbench \/ c = 1 THEN 1 ELSE 2

(* The nodes of past connections, and what the present one may come to. *)
CountInv ==
    /\ conn > 0 => Cardinality(Tokens) <= Budget(conn)
    /\ \A c \in 1 .. conn - 1 : Cardinality(NodesOf(c)) <= Budget(c)
    /\ peer # "none" \/ mpc = "reconnect" => conn > 0

(* Rows are ports of the switch, gone before there is another one; with -c  *)
(* the one features reply of a connection has come when there are rows.     *)
PortsInv ==
    /\ PortsOfThisSwitch
    /\ mpc \in {"start", "reconnect"} => ports = <<>>
    /\ cbench /\ ports # <<>> => Starting = {}
    /\ cbench /\ mpc = "features_ports" => ports = <<>> /\ Starting = {}

TableInv == NodeInv /\ TypeInv /\ CountInv /\ PortsInv

LEMMA ThreadsFinite == IsFiniteSet(Threads)
  BY V21Assumption, FS_Interval DEF Threads

LEMMA NodesFinite == \A c : IsFiniteSet(NodesOf(c))
  <1>1. \A c : NodesOf(c) \in SUBSET Threads
    BY DEF NodesOf
  <1> QED
    BY <1>1, ThreadsFinite, FS_Subset

LEMMA SomeFinite ==
    ASSUME NEW q \in Seq(Message)
    PROVE  IsFiniteSet(StartsIn(q))
<1>1. IsFiniteSet(1 .. Len(q))
  BY FS_Interval, LenProperties
<1>2. StartsIn(q) \in SUBSET (1 .. Len(q))
  BY LenProperties DEF StartsIn
<1> QED
  BY <1>1, <1>2, FS_Subset

LEMMA TokensFinite ==
    ASSUME TypeOK
    PROVE  IsFiniteSet(Tokens)
<1>1. IsFiniteSet(InHand)
  <2>1. IsFiniteSet(StartsIn(buf)) /\ InHand \in SUBSET StartsIn(buf)
    BY SomeFinite DEF TypeOK, InHand
  <2> QED
    BY <2>1, FS_Subset
<1>2. IsFiniteSet(StartsIn(inq)) /\ IsFiniteSet(1 .. pend) /\ IsFiniteSet(NodesOf(conn))
  <2>1. pend \in Int /\ 1 \in Int /\ inq \in Seq(Message)
    BY DEF TypeOK
  <2> QED
    BY <2>1, SomeFinite, NodesFinite, FS_Interval
<1>3. IsFiniteSet({"buf"}) /\ IsFiniteSet({"inq"}) /\ IsFiniteSet({"pend"}) /\ IsFiniteSet({"thread"})
  BY FS_Singleton
<1>4. /\ IsFiniteSet({"buf"} \X InHand) /\ IsFiniteSet({"inq"} \X StartsIn(inq))
      /\ IsFiniteSet({"pend"} \X (1 .. pend)) /\ IsFiniteSet({"thread"} \X NodesOf(conn))
  BY <1>1, <1>2, <1>3, FS_Product
<1>5. IsFiniteSet(({"buf"} \X InHand) \cup ({"inq"} \X StartsIn(inq)))
  BY <1>4, FS_Union
<1>6. IsFiniteSet(Starting)
  BY <1>4, <1>5, FS_Union DEF Starting
<1> QED
  BY <1>4, <1>6, FS_Union DEF Tokens

LEMMA NodesAreTokens ==
    ASSUME TypeOK
    PROVE  Cardinality(NodesOf(conn)) <= Cardinality(Tokens)
<1> DEFINE f == [t \in NodesOf(conn) |-> <<"thread", t>>]
<1>1. f \in [NodesOf(conn) -> Tokens] /\ \A t, u \in NodesOf(conn) : f[t] = f[u] => t = u
  BY DEF Tokens
<1>2. f \in Injection(NodesOf(conn), Tokens)
  BY <1>1 DEF Injection, IsInjective
<1> HIDE DEF f
<1> QED
  BY <1>2, TokensFinite, FS_Injection

LEMMA Counted ==
    ASSUME TypeOK, Conserved
    PROVE  /\ IsFiniteSet(Tokens') /\ Cardinality(Tokens') <= Cardinality(Tokens)
           /\ Starting = {} => Starting' = {}
<1>1. PICK f \in Injection(Tokens', Tokens) : \A x \in Starting' : f[x] \in Starting
  BY DEF Conserved
<1>2. IsFiniteSet(Tokens') /\ Cardinality(Tokens') <= Cardinality(Tokens)
  BY <1>1, TokensFinite, FS_Injection
<1> QED
  BY <1>1, <1>2

LEMMA FewElements ==
    ASSUME NEW x, NEW y, NEW S \in SUBSET {x, y}
    PROVE  /\ Cardinality(S) \in Nat /\ Cardinality(S) <= 2
           /\ S \subseteq {x} => Cardinality(S) <= 1
<1>1. IsFiniteSet({x}) /\ Cardinality({x}) = 1
  BY FS_Singleton
<1>2. {x, y} = {x} \cup {y}
  OBVIOUS
<1>3. IsFiniteSet({x, y}) /\ Cardinality({x, y}) \in {1, 2}
  BY <1>1, <1>2, FS_AddElement
<1>4. IsFiniteSet(S) /\ Cardinality(S) <= Cardinality({x, y})
  BY <1>3, FS_Subset
<1>5. Cardinality(S) \in Nat
  BY <1>4, FS_CardinalityType
<1>6. S \subseteq {x} => Cardinality(S) <= 1
  BY <1>1, FS_Subset
<1> QED
  BY <1>3, <1>4, <1>5, <1>6

(* What a set of at most one element is. *)
LEMMA AtMostOne ==
    ASSUME NEW S, IsFiniteSet(S), Cardinality(S) <= 1, NEW x \in S, NEW y \in S
    PROVE  x = y
<1>1. {x, y} \in SUBSET S
  OBVIOUS
<1>2. IsFiniteSet({x, y}) /\ Cardinality({x, y}) <= Cardinality(S)
  BY <1>1, FS_Subset
<1>3. IsFiniteSet({x}) /\ Cardinality({x}) = 1
  BY FS_Singleton
<1>4. {x} \cup {y} = {x, y}
  OBVIOUS
<1>5. Cardinality({x, y}) = IF y \in {x} THEN Cardinality({x}) ELSE Cardinality({x}) + 1
  BY <1>3, <1>4, FS_AddElement
<1>6. Cardinality(S) \in Nat
  BY FS_CardinalityType
<1> QED
  BY <1>2, <1>3, <1>5, <1>6

(* A new connection brings one hello, and a second one when it is not the   *)
(* first: the zeroed buffer.                                                *)
LEMMA ConnectCounts ==
    ASSUME TableInv, NEW s \in Switches, CreateSwitchSocket(s) \/ Reconnect(s)
    PROVE  CountInv'
<1> USE DEF TableInv, TypeInv
<1>1. /\ conn' = conn + 1 /\ inq' = <<Hello>> /\ pend' = 0 /\ peer' = "open"
      /\ UNCHANGED <<born, cbench>>
  BY DEF CreateSwitchSocket, Reconnect, Connected, threads, option
<1>2. conn \in Nat /\ born \in [Threads -> 0 .. conn]
  BY DEF TypeOK, NodeInv, BornInv
<1>4. \A c : NodesOf(c)' = NodesOf(c)
  BY <1>1 DEF NodesOf
<1>5. NodesOf(conn)' = {}
  BY <1>1, <1>2 DEF NodesOf
<1>6. StartsIn(inq)' \subseteq {1}
  BY <1>1 DEF StartsIn
<1>7. <<Hello>> \in Seq(Message) /\ <<>> \in Seq(Message)
  BY DEF Message
<1>8. \/ InHand' = {}
      \/ InHand' \subseteq {1} /\ ~cbench /\ mpc = "reconnect"
  <2>1. CASE Handle(<<>>)
    <3>1. InHand' = StartsIn(<<>>)
      BY <1>7, <2>1, HandleHands
    <3> QED
      BY <3>1 DEF StartsIn
  <2>2. CASE Handle(<<Hello>>) /\ ~cbench /\ mpc = "reconnect"
    <3>1. InHand' = StartsIn(<<Hello>>)
      BY <1>7, <2>2, HandleHands
    <3> QED
      BY <2>2, <3>1 DEF StartsIn
  <2> QED
    BY <2>1, <2>2 DEF CreateSwitchSocket, Reconnect, At
<1>9. Cardinality(Tokens') <= Budget(conn)'
  <2>1. CASE InHand' = {}
    <3>1. Tokens' \in SUBSET {<<"inq", 1>>}
      BY <1>1, <1>5, <1>6, <2>1, TokenCasesNext
    <3>2. Cardinality(Tokens') \in Nat /\ Cardinality(Tokens') <= 1
      BY <3>1, FewElements
    <3> QED
      BY <3>2 DEF Budget
  <2>2. CASE InHand' \subseteq {1} /\ ~cbench /\ mpc = "reconnect"
    <3>1. Tokens' \in SUBSET {<<"inq", 1>>, <<"buf", 1>>}
      BY <1>1, <1>5, <1>6, <2>2, TokenCasesNext
    <3>2. Cardinality(Tokens') \in Nat /\ Cardinality(Tokens') <= 2
      BY <3>1, FewElements
    <3>3. conn' # 1 /\ ~cbench'
      BY <1>1, <1>2, <2>2 DEF CountInv
    <3> QED
      BY <3>2, <3>3 DEF Budget
  <2> QED
    BY <1>8, <2>1, <2>2
<1>11. \A c \in 1 .. conn : Cardinality(NodesOf(c)) <= Budget(c)
  <2>1. ASSUME conn > 0 PROVE Cardinality(NodesOf(conn)) <= Budget(conn)
    <3>1. Cardinality(NodesOf(conn)) \in Nat /\ Cardinality(Tokens) \in Nat
      BY NodesFinite, TokensFinite, FS_CardinalityType
    <3>2. Cardinality(NodesOf(conn)) <= Cardinality(Tokens) /\ Cardinality(Tokens) <= Budget(conn)
      BY <2>1, NodesAreTokens DEF CountInv
    <3> QED
      BY <3>1, <3>2 DEF Budget
  <2> QED
    BY <1>2, <2>1 DEF CountInv
<1>12. \A c \in 1 .. conn' - 1 : Cardinality(NodesOf(c)') <= Budget(c)' 
  BY <1>1, <1>2, <1>4, <1>11 DEF Budget
<1> QED
  BY <1>1, <1>2, <1>9, <1>12 DEF CountInv

(* A step that makes no connection. *)
LEMMA CountKept ==
    ASSUME TableInv, Conserved, UNCHANGED <<conn, cbench>>,
           \A t \in Threads : born'[t] = born[t] \/ born'[t] = conn,
           peer' # "none" => peer # "none",
           mpc' = "reconnect" => (mpc = "reconnect" \/ peer # "none")
    PROVE  CountInv'
<1> USE DEF TableInv, TypeInv
<1>1. conn \in Nat
  BY DEF TypeOK
<1>2. Cardinality(Tokens') <= Cardinality(Tokens) /\ Cardinality(Tokens') \in Nat
      /\ Cardinality(Tokens) \in Nat
  BY Counted, TokensFinite, FS_CardinalityType
<1>3. conn > 0 => Cardinality(Tokens') <= Budget(conn)'
  BY <1>1, <1>2 DEF CountInv, Budget
<1>4. ASSUME NEW c \in 1 .. conn - 1
      PROVE  Cardinality(NodesOf(c)') <= Budget(c)'
  <2>1. NodesOf(c)' \in SUBSET NodesOf(c)
    BY <1>1 DEF NodesOf
  <2>2. /\ Cardinality(NodesOf(c)') <= Cardinality(NodesOf(c))
        /\ Cardinality(NodesOf(c)') \in Nat /\ Cardinality(NodesOf(c)) \in Nat
    BY <2>1, NodesFinite, FS_Subset, FS_CardinalityType
  <2> QED
    BY <2>2 DEF CountInv, Budget
<1> QED
  BY <1>3, <1>4 DEF CountInv

LEMMA ConnectPorts ==
    ASSUME TableInv, NEW s \in Switches, CreateSwitchSocket(s) \/ Reconnect(s)
    PROVE  PortsInv'
<1> USE DEF TableInv, TypeInv
<1>1. ports' = <<>>
  BY DEF CreateSwitchSocket, Reconnect, At, tables, PortsInv
<1>2. <<Hello>> \in Seq(Message) /\ <<>> \in Seq(Message)
  BY DEF Message
<1>3. mpc' \in NextPc
  BY <1>2, HandlePc DEF CreateSwitchSocket, Reconnect
<1> QED
  BY <1>1, <1>3 DEF PortsInv, PortsOfThisSwitch, NextPc

LEMMA PlainPorts ==
    ASSUME TableInv, Plain, Conserved
    PROVE  PortsInv'
<1> USE DEF TableInv, TypeInv
<1>1. Starting = {} => Starting' = {}
  BY Counted
<1>2. CASE ports' = ports
  <2>1. PortsOfThisSwitch'
    BY <1>2 DEF PortsInv, PortsOfThisSwitch, Plain
  <2> QED
    BY <1>1, <1>2, <2>1 DEF PortsInv, Plain
<1>3. CASE ports' = <<>> /\ mpc' # "features_ports"
  BY <1>3 DEF PortsInv, PortsOfThisSwitch
<1> QED
  BY <1>2, <1>3 DEF Plain

(* With -c a connection has one token, which pthread_create takes. *)
LEMMA CreatePorts ==
    ASSUME TableInv, CreateThread
    PROVE  PortsInv'
<1> USE DEF TableInv, TypeInv
<1>1. /\ mpc = "features_thread" /\ mpc' = "features_ports"
      /\ UNCHANGED <<buf, inq, pend, peer, sw, conn, ports, cbench>>
  BY DEF CreateThread, At, socket, tables, option
<1>2. PortsOfThisSwitch'
  BY <1>1 DEF PortsInv, PortsOfThisSwitch
<1>3. ASSUME cbench PROVE ports = <<>> /\ Starting' = {}
  <2>1. buf # <<>> /\ Head(buf).type = "features" /\ buf \in Seq(Message) /\ conn > 0
    BY <1>1 DEF HandlerInv, IdlePc, Kind, TypeOK, NodeInv, MessageInv, CountInv
  <2>2. 1 \in DOMAIN buf /\ buf[1] = Head(buf)
    BY <2>1, EmptySeq, LenProperties
  <2>3. 1 \in InHand /\ InHand' = InHand \ {1} /\ StartsIn(inq)' = StartsIn(inq)
    BY <1>1, <2>1, <2>2 DEF InHand, StartsIn, Starts
  <2>4. <<"buf", 1>> \in Starting
    BY <2>3 DEF Starting
  <2>5. Cardinality(Tokens) <= 1 /\ IsFiniteSet(Tokens)
    BY <1>3, <2>1, TokensFinite DEF CountInv, Budget
  <2>6. \A x \in Starting : x = <<"buf", 1>>
    BY <2>4, <2>5, AtMostOne DEF Tokens
  <2>7. \A x \in Starting' : x \in Starting /\ x # <<"buf", 1>>
    BY <1>1, <2>3 DEF Starting
  <2> QED
    BY <1>3, <2>4, <2>6, <2>7 DEF PortsInv
<1> QED
  BY <1>1, <1>2, <1>3 DEF PortsInv

LEMMA AddedPorts ==
    ASSUME TableInv, FeaturesPorts, Conserved
    PROVE  PortsInv'
<1> USE DEF TableInv, TypeInv
<1>1. /\ mpc = "features_ports" /\ mpc' = "features_config" /\ UNCHANGED <<sw, cbench>>
      /\ switch_id = sw /\ sw \in Switches
  BY DEF FeaturesPorts, At, HandlerInv, socket, option
<1> DEFINE listed == PortsOf[sw]
           new == [i \in DOMAIN listed |-> [datapath_id |-> sw, port_no |-> listed[i]]]
<1>2. listed \in Seq(Nat) /\ Len(listed) \in Nat /\ DOMAIN listed = 1 .. Len(listed)
  BY <1>1, V21Assumption, LenProperties
<1>3. new \in Seq(Port) /\ Len(new) = Len(listed) /\ DOMAIN new = DOMAIN listed
  <2>1. \A i \in 1 .. Len(listed) : listed[i] \in Nat
    BY <1>2, ElementOfSeq
  <2>2. new \in [1 .. Len(listed) -> Port]
    BY <1>1, <1>2, <2>1 DEF Port
  <2>3. new \in Seq(Port)
    BY <1>2, <2>2, SeqDef
  <2>4. DOMAIN new = 1 .. Len(new) /\ Len(new) \in Nat
    BY <2>3, LenProperties
  <2> QED
    BY <1>2, <2>3, <2>4
<1>4. \A i \in DOMAIN new : new[i].datapath_id = sw /\ new[i].port_no = listed[i]
  OBVIOUS
<1>5. ports' = ports \o new
  BY <1>1 DEF FeaturesPorts
<1> HIDE DEF listed, new
<1>6. /\ Len(ports') = Len(ports) + Len(new) /\ ports' \in Seq(Port)
      /\ \A i \in 1 .. Len(ports) + Len(new) :
            ports'[i] = IF i <= Len(ports) THEN ports[i] ELSE new[i - Len(ports)]
  <2>1. ports \in Seq(Port)
    BY DEF TypeOK
  <2>2. PICK more \in Seq(Port) : more = new
    BY <1>3
  <2>3. /\ Len(ports \o more) = Len(ports) + Len(more) /\ ports \o more \in Seq(Port)
        /\ \A i \in 1 .. Len(ports) + Len(more) :
              (ports \o more)[i] = IF i <= Len(ports) THEN ports[i] ELSE more[i - Len(ports)]
    BY <2>1, ConcatProperties
  <2> QED
    BY <1>5, <2>2, <2>3
<1>7. Len(ports) \in Nat /\ DOMAIN ports = 1 .. Len(ports) /\ DOMAIN ports' = 1 .. Len(ports')
  BY <1>6, LenProperties DEF TypeOK
<1>8. ASSUME NEW i \in DOMAIN ports'
      PROVE  ports'[i].datapath_id = sw /\ \E j \in DOMAIN listed : ports'[i].port_no = listed[j]
  <2>1. CASE i <= Len(ports)
    <3>1. i \in DOMAIN ports /\ ports'[i] = ports[i]
      BY <1>6, <1>7, <2>1
    <3> QED
      BY <3>1 DEF PortsInv, PortsOfThisSwitch, listed
  <2>2. CASE ~(i <= Len(ports))
    <3>1. i - Len(ports) \in DOMAIN new /\ ports'[i] = new[i - Len(ports)]
      BY <1>2, <1>3, <1>6, <1>7, <2>2
    <3> QED
      BY <1>3, <1>4, <3>1
  <2> QED
    BY <2>1, <2>2
<1>9. ASSUME cbench PROVE Len(ports') <= Len(listed) /\ Starting' = {}
  <2>1. ports = <<>> /\ Starting = {}
    BY <1>1, <1>9 DEF PortsInv
  <2>2. Len(ports) = 0
    BY <2>1
  <2> QED
    BY <1>2, <1>3, <1>6, <2>1, <2>2, Counted
<1>10. PortsOfThisSwitch'
  BY <1>1, <1>8, <1>9 DEF PortsOfThisSwitch, listed
<1> QED
  BY <1>1, <1>9, <1>10 DEF PortsInv

LEMMA TableInductive == TableInv /\ [Next]_vars => TableInv'
<1> SUFFICES ASSUME TableInv, [Next]_vars PROVE TableInv'
  OBVIOUS
<1>1. NodeInv' /\ TypeInv'
  BY NodeInductive, TypeInductive DEF TableInv
<1>2. \/ Plain \/ CreateThread \/ FeaturesPorts
      \/ \E s \in Switches : CreateSwitchSocket(s) \/ Reconnect(s)
  BY PlainSteps DEF TableInv
<1>3. CASE \E s \in Switches : CreateSwitchSocket(s) \/ Reconnect(s)
  BY <1>1, <1>3, ConnectCounts, ConnectPorts DEF TableInv
<1>4. CASE ~\E s \in Switches : CreateSwitchSocket(s) \/ Reconnect(s)
  <2>1. Conserved /\ conn' = conn
    BY <1>4, TokensConserved DEF TableInv
  <2>2. CASE Plain
    BY <1>1, <2>1, <2>2, CountKept, PlainPorts DEF Plain, TableInv
  <2>3. CASE CreateThread
    <3>1. UNCHANGED cbench /\ UNCHANGED peer /\ mpc' # "reconnect"
      BY <2>3 DEF CreateThread, socket, option
    <3>2. \A t \in Threads : born'[t] = born[t] \/ born'[t] = conn
      BY <2>3 DEF CreateThread, TableInv, TypeInv, TypeOK
    <3> QED
      BY <1>1, <2>1, <2>3, <3>1, <3>2, CountKept, CreatePorts DEF TableInv
  <2>4. CASE FeaturesPorts
    <3>1. UNCHANGED cbench /\ UNCHANGED peer /\ UNCHANGED born /\ mpc' # "reconnect"
      BY <2>4 DEF FeaturesPorts, socket, option, threads
    <3> QED
      BY <1>1, <2>1, <2>4, <3>1, CountKept, AddedPorts DEF TableInv
  <2> QED
    BY <1>2, <1>4, <2>2, <2>3, <2>4
<1> QED
  BY <1>3, <1>4

LEMMA TableInitially == Init => TableInv
<1> SUFFICES ASSUME Init PROVE TableInv
  OBVIOUS
<1>1. NodeInv /\ TypeInv
  BY NodeInitially, TypeInitially
<1>2. PortsInv /\ CountInv
  BY DEF Init, PortsInv, PortsOfThisSwitch, CountInv
<1> QED
  BY <1>1, <1>2 DEF TableInv

LEMMA TableAlways == Spec => []TableInv
  BY TableInitially, TableInductive, PTL DEF Spec

(* The tables and all the variables have their types, and each row of the   *)
(* ports table is a port of the switch that is connected, with -c at most   *)
(* one for each port it lists: both lists are freed before the next         *)
(* connection (_con.cpp:143), whose features reply is the one that adds.    *)
THEOREM TablesStayOK == Spec => []TablesOK
<1>1. TableInv => TablesOK
  BY DEF TableInv, TypeInv, PortsInv, TablesOK
<1> QED
  BY <1>1, TableAlways, PTL

(* A connection starts one node thread, or two when it is a reconnection in *)
(* the normal mode, whose zeroed buffer is taken for a hello: each request  *)
(* needs a hello, each features reply a request, each thread a reply.       *)
THEOREM FewNodeThreads == Spec => []NodeThreadsPerConnection
<1>1. TableInv => NodeThreadsPerConnection
  <2> SUFFICES ASSUME TableInv, NEW c \in 1 .. conn
               PROVE  Cardinality({t \in 1 .. Started : born[t] = c}) <= Budget(c)
    BY DEF NodeThreadsPerConnection, Budget
  <2> USE DEF TableInv, TypeInv
  <2>1. conn \in Nat
    BY DEF TypeOK
  <2>2. Cardinality(NodesOf(c)) \in Nat
    BY NodesFinite, FS_CardinalityType
  <2>3. Cardinality(NodesOf(c)) <= Budget(c)
    <3>1. CASE c = conn
      <4>1. Cardinality(NodesOf(conn)) <= Cardinality(Tokens) /\ Cardinality(Tokens) <= Budget(conn)
        BY <2>1, <3>1, NodesAreTokens DEF CountInv
      <4>2. Cardinality(Tokens) \in Nat
        BY TokensFinite, FS_CardinalityType
      <4> QED
        BY <2>2, <3>1, <4>1, <4>2 DEF Budget
    <3>2. CASE c \in 1 .. conn - 1
      BY <3>2 DEF CountInv
    <3> QED
      BY <2>1, <3>1, <3>2
  <2>4. 1 .. Started \subseteq Threads
    <3>1. {t \in Threads : tpc[t] # "none"} \in SUBSET Threads
      OBVIOUS
    <3>2. Started <= Cardinality(Threads) /\ Started \in Nat
      BY <3>1, ThreadsFinite, FS_Subset, FS_CardinalityType DEF Started
    <3>3. Cardinality(Threads) = MaxThreads /\ MaxThreads \in Nat
      BY V21Assumption, FS_Interval DEF Threads
    <3> QED
      BY <3>2, <3>3 DEF Threads
  <2>5. {t \in 1 .. Started : born[t] = c} \in SUBSET NodesOf(c)
    BY <2>4 DEF NodesOf
  <2>6. /\ Cardinality({t \in 1 .. Started : born[t] = c}) <= Cardinality(NodesOf(c))
        /\ Cardinality({t \in 1 .. Started : born[t] = c}) \in Nat
    BY <2>5, NodesFinite, FS_Subset, FS_CardinalityType
  <2> QED
    BY <2>2, <2>3, <2>6 DEF Budget
<1> QED
  BY <1>1, TableAlways, PTL
=============================================================================
