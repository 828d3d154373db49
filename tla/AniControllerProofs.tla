------------------------ MODULE AniControllerProofs ------------------------
(***************************************************************************)
(* Proofs about the controller, for any number of sharing threads, any     *)
(* switches, any traffic and no bound on connections or messages: its      *)
(* mutex, its types and its sessions.                                      *)
(***************************************************************************)
EXTENDS AniController, SequenceTheorems, FiniteSetTheorems, TLAPS

(* The inductive invariant: the part of TypeOK that speaks of the threads, *)
(* and the discipline itself.                                              *)
MutexInv ==
    /\ tpc \in [Threads -> ThreadPc]
    /\ links_mutex \in Threads \cup {Main, None}
    /\ MutexDiscipline

(* A step of the main thread that keeps links_mutex and the threads, and   *)
(* neither enters nor leaves the code that holds the mutex.                *)
LEMMA MainKeeps ==
    ASSUME MutexInv, UNCHANGED <<links_mutex, tpc>>,
           mpc' \in {"features", "lldp"} => mpc' = mpc,
           mpc \in {"features", "lldp", "exit", "exit_free"}
               => mpc' \in {mpc, "exit", "exit_free"}
    PROVE  MutexInv'
  BY DEF MutexInv, MutexDiscipline, Holding

(* The pc that a message leads to never holds the mutex. *)
LEMMA HandleOutside ==
    ASSUME NEW msgs, Handle(msgs)
    PROVE  mpc' \notin {"features", "lldp", "exit", "exit_free"}
  BY DEF Handle, Handler

(* A thread takes the mutex. *)
LEMMA LockKeeps ==
    ASSUME MutexInv, NEW t \in Threads, NEW from, NEW to,
           from \notin Holding, to \in Holding, Holding \subseteq ThreadPc,
           LockAndGo(t, from, to)
    PROVE  MutexInv'
  <1>1. links_mutex = None /\ links_mutex' = t /\ mpc' = mpc
    BY DEF LockAndGo, Acquire, main
  <1>2. tpc' = [tpc EXCEPT ![t] = to]
    BY DEF LockAndGo, Goto
  <1> QED
    BY <1>1, <1>2, ControllerAssumption DEF MutexInv, MutexDiscipline

(* A thread that holds the mutex gives it back. *)
LEMMA ReleaseKeeps ==
    ASSUME MutexInv, NEW t \in Threads, NEW to,
           tpc[t] \in Holding, to \in ThreadPc \ Holding,
           Release, Goto(t, to), mpc' = mpc
    PROVE  MutexInv'
  BY ControllerAssumption DEF MutexInv, MutexDiscipline, Release, Goto

(* A thread goes on without touching the mutex. *)
LEMMA GotoKeeps ==
    ASSUME MutexInv, NEW t \in Threads, NEW to \in ThreadPc,
           tpc[t] \in Holding <=> to \in Holding,
           links_mutex' = links_mutex, Goto(t, to), mpc' = mpc
    PROVE  MutexInv'
  BY ControllerAssumption DEF MutexInv, MutexDiscipline, Goto

(* The main thread gives links_mutex back when it leaves a locked section. *)
LEMMA MainReleases ==
    ASSUME MutexInv, mpc \in {"features", "lldp"}, Release,
           mpc' \notin {"features", "lldp"}, UNCHANGED tpc
    PROVE  MutexInv'
  BY ControllerAssumption DEF MutexInv, MutexDiscipline, Release

(* Every step keeps MutexInv: one case per action, by the kind of step. *)
THEOREM MutexInductive == MutexInv /\ [Next]_vars => MutexInv'
  <1> SUFFICES ASSUME MutexInv, [Next]_vars PROVE MutexInv'
    OBVIOUS
  <1> USE DEF At, main, shared, tables, threads, net
  <1>1. CASE MainHandler
    <2>1. CASE ReconnectLinks
      BY <2>1, MainKeeps DEF ReconnectLinks
    <2>2. CASE ReconnectReplys
      BY <2>2, MainKeeps DEF ReconnectReplys
    <2>3. CASE ActionHello
      BY <2>3, MainKeeps, HandleOutside
      DEF ActionHello, MainSends, SendUndefined, SendEnds, Done
    <2>4. CASE HelloFeatures
      BY <2>4, MainKeeps, HandleOutside
      DEF HelloFeatures, MainSends, SendUndefined, SendEnds, Done
    <2>5. CASE ActionEcho
      BY <2>5, MainKeeps, HandleOutside
      DEF ActionEcho, MainSends, SendUndefined, SendEnds, Done
    <2>6. CASE ActionOther
      BY <2>6, MainKeeps, HandleOutside DEF ActionOther, Done
    <2>7. CASE FeaturesNoPorts
      BY <2>7, MainKeeps DEF FeaturesNoPorts
    <2>8. CASE ActionFeaturesReply
      <3>1. /\ links_mutex = Main /\ links_mutex' = None
            /\ mpc' = "features_config"
        BY <2>8 DEF ActionFeaturesReply, Release, MutexInv, MutexDiscipline
      <3>2. CASE UNCHANGED tpc
        BY <2>8, <3>1, <3>2, MainReleases DEF ActionFeaturesReply
      <3>3. ASSUME NEW t \in Threads, tpc[t] = "none",
                   tpc' = [tpc EXCEPT ![t] = "round"]
            PROVE  MutexInv'
        BY <3>1, <3>3, ControllerAssumption
        DEF MutexInv, MutexDiscipline, Holding, ThreadPc
      <3> QED
        BY <2>8, <3>2, <3>3 DEF ActionFeaturesReply, CreateThread
    <2>9. CASE FeaturesConfig
      BY <2>9, MainKeeps, HandleOutside
      DEF FeaturesConfig, MainSends, SendEnds, Done
    <2>10. CASE ActionPackout
      BY <2>10, MainKeeps, HandleOutside
      DEF ActionPackout, PackoutEnd, MainSends, SendEnds, Done
    <2>11. CASE LldpRequest
      <3>1. CASE PackoutEnd /\ Release
        BY <2>11, <3>1, MainReleases, HandleOutside DEF LldpRequest, PackoutEnd, Done
      <3>2. CASE SigPipe /\ UNCHANGED <<mpc, buf, links_mutex>>
        BY <2>11, <3>2, MainKeeps DEF LldpRequest
      <3> QED
        BY <2>11, <3>1, <3>2 DEF LldpRequest
    <2>12. CASE LldpReply
      BY <2>12, MainReleases, HandleOutside DEF LldpReply, PackoutEnd, Done
    <2>13. CASE LldpNode
      BY <2>13, MainReleases, HandleOutside DEF LldpNode, PackoutEnd, Done
    <2>14. CASE JoinNoThread
      BY <2>14, MainKeeps DEF JoinNoThread
    <2>15. CASE ExitFree
      BY <2>15, MainKeeps DEF ExitFree
    <2> QED
      BY <1>1, <2>1, <2>2, <2>3, <2>4, <2>5, <2>6, <2>7, <2>8, <2>9, <2>10,
         <2>11, <2>12, <2>13, <2>14, <2>15 DEF MainHandler
  <1>2. CASE MainLock
    BY <1>2, ControllerAssumption
    DEF MainLock, FeaturesLock, LldpLock, Acquire, MutexInv, MutexDiscipline
  <1>3. CASE MainIO
    <2>1. CASE AcceptFails
      BY <2>1, MainKeeps DEF AcceptFails
    <2>2. CASE Read
      BY <2>2, MainKeeps, HandleOutside DEF Read
    <2>3. CASE ReadFails
      BY <2>3, MainKeeps DEF ReadFails
    <2>4. ASSUME NEW s \in Switches, Accept(s) \/ Reconnect(s) PROVE MutexInv'
      BY <2>4, MainKeeps, HandleOutside DEF Accept, Reconnect
    <2> QED
      BY <1>3, <2>1, <2>2, <2>3, <2>4 DEF MainIO
  <1>4. ASSUME NEW t \in Threads, ThreadLock(t) PROVE MutexInv'
    BY <1>4, LockKeeps
    DEF ThreadLock, RoundLock, AnnounceLock, WaitLock, ReportLock, Holding, ThreadPc
  <1>5. ASSUME NEW t \in Threads, ThreadStep(t) PROVE MutexInv'
    <2> USE DEF Holding, ThreadPc, ThreadAt
    <2>1. CASE RoundStart(t)
      BY <2>1, ReleaseKeeps DEF RoundStart
    <2>2. CASE Probe(t)
      BY <2>2 DEF Probe, ThreadSend, MutexInv, MutexDiscipline
    <2>3. CASE ProbeEnd(t)
      BY <2>3, GotoKeeps DEF ProbeEnd
    <2>4. CASE Announce(t)
      BY <2>4 DEF Announce, ThreadSend, MutexInv, MutexDiscipline
    <2>5. CASE AnnounceEnd(t)
      BY <2>5, ReleaseKeeps DEF AnnounceEnd
    <2>6. CASE Wait(t)
      BY <2>6, ReleaseKeeps DEF Wait
    <2>7. CASE WaitEnd(t)
      BY <2>7, ReleaseKeeps DEF WaitEnd
    <2>8. CASE Report(t)
      BY <2>8, GotoKeeps DEF Report
    <2>9. CASE ReportFree(t)
      BY <2>9, ReleaseKeeps DEF ReportFree
    <2> QED
      BY <1>5, <2>1, <2>2, <2>3, <2>4, <2>5, <2>6, <2>7, <2>8, <2>9 DEF ThreadStep
  <1>6. CASE Undefined
    BY <1>6 DEF Undefined, MutexInv, MutexDiscipline
  <1>7. CASE Environment
    <2>1. CASE SwitchFeatures
      BY <2>1 DEF SwitchFeatures, MutexInv, MutexDiscipline
    <2>2. CASE SwitchDies
      BY <2>2 DEF SwitchDies, MutexInv, MutexDiscipline
    <2>3. ASSUME NEW m \in Traffic, SwitchSends(m) PROVE MutexInv'
      BY <2>3 DEF SwitchSends, MutexInv, MutexDiscipline
    <2>4. ASSUME NEW s \in Signals, Signal(s) PROVE MutexInv'
      BY <2>4, MainKeeps DEF Signal
    <2> QED
      BY <1>7, <2>1, <2>2, <2>3, <2>4 DEF Environment
  <1>8. CASE UNCHANGED vars
    BY <1>8 DEF vars, MutexInv, MutexDiscipline
  <1> QED
    BY <1>1, <1>2, <1>3, <1>4, <1>5, <1>6, <1>7, <1>8 DEF Next

LEMMA MutexInitially == Init => MutexInv
  BY ControllerAssumption DEF Init, MutexInv, MutexDiscipline, Holding, ThreadPc

(* links_mutex is owned by exactly the thread that is between a lock and   *)
(* an unlock, for every schedule (_con.cpp:299-334, 574-655, 700-853).     *)
THEOREM MutexCorrect == Spec => []MutexDiscipline
<1>1. MutexInv => MutexDiscipline
  BY DEF MutexInv
<1> QED
  BY MutexInitially, MutexInductive, <1>1, PTL DEF Spec

(* No thread ever locks links_mutex while it owns it. *)
THEOREM NeverLocksTwice == Spec => []NoSelfDeadlock
<1>1. MutexInv => NoSelfDeadlock
  BY ControllerAssumption DEF MutexInv, MutexDiscipline, NoSelfDeadlock, Holding
<1> QED
  BY MutexInitially, MutexInductive, <1>1, PTL DEF Spec

(* Two threads are inside the same list at once only where the code frees  *)
(* a list without links_mutex: _con.cpp:148-149 and ani.cpp:108-109.       *)
THEOREM RacesOnlyWhenFreeing == Spec => []RaceOnlyInUnlockedFree
<1>1. MutexInv => RaceOnlyInUnlockedFree
  <2> SUFFICES ASSUME MutexInv, Race,
                      mpc \notin {"reconnect_links", "reconnect_replys", "exit_free"}
               PROVE  FALSE
    BY DEF RaceOnlyInUnlockedFree
  <2>1. \A t \in Threads : ThreadUses(t) # {} => links_mutex = t
    BY DEF MutexInv, MutexDiscipline, ThreadUses, Holding
  <2>2. MainUses # {} => links_mutex = Main
    BY DEF MutexInv, MutexDiscipline, MainUses
  <2> QED
    BY <2>1, <2>2, ControllerAssumption DEF Race
<1> QED
  BY MutexInitially, MutexInductive, <1>1, PTL DEF Spec

-----------------------------------------------------------------------------
(* The types of the state. *)

LEMMA FunctionSeq ==
    ASSUME NEW S, NEW n \in Nat, NEW f \in [1 .. n -> S]
    PROVE  f \in Seq(S) /\ Len(f) = n
  <1>1. f \in Seq(S)
    BY SeqDef, Zenon
  <1> QED
    BY <1>1

(* Where a message is handled, and the type of the message there. *)
HandlerPc == {"hello", "hello_features", "echo", "other", "features_lock", "features",
              "features_config", "data", "lldp_lock", "lldp"}

Handled(pc) ==
    CASE pc \in {"hello", "hello_features"} -> "hello"
      [] pc \in {"features_lock", "features", "features_config"} -> "features"
      [] pc \in {"lldp_lock", "lldp"} -> "lldp"
      [] OTHER -> pc

WaitingPc == {"start", "recv", "reconnect_links", "reconnect_replys", "reconnect"}

(* A handler works on the first message of buf. *)
MessageInv ==
    /\ mpc \in HandlerPc => buf # <<>> /\ Head(buf).type = Handled(mpc)
    /\ mpc \in WaitingPc => buf = <<>>

TypeInv == TypeOK /\ MutexInv /\ MessageInv

(* What the fields of a message are. *)
LEMMA MessageFields ==
    ASSUME NEW m \in Message
    PROVE  /\ m.type \in {"hello", "features", "echo", "other", "data", "lldp"}
           /\ m.type = "features" => \E s \in Switches : m = Features(s)
           /\ m.type = "data" => m.in_port \in Nat /\ m.pkt \in Packet
           /\ m.type = "lldp" => /\ m.in_port \in Nat
                                 /\ m.kind \in {"request", "reply", "node"}
                                 /\ m.kind = "node" => m.node \in Nodes
  <1>1. CASE m = Hello
    BY <1>1 DEF Hello
  <1>2. CASE \E s \in Switches : m = Features(s)
    BY <1>2 DEF Features
  <1>3. CASE m \in TrafficMessage
    BY <1>3 DEF TrafficMessage
  <1> QED
    BY <1>1, <1>2, <1>3 DEF Message

(* Handling the next messages puts the main thread where they are handled. *)
LEMMA HandleMessage ==
    ASSUME NEW msgs \in Seq(Message), Handle(msgs)
    PROVE  /\ buf' = msgs /\ buf' \in Seq(Message) /\ mpc' \in MainPc
           /\ mpc' \in HandlerPc => buf' # <<>> /\ Head(buf').type = Handled(mpc')
           /\ mpc' \in WaitingPc => buf' = <<>>
           /\ mpc' \in {"recv", "hello", "features_lock", "data", "lldp_lock", "echo", "other"}
  <1>1. CASE msgs = <<>>
    BY <1>1 DEF Handle, MainPc, HandlerPc, WaitingPc
  <1>2. CASE msgs # <<>>
    <2>1. Head(msgs) \in Message
      BY <1>2, HeadTailProperties
    <2>2. Head(msgs).type \in {"hello", "features", "echo", "other", "data", "lldp"}
      BY <2>1, MessageFields
    <2>3. buf' = msgs /\ mpc' = Handler(Head(msgs))
      BY <1>2 DEF Handle
    <2>4. mpc' \in MainPc /\ mpc' \in HandlerPc /\ mpc' \notin WaitingPc
      BY <2>2, <2>3 DEF Handler, MainPc, HandlerPc, WaitingPc
    <2>5. Head(msgs).type = Handled(mpc')
      BY <2>2, <2>3 DEF Handler, Handled
    <2>6. mpc' \in {"recv", "hello", "features_lock", "data", "lldp_lock", "echo", "other"}
      BY <2>2, <2>3 DEF Handler
    <2> QED
      BY <1>2, <2>3, <2>4, <2>5, <2>6
  <1> QED
    BY <1>1, <1>2

LEMMA DoneMessage ==
    ASSUME TypeOK, buf # <<>>, Done
    PROVE  /\ buf' = Tail(buf) /\ buf' \in Seq(Message) /\ mpc' \in MainPc
           /\ mpc' \in HandlerPc => buf' # <<>> /\ Head(buf').type = Handled(mpc')
           /\ mpc' \in WaitingPc => buf' = <<>>
           /\ mpc' \in {"recv", "hello", "features_lock", "data", "lldp_lock", "echo", "other"}
  <1>1. Tail(buf) \in Seq(Message)
    BY HeadTailProperties DEF TypeOK
  <1> QED
    BY <1>1, HandleMessage DEF Done

(* TypeOK, by the groups of variables. *)
MainType ==
    /\ proc \in {"running", "ended", "killed", "undefined"}
    /\ mpc \in MainPc /\ buf \in Seq(Message) /\ masked \subseteq Signals
    /\ cbench \in BOOLEAN /\ write_buffer_len \in {-1, 0, 1} /\ sw_sockfd \in Nat

NetType ==
    /\ conn \in Nat /\ peer \in {"none", "open", "gone"} /\ sw \in Switches
    /\ inq \in Seq(Message) /\ pend \in Nat /\ sent \in Nat

SharedType ==
    /\ links_mutex \in Threads \cup {Main, None}
    /\ no_of_ports \in Int /\ switch_id \in Switches \cup {None}
    /\ node_send_thread \in Threads \cup {None} /\ anim_node_counter \in Nat

TableType ==
    /\ hosts \in Seq(Host) /\ ports \in Seq(Node)
    /\ links \in Seq(Link) /\ printed \in Seq(Link) /\ sw_replys \in Seq(Nat)

CursorType ==
    /\ current \in 0 .. Len(sw_replys)
    /\ current # 0 => \E t \in Threads : tpc[t] = "announce"

ThreadType ==
    /\ tpc \in [Threads -> ThreadPc]
    /\ ports_count \in [Threads -> Int] /\ portno \in [Threads -> Nat]

LEMMA TypeParts ==
    TypeOK <=> MainType /\ NetType /\ SharedType /\ TableType /\ CursorType /\ ThreadType
  BY DEF TypeOK, MainType, NetType, SharedType, TableType, CursorType, ThreadType

LEMMA TypePartsNext ==
    TypeOK' <=> MainType' /\ NetType' /\ SharedType' /\ TableType' /\ CursorType' /\ ThreadType'
  BY DEF TypeOK, MainType, NetType, SharedType, TableType, CursorType, ThreadType

(* What does not change keeps its type. *)
LEMMA Untouched ==
    ASSUME TypeOK
    PROVE  /\ UNCHANGED main => MainType'
           /\ UNCHANGED net => NetType'
           /\ UNCHANGED shared => SharedType'
           /\ UNCHANGED tables => TableType'
           /\ UNCHANGED <<current, sw_replys, tpc>> => CursorType'
           /\ UNCHANGED threads => ThreadType'
  <1> USE DEF TypeOK
  <1>1. UNCHANGED main => MainType'
    BY DEF MainType, main
  <1>2. UNCHANGED net => NetType'
    BY DEF NetType, net
  <1>3. UNCHANGED shared => SharedType'
    BY DEF SharedType, shared
  <1>4. UNCHANGED tables => TableType'
    BY DEF TableType, tables
  <1>5. UNCHANGED <<current, sw_replys, tpc>> => CursorType'
    BY DEF CursorType
  <1>6. UNCHANGED threads => ThreadType'
    BY DEF ThreadType, threads
  <1> QED
    BY <1>1, <1>2, <1>3, <1>4, <1>5, <1>6

(* A send of a handler, and then the next message or exit. *)
LEMMA MainSendTypes ==
    ASSUME TypeInv, buf # <<>>,
           \/ MainSends(Done /\ UNCHANGED pend) \/ MainSends(pend' = pend + 1 /\ Done)
           \/ SendUndefined,
           UNCHANGED <<masked, cbench, sw_sockfd, conn, peer, sw, inq, sent>>
    PROVE  MainType' /\ NetType' /\ MessageInv'
  <1>1. pend' \in Nat
    BY DEF MainSends, SendUndefined, SendEnds, TypeInv, TypeOK
  <1>2. CASE Done /\ ~SendEnds
    <2>1. buf' \in Seq(Message) /\ mpc' \in MainPc /\ MessageInv'
      BY <1>2, DoneMessage DEF TypeInv, MessageInv
    <2>2. write_buffer_len' \in {-1, 0, 1} /\ proc' = proc
      BY <1>2 DEF MainSends, SendUndefined, SendEnds
    <2> QED
      BY <1>1, <2>1, <2>2 DEF TypeInv, TypeOK, MainType, NetType
  <1>3. CASE SendEnds
    <2>1. /\ buf' = buf /\ mpc' \in {"exit", mpc}
          /\ write_buffer_len' \in {-1, write_buffer_len} /\ proc' \in {proc, "killed"}
      BY <1>3 DEF SendEnds, SigPipe
    <2>2. mpc' \in MainPc /\ MessageInv'
      BY <2>1 DEF TypeInv, TypeOK, MessageInv, MainPc, HandlerPc, WaitingPc
    <2> QED
      BY <1>1, <2>1, <2>2 DEF TypeInv, TypeOK, MainType, NetType
  <1> QED
    BY <1>2, <1>3 DEF MainSends, SendUndefined

(* What leaves buf alone and stays, or goes to exit, keeps MessageInv.     *)
LEMMA SamePlace ==
    ASSUME MessageInv, UNCHANGED buf, mpc' = mpc \/ mpc' \in {"exit", "exit_free"}
    PROVE  MessageInv'
  BY DEF MessageInv, HandlerPc, WaitingPc

LEMMA MainTypes ==
    ASSUME TypeInv, MainHandler \/ MainLock \/ MainIO
    PROVE  TypeOK' /\ MessageInv'
  <1> USE DEF At, TypeInv
  <1>1. ASSUME mpc \in HandlerPc PROVE buf # <<>> /\ Head(buf) \in Message /\ Head(buf).type = Handled(mpc)
    BY <1>1, HeadTailProperties DEF MessageInv, TypeOK
  <1>2. CASE ReconnectLinks
    <2>1. MainType' /\ MessageInv'
      BY <1>2 DEF ReconnectLinks, TypeOK, MainType, MainPc, MessageInv, HandlerPc, WaitingPc
    <2>2. TableType'
      BY <1>2, EmptySeq DEF ReconnectLinks, TypeOK, TableType
    <2> QED
      BY <1>2, <2>1, <2>2, Untouched, TypePartsNext DEF ReconnectLinks, threads
  <1>3. CASE ReconnectReplys
    <2>1. MainType' /\ MessageInv'
      BY <1>3 DEF ReconnectReplys, TypeOK, MainType, MainPc, MessageInv, HandlerPc, WaitingPc
    <2>2. TableType'
      BY <1>3, EmptySeq DEF ReconnectReplys, TypeOK, TableType
    <2>3. CursorType'
      <3>1. ASSUME current # 0 PROVE FALSE
        <4>1. PICK t \in Threads : tpc[t] = "announce"
          BY <3>1 DEF TypeOK
        <4>2. ThreadUses(t) = {"sw_replys"}
          BY <3>1, <4>1 DEF ThreadUses
        <4>3. sw_replys # <<>>
          BY <3>1, EmptySeq DEF TypeOK
        <4>4. MainUses = {"sw_replys"}
          BY <1>3, <4>3 DEF ReconnectReplys, MainUses, Full
        <4> QED
          BY <1>3, <4>2, <4>4 DEF ReconnectReplys, Runs, Race
      <3> QED
        BY <1>3, <3>1, EmptySeq DEF ReconnectReplys, CursorType
    <2> QED
      BY <1>3, <2>1, <2>2, <2>3, Untouched, TypePartsNext DEF ReconnectReplys, tables
  <1>4. CASE ActionHello
    <2>1. CASE MainSends(mpc' = "hello_features" /\ UNCHANGED <<buf, pend>>)
      <3>1. MainType' /\ NetType' /\ MessageInv'
        BY <1>1, <1>4, <2>1
        DEF ActionHello, MainSends, TypeOK, MainType, NetType, MainPc, MessageInv, HandlerPc,
            WaitingPc, Handled
      <3> QED
        BY <1>4, <3>1, Untouched, TypePartsNext DEF ActionHello, tables, threads
    <2>2. CASE SendUndefined
      <3>1. MainType' /\ NetType' /\ MessageInv'
        BY <1>1, <1>4, <2>2, MainSendTypes DEF ActionHello, HandlerPc
      <3> QED
        BY <1>4, <3>1, Untouched, TypePartsNext DEF ActionHello, tables, threads
    <2> QED
      BY <1>4, <2>1, <2>2 DEF ActionHello
  <1>5. CASE HelloFeatures
    <2>1. MainType' /\ NetType' /\ MessageInv'
      BY <1>1, <1>5, MainSendTypes DEF HelloFeatures, HandlerPc
    <2> QED
      BY <1>5, <2>1, Untouched, TypePartsNext DEF HelloFeatures, tables, threads
  <1>6. CASE ActionEcho
    <2>1. MainType' /\ NetType' /\ MessageInv'
      BY <1>1, <1>6, MainSendTypes DEF ActionEcho, MainSends, HandlerPc
    <2> QED
      BY <1>6, <2>1, Untouched, TypePartsNext DEF ActionEcho, tables, threads
  <1>7. CASE ActionOther
    <2>1. MainType' /\ MessageInv'
      BY <1>1, <1>7, DoneMessage DEF ActionOther, TypeOK, MainType, MessageInv, HandlerPc
    <2> QED
      BY <1>7, <2>1, Untouched, TypePartsNext DEF ActionOther, tables, threads
  <1>8. CASE FeaturesNoPorts
    <2>1. MainType' /\ MessageInv' /\ SharedType'
      BY <1>8, SamePlace DEF FeaturesNoPorts, TypeOK, MainType, SharedType, MainPc
    <2> QED
      BY <1>8, <2>1, Untouched, TypePartsNext DEF FeaturesNoPorts, tables, threads
  <1>9. CASE ActionFeaturesReply
    <2>1. PICK s \in Switches : Head(buf) = Features(s)
      BY <1>1, <1>9, MessageFields DEF ActionFeaturesReply, HandlerPc, Handled
    <2>2. Head(buf).dpid = s /\ Head(buf).list \in Seq(Nat)
      BY <2>1, ControllerAssumption DEF Features
    <2>3. MainType' /\ MessageInv'
      BY <1>1, <1>9
      DEF ActionFeaturesReply, TypeOK, MainType, MainPc, MessageInv, HandlerPc, WaitingPc, Handled
    <2>4. SharedType'
      BY <1>9, <2>2, LenProperties
      DEF ActionFeaturesReply, CreateThread, Release, TypeOK, SharedType
    <2>5. TableType'
      <3> DEFINE l == Head(buf).list
                 rows == [i \in DOMAIN l |-> [datapath_id |-> s, port_no |-> l[i]]]
      <3>1. DOMAIN l = 1 .. Len(l) /\ Len(l) \in Nat /\ \A i \in DOMAIN l : l[i] \in Nat
        BY <2>2, LenProperties
      <3>2. rows \in [1 .. Len(l) -> Node]
        BY <3>1 DEF Node
      <3>3. rows \in Seq(Node)
        BY <3>1, <3>2, FunctionSeq
      <3>4. ports' = ports \o rows
        BY <1>9, <2>2 DEF ActionFeaturesReply
      <3> HIDE DEF rows, l
      <3>5. ports' \in Seq(Node)
        BY <3>3, <3>4, ConcatProperties DEF TypeOK
      <3> QED
        BY <1>9, <3>5 DEF ActionFeaturesReply, TypeOK, TableType
    <2>6. ThreadType' /\ CursorType'
      <3>1. CASE UNCHANGED tpc
        BY <1>9, <3>1 DEF ActionFeaturesReply, TypeOK, ThreadType, CursorType
      <3>2. ASSUME NEW t \in Threads, tpc[t] = "none", tpc' = [tpc EXCEPT ![t] = "round"]
            PROVE  ThreadType' /\ CursorType'
        BY <1>9, <3>2 DEF ActionFeaturesReply, TypeOK, ThreadType, CursorType, ThreadPc
      <3> QED
        BY <1>9, <3>1, <3>2 DEF ActionFeaturesReply, CreateThread
    <2> QED
      BY <1>9, <2>3, <2>4, <2>5, <2>6, Untouched, TypePartsNext DEF ActionFeaturesReply
  <1>10. CASE FeaturesConfig
    <2>1. MainType' /\ NetType' /\ MessageInv'
      BY <1>1, <1>10, MainSendTypes DEF FeaturesConfig, MainSends, SendUndefined, HandlerPc
    <2> QED
      BY <1>10, <2>1, Untouched, TypePartsNext DEF FeaturesConfig, tables, threads
  <1>11. CASE ActionPackout
    <2> DEFINE m == Head(buf)
    <2>1. m.in_port \in Nat /\ m.pkt \in Packet
      BY <1>1, <1>11, MessageFields DEF ActionPackout, HandlerPc, Handled
    <2>2. MainType' /\ NetType' /\ MessageInv'
      <3>1. CASE PackoutEnd /\ UNCHANGED <<proc, pend, write_buffer_len>>
        <4>1. CASE Done
          BY <1>1, <1>11, <3>1, <4>1, DoneMessage
          DEF ActionPackout, TypeOK, MainType, NetType, MessageInv, HandlerPc
        <4>2. CASE mpc' = "exit" /\ UNCHANGED buf
          BY <1>11, <3>1, <4>2, SamePlace DEF ActionPackout, TypeOK, MainType, NetType, MainPc
        <4> QED
          BY <3>1, <4>1, <4>2 DEF PackoutEnd
      <3>2. CASE MainSends(PackoutEnd /\ UNCHANGED pend)
        <4>1. CASE Done
          BY <1>1, <1>11, <3>2, <4>1, DoneMessage
          DEF ActionPackout, MainSends, TypeOK, MainType, NetType, MessageInv, HandlerPc
        <4>2. CASE mpc' = "exit" /\ UNCHANGED buf
          BY <1>11, <3>2, <4>2, SamePlace
          DEF ActionPackout, MainSends, TypeOK, MainType, NetType, MainPc
        <4> QED
          BY <3>2, <4>1, <4>2 DEF MainSends, PackoutEnd
      <3>3. CASE SendEnds
        BY <1>1, <1>11, <3>3, MainSendTypes DEF ActionPackout, SendUndefined, HandlerPc
      <3> QED
        BY <1>11, <3>1, <3>2, <3>3 DEF ActionPackout
    <2>3. TableType'
      <3>1. hosts' = Learn(hosts, m.pkt, m.in_port, switch_id)
        BY <1>11 DEF ActionPackout
      <3>2. [mac |-> m.pkt.src, port_no |-> m.in_port, datapath_id |-> switch_id] \in Host
        BY <2>1 DEF Packet, Host, TypeOK
      <3> HIDE DEF m
      <3>3. hosts' \in Seq(Host)
        BY <3>1, <3>2, AppendProperties DEF Learn, TypeOK
      <3> QED
        BY <1>11, <3>3 DEF ActionPackout, TypeOK, TableType
    <2> QED
      BY <1>11, <2>2, <2>3, Untouched, TypePartsNext DEF ActionPackout, threads
  <1>12. CASE LldpRequest
    <2>1. MainType' /\ MessageInv' /\ SharedType'
      <3>1. CASE Done /\ UNCHANGED proc
        BY <1>1, <1>12, <3>1, DoneMessage
        DEF LldpRequest, Release, TypeOK, MainType, SharedType, MessageInv, HandlerPc, SigPipe
      <3>2. CASE UNCHANGED buf /\ mpc' \in {mpc, "exit"} /\ proc' \in {proc, "killed"}
        BY <1>12, <3>2, SamePlace DEF LldpRequest, Release, TypeOK, MainType, SharedType, MainPc
      <3> QED
        BY <1>12, <3>1, <3>2 DEF LldpRequest, PackoutEnd, SigPipe
    <2> QED
      BY <1>12, <2>1, Untouched, TypePartsNext DEF LldpRequest, tables, threads
  <1>13. ASSUME mpc = "lldp", PackoutEnd,
                UNCHANGED <<proc, masked, cbench, write_buffer_len, sw_sockfd>>
         PROVE  MainType' /\ MessageInv'
    <2>1. CASE Done
      BY <1>1, <1>13, <2>1, DoneMessage DEF TypeOK, MainType, MessageInv, HandlerPc
    <2>2. CASE UNCHANGED buf /\ mpc' = "exit"
      BY <1>13, <2>2, SamePlace DEF TypeOK, MainType, MainPc
    <2> QED
      BY <1>13, <2>1, <2>2 DEF PackoutEnd
  <1>14. CASE LldpReply
    <2>1. Head(buf).in_port \in Nat
      BY <1>1, <1>14, MessageFields DEF LldpReply, HandlerPc, Handled
    <2>2. sw_replys' \in Seq(Nat) /\ Len(sw_replys') = Len(sw_replys) + 1
      BY <1>14, <2>1, AppendProperties DEF LldpReply, TypeOK
    <2>3. MainType' /\ MessageInv' /\ SharedType'
      BY <1>13, <1>14 DEF LldpReply, Release, TypeOK, SharedType
    <2>4. TableType' /\ CursorType'
      BY <1>14, <2>2, LenProperties DEF LldpReply, TypeOK, TableType, CursorType, threads
    <2> QED
      BY <1>14, <2>3, <2>4, Untouched, TypePartsNext DEF LldpReply
  <1>15. CASE LldpNode
    <2>1. Head(buf).in_port \in Nat /\ Head(buf).node \in Nodes
      BY <1>1, <1>15, MessageFields DEF LldpNode, HandlerPc, Handled
    <2>2. [node_a |-> [datapath_id |-> switch_id, port_no |-> Head(buf).in_port],
           node_b |-> Head(buf).node] \in Link
      BY <2>1 DEF Link, Node, TypeOK
    <2>3. links' \in Seq(Link)
      BY <1>15, <2>2, AppendProperties DEF LldpNode, TypeOK
    <2>4. MainType' /\ MessageInv' /\ SharedType'
      BY <1>13, <1>15 DEF LldpNode, Release, TypeOK, SharedType
    <2>5. TableType'
      BY <1>15, <2>3 DEF LldpNode, TypeOK, TableType
    <2> QED
      BY <1>15, <2>4, <2>5, Untouched, TypePartsNext DEF LldpNode, threads
  <1>16. CASE JoinNoThread
    <2>1. MainType' /\ MessageInv'
      BY <1>16, SamePlace DEF JoinNoThread, TypeOK, MainType, MainPc
    <2> QED
      BY <1>16, <2>1, Untouched, TypePartsNext DEF JoinNoThread, tables, threads
  <1>17. CASE ExitFree
    <2>1. MainType' /\ MessageInv'
      BY <1>17, SamePlace DEF ExitFree, TypeOK, MainType
    <2>2. TableType'
      BY <1>17, EmptySeq DEF ExitFree, TypeOK, TableType
    <2>3. CursorType'
      <3>1. ASSUME current # 0 PROVE FALSE
        <4>1. PICK t \in Threads : tpc[t] = "announce"
          BY <3>1 DEF TypeOK
        <4>2. ThreadUses(t) = {"sw_replys"}
          BY <3>1, <4>1 DEF ThreadUses
        <4>3. sw_replys # <<>>
          BY <3>1, EmptySeq DEF TypeOK
        <4>4. "sw_replys" \in MainUses
          BY <1>17, <4>3 DEF ExitFree, MainUses, Both, Full
        <4> QED
          BY <1>17, <4>2, <4>4 DEF ExitFree, Runs, Race
      <3> QED
        BY <1>17, <3>1, EmptySeq DEF ExitFree, CursorType
    <2> QED
      BY <1>17, <2>1, <2>2, <2>3, Untouched, TypePartsNext DEF ExitFree
  <1>18. CASE MainLock
    <2>1. MainType' /\ MessageInv' /\ SharedType'
      BY <1>18 DEF MainLock, FeaturesLock, LldpLock, Acquire, TypeOK, MainType, SharedType, MainPc,
                   MessageInv, HandlerPc, WaitingPc, Handled
    <2> QED
      BY <1>18, <2>1, Untouched, TypePartsNext DEF MainLock, FeaturesLock, LldpLock, tables, threads
  <1>19. CASE AcceptFails
    <2>1. MainType' /\ MessageInv'
      BY <1>19, SamePlace DEF AcceptFails, TypeOK, MainType, MainPc
    <2> QED
      BY <1>19, <2>1, Untouched, TypePartsNext DEF AcceptFails, tables, threads
  <1>20. CASE Read
    <2>1. PICK n \in 1 .. Len(inq) :
             /\ Handle(IF cbench THEN SubSeq(inq, 1, n) ELSE <<Head(inq)>>)
             /\ inq' = SubSeq(inq, n + 1, Len(inq))
      BY <1>20 DEF Read
    <2>2. Len(inq) \in Nat /\ \A i \in 1 .. Len(inq) : inq[i] \in Message
      BY ElementOfSeq, LenProperties DEF TypeOK
    <2>3. SubSeq(inq, 1, n) \in Seq(Message) /\ inq' \in Seq(Message)
      BY <2>1, <2>2, SubSeqProperties
    <2>4. <<Head(inq)>> \in Seq(Message)
      <3>1. inq # <<>>
        BY <2>1, <2>2
      <3>2. Head(inq) \in Message
        BY <3>1, HeadTailProperties DEF TypeOK
      <3> QED
        BY <3>2
    <2>5. (IF cbench THEN SubSeq(inq, 1, n) ELSE <<Head(inq)>>) \in Seq(Message)
      BY <2>3, <2>4
    <2>6. buf' \in Seq(Message) /\ mpc' \in MainPc /\ MessageInv'
      BY <2>1, <2>5, HandleMessage DEF MessageInv
    <2>7. MainType' /\ NetType'
      BY <1>20, <2>3, <2>6 DEF Read, TypeOK, MainType, NetType
    <2> QED
      BY <1>20, <2>6, <2>7, Untouched, TypePartsNext DEF Read, tables, threads
  <1>21. CASE ReadFails
    <2>1. MainType' /\ MessageInv'
      BY <1>21 DEF ReadFails, TypeOK, MainType, MainPc, MessageInv, HandlerPc, WaitingPc
    <2>2. NetType' /\ TableType'
      BY <1>21, EmptySeq DEF ReadFails, TypeOK, NetType, TableType
    <2> QED
      BY <1>21, <2>1, <2>2, Untouched, TypePartsNext DEF ReadFails, threads
  <1>22. ASSUME NEW s \in Switches, Accept(s) \/ Reconnect(s) PROVE TypeOK' /\ MessageInv'
    <2>1. Hello \in Message
      BY DEF Message
    <2>2. <<>> \in Seq(Message) /\ <<Hello>> \in Seq(Message)
      BY <2>1
    <2>3. PICK msgs \in {<<>>, <<Hello>>} : Handle(msgs)
      BY <1>22 DEF Accept, Reconnect
    <2>4. buf' \in Seq(Message) /\ mpc' \in MainPc /\ MessageInv'
      BY <2>2, <2>3, HandleMessage DEF MessageInv
    <2>5. /\ sw_sockfd' \in Nat /\ conn' \in Nat /\ peer' = "open" /\ sw' \in Switches /\ pend' \in Nat
          /\ UNCHANGED <<proc, masked, cbench, write_buffer_len, sent>>
      BY <1>22 DEF Accept, Reconnect, Connected, TypeOK
    <2>6. inq' \in Seq(Message)
      BY <1>22, <2>2 DEF Accept, Reconnect, Connected
    <2>7. MainType'
      BY <2>4, <2>5 DEF TypeOK, MainType
    <2>8. NetType'
      BY <2>5, <2>6 DEF TypeOK, NetType
    <2> QED
      BY <1>22, <2>4, <2>7, <2>8, Untouched, TypePartsNext DEF Accept, Reconnect, tables, threads
  <1> QED
    BY <1>2, <1>3, <1>4, <1>5, <1>6, <1>7, <1>8, <1>9, <1>10, <1>11, <1>12, <1>14, <1>15,
       <1>16, <1>17, <1>18, <1>19, <1>20, <1>21, <1>22 DEF MainHandler, MainIO

(* Only a thread that announces has a cursor in sw_replys. *)
LEMMA CursorKept ==
    ASSUME TypeOK, NEW t \in Threads, NEW to, UNCHANGED <<current, sw_replys>>, Goto(t, to),
           tpc[t] # "announce" \/ current = 0
    PROVE  CursorType'
  <1>1. tpc' = [tpc EXCEPT ![t] = to] /\ current' = current /\ sw_replys' = sw_replys
    BY DEF Goto
  <1>2. ASSUME NEW u \in Threads, tpc[u] = "announce", current # 0 PROVE tpc'[u] = "announce"
    BY <1>1, <1>2 DEF TypeOK
  <1> QED
    BY <1>1, <1>2 DEF TypeOK, CursorType

LEMMA NextReplyInRange ==
    ASSUME TypeOK, NextReply
    PROVE  current' \in 0 .. Len(sw_replys)
  BY LenProperties DEF TypeOK, NextReply

(* A thread that takes links_mutex. *)
LEMMA LockTypes ==
    ASSUME TypeInv, NEW t \in Threads, ThreadLock(t)
    PROVE  TypeOK' /\ MessageInv'
  <1> USE DEF TypeInv
  <1>1. PICK from \in ThreadPc \ {"announce"}, to \in Holding : LockAndGo(t, from, to)
    BY DEF ThreadLock, RoundLock, AnnounceLock, WaitLock, ReportLock, Holding, ThreadPc
  <1>2. /\ UNCHANGED <<main, net>> /\ Goto(t, to) /\ tpc[t] # "announce"
        /\ UNCHANGED <<no_of_ports, switch_id, node_send_thread, anim_node_counter, ports_count, portno>>
        /\ links_mutex' = t
    BY <1>1 DEF LockAndGo, ThreadAt, Acquire
  <1>3. SharedType'
    BY <1>2 DEF TypeOK, SharedType
  <1>4. ThreadType'
    BY <1>2 DEF Goto, TypeOK, ThreadType, Holding, ThreadPc
  <1>5. MessageInv'
    BY <1>2 DEF main, MessageInv
  <1>6. CASE UNCHANGED tables
    <2>1. CursorType'
      BY <1>2, <1>6, CursorKept DEF tables
    <2> QED
      BY <1>2, <1>3, <1>4, <1>5, <1>6, <2>1, Untouched, TypePartsNext
  <1>7. CASE AnnounceLock(t)
    <2>1. TableType'
      BY <1>7 DEF AnnounceLock, TypeOK, TableType
    <2>2. tpc'[t] = "announce"
      BY <1>7 DEF AnnounceLock, LockAndGo, Goto, TypeOK
    <2>3. CursorType'
      BY <1>7, <2>2, NextReplyInRange DEF AnnounceLock, CursorType
    <2> QED
      BY <1>2, <1>3, <1>4, <1>5, <2>1, <2>3, Untouched, TypePartsNext
  <1> QED
    BY <1>6, <1>7 DEF ThreadLock, RoundLock, WaitLock, ReportLock

LEMMA SendTypes ==
    ASSUME TypeOK, MessageInv, ThreadSend
    PROVE  MainType' /\ NetType' /\ MessageInv'
  <1>1. proc' \in {proc, "killed"} /\ UNCHANGED <<mpc, buf, masked, cbench, write_buffer_len, sw_sockfd, net>>
    BY DEF ThreadSend, SigPipe
  <1> QED
    BY <1>1, Untouched DEF TypeOK, MainType, MessageInv

LEMMA ThreadTypes ==
    ASSUME TypeInv, NEW t \in Threads, ThreadStep(t)
    PROVE  TypeOK' /\ MessageInv'
  <1> USE DEF TypeInv, ThreadAt
  <1>1. ASSUME UNCHANGED main PROVE MessageInv'
    BY <1>1 DEF main, MessageInv
  <1>2. ASSUME NEW to \in ThreadPc, Goto(t, to) PROVE tpc' \in [Threads -> ThreadPc]
    BY <1>2 DEF Goto, TypeOK
  <1>3. CASE RoundStart(t)
    <2>1. SharedType' /\ ThreadType'
      BY <1>2, <1>3 DEF RoundStart, Release, TypeOK, SharedType, ThreadType, ThreadPc
    <2>2. CursorType'
      BY <1>3, CursorKept DEF RoundStart, tables
    <2> QED
      BY <1>1, <1>3, <2>1, <2>2, Untouched, TypePartsNext DEF RoundStart
  <1>4. CASE Probe(t)
    <2>1. ThreadType'
      BY <1>4 DEF Probe, TypeOK, ThreadType
    <2>2. MainType' /\ NetType' /\ MessageInv'
      BY <1>4, SendTypes DEF Probe
    <2> QED
      BY <1>4, <2>1, <2>2, Untouched, TypePartsNext DEF Probe, tables
  <1>5. CASE ProbeEnd(t)
    <2>1. ThreadType'
      BY <1>2, <1>5 DEF ProbeEnd, TypeOK, ThreadType, ThreadPc
    <2>2. CursorType'
      BY <1>5, CursorKept DEF ProbeEnd, tables
    <2> QED
      BY <1>1, <1>5, <2>1, <2>2, Untouched, TypePartsNext DEF ProbeEnd
  <1>6. CASE Announce(t)
    <2>1. MainType' /\ NetType' /\ MessageInv'
      BY <1>6, SendTypes DEF Announce
    <2>2. TableType'
      BY <1>6 DEF Announce, TypeOK, TableType
    <2>3. CursorType'
      BY <1>6, NextReplyInRange DEF Announce, CursorType, threads
    <2> QED
      BY <1>6, <2>1, <2>2, <2>3, Untouched, TypePartsNext DEF Announce
  <1>7. CASE AnnounceEnd(t)
    <2>1. SharedType' /\ ThreadType'
      BY <1>2, <1>7 DEF AnnounceEnd, Release, TypeOK, SharedType, ThreadType, ThreadPc
    <2>2. CursorType'
      BY <1>7, CursorKept DEF AnnounceEnd, tables
    <2> QED
      BY <1>1, <1>7, <2>1, <2>2, Untouched, TypePartsNext DEF AnnounceEnd
  <1>8. CASE Wait(t)
    <2>1. SharedType' /\ ThreadType'
      BY <1>2, <1>8 DEF Wait, Release, TypeOK, SharedType, ThreadType, ThreadPc
    <2>2. CursorType'
      BY <1>8, CursorKept DEF Wait, tables
    <2> QED
      BY <1>1, <1>8, <2>1, <2>2, Untouched, TypePartsNext DEF Wait
  <1>9. CASE WaitEnd(t)
    <2>1. SharedType' /\ ThreadType'
      BY <1>2, <1>9 DEF WaitEnd, Release, TypeOK, SharedType, ThreadType, ThreadPc
    <2>2. CursorType'
      BY <1>9, CursorKept DEF WaitEnd, tables
    <2> QED
      BY <1>1, <1>9, <2>1, <2>2, Untouched, TypePartsNext DEF WaitEnd
  <1>10. CASE Report(t)
    <2>1. printed' \in Seq(Link)
      BY <1>10, ConcatProperties DEF Report, TypeOK
    <2>2. TableType' /\ ThreadType'
      BY <1>2, <1>10, <2>1 DEF Report, TypeOK, TableType, ThreadType, ThreadPc
    <2>3. CursorType'
      BY <1>10, CursorKept DEF Report
    <2> QED
      BY <1>1, <1>10, <2>2, <2>3, Untouched, TypePartsNext DEF Report
  <1>11. CASE ReportFree(t)
    <2>1. SharedType' /\ ThreadType'
      BY <1>2, <1>11 DEF ReportFree, Release, TypeOK, SharedType, ThreadType, ThreadPc
    <2>2. TableType'
      BY <1>11, EmptySeq DEF ReportFree, TypeOK, TableType
    <2>3. \A u \in Threads : tpc[u] # "announce"
      BY <1>11 DEF ReportFree, MutexInv, MutexDiscipline, Holding
    <2>4. CursorType'
      BY <1>11, <2>3, EmptySeq DEF ReportFree, TypeOK, CursorType
    <2> QED
      BY <1>1, <1>11, <2>1, <2>2, <2>4, Untouched, TypePartsNext DEF ReportFree
  <1> QED
    BY <1>3, <1>4, <1>5, <1>6, <1>7, <1>8, <1>9, <1>10, <1>11 DEF ThreadStep

LEMMA EnvironmentTypes ==
    ASSUME TypeInv, Undefined \/ Environment \/ UNCHANGED vars
    PROVE  TypeOK' /\ MessageInv'
  <1> USE DEF TypeInv
  <1>1. CASE Undefined
    <2>1. MainType' /\ MessageInv'
      BY <1>1 DEF Undefined, TypeOK, MainType, MessageInv
    <2> QED
      BY <1>1, <2>1, Untouched, TypePartsNext DEF Undefined, tables, threads
  <1>2. CASE SwitchFeatures
    <2>1. inq' \in Seq(Message)
      <3>1. Features(sw) \in Message
        BY DEF Message, TypeOK
      <3> QED
        BY <1>2, <3>1, AppendProperties DEF SwitchFeatures, TypeOK
    <2>2. NetType'
      BY <1>2, <2>1 DEF SwitchFeatures, TypeOK, NetType
    <2>3. MessageInv'
      BY <1>2 DEF SwitchFeatures, main, MessageInv
    <2> QED
      BY <1>2, <2>2, <2>3, Untouched, TypePartsNext DEF SwitchFeatures, tables, threads
  <1>3. ASSUME NEW m \in Traffic, SwitchSends(m) PROVE TypeOK' /\ MessageInv'
    <2>1. m \in Message
      BY ControllerAssumption DEF Message
    <2>2. inq' \in Seq(Message)
      BY <1>3, <2>1, AppendProperties DEF SwitchSends, TypeOK
    <2>3. NetType'
      BY <1>3, <2>2 DEF SwitchSends, TypeOK, NetType
    <2>4. MessageInv'
      BY <1>3 DEF SwitchSends, main, MessageInv
    <2> QED
      BY <1>3, <2>3, <2>4, Untouched, TypePartsNext DEF SwitchSends, tables, threads
  <1>4. CASE SwitchDies
    <2>1. NetType' /\ MessageInv'
      BY <1>4 DEF SwitchDies, main, TypeOK, NetType, MessageInv
    <2> QED
      BY <1>4, <2>1, Untouched, TypePartsNext DEF SwitchDies, tables, threads
  <1>5. ASSUME NEW s \in Signals, Signal(s) PROVE TypeOK' /\ MessageInv'
    <2>1. /\ proc' \in {proc, "killed", "ended", "undefined"} /\ mpc' \in {mpc, "exit"}
          /\ masked' \in {masked, masked \cup {s}} /\ UNCHANGED <<buf, cbench, write_buffer_len, sw_sockfd>>
      BY <1>5 DEF Signal
    <2>2. MainType' /\ MessageInv'
      BY <2>1, SamePlace DEF TypeOK, MainType, MainPc
    <2> QED
      BY <1>5, <2>2, Untouched, TypePartsNext DEF Signal, tables, threads
  <1>6. CASE UNCHANGED vars
    BY <1>6, Untouched, TypePartsNext DEF vars, main, tables, threads, MessageInv
  <1> QED
    BY <1>1, <1>2, <1>3, <1>4, <1>5, <1>6 DEF Environment

LEMMA TypeInitially == Init => TypeInv
  <1> SUFFICES ASSUME Init PROVE TypeOK /\ MessageInv
    BY MutexInitially DEF TypeInv
  <1>1. <<>> \in Seq(Message) /\ <<>> \in Seq(Host) /\ <<>> \in Seq(Node) /\ <<>> \in Seq(Link) /\ <<>> \in Seq(Nat)
    BY EmptySeq
  <1>2. MainType /\ NetType /\ SharedType /\ TableType /\ CursorType /\ ThreadType
    BY <1>1, EmptySeq
    DEF Init, MainType, MainPc, NetType, SharedType, TableType, CursorType, ThreadType, ThreadPc
  <1>3. MessageInv
    BY DEF Init, MessageInv, HandlerPc, WaitingPc
  <1> QED
    BY <1>2, <1>3, TypeParts

LEMMA TypeInductive == TypeInv /\ [Next]_vars => TypeInv'
  <1> SUFFICES ASSUME TypeInv, [Next]_vars PROVE TypeOK' /\ MessageInv'
    BY MutexInductive DEF TypeInv
  <1> QED
    BY MainTypes, LockTypes, ThreadTypes, EnvironmentTypes DEF Next

(* The controller keeps its types, and a walk over sw_replys is always     *)
(* rewound before another thread starts one (_con.cpp:800-821).            *)
THEOREM ControllerTypeCorrect == Spec => []TypeOK
<1>1. TypeInv => TypeOK
  BY DEF TypeInv
<1> QED
  BY TypeInitially, TypeInductive, <1>1, PTL DEF Spec

----------------------------------------------------------------------------
(* The sessions of the controller: what belongs to the connected switch    *)
(* and to nobody else, why a healthy session is not left, and that links   *)
(* is the atomic table of LinkTable.                                       *)

(* What a switch s may have sent. *)
SwitchMessage(s) == {Hello, Features(s)} \cup TrafficMessage

(* The messages that start a session: the hello, which brings a features   *)
(* request, and the features reply, which brings a sharing thread.         *)
Starts(m) == m.type \in {"hello", "features"}
NoStart(msgs) == \A i \in DOMAIN msgs : ~Starts(msgs[i])
OneStart(msgs) == \A i, j \in DOMAIN msgs : Starts(msgs[i]) /\ Starts(msgs[j]) => i = j

(* The messages of buf that still have to be handled. *)
ToHandle ==
    IF mpc = "features_config" THEN Tail(buf)
    ELSE IF mpc \in {"exit", "exit_free"} THEN <<>>
    ELSE buf

Started == pend = 0 /\ NoStart(inq) /\ NoStart(ToHandle)

(* No connection, no messages.                                             *)
SocketInv ==
    /\ mpc = "start" => /\ sw_sockfd = 0 /\ conn = 0 /\ peer = "none" /\ inq = <<>> /\ pend = 0
                        /\ Sharing = {} /\ ports = <<>>
    /\ mpc \in {"reconnect_links", "reconnect_replys", "reconnect"} =>
          sw_sockfd = 0 /\ peer = "gone" /\ inq = <<>> /\ ports = <<>>
    /\ mpc \notin {"start", "exit", "exit_free"} => conn # 0

FromSwitch == buf \in Seq(SwitchMessage(sw)) /\ inq \in Seq(SwitchMessage(sw))

(* In the first connection, and with -c in every connection, a session is  *)
(* started once: a hello, a request owed or a features reply are about, or *)
(* the session is started.                                                 *)
StartInv ==
    conn = 1 \/ cbench =>
        /\ pend \in {0, 1} /\ OneStart(inq) /\ OneStart(ToHandle)
        /\ pend = 1 => NoStart(inq) /\ NoStart(ToHandle)
        /\ NoStart(inq) \/ NoStart(ToHandle)
        /\ ports # <<>> => Started
        /\ Cardinality(Sharing) <= conn
        /\ ~Started => Cardinality(Sharing) < conn

SessionInv == SocketInv /\ FromSwitch /\ StartInv /\ PortsOfThisSwitch /\ IsFiniteSet(Sharing)

LEMMA SwitchMessages ==
    ASSUME TypeOK
    PROVE  /\ Hello \in SwitchMessage(sw) /\ Features(sw) \in SwitchMessage(sw)
           /\ Traffic \subseteq SwitchMessage(sw) /\ \A m \in Traffic : ~Starts(m)
           /\ \A m \in SwitchMessage(sw) : m.type = "features" => m = Features(sw)
  <1>1. \A m \in TrafficMessage : m.type \notin {"hello", "features"}
    BY DEF TrafficMessage
  <1>2. Hello.type = "hello"
    BY DEF Hello
  <1> QED
    BY <1>1, <1>2, ControllerAssumption DEF SwitchMessage, Starts

LEMMA TailStarts ==
    ASSUME NEW S, NEW msgs \in Seq(S), msgs # <<>>
    PROVE  /\ NoStart(msgs) => NoStart(Tail(msgs)) /\ ~Starts(Head(msgs))
           /\ OneStart(msgs) => OneStart(Tail(msgs))
           /\ OneStart(msgs) /\ Starts(Head(msgs)) => NoStart(Tail(msgs))
  <1>1. /\ Tail(msgs) \in Seq(S) /\ Len(Tail(msgs)) = Len(msgs) - 1
        /\ \A i \in 1 .. Len(Tail(msgs)) : Tail(msgs)[i] = msgs[i + 1]
    BY HeadTailProperties
  <1>2. Len(msgs) \in Nat \ {0} /\ DOMAIN msgs = 1 .. Len(msgs) /\ DOMAIN Tail(msgs) = 1 .. Len(msgs) - 1
    BY <1>1, LenProperties, EmptySeq
  <1>3. Head(msgs) = msgs[1]
    BY <1>2
  <1> HIDE DEF Starts
  <1>4. \A i \in DOMAIN Tail(msgs) : i + 1 \in DOMAIN msgs /\ Tail(msgs)[i] = msgs[i + 1] /\ i + 1 # 1 /\ i \in Int
    BY <1>1, <1>2
  <1>5. 1 \in DOMAIN msgs
    BY <1>2
  <1>6. NoStart(msgs) => NoStart(Tail(msgs)) /\ ~Starts(Head(msgs))
    BY <1>3, <1>4, <1>5 DEF NoStart
  <1>7. OneStart(msgs) => OneStart(Tail(msgs))
    BY <1>4 DEF OneStart
  <1>8. OneStart(msgs) /\ Starts(Head(msgs)) => NoStart(Tail(msgs))
    BY <1>3, <1>4, <1>5 DEF OneStart, NoStart
  <1> QED
    BY <1>6, <1>7, <1>8

LEMMA AppendStarts ==
    ASSUME NEW S, NEW msgs \in Seq(S), NEW m \in S
    PROVE  /\ NoStart(msgs) => OneStart(Append(msgs, m))
           /\ NoStart(msgs) /\ ~Starts(m) => NoStart(Append(msgs, m))
           /\ OneStart(msgs) /\ ~Starts(m) => OneStart(Append(msgs, m))
  <1> DEFINE more == Append(msgs, m)
  <1>1. /\ DOMAIN msgs = 1 .. Len(msgs) /\ Len(msgs) \in Nat
        /\ DOMAIN more = 1 .. Len(msgs) + 1
        /\ \A i \in 1 .. Len(msgs) : more[i] = msgs[i]
        /\ more[Len(msgs) + 1] = m
    BY AppendProperties, LenProperties
  <1>2. \A i \in DOMAIN more : (i \in DOMAIN msgs /\ more[i] = msgs[i]) \/ (i = Len(msgs) + 1 /\ more[i] = m)
    BY <1>1
  <1> HIDE DEF more
  <1> QED
    BY <1>2 DEF NoStart, OneStart, more

LEMMA SplitStarts ==
    ASSUME NEW S, NEW msgs \in Seq(S), NEW n \in 1 .. Len(msgs), NEW first,
           first \in {SubSeq(msgs, 1, n), <<Head(msgs)>>}
    PROVE  LET rest == SubSeq(msgs, n + 1, Len(msgs))
           IN  /\ first \in Seq(S) /\ rest \in Seq(S) /\ first # <<>> /\ Head(first) = Head(msgs)
               /\ NoStart(msgs) => NoStart(first) /\ NoStart(rest)
               /\ OneStart(msgs) => /\ OneStart(first) /\ OneStart(rest)
                                    /\ NoStart(first) \/ NoStart(rest)
  <1> DEFINE rest == SubSeq(msgs, n + 1, Len(msgs))
  <1>1. /\ DOMAIN msgs = 1 .. Len(msgs) /\ Len(msgs) \in Nat
        /\ \A i \in 1 .. Len(msgs) : msgs[i] \in S
    BY LenProperties, ElementOfSeq
  <1>2. /\ rest \in Seq(S) /\ Len(rest) = Len(msgs) - n
        /\ \A i \in 1 .. Len(msgs) - n : rest[i] = msgs[n + i]
    <2>1. n + 1 \in Int /\ Len(msgs) \in Int /\ \A i \in (n + 1) .. Len(msgs) : msgs[i] \in S
      BY <1>1
    <2>2. /\ rest \in Seq(S) /\ Len(rest) = IF n + 1 <= Len(msgs) THEN Len(msgs) - (n + 1) + 1 ELSE 0
          /\ \A i \in 1 .. Len(msgs) - (n + 1) + 1 : rest[i] = msgs[(n + 1) + i - 1]
      BY <2>1, SubSeqProperties
    <2> HIDE DEF rest
    <2>3. Len(msgs) - (n + 1) + 1 = Len(msgs) - n /\ \A i \in 1 .. Len(msgs) - n : (n + 1) + i - 1 = n + i
      BY <1>1
    <2>4. n \in Nat /\ Len(msgs) \in Nat /\ n <= Len(msgs)
      BY <1>1
    <2>5. Len(rest) = Len(msgs) - n
      BY <2>2, <2>4
    <2>6. \A i \in 1 .. Len(msgs) - n : rest[i] = msgs[n + i]
      BY <2>2, <2>3
    <2> QED
      BY <2>2, <2>5, <2>6
  <1>3. \A i \in DOMAIN rest : n + i \in DOMAIN msgs /\ n + i > n /\ rest[i] = msgs[n + i] /\ i \in Int
    BY <1>1, <1>2, LenProperties
  <1>4. /\ first \in Seq(S) /\ first # <<>> /\ Head(first) = msgs[1]
        /\ \A i \in DOMAIN first : i \in 1 .. n /\ first[i] = msgs[i]
    <2>1. CASE first = SubSeq(msgs, 1, n)
      <3>1. /\ first \in Seq(S) /\ Len(first) = n
            /\ \A i \in 1 .. n : first[i] = msgs[i]
        BY <1>1, <2>1, SubSeqProperties
      <3>2. DOMAIN first = 1 .. n /\ first # <<>>
        BY <3>1, LenProperties, EmptySeq
      <3>3. Head(first) = first[1]
        BY <3>1, <3>2
      <3> QED
        BY <3>1, <3>2, <3>3
    <2>2. CASE first = <<Head(msgs)>>
      <3>1. Head(msgs) = msgs[1]
        BY <1>1
      <3>2. first = <<msgs[1]>> /\ msgs[1] \in S
        BY <1>1, <2>2, <3>1
      <3> QED
        BY <3>2
    <2> QED
      BY <2>1, <2>2
  <1>5. Head(msgs) = msgs[1]
    BY <1>1
  <1> HIDE DEF rest, Starts
  <1>6. NoStart(msgs) => NoStart(first) /\ NoStart(rest)
    BY <1>1, <1>3, <1>4 DEF NoStart
  <1>7. OneStart(msgs) => OneStart(first) /\ OneStart(rest)
    BY <1>1, <1>3, <1>4 DEF OneStart
  <1>8. OneStart(msgs) => NoStart(first) \/ NoStart(rest)
    BY <1>1, <1>3, <1>4 DEF OneStart, NoStart
  <1> QED
    BY <1>2, <1>4, <1>5, <1>6, <1>7, <1>8 DEF rest

(* A step of the main thread that neither reads nor connects handles the   *)
(* next message, leaves for exit, stays, or goes on where it is.           *)
Proceeds ==
    \/ buf # <<>> /\ mpc \notin {"exit", "exit_free"} /\ Done
    \/ UNCHANGED buf /\ mpc' \in {"exit", "exit_free"}
    \/ UNCHANGED <<buf, mpc>>
    \/ /\ UNCHANGED buf
       /\ <<mpc, mpc'>> \in {<<"hello", "hello_features">>, <<"features_lock", "features">>,
                             <<"lldp_lock", "lldp">>, <<"reconnect_links", "reconnect_replys">>,
                             <<"reconnect_replys", "reconnect">>}

LEMMA ToHandleKept ==
    ASSUME TypeInv, FromSwitch, Proceeds, UNCHANGED sw
    PROVE  /\ buf' \in Seq(SwitchMessage(sw))
           /\ NoStart(ToHandle) => NoStart(ToHandle)'
           /\ OneStart(ToHandle) => OneStart(ToHandle)'
           /\ mpc' = "start" => mpc = "start"
           /\ mpc' \notin {"start", "exit", "exit_free"} => mpc \notin {"start", "exit", "exit_free"}
           /\ mpc' \in {"reconnect_links", "reconnect_replys", "reconnect"} =>
                 mpc \in {"reconnect_links", "reconnect_replys", "reconnect"}
  <1>1. CASE buf # <<>> /\ mpc \notin {"exit", "exit_free"} /\ Done
    <2>1. /\ buf' = Tail(buf)
          /\ mpc' \in {"recv", "hello", "features_lock", "data", "lldp_lock", "echo", "other"}
      BY <1>1, DoneMessage DEF TypeInv
    <2>2. Tail(buf) \in Seq(SwitchMessage(sw))
      BY <1>1, HeadTailProperties DEF FromSwitch
    <2>3. ToHandle' = Tail(buf)
      BY <2>1 DEF ToHandle
    <2>4. ToHandle \in {buf, Tail(buf)}
      BY <1>1 DEF ToHandle
    <2>5. /\ NoStart(buf) => NoStart(Tail(buf))
          /\ OneStart(buf) => OneStart(Tail(buf))
      BY <1>1, TailStarts DEF FromSwitch
    <2>6. /\ NoStart(ToHandle) => NoStart(Tail(buf))
          /\ OneStart(ToHandle) => OneStart(Tail(buf))
      BY <2>4, <2>5
    <2>7. NoStart(ToHandle)' = NoStart(Tail(buf)) /\ OneStart(ToHandle)' = OneStart(Tail(buf))
      BY <2>3 DEF NoStart, OneStart
    <2>8. mpc # "start"
      BY <1>1 DEF TypeInv, MessageInv, WaitingPc
    <2> QED
      BY <1>1, <2>1, <2>2, <2>6, <2>7, <2>8
  <1>2. CASE UNCHANGED buf /\ mpc' \in {"exit", "exit_free"}
    <2>1. ToHandle' = <<>>
      BY <1>2 DEF ToHandle
    <2>2. NoStart(ToHandle)' /\ OneStart(ToHandle)'
      BY <2>1 DEF NoStart, OneStart
    <2> QED
      BY <1>2, <2>2 DEF FromSwitch
  <1>3. CASE UNCHANGED buf /\ mpc' \notin {"exit", "exit_free"} /\ ~(buf # <<>> /\ mpc \notin {"exit", "exit_free"} /\ Done)
    <2>1. /\ mpc' = mpc \/ /\ mpc \notin {"features_config", "exit", "exit_free"}
                           /\ mpc # "start" /\ mpc' \notin {"features_config", "start"}
          /\ mpc' \in {"reconnect_links", "reconnect_replys", "reconnect"} =>
                 mpc \in {"reconnect_links", "reconnect_replys", "reconnect"}
      BY <1>3 DEF Proceeds
    <2>2. ToHandle' = ToHandle
      BY <1>3, <2>1 DEF ToHandle
    <2>3. NoStart(ToHandle)' = NoStart(ToHandle) /\ OneStart(ToHandle)' = OneStart(ToHandle)
      BY <2>2 DEF NoStart, OneStart
    <2> QED
      BY <1>3, <2>1, <2>3 DEF FromSwitch
  <1> QED
    BY <1>1, <1>2, <1>3 DEF Proceeds

(* Such a step keeps what is known of the session, if the messages in      *)
(* flight stay and no thread is created.                                   *)
LEMMA QuietSession ==
    ASSUME TypeInv, SessionInv, Proceeds,
           UNCHANGED <<cbench, conn, peer, sw, pend, inq, Sharing>>,
           sw_sockfd' \in {sw_sockfd, 0}, ports' \in {ports, <<>>}
    PROVE  SessionInv'
  <1> USE DEF SessionInv
  <1>1. /\ buf' \in Seq(SwitchMessage(sw))
        /\ NoStart(ToHandle) => NoStart(ToHandle)'
        /\ OneStart(ToHandle) => OneStart(ToHandle)'
        /\ mpc' = "start" => mpc = "start"
        /\ mpc' \notin {"start", "exit", "exit_free"} => mpc \notin {"start", "exit", "exit_free"}
        /\ mpc' \in {"reconnect_links", "reconnect_replys", "reconnect"} =>
              mpc \in {"reconnect_links", "reconnect_replys", "reconnect"}
    BY ToHandleKept
  <1>2. SocketInv'
    BY <1>1 DEF SocketInv
  <1>3. FromSwitch'
    BY <1>1 DEF FromSwitch
  <1>4. NoStart(inq)' = NoStart(inq) /\ OneStart(inq)' = OneStart(inq)
    BY DEF NoStart, OneStart
  <1>5. StartInv'
    <2> SUFFICES ASSUME conn = 1 \/ cbench PROVE StartInv'
      BY DEF StartInv
    <2>1. Started => Started'
      BY <1>1, <1>4 DEF Started
    <2> QED
      BY <1>1, <1>4, <2>1 DEF StartInv
  <1>6. PortsOfThisSwitch'
    <2>1. CASE ports' = ports
      BY <2>1 DEF PortsOfThisSwitch
    <2>2. CASE ports' = <<>>
      <3>1. PortsOf[sw] \in Seq(Nat)
        BY ControllerAssumption DEF TypeInv, TypeOK
      <3> QED
        BY <2>2, <3>1, LenProperties, EmptySeq DEF PortsOfThisSwitch
    <2> QED
      BY <2>1, <2>2
  <1> QED
    BY <1>2, <1>3, <1>5, <1>6

LEMMA HandlerSession ==
    ASSUME TypeInv, SessionInv, MainHandler \/ MainLock \/ AcceptFails
    PROVE  SessionInv'
  <1> USE DEF At
  <1>1. mpc \in HandlerPc => buf # <<>> /\ mpc \notin {"exit", "exit_free"}
    BY DEF TypeInv, MessageInv, HandlerPc
  <1>2. UNCHANGED tpc => UNCHANGED Sharing
    BY DEF Sharing
  <1>3. CASE ReconnectLinks \/ ReconnectReplys \/ AcceptFails \/ MainLock \/ JoinNoThread
    <2>1. Proceeds
      BY <1>3 DEF ReconnectLinks, ReconnectReplys, AcceptFails, MainLock, FeaturesLock, LldpLock,
                  JoinNoThread, Proceeds
    <2>2. UNCHANGED <<cbench, conn, peer, sw, pend, inq, tpc, sw_sockfd, ports>>
      BY <1>3 DEF ReconnectLinks, ReconnectReplys, AcceptFails, MainLock, FeaturesLock, LldpLock,
                  JoinNoThread, net, tables, threads
    <2> QED
      BY <1>2, <2>1, <2>2, QuietSession
  <1>4. CASE ActionHello \/ ActionEcho \/ FeaturesConfig
    <2>1. Proceeds
      BY <1>1, <1>4 DEF ActionHello, ActionEcho, FeaturesConfig, MainSends, SendUndefined, SendEnds,
                        SigPipe, Proceeds, HandlerPc
    <2>2. UNCHANGED <<cbench, conn, peer, sw, pend, inq, tpc, sw_sockfd, ports>>
      BY <1>4 DEF ActionHello, ActionEcho, FeaturesConfig, MainSends, SendUndefined, SendEnds,
                  SigPipe, tables, threads
    <2> QED
      BY <1>2, <2>1, <2>2, QuietSession
  <1>5. CASE ActionOther \/ FeaturesNoPorts \/ ActionPackout
    <2>1. Proceeds
      BY <1>1, <1>5
      DEF ActionOther, FeaturesNoPorts, ActionPackout, PackoutEnd, MainSends, SendEnds,
                        SigPipe, Proceeds, HandlerPc
    <2>2. UNCHANGED <<cbench, conn, peer, sw, pend, inq, tpc, sw_sockfd, ports>>
      BY <1>5
      DEF ActionOther, FeaturesNoPorts, ActionPackout, MainSends, SendEnds, net, tables, threads
    <2> QED
      BY <1>2, <2>1, <2>2, QuietSession
  <1>6. CASE LldpRequest \/ LldpReply \/ LldpNode
    <2>1. Proceeds
      BY <1>1, <1>6 DEF LldpRequest, LldpReply, LldpNode, PackoutEnd, SigPipe, Proceeds, HandlerPc
    <2>2. UNCHANGED <<cbench, conn, peer, sw, pend, inq, tpc, sw_sockfd, ports>>
      BY <1>6 DEF LldpRequest, LldpReply, LldpNode, net, tables, threads
    <2> QED
      BY <1>2, <2>1, <2>2, QuietSession
  <1>7. CASE ExitFree
    <2>1. Proceeds
      BY <1>7 DEF ExitFree, Proceeds
    <2>2. UNCHANGED <<cbench, conn, peer, sw, pend, inq, tpc>> /\ sw_sockfd' = 0 /\ ports' = <<>>
      BY <1>7 DEF ExitFree, net, threads
    <2> QED
      BY <1>2, <2>1, <2>2, QuietSession
  <1>8. CASE HelloFeatures
    <2>1. UNCHANGED <<cbench, conn, peer, sw, inq, tpc, sw_sockfd, ports>>
      BY <1>8 DEF HelloFeatures, tables, threads
    <2>2. CASE UNCHANGED pend
      <3>1. Proceeds
        BY <1>1, <1>8, <2>2
        DEF HelloFeatures, MainSends, SendUndefined, SendEnds, SigPipe, Proceeds, HandlerPc
      <3> QED
        BY <1>2, <2>1, <2>2, <3>1, QuietSession
    <2>3. CASE pend' = pend + 1 /\ Done
      <3>1. /\ buf # <<>> /\ Starts(Head(buf)) /\ mpc = "hello_features"
        BY <1>8 DEF HelloFeatures, TypeInv, MessageInv, HandlerPc, Handled, Starts
      <3>2. Proceeds
        BY <2>3, <3>1 DEF Proceeds
      <3>3. /\ buf' \in Seq(SwitchMessage(sw)) /\ mpc' # "start"
            /\ mpc' \notin {"reconnect_links", "reconnect_replys", "reconnect"}
        BY <2>1, <3>1, <3>2, ToHandleKept DEF SessionInv
      <3>4. buf' = Tail(buf) /\ ToHandle = buf /\ ToHandle' = Tail(buf)
        <4>1. buf' = Tail(buf) /\ mpc' \notin {"features_config", "exit", "exit_free"}
          BY <2>3, <3>1, DoneMessage DEF TypeInv
        <4> QED
          BY <3>1, <4>1 DEF ToHandle
      <3>5. SocketInv'
        BY <2>1, <3>1, <3>3 DEF SessionInv, SocketInv
      <3>6. FromSwitch' /\ PortsOfThisSwitch' /\ IsFiniteSet(Sharing)'
        BY <1>2, <2>1, <3>3 DEF SessionInv, FromSwitch, PortsOfThisSwitch
      <3>7. StartInv'
        <4> SUFFICES ASSUME conn = 1 \/ cbench PROVE StartInv'
          BY <2>1 DEF StartInv
        <4>1. OneStart(ToHandle) /\ ~NoStart(ToHandle)
          BY <3>1, <3>4, TailStarts DEF SessionInv, StartInv, FromSwitch
        <4>2. NoStart(Tail(buf))
          BY <3>1, <3>4, <4>1, TailStarts DEF SessionInv, FromSwitch
        <4>3. NoStart(ToHandle)' /\ OneStart(ToHandle)'
          BY <3>4, <4>2 DEF NoStart, OneStart
        <4>4. NoStart(inq) /\ pend = 0 /\ ports = <<>> /\ Cardinality(Sharing) < conn
          BY <4>1 DEF SessionInv, StartInv, Started
        <4>5. NoStart(inq)' /\ OneStart(inq)' /\ pend' = 1
          BY <2>1, <2>3, <4>4 DEF NoStart, OneStart, SessionInv, StartInv
        <4>6. ports' = <<>> /\ Sharing' = Sharing /\ conn' = conn /\ cbench' = cbench
          BY <1>2, <2>1, <4>4
        <4>7. Cardinality(Sharing) <= conn
          BY DEF SessionInv, StartInv
        <4> QED
          BY <4>3, <4>4, <4>5, <4>6, <4>7 DEF StartInv
      <3> QED
        BY <3>5, <3>6, <3>7 DEF SessionInv
    <2> QED
      BY <1>8, <2>2, <2>3 DEF HelloFeatures, MainSends, SendUndefined, SendEnds
  <1>9. CASE ActionFeaturesReply
    <2>1. /\ mpc = "features" /\ mpc' = "features_config"
          /\ UNCHANGED <<buf, cbench, conn, peer, sw, pend, inq, sw_sockfd>>
      BY <1>9 DEF ActionFeaturesReply, net
    <2>2. buf # <<>> /\ Head(buf).type = "features"
      BY <2>1 DEF TypeInv, MessageInv, HandlerPc, Handled
    <2>3. Head(buf) = Features(sw)
      <3>1. Head(buf) \in SwitchMessage(sw)
        BY <2>2, HeadTailProperties DEF SessionInv, FromSwitch
      <3> QED
        BY <2>2, <3>1, SwitchMessages DEF TypeInv
    <2> DEFINE row == [i \in DOMAIN PortsOf[sw] |-> [datapath_id |-> sw, port_no |-> PortsOf[sw][i]]]
    <2>4. ports' = ports \o row /\ PortsOf[sw] # <<>>
      <3>1. Head(buf).list = PortsOf[sw] /\ Head(buf).dpid = sw
        BY <2>3 DEF Features
      <3> QED
        BY <1>9, <3>1 DEF ActionFeaturesReply
    <2>5. /\ DOMAIN PortsOf[sw] = 1 .. Len(PortsOf[sw]) /\ Len(PortsOf[sw]) \in Nat
          /\ \A i \in 1 .. Len(PortsOf[sw]) : PortsOf[sw][i] \in Nat
      BY ControllerAssumption, LenProperties, ElementOfSeq DEF TypeInv, TypeOK
    <2>6. /\ row \in Seq(Node) /\ Len(row) = Len(PortsOf[sw])
          /\ \A i \in 1 .. Len(PortsOf[sw]) : row[i] = [datapath_id |-> sw, port_no |-> PortsOf[sw][i]]
      <3>1. row \in [1 .. Len(PortsOf[sw]) -> Node]
        BY <2>5 DEF Node, TypeInv, TypeOK
      <3> QED
        BY <2>5, <3>1, FunctionSeq
    <2> HIDE DEF row
    <2>7. /\ ports' \in Seq(Node) /\ Len(ports') = Len(ports) + Len(PortsOf[sw]) /\ Len(ports) \in Nat
          /\ \A i \in 1 .. Len(ports) + Len(PortsOf[sw]) :
                ports'[i] = IF i <= Len(ports) THEN ports[i] ELSE row[i - Len(ports)]
      <3>1. ports \in Seq(Node)
        BY DEF TypeInv, TypeOK
      <3>2. row \in Seq(Node)
        BY <2>6
      <3>3. /\ ports \o row \in Seq(Node) /\ Len(ports \o row) = Len(ports) + Len(row)
            /\ \A i \in 1 .. Len(ports) + Len(row) :
                 (ports \o row)[i] = IF i <= Len(ports) THEN ports[i] ELSE row[i - Len(ports)]
        BY <3>1, <3>2, ConcatProperties, Zenon
      <3> QED
        BY <2>4, <2>6, <3>1, <3>3, LenProperties
    <2>8. ASSUME NEW i \in DOMAIN ports'
          PROVE  ports'[i].datapath_id = sw /\ \E j \in DOMAIN PortsOf[sw] : ports'[i].port_no = PortsOf[sw][j]
      <3>1. i \in 1 .. Len(ports) + Len(PortsOf[sw])
        BY <2>7, LenProperties
      <3>2. CASE i <= Len(ports)
        <4>1. i \in DOMAIN ports /\ ports'[i] = ports[i]
          BY <2>7, <3>1, <3>2, LenProperties, SMTT(20) DEF TypeInv, TypeOK
        <4> QED
          BY <4>1 DEF SessionInv, PortsOfThisSwitch
      <3>3. CASE ~(i <= Len(ports))
        <4>1. i - Len(ports) \in 1 .. Len(PortsOf[sw]) /\ ports'[i] = row[i - Len(ports)]
          BY <2>5, <2>7, <3>1, <3>3
        <4>2. PICK k \in 1 .. Len(PortsOf[sw]) : ports'[i] = row[k]
          BY <4>1
        <4>3. ports'[i] = [datapath_id |-> sw, port_no |-> PortsOf[sw][k]] /\ k \in DOMAIN PortsOf[sw]
          BY <2>5, <2>6, <4>2
        <4> QED
          BY <4>3
      <3> QED
        BY <3>2, <3>3
    <2>9. Starts(Head(buf))
      BY <2>2 DEF Starts
    <2>10. ToHandle = buf /\ ToHandle' = Tail(buf)
      BY <2>1 DEF ToHandle
    <2>11. ASSUME conn = 1 \/ cbench
           PROVE  /\ ports = <<>> /\ pend = 0 /\ NoStart(inq) /\ NoStart(Tail(buf))
                  /\ Cardinality(Sharing) < conn
      <3>1. OneStart(ToHandle) /\ ~NoStart(ToHandle)
        BY <2>2, <2>9, <2>10, <2>11, TailStarts DEF SessionInv, StartInv, FromSwitch
      <3>2. NoStart(Tail(buf))
        BY <2>2, <2>9, <2>10, <3>1, TailStarts DEF SessionInv, FromSwitch
      <3>3. NoStart(inq) /\ pend = 0
        BY <2>11, <3>1 DEF SessionInv, StartInv
      <3> QED
        BY <2>11, <3>1, <3>2, <3>3 DEF SessionInv, StartInv, Started
    <2>12. IsFiniteSet(Sharing') /\ Cardinality(Sharing') <= Cardinality(Sharing) + 1 /\ Cardinality(Sharing') \in Nat
      <3>1. PICK t : Sharing' \in {Sharing, Sharing \cup {t}}
        <4>1. CASE UNCHANGED tpc
          BY <1>2, <4>1
        <4>2. ASSUME NEW t \in Threads, tpc' = [tpc EXCEPT ![t] = "round"]
              PROVE  Sharing' = Sharing \cup {t}
          BY <4>2 DEF Sharing, TypeInv, TypeOK
        <4> QED
          BY <1>9, <4>1, <4>2 DEF ActionFeaturesReply, CreateThread
      <3>2. IsFiniteSet(Sharing) /\ Cardinality(Sharing) \in Nat
        BY FS_CardinalityType DEF SessionInv
      <3>3. IsFiniteSet(Sharing \cup {t}) /\ Cardinality(Sharing \cup {t}) <= Cardinality(Sharing) + 1
        BY <3>2, FS_AddElement DEF SessionInv
      <3>4. Cardinality(Sharing \cup {t}) \in Nat
        BY <3>3, FS_CardinalityType
      <3>5. CASE Sharing' = Sharing
        BY <3>2, <3>5
      <3>6. CASE Sharing' = Sharing \cup {t}
        BY <3>3, <3>4, <3>6
      <3> QED
        BY <3>1, <3>5, <3>6
    <2>13. SocketInv' /\ FromSwitch'
      BY <2>1 DEF SessionInv, SocketInv, FromSwitch
    <2>14. PortsOfThisSwitch'
      <3>1. ASSUME cbench PROVE Len(ports') <= Len(PortsOf[sw])
        <4>1. Len(ports) = 0
          BY <2>11, <3>1, EmptySeq
        <4> QED
          BY <2>5, <2>7, <4>1
      <3> QED
        BY <2>1, <2>8, <3>1 DEF PortsOfThisSwitch
    <2>15. StartInv'
      <3> SUFFICES ASSUME conn = 1 \/ cbench PROVE StartInv'
        BY <2>1 DEF StartInv
      <3>1. /\ pend' = 0 /\ NoStart(inq)' /\ OneStart(inq)'
        BY <2>1, <2>11 DEF NoStart, OneStart
      <3>2. NoStart(ToHandle)' /\ OneStart(ToHandle)'
        BY <2>10, <2>11 DEF NoStart, OneStart
      <3>3. Started'
        BY <3>1, <3>2 DEF Started
      <3>4. Cardinality(Sharing)' <= conn'
        <4>1. Cardinality(Sharing) \in Nat /\ conn \in Nat
          BY FS_CardinalityType DEF SessionInv, TypeInv, TypeOK
        <4> QED
          BY <2>1, <2>11, <2>12, <4>1
      <3> QED
        BY <3>1, <3>2, <3>3, <3>4 DEF StartInv
    <2> QED
      BY <2>12, <2>13, <2>14, <2>15 DEF SessionInv
  <1> QED
    BY <1>3, <1>4, <1>5, <1>6, <1>7, <1>8, <1>9 DEF MainHandler

LEMMA ReadSession ==
    ASSUME TypeInv, SessionInv, Read \/ ReadFails
    PROVE  SessionInv'
  <1> USE DEF At
  <1>1. /\ buf = <<>> /\ mpc = "recv" /\ ToHandle = <<>>
        /\ UNCHANGED <<cbench, conn, peer, sw, pend, tpc>>
    BY DEF Read, ReadFails, TypeInv, MessageInv, WaitingPc, ToHandle, threads
  <1>2. Sharing' = Sharing
    BY <1>1 DEF Sharing
  <1>3. CASE Read
    <2>1. PICK n \in 1 .. Len(inq) :
             /\ Handle(IF cbench THEN SubSeq(inq, 1, n) ELSE <<Head(inq)>>)
             /\ inq' = SubSeq(inq, n + 1, Len(inq))
      BY <1>3 DEF Read
    <2>2. PICK first \in {SubSeq(inq, 1, n), <<Head(inq)>>} : Handle(first)
      BY <2>1
    <2>3. inq \in Seq(SwitchMessage(sw)) /\ inq \in Seq(Message)
      BY DEF SessionInv, FromSwitch, TypeInv, TypeOK
    <2>4. /\ first \in Seq(SwitchMessage(sw)) /\ inq' \in Seq(SwitchMessage(sw))
          /\ NoStart(inq) => NoStart(first) /\ NoStart(inq')
          /\ OneStart(inq) => /\ OneStart(first) /\ OneStart(inq')
                              /\ NoStart(first) \/ NoStart(inq')
      BY <2>1, <2>3, SplitStarts
    <2>5. first \in Seq(Message)
      BY <2>3, SplitStarts
    <2>6. /\ buf' = first
          /\ mpc' \in {"recv", "hello", "features_lock", "data", "lldp_lock", "echo", "other"}
      BY <2>2, <2>5, HandleMessage
    <2>7. ToHandle' = first
      BY <2>6 DEF ToHandle
    <2>8. SocketInv' /\ FromSwitch'
      BY <1>1, <2>4, <2>6 DEF SessionInv, SocketInv, FromSwitch
    <2>9. /\ NoStart(inq)' = NoStart(inq') /\ OneStart(inq)' = OneStart(inq')
          /\ NoStart(ToHandle)' = NoStart(first) /\ OneStart(ToHandle)' = OneStart(first)
      BY <2>7 DEF NoStart, OneStart
    <2>10. StartInv'
      <3> SUFFICES ASSUME conn = 1 \/ cbench PROVE StartInv'
        BY <1>1 DEF StartInv
      <3>1. UNCHANGED ports
        BY <1>3 DEF Read, tables
      <3>2. Started => Started'
        BY <1>1, <2>4, <2>9 DEF Started
      <3> QED
        BY <1>1, <1>2, <2>4, <2>9, <3>1, <3>2 DEF SessionInv, StartInv
    <2>11. PortsOfThisSwitch' /\ IsFiniteSet(Sharing)'
      BY <1>1, <1>2, <1>3 DEF Read, tables, SessionInv, PortsOfThisSwitch
    <2> QED
      BY <2>8, <2>10, <2>11 DEF SessionInv
  <1>4. CASE ReadFails
    <2>1. /\ sw_sockfd' = 0 /\ inq' = <<>> /\ ports' = <<>> /\ mpc' = "reconnect_links"
          /\ buf' = <<>> /\ peer = "gone"
      BY <1>1, <1>4 DEF ReadFails
    <2>2. ToHandle' = <<>>
      BY <2>1 DEF ToHandle
    <2>3. NoStart(inq)' /\ OneStart(inq)' /\ NoStart(ToHandle)' /\ OneStart(ToHandle)'
      BY <2>1, <2>2 DEF NoStart, OneStart
    <2>4. SocketInv'
      BY <1>1, <2>1 DEF SessionInv, SocketInv
    <2>5. FromSwitch'
      BY <2>1, EmptySeq DEF FromSwitch
    <2>6. StartInv'
      <3> SUFFICES ASSUME conn = 1 \/ cbench PROVE StartInv'
        BY <1>1 DEF StartInv
      <3>1. Started => Started'
        BY <1>1, <2>3 DEF Started
      <3> QED
        BY <1>1, <1>2, <2>1, <2>3, <3>1 DEF SessionInv, StartInv
    <2>7. PortsOfThisSwitch'
      <3>1. PortsOf[sw] \in Seq(Nat)
        BY ControllerAssumption DEF TypeInv, TypeOK
      <3> QED
        BY <1>1, <2>1, <3>1, LenProperties, EmptySeq DEF PortsOfThisSwitch
    <2> QED
      BY <1>2, <2>4, <2>5, <2>6, <2>7 DEF SessionInv
  <1> QED
    BY <1>3, <1>4

(* A new connection: hello is on its way, and nothing else. *)
LEMMA ConnectSession ==
    ASSUME TypeInv, SessionInv, NEW s \in Switches, Accept(s) \/ Reconnect(s)
    PROVE  SessionInv'
  <1> USE DEF At
  <1>1. /\ mpc \in {"start", "reconnect"} /\ (mpc = "start" => Accept(s))
        /\ conn' = conn + 1 /\ conn \in Nat /\ sw' = s /\ inq' = <<Hello>> /\ pend' = 0
        /\ UNCHANGED <<cbench, tpc, ports>>
    BY DEF Accept, Reconnect, Connected, TypeInv, TypeOK, tables, threads
  <1>2. ports = <<>> /\ (mpc = "start" => conn = 0 /\ Sharing = {})
    BY <1>1 DEF SessionInv, SocketInv
  <1>3. mpc = "reconnect" => conn # 0
    BY DEF SessionInv, SocketInv
  <1>4. Sharing' = Sharing
    BY <1>1 DEF Sharing
  <1>5. PICK msgs \in {<<>>, <<Hello>>} : Handle(msgs) /\ (cbench \/ mpc = "start" => msgs = <<>>)
    BY <1>1 DEF Accept, Reconnect
  <1>6. msgs \in Seq(Message)
    <2>1. Hello \in Message
      BY DEF Message
    <2>2. <<>> \in Seq(Message) /\ <<Hello>> \in Seq(Message)
      BY <2>1
    <2> QED
      BY <1>5, <2>2
  <1>7. /\ buf' = msgs
        /\ mpc' \in {"recv", "hello", "features_lock", "data", "lldp_lock", "echo", "other"}
    BY <1>5, <1>6, HandleMessage
  <1>8. ToHandle' = msgs
    BY <1>7 DEF ToHandle
  <1>9. SocketInv'
    BY <1>1, <1>7 DEF SocketInv
  <1>10. FromSwitch'
    <2>1. Hello \in SwitchMessage(s)
      BY DEF SwitchMessage
    <2>2. <<>> \in Seq(SwitchMessage(s)) /\ <<Hello>> \in Seq(SwitchMessage(s))
      BY <2>1
    <2>3. buf' \in Seq(SwitchMessage(s)) /\ inq' \in Seq(SwitchMessage(s))
      BY <1>1, <1>5, <1>7, <2>2
    <2> QED
      BY <1>1, <2>3 DEF FromSwitch
  <1>11. StartInv'
    <2> SUFFICES ASSUME conn' = 1 \/ cbench PROVE StartInv'
      BY <1>1 DEF StartInv
    <2>1. msgs = <<>>
      BY <1>1, <1>3, <1>5
    <2>2. NoStart(ToHandle)' /\ OneStart(ToHandle)'
      BY <1>8, <2>1 DEF NoStart, OneStart
    <2>3. OneStart(inq)' /\ ports' = <<>> /\ pend' = 0
      BY <1>1, <1>2 DEF OneStart
    <2>4. Cardinality(Sharing)' < conn' /\ Cardinality(Sharing)' <= conn'
      <3>1. Cardinality(Sharing) \in Nat /\ (mpc = "start" => Cardinality(Sharing) = 0)
        BY <1>2, FS_CardinalityType, FS_EmptySet DEF SessionInv
      <3>2. CASE mpc = "start"
        BY <1>1, <1>2, <1>4, <3>1, <3>2
      <3>3. CASE mpc = "reconnect"
        <4>1. conn # 0 /\ cbench
          BY <1>1, <1>3, <3>3
        <4>2. Cardinality(Sharing) <= conn
          BY <4>1 DEF SessionInv, StartInv
        <4> QED
          BY <1>1, <1>4, <3>1, <4>2
      <3> QED
        BY <1>1, <3>2, <3>3
    <2> QED
      BY <2>2, <2>3, <2>4 DEF StartInv
  <1>12. PortsOfThisSwitch'
    <2>1. PortsOf[s] \in Seq(Nat)
      BY ControllerAssumption
    <2> QED
      BY <1>1, <1>2, <2>1, LenProperties, EmptySeq DEF PortsOfThisSwitch
  <1> QED
    BY <1>4, <1>9, <1>10, <1>11, <1>12 DEF SessionInv

(* A message on its way. *)
LEMMA ArrivalSession ==
    ASSUME TypeInv, SessionInv, SwitchFeatures \/ \E m \in Traffic : SwitchSends(m)
    PROVE  SessionInv'
  <1>1. PICK m \in SwitchMessage(sw) :
           /\ inq' = Append(inq, m)
           /\ (pend' = pend /\ ~Starts(m)) \/ (pend > 0 /\ pend' = pend - 1)
    BY SwitchMessages DEF SwitchFeatures, SwitchSends, TypeInv
  <1>2. /\ UNCHANGED <<buf, mpc, cbench, conn, peer, sw, sw_sockfd, ports, tpc>> /\ peer = "open"
    BY DEF SwitchFeatures, SwitchSends, SwitchUp, main, tables, threads
  <1>3. inq \in Seq(SwitchMessage(sw))
    BY DEF SessionInv, FromSwitch
  <1>4. inq' \in Seq(SwitchMessage(sw))
    BY <1>1, <1>3, AppendProperties
  <1>5. ToHandle' = ToHandle /\ Sharing' = Sharing
    BY <1>2 DEF ToHandle, Sharing
  <1>6. SocketInv' /\ FromSwitch' /\ PortsOfThisSwitch' /\ IsFiniteSet(Sharing)'
    BY <1>2, <1>4, <1>5 DEF SessionInv, SocketInv, FromSwitch, PortsOfThisSwitch
  <1>7. StartInv'
    <2> SUFFICES ASSUME conn = 1 \/ cbench PROVE StartInv'
      BY <1>2 DEF StartInv
    <2>1. /\ NoStart(inq) => OneStart(inq)'
          /\ NoStart(inq) /\ ~Starts(m) => NoStart(inq)'
          /\ OneStart(inq) /\ ~Starts(m) => OneStart(inq)'
      BY <1>1, <1>3, AppendStarts DEF NoStart, OneStart
    <2>2. NoStart(ToHandle)' = NoStart(ToHandle) /\ OneStart(ToHandle)' = OneStart(ToHandle)
      BY <1>5 DEF NoStart, OneStart
    <2>3. CASE pend' = pend /\ ~Starts(m)
      <3>1. Started => Started'
        BY <2>1, <2>2, <2>3 DEF Started
      <3> QED
        BY <1>2, <1>5, <2>1, <2>2, <2>3, <3>1 DEF SessionInv, StartInv
    <2>4. CASE pend > 0 /\ pend' = pend - 1
      <3>1. pend = 1 /\ pend' = 0
        BY <2>4 DEF SessionInv, StartInv
      <3>2. /\ NoStart(inq) /\ NoStart(ToHandle) /\ OneStart(ToHandle)
            /\ ports = <<>> /\ Cardinality(Sharing) < conn /\ Cardinality(Sharing) <= conn
        BY <3>1 DEF SessionInv, StartInv, Started
      <3> QED
        BY <1>2, <1>5, <2>1, <2>2, <3>1, <3>2 DEF StartInv
    <2> QED
      BY <1>1, <2>3, <2>4
  <1> QED
    BY <1>6, <1>7 DEF SessionInv

LEMMA ThreadSession ==
    ASSUME TypeInv, SessionInv, NEW t \in Threads, ThreadLock(t) \/ ThreadStep(t)
    PROVE  SessionInv'
  <1>1. UNCHANGED <<buf, mpc, cbench, conn, peer, sw, pend, inq, sw_sockfd, ports>>
    BY
    DEF ThreadLock, RoundLock, AnnounceLock, WaitLock, ReportLock, LockAndGo, ThreadStep,
        RoundStart,
           Probe, ProbeEnd, Announce, AnnounceEnd, Wait, WaitEnd, Report, ReportFree, ThreadSend,
           main, net, tables
  <1>2. tpc' = tpc \/ \E to \in ThreadPc \ {"none"} : tpc[t] # "none" /\ tpc' = [tpc EXCEPT ![t] = to]
    BY
    DEF ThreadLock, RoundLock, AnnounceLock, WaitLock, ReportLock, LockAndGo, ThreadStep,
        RoundStart,
           Probe, ProbeEnd, Announce, AnnounceEnd, Wait, WaitEnd, Report, ReportFree, ThreadAt, Goto,
           threads, ThreadPc
  <1>3. Sharing' = Sharing
    BY <1>2 DEF Sharing, TypeInv, TypeOK
  <1> QED
    BY <1>1, <1>3, QuietSession DEF Proceeds

LEMMA SessionInductive == TypeInv /\ SessionInv /\ [Next]_vars => SessionInv'
  <1> SUFFICES ASSUME TypeInv, SessionInv, [Next]_vars PROVE SessionInv'
    OBVIOUS
  <1>1. CASE MainHandler \/ MainLock \/ MainIO
    BY <1>1, HandlerSession, ReadSession, ConnectSession DEF MainIO
  <1>2. CASE Undefined
    <2>1. UNCHANGED <<buf, mpc, cbench, conn, peer, sw, pend, inq, sw_sockfd, ports, Sharing>>
      BY <1>2 DEF Undefined, net, tables, threads, Sharing
    <2> QED
      BY <2>1, QuietSession DEF Proceeds
  <1>3. CASE SwitchDies
    <2>1. UNCHANGED <<buf, mpc, cbench, conn, sw, pend, inq, sw_sockfd, ports>> /\ peer = "open" /\ peer' = "gone"
      BY <1>3 DEF SwitchDies, SwitchUp, main, tables
    <2>2. ToHandle' = ToHandle /\ Sharing' = Sharing
      BY <1>3, <2>1 DEF SwitchDies, threads, ToHandle, Sharing
    <2>3. SocketInv' /\ FromSwitch' /\ PortsOfThisSwitch' /\ IsFiniteSet(Sharing)'
      BY <2>1, <2>2 DEF SessionInv, SocketInv, FromSwitch, PortsOfThisSwitch
    <2>4. StartInv'
      BY <2>1, <2>2 DEF SessionInv, StartInv, Started, NoStart, OneStart
    <2> QED
      BY <2>3, <2>4 DEF SessionInv
  <1>4. ASSUME NEW s \in Signals, Signal(s) PROVE SessionInv'
    <2>1. UNCHANGED <<buf, cbench, conn, peer, sw, pend, inq, sw_sockfd, ports, Sharing>>
      BY <1>4 DEF Signal, net, tables, threads, Sharing
    <2>2. mpc' \in {mpc, "exit"}
      BY <1>4 DEF Signal
    <2> QED
      BY <2>1, <2>2, QuietSession DEF Proceeds
  <1>5. CASE UNCHANGED vars
    <2>1. UNCHANGED <<buf, mpc, cbench, conn, peer, sw, pend, inq, sw_sockfd, ports, Sharing>>
      BY <1>5 DEF vars, main, net, tables, threads, Sharing
    <2> QED
      BY <2>1, QuietSession DEF Proceeds
  <1> QED
    BY <1>1, <1>2, <1>3, <1>4, <1>5, ThreadSession, ArrivalSession DEF Next, Environment

LEMMA SessionInitially == Init => SessionInv
  <1> SUFFICES ASSUME Init PROVE SessionInv
    OBVIOUS
  <1>1. Sharing = {}
    BY DEF Init, Sharing
  <1>2. IsFiniteSet(Sharing) /\ Cardinality(Sharing) = 0
    BY <1>1, FS_EmptySet
  <1>3. SocketInv /\ FromSwitch
    BY <1>1, EmptySeq DEF Init, SocketInv, FromSwitch
  <1>4. ToHandle = <<>> /\ inq = <<>> /\ pend = 0 /\ ports = <<>> /\ conn = 0
    BY DEF Init, ToHandle
  <1>5. Started /\ OneStart(inq) /\ OneStart(ToHandle)
    BY <1>4 DEF Started, NoStart, OneStart
  <1>6. StartInv
    BY <1>2, <1>4, <1>5 DEF StartInv, Started
  <1>7. PortsOf[sw] \in Seq(Nat)
    BY ControllerAssumption DEF Init
  <1>8. PortsOfThisSwitch
    BY <1>4, <1>7, LenProperties, EmptySeq DEF PortsOfThisSwitch
  <1> QED
    BY <1>2, <1>3, <1>6, <1>8 DEF SessionInv

(* Each row of the ports table is a port of the switch that is connected,  *)
(* and with -c it is there once, whatever connections came and went        *)
(* (_con.cpp:147, 332).                                                    *)
THEOREM PortsBelongToSwitch == Spec => []PortsOfThisSwitch
<1>1. SessionInv => PortsOfThisSwitch
  BY DEF SessionInv
<1> QED
  BY TypeInitially, TypeInductive, SessionInitially, SessionInductive, <1>1, PTL DEF Spec

(* A connection brings at most one sharing thread with -c, and the first   *)
(* connection in any case (_con.cpp:330).                                  *)
THEOREM OneSharerPerConnection == Spec => []SharersPerConnection
<1>1. SessionInv => SharersPerConnection
  BY DEF SessionInv, StartInv, SharersPerConnection
<1> QED
  BY TypeInitially, TypeInductive, SessionInitially, SessionInductive, <1>1, PTL DEF Spec

-----------------------------------------------------------------------------
(* Why the controller stops, and why it does not. *)

(* Why the program may go to exit. *)
Reason == \/ masked' # {} \/ no_of_ports' = 0 \/ peer = "gone" \/ sw_sockfd = 0
          \/ PackoutValueless

(* The result of a failed send stays until the next one: with a switch     *)
(* again, the hello is handled first.                                      *)
HealthInv ==
    write_buffer_len < 0 =>
       \/ peer = "gone" \/ sw_sockfd = 0
       \/ mpc \in {"hello", "exit", "exit_free"}
       \/ mpc = "recv" /\ inq # <<>> /\ Head(inq) = Hello

(* What a healthy step keeps, and why it may give up. *)
Healthy == HealthInv' /\ (GivesUp => Reason)

(* A send of a handler but the hello's, and what comes after it. *)
LEMMA HealthySend ==
    ASSUME TypeInv, HealthInv, buf # <<>>, UNCHANGED <<peer, sw_sockfd>>, mpc \notin {"exit", "exit_free"},
           \/ MainSends(Done /\ UNCHANGED pend) \/ MainSends(pend' = pend + 1 /\ Done)
           \/ SendUndefined,
           mpc \notin {"hello", "recv"}
    PROVE  Healthy
  <1>1. Done => mpc' \in {"recv", "hello", "features_lock", "data", "lldp_lock", "echo", "other"}
    BY DoneMessage DEF TypeInv
  <1>2. CASE write_buffer_len' = 1 /\ Done
    BY <1>1, <1>2 DEF Healthy, HealthInv, GivesUp
  <1>3. CASE SendFails
    BY <1>3 DEF SendFails, Healthy, HealthInv, Reason
  <1>4. CASE SigPipe /\ UNCHANGED <<mpc, write_buffer_len>>
    BY <1>4 DEF SigPipe, Healthy, HealthInv, Reason
  <1> QED
    BY <1>2, <1>3, <1>4 DEF MainSends, SendUndefined, SendEnds

(* action_packout looks at the result of the last send: a failed one of an *)
(* earlier connection is out of the way by then.                           *)
LEMMA HealthyPackout ==
    ASSUME TypeInv, HealthInv, mpc \in {"data", "lldp"}, PackoutEnd,
           UNCHANGED <<peer, sw_sockfd>>,
           write_buffer_len' \in {write_buffer_len, 1}
    PROVE  Healthy
  <1>1. buf # <<>> /\ write_buffer_len \in {-1, 0, 1}
    BY DEF TypeInv, MessageInv, HandlerPc, TypeOK
  <1>2. CASE write_buffer_len' < 0
    <2>1. write_buffer_len < 0
      BY <1>1, <1>2
    <2>2. peer = "gone" \/ sw_sockfd = 0
      BY <2>1 DEF HealthInv
    <2> QED
      BY <2>2 DEF Healthy, HealthInv, Reason
  <1>3. CASE write_buffer_len' >= 0
    BY <1>1, <1>3 DEF Healthy, HealthInv, Reason, PackoutValueless
  <1> QED
    BY <1>1, <1>2, <1>3

(* Steps that leave the main thread where it is. *)
LEMMA HealthyElsewhere ==
    ASSUME TypeInv, HealthInv, UNCHANGED <<mpc, write_buffer_len, sw_sockfd>>,
           peer' \in {peer, "gone"}, inq' = inq \/ \E m : inq' = Append(inq, m)
    PROVE  Healthy
  <1>1. ASSUME inq # <<>>, Head(inq) = Hello PROVE inq' # <<>> /\ Head(inq') = Hello
    <2>1. inq \in Seq(Message)
      BY DEF TypeInv, TypeOK
    <2>2. ASSUME NEW m, inq' = Append(inq, m) PROVE inq' # <<>> /\ Head(inq') = Hello
      BY <1>1, <2>1, <2>2, HeadTailAppend
    <2> QED
      BY <1>1, <2>2
  <1> QED
    BY <1>1 DEF Healthy, HealthInv, GivesUp

LEMMA HandlerHealth ==
    ASSUME TypeInv, SessionInv, HealthInv, MainHandler \/ MainLock
    PROVE  Healthy
  <1> USE DEF At
  <1>1. mpc \in HandlerPc => buf # <<>>
    BY DEF TypeInv, MessageInv
  <1>2. CASE ReconnectLinks \/ ReconnectReplys
    <2>1. sw_sockfd = 0 /\ sw_sockfd' = 0
      BY <1>2 DEF ReconnectLinks, ReconnectReplys, SessionInv, SocketInv
    <2> QED
      BY <2>1 DEF Healthy, HealthInv, Reason
  <1>3. CASE ActionHello
    <2>1. UNCHANGED <<peer, sw_sockfd>> /\ mpc = "hello" /\ buf # <<>>
      BY <1>1, <1>3 DEF ActionHello, HandlerPc
    <2>2. CASE MainSends(mpc' = "hello_features" /\ UNCHANGED <<buf, pend>>)
      BY <2>2 DEF MainSends, Healthy, HealthInv, GivesUp
    <2>3. CASE SendFails
      BY <2>1, <2>3 DEF SendFails, Healthy, HealthInv, Reason
    <2>4. CASE SigPipe /\ UNCHANGED <<mpc, write_buffer_len>>
      BY <2>1, <2>4 DEF SigPipe, Healthy, HealthInv, Reason
    <2> QED
      BY <1>3, <2>2, <2>3, <2>4 DEF ActionHello, SendUndefined, SendEnds
  <1>4. CASE HelloFeatures \/ ActionEcho \/ FeaturesConfig
    <2>1. UNCHANGED <<peer, sw_sockfd>> /\ mpc \in {"hello_features", "echo", "features_config"}
      BY <1>4 DEF HelloFeatures, ActionEcho, FeaturesConfig
    <2>2. buf # <<>>
      BY <1>1, <2>1 DEF HandlerPc
    <2>3. \/ MainSends(Done /\ UNCHANGED pend) \/ MainSends(pend' = pend + 1 /\ Done)
          \/ SendUndefined
      BY <1>4 DEF HelloFeatures, ActionEcho, FeaturesConfig, SendUndefined, MainSends
    <2> QED
      BY <2>1, <2>2, <2>3, HealthySend
  <1>5. CASE ActionOther
    <2>1. mpc' \in {"recv", "hello", "features_lock", "data", "lldp_lock", "echo", "other"}
      BY <1>1, <1>5, DoneMessage DEF ActionOther, TypeInv, HandlerPc
    <2>2. UNCHANGED <<peer, sw_sockfd, write_buffer_len>> /\ mpc = "other"
      BY <1>5 DEF ActionOther, net
    <2> QED
      BY <2>1, <2>2 DEF Healthy, HealthInv, GivesUp
  <1>6. CASE FeaturesNoPorts
    BY <1>6 DEF FeaturesNoPorts, net, Healthy, HealthInv, Reason
  <1>7. CASE ActionFeaturesReply
    BY <1>7 DEF ActionFeaturesReply, net, Healthy, HealthInv, GivesUp
  <1>8. CASE ActionPackout
    <2>1. UNCHANGED <<peer, sw_sockfd>> /\ mpc = "data" /\ buf # <<>>
      BY <1>1, <1>8 DEF ActionPackout, HandlerPc
    <2>2. CASE PackoutEnd /\ write_buffer_len' \in {write_buffer_len, 1}
      BY <2>1, <2>2, HealthyPackout
    <2>3. CASE SendEnds
      BY <2>1, <2>3, HealthySend DEF SendUndefined
    <2> QED
      BY <1>8, <2>2, <2>3 DEF ActionPackout, MainSends
  <1>9. CASE LldpRequest \/ LldpReply \/ LldpNode
    <2>1. UNCHANGED <<peer, sw_sockfd, write_buffer_len, inq>> /\ mpc = "lldp"
      BY <1>9 DEF LldpRequest, LldpReply, LldpNode, net
    <2>2. PackoutEnd \/ UNCHANGED mpc
      BY <1>9 DEF LldpRequest, LldpReply, LldpNode
    <2> QED
      BY <2>1, <2>2, HealthyPackout, HealthyElsewhere
  <1>10. CASE JoinNoThread
    BY <1>10 DEF JoinNoThread, net, shared, Healthy, HealthInv, GivesUp
  <1>11. CASE ExitFree
    BY <1>11 DEF ExitFree, Healthy, HealthInv, GivesUp
  <1>12. CASE MainLock
    BY <1>12 DEF MainLock, FeaturesLock, LldpLock, net, Healthy, HealthInv, GivesUp
  <1> QED
    BY <1>2, <1>3, <1>4, <1>5, <1>6, <1>7, <1>8, <1>9, <1>10, <1>11, <1>12 DEF MainHandler

LEMMA SocketHealth ==
    ASSUME TypeInv, SessionInv, HealthInv, MainIO
    PROVE  Healthy
  <1> USE DEF At
  <1>1. CASE AcceptFails
    <2>1. sw_sockfd = 0 /\ sw_sockfd' = 0
      BY <1>1 DEF AcceptFails, SessionInv, SocketInv
    <2> QED
      BY <2>1 DEF Healthy, HealthInv, Reason
  <1>2. CASE Read
    <2>1. UNCHANGED <<peer, sw_sockfd, write_buffer_len>> /\ mpc = "recv"
      BY <1>2 DEF Read
    <2>2. PICK n \in 1 .. Len(inq) : \E first \in {SubSeq(inq, 1, n), <<Head(inq)>>} : Handle(first)
      BY <1>2 DEF Read
    <2> PICK first \in {SubSeq(inq, 1, n), <<Head(inq)>>} : Handle(first)
      BY <2>2
    <2>3. first \in Seq(Message) /\ first # <<>> /\ Head(first) = Head(inq)
      <3>1. inq \in Seq(Message)
        BY DEF TypeInv, TypeOK
      <3> QED
        BY <3>1, SplitStarts
    <2>4. mpc' \in {"recv", "hello", "features_lock", "data", "lldp_lock", "echo", "other"}
      BY <2>2, <2>3, HandleMessage
    <2>5. Head(inq) = Hello => mpc' = "hello"
      BY <2>2, <2>3 DEF Handle, Handler, Hello
    <2> QED
      BY <2>1, <2>4, <2>5 DEF Healthy, HealthInv, GivesUp
  <1>3. CASE ReadFails
    BY <1>3 DEF ReadFails, Healthy, HealthInv, Reason
  <1>4. ASSUME NEW s \in Switches, Accept(s) PROVE Healthy
    <2>1. inq' = <<Hello>> /\ Handle(<<>>)
      BY <1>4 DEF Accept, Connected
    <2>2. mpc' = "recv" /\ inq' # <<>> /\ Head(inq') = Hello
      BY <2>1 DEF Handle
    <2> QED
      BY <2>2 DEF Healthy, HealthInv, GivesUp
  <1>5. ASSUME NEW s \in Switches, Reconnect(s) PROVE Healthy
    <2>1. inq' = <<Hello>> /\ (Handle(<<>>) \/ Handle(<<Hello>>))
      BY <1>5 DEF Reconnect, Connected
    <2>2. inq' # <<>> /\ Head(inq') = Hello /\ mpc' \in {"recv", "hello"}
      BY <2>1 DEF Handle, Handler, Hello
    <2> QED
      BY <2>2 DEF Healthy, HealthInv, GivesUp
  <1> QED
    BY <1>1, <1>2, <1>3, <1>4, <1>5 DEF MainIO

LEMMA HealthInductive == TypeInv /\ SessionInv /\ HealthInv /\ [Next]_vars => Healthy
  <1> SUFFICES ASSUME TypeInv, SessionInv, HealthInv, [Next]_vars PROVE Healthy
    OBVIOUS
  <1>1. ASSUME NEW t \in Threads, ThreadLock(t) \/ ThreadStep(t) PROVE Healthy
    <2>1. UNCHANGED <<mpc, write_buffer_len, sw_sockfd, peer, inq>>
      BY <1>1
      DEF ThreadLock, RoundLock, AnnounceLock, WaitLock, ReportLock, LockAndGo, ThreadStep,
          RoundStart,
           Probe, ProbeEnd, Announce, AnnounceEnd, Wait, WaitEnd, Report, ReportFree, ThreadSend,
           main, net, shared
    <2> QED
      BY <2>1, HealthyElsewhere
  <1>2. CASE Undefined \/ UNCHANGED vars
    <2>1. UNCHANGED <<mpc, write_buffer_len, sw_sockfd, peer, inq>>
      BY <1>2 DEF Undefined, vars, main, net, shared
    <2> QED
      BY <2>1, HealthyElsewhere
  <1>3. CASE SwitchFeatures \/ SwitchDies \/ \E m \in Traffic : SwitchSends(m)
    <2>1. /\ UNCHANGED <<mpc, write_buffer_len, sw_sockfd>>
          /\ peer' \in {peer, "gone"} /\ (inq' = inq \/ \E m : inq' = Append(inq, m))
      BY <1>3 DEF SwitchFeatures, SwitchDies, SwitchSends, main, shared
    <2> QED
      BY <2>1, HealthyElsewhere
  <1>4. ASSUME NEW s \in Signals, Signal(s) PROVE Healthy
    <2>1. UNCHANGED <<write_buffer_len, no_of_ports, sw_sockfd, peer, inq>>
      BY <1>4 DEF Signal, net, shared
    <2>2. \/ mpc' = "exit" /\ masked' = masked \cup {s}
          \/ UNCHANGED <<mpc, masked>>
      BY <1>4 DEF Signal
    <2>3. CASE mpc' = "exit" /\ masked' = masked \cup {s}
      BY <2>1, <2>3 DEF Healthy, HealthInv, Reason
    <2> QED
      BY <2>1, <2>2, <2>3, HealthyElsewhere
  <1> QED
    BY <1>1, <1>2, <1>3, <1>4, HandlerHealth, SocketHealth DEF Next, Environment

(* The program gives up only when it was signalled, lost the switch, could *)
(* not accept one, or met a switch without ports, or over the value that   *)
(* action_packout does not return: a send that failed in an earlier        *)
(* connection never ends a later one (_con.cpp:658).                       *)
THEOREM HealthySessionKept == Spec => HealthySessionStays
<1>1. Init => HealthInv
  BY DEF Init, HealthInv
<1>2. TypeInv /\ SessionInv /\ HealthInv /\ [Next]_vars
        => HealthInv' /\ (GivesUp => Reason)
  BY HealthInductive DEF Healthy
<1>3. (GivesUp => Reason) => [GivesUp => \/ masked' # {} \/ no_of_ports' = 0
                                        \/ peer = "gone" \/ sw_sockfd = 0
                                        \/ PackoutValueless]_vars
  BY DEF Reason
<1> QED
  BY TypeInitially, TypeInductive, SessionInitially, SessionInductive, <1>1, <1>2, <1>3, PTL
  DEF Spec, HealthySessionStays

-----------------------------------------------------------------------------
(* The links are an atomic table. *)

(* Between the printing and the emptying, the links are the last printed.  *)
ReportInv == Reported => \E before \in Seq(Link) : printed = before \o links

LEMMA FrontOfConcat ==
    ASSUME NEW S, NEW s \in Seq(S), NEW t \in Seq(S)
    PROVE  SubSeq(s \o t, 1, Len(s \o t) - Len(t)) = s /\ SubSeq(s \o t, 1, Len(s)) = s
  <1>1. /\ s \o t \in Seq(S) /\ Len(s \o t) = Len(s) + Len(t) /\ Len(s) \in Nat /\ Len(t) \in Nat
        /\ \A i \in 1 .. Len(s) + Len(t) : (s \o t)[i] = IF i <= Len(s) THEN s[i] ELSE t[i - Len(s)]
    BY ConcatProperties, LenProperties
  <1> DEFINE st == s \o t
  <1>2. \A i \in 1 .. Len(s) : st[i] = s[i] /\ s[i] \in S
    BY <1>1, ElementOfSeq
  <1> HIDE DEF st
  <1>3. /\ SubSeq(st, 1, Len(s)) \in Seq(S) /\ Len(SubSeq(st, 1, Len(s))) = IF 1 <= Len(s) THEN Len(s) - 1 + 1 ELSE 0
        /\ \A i \in 1 .. Len(s) - 1 + 1 : SubSeq(st, 1, Len(s))[i] = st[1 + i - 1]
    BY <1>1, <1>2, SubSeqProperties
  <1>4. Len(SubSeq(st, 1, Len(s))) = Len(s) /\ \A i \in 1 .. Len(s) : SubSeq(st, 1, Len(s))[i] = s[i]
    <2>1. Len(s) - 1 + 1 = Len(s) /\ \A i \in 1 .. Len(s) : 1 + i - 1 = i
      BY <1>1
    <2>2. Len(SubSeq(st, 1, Len(s))) = Len(s)
      BY <1>1, <1>3
    <2> QED
      BY <1>2, <1>3, <2>1, <2>2
  <1>5. SubSeq(st, 1, Len(s)) = s
    BY <1>3, <1>4, SeqEqual
  <1>6. Len(s \o t) - Len(t) = Len(s)
    BY <1>1
  <1> QED
    BY <1>5, <1>6 DEF st

(* The abstract sequence of links while a round is between printing and    *)
(* emptying.                                                               *)
LEMMA SettledWhileReported ==
    ASSUME TypeOK, NEW before \in Seq(Link), printed = before \o links, Reported
    PROVE  Settled = before
  BY FrontOfConcat DEF Settled, TypeOK

(* A thread between printing and emptying owns links_mutex; and while it   *)
(* is there, a list that another thread frees is empty.                    *)
LEMMA ReporterOwns ==
    ASSUME MutexInv, NEW t \in Threads, tpc[t] = "report_free"
    PROVE  links_mutex = t
  BY DEF MutexInv, MutexDiscipline, Holding

LEMMA FreedIsEmpty ==
    ASSUME TypeInv, Reported, Runs, mpc \in {"reconnect_links", "exit_free"}
    PROVE  links = <<>>
  <1> SUFFICES ASSUME links # <<>> PROVE FALSE
    OBVIOUS
  <1>1. PICK t \in Threads : tpc[t] = "report_free"
    BY DEF Reported
  <1>2. "links" \in ThreadUses(t)
    BY <1>1 DEF ThreadUses, Both, Full
  <1>3. "links" \in MainUses
    BY DEF MainUses, Both, Full
  <1> QED
    BY <1>2, <1>3 DEF Runs, Race

(* Steps that touch neither the links nor what is printed. *)
LEMMA LinksUntouched ==
    ASSUME ReportInv, UNCHANGED <<links, printed>>, Reported' = Reported
    PROVE  ReportInv' /\ (Table!SwitchChange \/ UNCHANGED Table!linkVars)
  <1>1. Settled' = Settled
    BY DEF Settled
  <1>2. ReportInv'
    BY DEF ReportInv
  <1> QED
    BY <1>1, <1>2 DEF Table!SwitchChange, Table!linkVars

(* The links are freed without a switch, and without links_mutex. *)
LEMMA LinksLost ==
    ASSUME TypeInv, ReportInv, Runs, mpc \in {"reconnect_links", "exit_free"},
           links' = <<>>, UNCHANGED <<printed, tpc>>, sw_sockfd' = 0
    PROVE  ReportInv' /\ Table!SwitchLost
  <1>1. Reported' = Reported
    BY DEF Reported
  <1>2. Reported => links' = links
    BY FreedIsEmpty
  <1>3. Settled' = Settled
    BY <1>1, <1>2 DEF Settled
  <1>4. ReportInv'
    BY <1>1, <1>2 DEF ReportInv
  <1> QED
    BY <1>3, <1>4 DEF Table!SwitchLost

LEMMA MainLinks ==
    ASSUME TypeInv, SessionInv, ReportInv, MainHandler \/ MainLock \/ MainIO
    PROVE  ReportInv' /\ [Table!Add \/ Table!Report \/ Table!SwitchLost \/ Table!SwitchChange]_(Table!linkVars)
  <1> USE DEF At
  <1>1. ASSUME UNCHANGED tpc \/ \E t \in Threads : tpc[t] = "none" /\ tpc' = [tpc EXCEPT ![t] = "round"]
        PROVE  Reported' = Reported
    BY <1>1 DEF Reported, TypeInv, TypeOK
  <1>2. CASE ReconnectLinks
    <2>1. sw_sockfd' = 0
      BY <1>2 DEF ReconnectLinks, SessionInv, SocketInv
    <2> QED
      BY <1>2, <2>1, LinksLost DEF ReconnectLinks, threads
  <1>3. CASE ExitFree
    BY <1>3, LinksLost DEF ExitFree, threads
  <1>4. CASE LldpNode
    <2>1. PICK l \in Link : links' = Append(links, l)
      <3>1. buf # <<>> /\ Head(buf).type = "lldp"
        BY <1>4 DEF LldpNode, TypeInv, MessageInv, HandlerPc, Handled
      <3>2. Head(buf) \in Message
        BY <3>1, HeadTailProperties DEF TypeInv, TypeOK
      <3>3. Head(buf).in_port \in Nat /\ Head(buf).node \in Nodes
        BY <1>4, <3>1, <3>2, MessageFields DEF LldpNode
      <3>4. [node_a |-> [datapath_id |-> switch_id, port_no |-> Head(buf).in_port],
             node_b |-> Head(buf).node] \in Link
        BY <3>3 DEF Link, Node, TypeInv, TypeOK
      <3> QED
        BY <1>4, <3>4 DEF LldpNode
    <2>2. ~Reported /\ ~Reported'
      <3>1. links_mutex = Main
        BY <1>4 DEF LldpNode, TypeInv, MutexInv, MutexDiscipline
      <3> QED
        BY <1>4, <3>1, ReporterOwns, ControllerAssumption DEF LldpNode, threads, Reported, TypeInv
    <2>3. UNCHANGED <<printed, sw_sockfd>>
      BY <1>4 DEF LldpNode
    <2>4. Len(links') = Len(links) + 1 /\ SubSeq(links', 1, Len(links)) = links
      <3>1. links \in Seq(Link) /\ <<l>> \in Seq(Link)
        BY DEF TypeInv, TypeOK
      <3>2. links' = links \o <<l>> /\ Len(links') = Len(links) + 1
        BY <2>1, <3>1, AppendIsConcat, AppendProperties
      <3> QED
        BY <3>1, <3>2, FrontOfConcat
    <2>5. Table!Add
      BY <2>2, <2>3, <2>4 DEF Table!Add, Settled
    <2> QED
      BY <2>2, <2>5 DEF ReportInv
  <1>5. CASE ActionFeaturesReply
    <2>1. Reported' = Reported
      BY <1>1, <1>5 DEF ActionFeaturesReply, CreateThread
    <2> QED
      BY <1>5, <2>1, LinksUntouched DEF ActionFeaturesReply
  <1>6. CASE ReconnectReplys \/ ActionHello \/ HelloFeatures \/ ActionEcho \/ ActionOther \/ FeaturesNoPorts
             \/ FeaturesConfig
    <2>1. UNCHANGED <<links, printed, tpc>>
      BY <1>6
      DEF ReconnectReplys, ActionHello, HelloFeatures, ActionEcho, ActionOther, FeaturesNoPorts,
                  FeaturesConfig, tables, threads
    <2> QED
      BY <1>1, <2>1, LinksUntouched
  <1>7. CASE ActionPackout \/ LldpRequest \/ LldpReply \/ JoinNoThread \/ MainLock \/ AcceptFails
             \/ Read \/ ReadFails
    <2>1. UNCHANGED <<links, printed, tpc>>
      BY <1>7
      DEF ActionPackout, LldpRequest, LldpReply, JoinNoThread, MainLock, FeaturesLock, LldpLock,
                  AcceptFails, Read, ReadFails, tables, threads
    <2> QED
      BY <1>1, <2>1, LinksUntouched
  <1>8. ASSUME NEW s \in Switches, Accept(s) \/ Reconnect(s) PROVE UNCHANGED <<links, printed, tpc>>
    BY <1>8 DEF Accept, Reconnect, tables, threads
  <1> QED
    BY <1>1, <1>2, <1>3, <1>4, <1>5, <1>6, <1>7, <1>8, LinksUntouched DEF MainHandler, MainIO

LEMMA ThreadLinks ==
    ASSUME TypeInv, ReportInv, NEW t \in Threads, ThreadLock(t) \/ ThreadStep(t)
    PROVE  ReportInv' /\ [Table!Add \/ Table!Report \/ Table!SwitchLost \/ Table!SwitchChange]_(Table!linkVars)
  <1>1. CASE Report(t)
    <2>1. /\ tpc[t] = "report" /\ printed' = printed \o links /\ links' = links /\ sw_sockfd' = sw_sockfd
          /\ tpc' = [tpc EXCEPT ![t] = "report_free"]
      BY <1>1 DEF Report, ThreadAt, Goto, main
    <2>2. ~Reported
      <3>1. links_mutex = t
        BY <2>1 DEF TypeInv, MutexInv, MutexDiscipline, Holding
      <3> QED
        BY <2>1, <3>1, ReporterOwns DEF Reported, TypeInv
    <2>3. Reported'
      BY <2>1 DEF Reported, TypeInv, TypeOK
    <2>4. links \in Seq(Link) /\ printed \in Seq(Link)
      BY DEF TypeInv, TypeOK
    <2>5. Settled' = printed
      BY <2>1, <2>3, <2>4, FrontOfConcat DEF Settled
    <2>6. Settled = printed
      BY <2>2 DEF Settled
    <2>7. ReportInv'
      BY <2>1, <2>4 DEF ReportInv
    <2> QED
      BY <2>1, <2>5, <2>6, <2>7 DEF Table!linkVars
  <1>2. CASE ReportFree(t)
    <2>1. /\ tpc[t] = "report_free" /\ printed' = printed /\ links' = <<>> /\ sw_sockfd' = sw_sockfd
          /\ tpc' = [tpc EXCEPT ![t] = "round"]
      BY <1>2 DEF ReportFree, ThreadAt, Goto, main
    <2>2. Reported
      BY <2>1 DEF Reported
    <2>3. ~Reported'
      BY <2>1, ReporterOwns DEF Reported, TypeInv, TypeOK
    <2>4. PICK before \in Seq(Link) : printed = before \o links
      BY <2>2 DEF ReportInv
    <2>5. Settled = before
      BY <2>2, <2>4, SettledWhileReported DEF TypeInv
    <2>6. Settled' = Settled \o links
      BY <2>1, <2>3, <2>4, <2>5 DEF Settled
    <2>7. Table!Report
      BY <2>1, <2>6 DEF Table!Report
    <2> QED
      BY <2>3, <2>7 DEF ReportInv
  <1>3. CASE \/ ThreadLock(t) \/ RoundStart(t) \/ Probe(t) \/ ProbeEnd(t) \/ Announce(t) \/ AnnounceEnd(t)
             \/ Wait(t) \/ WaitEnd(t)
    <2>1. UNCHANGED <<links, printed>>
      BY <1>3
      DEF ThreadLock, RoundLock, AnnounceLock, WaitLock, ReportLock, RoundStart, Probe, ProbeEnd,
                  Announce, AnnounceEnd, Wait, WaitEnd, tables
    <2>2. tpc' = tpc \/ \E to \in ThreadPc \ {"report_free"} :
                           tpc[t] # "report_free" /\ tpc' = [tpc EXCEPT ![t] = to]
      BY <1>3
      DEF ThreadLock, RoundLock, AnnounceLock, WaitLock, ReportLock, LockAndGo, RoundStart, Probe,
                  ProbeEnd, Announce, AnnounceEnd, Wait, WaitEnd, ThreadAt, Goto, threads, ThreadPc
    <2>3. Reported' = Reported
      BY <2>2 DEF Reported, TypeInv, TypeOK
    <2> QED
      BY <2>1, <2>3, LinksUntouched
  <1> QED
    BY <1>1, <1>2, <1>3 DEF ThreadStep

LEMMA LinksStep ==
    ASSUME TypeInv, SessionInv, ReportInv, [Next]_vars
    PROVE  ReportInv' /\ [Table!Add \/ Table!Report \/ Table!SwitchLost \/ Table!SwitchChange]_(Table!linkVars)
  <1>1. ASSUME Undefined \/ Environment \/ UNCHANGED vars
        PROVE  UNCHANGED <<links, printed, tpc>>
    BY <1>1
    DEF Undefined, Environment, SwitchFeatures, SwitchSends, SwitchDies, Signal, vars, tables,
        threads
  <1>2. UNCHANGED tpc => Reported' = Reported
    BY DEF Reported
  <1> QED
    BY <1>1, <1>2, MainLinks, ThreadLinks, LinksUntouched DEF Next

(* Under links_mutex the links table is an indivisible one: every link is  *)
(* printed once, unless its switch is lost first (_con.cpp:574-655,        *)
(* 840-853).                                                               *)
THEOREM LinksAreIndivisible == Spec => ImplementsLinkTable
<1>1. Init => Table!Init /\ ReportInv
  BY DEF Init, Table!Init, ReportInv, Settled, Reported
<1>2. TypeInv /\ SessionInv /\ ReportInv /\ [Next]_vars
        => ReportInv' /\ [Table!Add \/ Table!Report \/ Table!SwitchLost \/ Table!SwitchChange]_(Table!linkVars)
  BY LinksStep
<1> QED
  BY TypeInitially, TypeInductive, SessionInitially, SessionInductive, <1>1, <1>2, PTL
  DEF Spec, ImplementsLinkTable, Table!Spec
=============================================================================
