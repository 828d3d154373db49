----------------------------- MODULE XAppRelay -----------------------------
(***************************************************************************)
(* DAIM stage 1 (DAIM_stage1/stage0.cpp): a relay between a switch and a   *)
(* controller.  The parent process carries what the switch sends, the      *)
(* child it forks carries what the controller sends.  They share the two   *)
(* sockets, and the parent ends the child by SIGTERM: when it fails, and   *)
(* in the handler of SIGINT, which a terminal sends to both.               *)
(***************************************************************************)
EXTENDS Naturals, Sequences

CONSTANTS MaxMessages,     \* bound: messages each peer sends
          MaxInterrupts,   \* bound: Ctrl-C
          MaxStops         \* bound: Ctrl-Z and fg

ASSUME RelayAssumption ==
    MaxMessages \in Nat /\ MaxInterrupts \in Nat /\ MaxStops \in Nat

Procs == {"parent", "child"}
Peers == {"switch", "controller"}

\* The peers a process reads from and writes to.
Source(p) == IF p = "parent" THEN "switch" ELSE "controller"
Target(p) == IF p = "parent" THEN "controller" ELSE "switch"

VARIABLES
    pc,         \* where each process is
    cproc,      \* its copy of cproc: "-1", "0" or "child"
    held,       \* what it read and has not written
    shortened,  \* its write was stopped by Ctrl-Z
    ints, terms,    \* processes with SIGINT and SIGTERM pending
    news,       \* the child was stopped and continued, unknown to waitpid
    targets,    \* history: what kill was called with
    peer,       \* "open", "half" (it sends no more), "closed" or "reset"
    sent, taken, got,   \* per reading process: messages sent, read, delivered
    interrupts, stops

procs == <<pc, cproc, held, shortened>>
signals == <<ints, terms, news, targets, interrupts, stops>>
net == <<peer, sent, taken, got>>
vars == <<procs, signals, net>>

Init ==
    /\ pc = [p \in Procs |-> IF p = "parent" THEN "start" ELSE "none"]
    /\ cproc = [p \in Procs |-> "-1"]
    /\ held = [p \in Procs |-> <<>>]
    /\ shortened = [p \in Procs |-> FALSE]
    /\ ints = {} /\ terms = {} /\ news = FALSE /\ targets = {}
    /\ peer = [d \in Peers |-> "open"]
    /\ sent = [p \in Procs |-> <<>>] /\ taken = [p \in Procs |-> 0]
    /\ got = [p \in Procs |-> <<>>]
    /\ interrupts = 0 /\ stops = 0

Gone == {"none", "ended", "killed"}
Alive == {p \in Procs : pc[p] \notin Gone}

Goto(p, to) == pc' = [pc EXCEPT ![p] = to]
Move(p, from, to) == pc[p] = from /\ Goto(p, to)

----------------------------------------------------------------------------
(* From the start to the two loops. *)

\* create_app_socket, create_controller_socket or fork fails.
StartFails ==
    /\ Move("parent", "start", "ended") \/ Move("parent", "armed", "ended")
    /\ UNCHANGED <<cproc, held, shortened, signals, net>>

\* Both sockets are connected and exit_handler is set.
Start ==
    /\ Move("parent", "start", "armed")
    /\ UNCHANGED <<cproc, held, shortened, signals, net>>

\* Both processes run before fork's result is in cproc.
Fork ==
    /\ pc["parent"] = "armed"
    /\ pc' = [pc EXCEPT !["parent"] = "forked", !["child"] = "forked"]
    /\ UNCHANGED <<cproc, held, shortened, signals, net>>

ParentAssigns ==
    /\ Move("parent", "forked", "read")
    /\ cproc' = [cproc EXCEPT !["parent"] = "child"]
    /\ UNCHANGED <<held, shortened, signals, net>>

ChildAssigns ==
    /\ Move("child", "forked", "zero")
    /\ cproc' = [cproc EXCEPT !["child"] = "0"]
    /\ UNCHANGED <<held, shortened, signals, net>>

ChildIgnoresInt ==
    /\ Move("child", "zero", "deaf")
    /\ UNCHANGED <<cproc, held, shortened, signals, net>>

ChildHandlesTerm ==
    /\ Move("child", "deaf", "read")
    /\ UNCHANGED <<cproc, held, shortened, signals, net>>

----------------------------------------------------------------------------
(* The loops.  A read at the end of the stream returns 0 and is made again  *)
(* for ever.                                                               *)

Read(p) ==
    /\ Move(p, "read", "write")
    /\ \E n \in taken[p] + 1 .. Len(sent[p]) :
        /\ held' = [held EXCEPT ![p] = SubSeq(sent[p], taken[p] + 1, n)]
        /\ taken' = [taken EXCEPT ![p] = n]
    /\ UNCHANGED <<cproc, shortened, signals, peer, sent, got>>

\* A call returned -1.
Fail(p) == Goto(p, IF p = "parent" THEN "kill" ELSE "ended")

\* Mutant of ReadFails: the end of the stream is an error.
EofFails(p) ==
    /\ pc[p] = "read" /\ peer[Source(p)] # "open" /\ taken[p] = Len(sent[p])
    /\ Fail(p)
    /\ UNCHANGED <<cproc, held, shortened, signals, net>>

ReadFails(p) ==
    /\ pc[p] = "read" /\ peer[Source(p)] = "reset"
    /\ Fail(p)
    /\ UNCHANGED <<cproc, held, shortened, signals, net>>

\* Mutant of Write: the chunk is written again.
WriteAgain(p) ==
    /\ pc[p] = "write" /\ peer[Target(p)] \in {"open", "half"}
    /\ got' = [got EXCEPT ![p] = @ \o held[p]]
    /\ UNCHANGED <<procs, signals, peer, sent, taken>>

\* A write that was stopped may return a part of the length, and the rest of
\* the buffer is forgotten.
Write(p) ==
    /\ Move(p, "write", "read")
    /\ peer[Target(p)] \in {"open", "half"}
    /\ \E n \in 0 .. Len(held[p]) :
        /\ n < Len(held[p]) => shortened[p]
        /\ got' = [got EXCEPT ![p] = @ \o SubSeq(held[p], 1, n)]
    /\ held' = [held EXCEPT ![p] = <<>>]
    /\ shortened' = [shortened EXCEPT ![p] = FALSE]
    /\ UNCHANGED <<cproc, signals, peer, sent, taken>>

\* The kernel takes what is written to a closed peer, whose answer is a reset.
WriteLost(p) ==
    /\ Move(p, "write", "read")
    /\ peer[Target(p)] = "closed"
    /\ peer' = [peer EXCEPT ![Target(p)] = "reset"]
    /\ held' = [held EXCEPT ![p] = <<>>]
    /\ shortened' = [shortened EXCEPT ![p] = FALSE]
    /\ UNCHANGED <<cproc, signals, sent, taken, got>>

\* After a reset write fails, or SIGPIPE, which nothing handles, kills.
WriteFails(p) ==
    /\ pc[p] = "write" /\ peer[Target(p)] = "reset"
    /\ Fail(p) \/ Goto(p, "killed")
    /\ UNCHANGED <<cproc, held, shortened, signals, net>>

----------------------------------------------------------------------------
(* kill and waitpid. *)


\* kill (cproc, SIGTERM): "-1" is every process but the caller, "0" is the
\* process group of the caller.
KillCproc(p) ==
    /\ targets' = targets \cup {cproc[p]}
    /\ terms' = terms \cup
         (CASE cproc[p] = "-1" -> Alive \ {p}
            [] cproc[p] = "0" -> Alive
            [] OTHER -> Alive \cap {"child"})

KillChild ==
    /\ Move("parent", "kill", "wait")
    /\ KillCproc("parent")
    /\ UNCHANGED <<cproc, held, shortened, ints, news, interrupts, stops, net>>

\* Mutant of WaitPid: WNOHANG.
WaitNot ==
    /\ Move("parent", "wait", "reaped")
    /\ UNCHANGED <<cproc, held, shortened, signals, net>>

\* With WUNTRACED and WCONTINUED it returns for a child that did not end, too.
WaitPid ==
    /\ Move("parent", "wait", "reaped")
    /\ "child" \notin Alive \/ news
    /\ news' = FALSE
    /\ UNCHANGED <<cproc, held, shortened, ints, terms, targets, interrupts, stops, net>>

ParentExit ==
    /\ Move("parent", "reaped", "ended")
    /\ UNCHANGED <<cproc, held, shortened, signals, net>>

----------------------------------------------------------------------------
(* Signals.  *)

\* Mutant of HandlesInt: the child does not ignore SIGINT.
HandlesIntAlways(p) == pc[p] # "start"

\* exit_handler, in the parent and in the child until it ignores SIGINT.
HandlesInt(p) == pc[p] # "start" /\ (p = "parent" \/ pc[p] \in {"forked", "zero"})

ExitHandler(p) ==
    /\ p \in ints \cap Alive /\ HandlesInt(p)
    /\ ints' = ints \ {p}
    /\ KillCproc(p)
    /\ Goto(p, "ended")
    /\ UNCHANGED <<cproc, held, shortened, news, interrupts, stops, net>>

\* The parent has no handler at first; the child later ignores SIGINT.
IntElse(p) ==
    /\ p \in ints \cap Alive /\ ~HandlesInt(p)
    /\ ints' = ints \ {p}
    /\ IF p = "parent" THEN Goto(p, "killed") ELSE UNCHANGED pc
    /\ UNCHANGED <<cproc, held, shortened, terms, news, targets, interrupts, stops, net>>

\* child_exit_handler once it is set, else the default action.
Term(p) ==
    /\ p \in terms \cap Alive
    /\ terms' = terms \ {p}
    /\ Goto(p, IF p = "child" /\ pc[p] \in {"read", "write"} THEN "ended" ELSE "killed")
    /\ UNCHANGED <<cproc, held, shortened, ints, news, targets, interrupts, stops, net>>

CtrlC ==
    /\ Alive # {} /\ interrupts < MaxInterrupts
    /\ ints' = Alive /\ interrupts' = interrupts + 1
    /\ UNCHANGED <<procs, terms, news, targets, stops, net>>

\* Ctrl-Z and fg.
JobControl ==
    /\ Alive # {} /\ stops < MaxStops
    /\ stops' = stops + 1
    /\ news' = ("child" \in Alive)
    /\ shortened' = [p \in Procs |-> pc[p] = "write"]
    /\ UNCHANGED <<pc, cproc, held, ints, terms, targets, interrupts, net>>

----------------------------------------------------------------------------
(* The switch and the controller (external). *)

PeerSends(p) ==
    /\ pc["parent"] \notin {"start"} /\ peer[Source(p)] = "open"
    /\ Len(sent[p]) < MaxMessages
    /\ sent' = [sent EXCEPT ![p] = Append(@, Len(@) + 1)]
    /\ UNCHANGED <<procs, signals, peer, taken, got>>

PeerLeaves(d) ==
    /\ pc["parent"] \notin {"start"}
    /\ \E s \in {"half", "closed", "reset"} :
        /\ <<peer[d], s>> \in {"open"} \X {"half", "closed", "reset"}
                              \cup {"half"} \X {"closed", "reset"}
        /\ peer' = [peer EXCEPT ![d] = s]
    /\ UNCHANGED <<procs, signals, sent, taken, got>>

----------------------------------------------------------------------------
ProcStep(p) ==
    \/ Read(p) \/ ReadFails(p) \/ Write(p) \/ WriteLost(p) \/ WriteFails(p)

ParentStep == ParentAssigns \/ KillChild \/ WaitPid \/ ParentExit

ChildStep == ChildAssigns \/ ChildIgnoresInt \/ ChildHandlesTerm

Deliver(p) == ExitHandler(p) \/ IntElse(p) \/ Term(p)

Environment ==
    \/ CtrlC \/ JobControl
    \/ \E p \in Procs : PeerSends(p)
    \/ \E d \in Peers : PeerLeaves(d)

Next ==
    \/ StartFails \/ Start \/ Fork \/ ParentStep \/ ChildStep
    \/ \E p \in Procs : ProcStep(p) \/ Deliver(p)
    \/ Environment

Spec == Init /\ [][Next]_vars

\* The kernel runs both processes and delivers their signals.
FairSpec ==
    /\ Spec
    /\ WF_vars(ParentStep) /\ WF_vars(ChildStep)
    /\ \A p \in Procs : WF_vars(ProcStep(p)) /\ WF_vars(Deliver(p))

----------------------------------------------------------------------------
(* Properties. *)

ParentPc == {"start", "armed", "forked", "read", "write", "kill", "wait", "reaped"} \cup Gone
ChildPc == {"forked", "zero", "deaf", "read", "write"} \cup Gone

TypeOK ==
    /\ pc \in [Procs -> ParentPc \cup ChildPc]
    /\ pc["parent"] \in ParentPc /\ pc["child"] \in ChildPc
    /\ cproc \in [Procs -> {"-1", "0", "child"}]
    /\ held \in [Procs -> Seq(Nat)] /\ shortened \in [Procs -> BOOLEAN]
    /\ ints \subseteq Procs /\ terms \subseteq Procs /\ news \in BOOLEAN
    /\ targets \subseteq {"-1", "0", "child"}
    /\ peer \in [Peers -> {"open", "half", "closed", "reset"}]
    /\ sent \in [Procs -> Seq(Nat)] /\ got \in [Procs -> Seq(Nat)]
    /\ taken \in [Procs -> Nat]
    /\ interrupts \in Nat /\ stops \in Nat

\* Without Ctrl-Z each direction is the channel of the ReadMe: nothing is
\* lost, doubled or reordered but for the last messages before an end.
Up == INSTANCE Channel WITH sent <- sent["parent"], got <- got["parent"], cut <- stops > 0
Down == INSTANCE Channel WITH sent <- sent["child"], got <- got["child"], cut <- stops > 0

\* Both loops of stage0.cpp:116-175 implement it at once, whatever the signals.
ImplementsChannels == Up!Spec /\ Down!Spec

\* A parent that failed, or that was interrupted, takes its child with it, and is
\* not stuck in waitpid (stage0.cpp:157); a parent that SIGPIPE kills may leave
\* its child behind.
NoChildLeft ==
    pc["parent"] \in {"wait", "ended"} ~> pc["parent"] \in Gone /\ pc["child"] \in Gone

\* A child that failed ends alone (stage0.cpp:125, 134).  The parent goes on until
\* it meets the broken connection itself: as soon as it reads from a switch that
\* was reset, or has something to write to a controller that was.  Until then a
\* parent without a child may run for ever.
ChildFailed == pc["child"] \in {"ended", "killed"}

ParentMeetsReset ==
    \/ peer["switch"] = "reset"
    \/ peer["controller"] = "reset" /\ taken["parent"] < Len(sent["parent"])

ParentFollows == (ChildFailed /\ ParentMeetsReset) ~> pc["parent"] \in Gone


\* "Waiting for child process to exit" (stage0.cpp:154): when waitpid is over
\* the child has ended; but after a Ctrl-Z waitpid may return for that.
WaitedForChild == stops = 0 /\ pc["parent"] = "reaped" => pc["child"] \in Gone

\* Each process is in a state of its own program, and the parent does not go on
\* as if its child were gone while the child runs (stage0.cpp:153-172).
ProcessesOK == TypeOK /\ WaitedForChild

\* The signal of exit_handler reaches other processes than the child only in
\* the instants around fork (stage0.cpp:91-111).
StrayKillOnlyAtFork ==
    [][targets' \cap {"-1", "0"} # targets \cap {"-1", "0"} =>
         pc["parent"] \in {"armed", "forked"} \/ pc["child"] \in {"forked", "zero"}]_vars

\* One direction outlives the other: a peer that sends no more still gets
\* what the other peer sends, as the end of a stream is no error.
Served ==
    /\ interrupts = 0 /\ stops = 0 /\ \A d \in Peers : peer[d] \in {"open", "half"}
    /\ Alive = Procs

BothDirectionsLast ==
    \A p \in Procs :
        Served /\ got[p] # sent[p]
            ~> \/ got[p] = sent[p] \/ interrupts > 0 \/ stops > 0
               \/ \E d \in Peers : peer[d] \notin {"open", "half"}
============================================================================
