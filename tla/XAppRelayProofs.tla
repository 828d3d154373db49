-------------------------- MODULE XAppRelayProofs --------------------------
(* Proofs about the relay, whatever the peers send and however often the   *)
(* processes are interrupted or stopped: where the signal of exit_handler  *)
(* may go astray, that the parent waits for its child, and that each       *)
(* direction is a channel.                                                 *)
EXTENDS XAppRelay, SequenceTheorems, TLAPS

\* From the moment fork's result is stored the parent knows its child.
KnowsChild ==
    /\ pc \in [Procs -> ParentPc \cup ChildPc] /\ pc["parent"] \in ParentPc
    /\ cproc \in [Procs -> {"-1", "0", "child"}]
    /\ pc["parent"] \in {"read", "write", "kill", "wait", "reaped"} => cproc["parent"] = "child"

USE DEF vars, procs, signals, net, Goto, Move

LEMMA KnowsInitially == Init => KnowsChild
BY DEF Init, KnowsChild, Procs, ParentPc, ChildPc, Gone

\* A step that leaves cproc alone, and moves the parent into its loop or the
\* end of it from nowhere else.
LEMMA StaysKnown ==
    ASSUME KnowsChild, UNCHANGED cproc, NEW p \in Procs, NEW to \in ParentPc \cup ChildPc,
           pc' = [pc EXCEPT ![p] = to],
           \/ p = "child" \/ to \in Gone
           \/ /\ to \in ParentPc
              /\ pc["parent"] \in {"read", "write", "kill", "wait", "reaped"}
    PROVE  KnowsChild'
BY DEF KnowsChild, Gone, Procs, ParentPc

LEMMA KnowsInductive == KnowsChild /\ [Next]_vars => KnowsChild'
<1> SUFFICES ASSUME KnowsChild, [Next]_vars PROVE KnowsChild'
    OBVIOUS
<1>0. "parent" \in Procs /\ "child" \in Procs /\ \A p \in Procs : p \in {"parent", "child"}
    BY DEF Procs
<1>1. CASE StartFails \/ Start
    BY <1>1 DEF StartFails, Start, KnowsChild, Procs, ParentPc, ChildPc, Gone
<1>2. CASE Fork
    BY <1>2 DEF Fork, KnowsChild, Procs, ParentPc, ChildPc, Gone
<1>3. CASE ParentAssigns
    BY <1>3 DEF ParentAssigns, KnowsChild, Procs, ParentPc, ChildPc, Gone
<1>4. CASE KillChild \/ WaitPid \/ ParentExit
    <2>1. UNCHANGED cproc /\ pc["parent"] \in {"kill", "wait", "reaped"}
          /\ \E to \in {"wait", "reaped", "ended"} : pc' = [pc EXCEPT !["parent"] = to]
        BY <1>4 DEF KillChild, WaitPid, ParentExit
    <2>2. QED BY <1>0, <2>1, StaysKnown DEF ParentPc, Gone
<1>5. CASE ChildAssigns
    BY <1>5 DEF ChildAssigns, KnowsChild, Procs, ParentPc, ChildPc, Gone
<1>6. CASE ChildIgnoresInt \/ ChildHandlesTerm
    <2>1. UNCHANGED cproc /\ \E to \in {"deaf", "read"} : pc' = [pc EXCEPT !["child"] = to]
        BY <1>6 DEF ChildIgnoresInt, ChildHandlesTerm
    <2>2. QED BY <1>0, <2>1, StaysKnown DEF ChildPc
<1>7. ASSUME NEW p \in Procs, ProcStep(p) PROVE KnowsChild'
    <2>1. UNCHANGED cproc /\ pc[p] \in {"read", "write"}
          /\ \E to \in {"read", "write", "kill", "ended", "killed"} : pc' = [pc EXCEPT ![p] = to]
        BY <1>7 DEF ProcStep, Read, ReadFails, Write, WriteLost, WriteFails, Fail
    <2>2. QED BY <1>0, <2>1, StaysKnown DEF ParentPc, ChildPc, Gone
<1>8. ASSUME NEW p \in Procs, Deliver(p) PROVE KnowsChild'
    <2>1. CASE UNCHANGED <<cproc, pc>>
        BY <2>1 DEF KnowsChild
    <2>2. CASE UNCHANGED cproc /\ \E to \in {"ended", "killed"} : pc' = [pc EXCEPT ![p] = to]
        BY <2>2, StaysKnown DEF ParentPc, Gone
    <2>3. QED BY <1>8, <2>1, <2>2 DEF Deliver, ExitHandler, IntElse, Term
<1>9. CASE Environment \/ UNCHANGED vars
    BY <1>9 DEF Environment, CtrlC, JobControl, PeerSends, PeerLeaves, KnowsChild
<1>10. QED BY <1>1, <1>2, <1>3, <1>4, <1>5, <1>6, <1>7, <1>8, <1>9
           DEF Next, ParentStep, ChildStep

AtFork == pc["parent"] \in {"armed", "forked"} \/ pc["child"] \in {"forked", "zero"}

LEMMA StrayStep ==
    KnowsChild /\ [Next]_vars =>
        (targets' \cap {"-1", "0"} # targets \cap {"-1", "0"} => AtFork)
<1> SUFFICES ASSUME KnowsChild, [Next]_vars, targets' \cap {"-1", "0"} # targets \cap {"-1", "0"}
             PROVE  AtFork
    OBVIOUS
<1>1. CASE KillChild
    <2>1. cproc["parent"] = "child"
        BY <1>1 DEF KillChild, KnowsChild
    <2>2. targets' = targets \cup {"child"}
        BY <1>1, <2>1 DEF KillChild, KillCproc
    <2>3. QED BY <2>2
<1>2. ASSUME NEW p \in Procs, ExitHandler(p) PROVE AtFork
    <2>1. targets' = targets \cup {cproc[p]}
        BY <1>2 DEF ExitHandler, KillCproc
    <2>2. cproc[p] # "child"
        BY <2>1
    <2>3. CASE p = "parent"
        <3>1. pc["parent"] \notin {"read", "write", "kill", "wait", "reaped"}
            BY <2>2, <2>3 DEF KnowsChild
        <3>2. pc["parent"] \notin Gone /\ pc["parent"] # "start"
            BY <1>2, <2>3 DEF ExitHandler, HandlesInt, Alive
        <3>3. pc["parent"] \in ParentPc
            BY DEF KnowsChild
        <3>4. QED BY <3>1, <3>2, <3>3 DEF AtFork, ParentPc
    <2>4. CASE p # "parent"
        BY <1>2, <2>4 DEF ExitHandler, HandlesInt, AtFork, Procs
    <2>5. QED BY <2>3, <2>4
<1>3. CASE UNCHANGED targets
    BY <1>3
<1>4. KillChild \/ (\E p \in Procs : ExitHandler(p)) \/ UNCHANGED targets
    BY DEF Next, StartFails, Start, Fork, ParentStep, ChildStep, ParentAssigns, WaitPid,
           ParentExit, ChildAssigns, ChildIgnoresInt, ChildHandlesTerm, ProcStep, Read,
           ReadFails, Write, WriteLost, WriteFails, Deliver, IntElse, Term, Environment,
           CtrlC, JobControl, PeerSends, PeerLeaves
<1>5. QED BY <1>1, <1>2, <1>3, <1>4

\* kill is called with -1 or 0 only in the instants around fork.
THEOREM KillsGoAstrayOnlyAtFork == Spec => StrayKillOnlyAtFork
<1>1. KnowsChild /\ [Next]_vars =>
        [targets' \cap {"-1", "0"} # targets \cap {"-1", "0"} =>
           pc["parent"] \in {"armed", "forked"} \/ pc["child"] \in {"forked", "zero"}]_vars
    BY StrayStep DEF AtFork
<1>2. QED BY <1>1, KnowsInitially, KnowsInductive, PTL DEF Spec, StrayKillOnlyAtFork

----------------------------------------------------------------------------
(* Each direction is a channel, and waitpid waits for the child.           *)

\* Where a process has written whatever it read.
NotWriting == {"none", "start", "armed", "forked", "zero", "deaf", "read"}

ProgramInv ==
    /\ pc["parent"] \in {"start", "armed"} => pc["child"] = "none"
    /\ \A p \in Procs : pc[p] \in NotWriting => held[p] = <<>>
    /\ stops = 0 => ~news /\ \A p \in Procs : ~shortened[p]
    /\ WaitedForChild

\* What was read from one peer was written to the other, or is held; until the
\* other peer is lost, or somebody types Ctrl-Z.
Forwarded(p) ==
    /\ taken[p] <= Len(sent[p])
    /\ stops = 0 /\ peer[Target(p)] \in {"open", "half"} =>
          got[p] \o held[p] = SubSeq(sent[p], 1, taken[p])

RelayInv == TypeOK /\ ProgramInv /\ \A p \in Procs : Forwarded(p)

LEMMA TwoProcs == /\ "parent" \in Procs /\ "child" \in Procs
                  /\ \A p \in Procs : p \in {"parent", "child"} /\ Target(p) \in Peers /\ Source(p) \in Peers
BY DEF Procs, Peers, Target, Source

\* A process that moves within its program.
LEMMA MoveTyped ==
    ASSUME TypeOK, NEW p \in Procs, NEW to,
           p = "parent" => to \in ParentPc, p = "child" => to \in ChildPc,
           pc' = [pc EXCEPT ![p] = to]
    PROVE  /\ pc' \in [Procs -> ParentPc \cup ChildPc]
           /\ pc'["parent"] \in ParentPc /\ pc'["child"] \in ChildPc
           /\ pc'[p] = to /\ \A q \in Procs \ {p} : pc'[q] = pc[q]
BY TwoProcs DEF TypeOK

\* Steps of the control: nothing is read or written.
LEMMA ControlKeeps ==
    ASSUME RelayInv, TypeOK', UNCHANGED <<held, shortened, net, stops>>, news' => news,
           pc'["parent"] \in {"start", "armed"} => pc'["child"] = "none",
           \A p \in Procs : pc'[p] \in NotWriting => pc[p] \in NotWriting,
           WaitedForChild'
    PROVE  RelayInv'
BY DEF RelayInv, ProgramInv, Forwarded

LEMMA KillTyped ==
    ASSUME TypeOK, NEW p \in Procs, KillCproc(p)
    PROVE  targets' \subseteq {"-1", "0", "child"} /\ terms' \subseteq Procs
<1>1. cproc[p] \in {"-1", "0", "child"} /\ Alive \subseteq Procs
    BY DEF TypeOK, Alive
<1>2. targets' = targets \cup {cproc[p]}
    BY DEF KillCproc
<1>3. terms' \subseteq terms \cup Alive
    BY DEF KillCproc
<1>4. QED BY <1>1, <1>2, <1>3 DEF TypeOK

LEMMA StartKeeps ==
    ASSUME RelayInv, StartFails \/ Start \/ Fork \/ ParentAssigns \/ ChildStep
    PROVE  RelayInv'
<1> USE TwoProcs DEF ParentPc, ChildPc, Gone
<1>1. TypeOK
    BY DEF RelayInv
<1>2. CASE StartFails
    <2>1. TypeOK' /\ pc'["parent"] = "ended" /\ pc'["child"] = pc["child"]
        BY <1>1, <1>2, MoveTyped DEF StartFails, TypeOK
    <2>2. QED BY <1>2, <2>1, ControlKeeps DEF StartFails, NotWriting, WaitedForChild
<1>3. CASE Start
    <2>1. TypeOK' /\ pc'["parent"] = "armed" /\ pc'["child"] = pc["child"]
        BY <1>1, <1>3, MoveTyped DEF Start, TypeOK
    <2>2. QED BY <1>3, <2>1, ControlKeeps
              DEF Start, NotWriting, WaitedForChild, RelayInv, ProgramInv
<1>4. CASE Fork
    <2>1. pc["parent"] = "armed" /\ pc["child"] = "none"
        BY <1>4 DEF Fork, RelayInv, ProgramInv
    <2>2. pc' = [p \in Procs |-> "forked"]
        BY <1>1, <1>4 DEF Fork, TypeOK, Procs
    <2>3. TypeOK'
        BY <1>1, <1>4, <2>2 DEF Fork, TypeOK
    <2>4. QED BY <1>4, <2>1, <2>2, <2>3, ControlKeeps DEF Fork, NotWriting, WaitedForChild, Procs
<1>5. CASE ParentAssigns
    <2>1. pc'["parent"] = "read" /\ pc'["child"] = pc["child"]
          /\ pc' \in [Procs -> ParentPc \cup ChildPc] /\ pc["parent"] = "forked"
        BY <1>1, <1>5, MoveTyped DEF ParentAssigns
    <2>2. TypeOK'
        BY <1>1, <1>5, <2>1 DEF ParentAssigns, TypeOK
    <2>3. QED BY <1>5, <2>1, <2>2, ControlKeeps DEF ParentAssigns, NotWriting, WaitedForChild
<1>6. CASE ChildStep
    <2>1. PICK to \in {"zero", "deaf", "read"} :
             pc' = [pc EXCEPT !["child"] = to] /\ pc["child"] \in {"forked", "zero", "deaf"}
        BY <1>6 DEF ChildStep, ChildAssigns, ChildIgnoresInt, ChildHandlesTerm
    <2>2. cproc' \in [Procs -> {"-1", "0", "child"}]
        BY <1>1, <1>6 DEF ChildStep, ChildAssigns, ChildIgnoresInt, ChildHandlesTerm, TypeOK
    <2>3. pc'["child"] = to /\ pc'["parent"] = pc["parent"] /\ pc'["parent"] \in ParentPc
          /\ pc' \in [Procs -> ParentPc \cup ChildPc]
        BY <1>1, <2>1, MoveTyped
    <2>4. UNCHANGED <<held, shortened, signals, net>>
        BY <1>6 DEF ChildStep, ChildAssigns, ChildIgnoresInt, ChildHandlesTerm
    <2>5. TypeOK'
        BY <1>1, <2>2, <2>3, <2>4 DEF TypeOK
    <2>6. pc["parent"] \notin {"start", "armed"} /\ ~(stops = 0 /\ pc["parent"] = "reaped")
        BY <2>1 DEF RelayInv, ProgramInv, WaitedForChild
    <2>7. QED BY <2>1, <2>3, <2>4, <2>5, <2>6, ControlKeeps DEF NotWriting, WaitedForChild
<1>7. QED BY <1>2, <1>3, <1>4, <1>5, <1>6

LEMMA EndKeeps ==
    ASSUME RelayInv, KillChild \/ WaitPid \/ ParentExit
    PROVE  RelayInv'
<1> USE TwoProcs DEF ParentPc, ChildPc, Gone
<1>1. TypeOK
    BY DEF RelayInv
<1>2. CASE KillChild
    <2>1. pc'["parent"] = "wait" /\ pc'["child"] = pc["child"]
          /\ pc' \in [Procs -> ParentPc \cup ChildPc] /\ pc["parent"] = "kill"
        BY <1>1, <1>2, MoveTyped DEF KillChild
    <2>2. TypeOK'
        BY <1>1, <1>2, <2>1, KillTyped DEF KillChild, TypeOK
    <2>3. QED BY <1>2, <2>1, <2>2, ControlKeeps DEF KillChild, NotWriting, WaitedForChild
<1>3. CASE WaitPid
    <2>1. pc'["parent"] = "reaped" /\ pc'["child"] = pc["child"]
          /\ pc' \in [Procs -> ParentPc \cup ChildPc] /\ pc["parent"] = "wait"
        BY <1>1, <1>3, MoveTyped DEF WaitPid
    <2>2. TypeOK'
        BY <1>1, <1>3, <2>1 DEF WaitPid, TypeOK
    <2>3. stops = 0 => pc["child"] \in Gone
        BY <1>3 DEF WaitPid, Alive, RelayInv, ProgramInv
    <2>4. WaitedForChild'
        BY <1>3, <2>1, <2>3 DEF WaitPid, WaitedForChild
    <2>5. QED BY <1>3, <2>1, <2>2, <2>4, ControlKeeps DEF WaitPid, NotWriting
<1>4. CASE ParentExit
    <2>1. pc'["parent"] = "ended" /\ pc'["child"] = pc["child"]
          /\ pc' \in [Procs -> ParentPc \cup ChildPc]
        BY <1>1, <1>4, MoveTyped DEF ParentExit
    <2>2. TypeOK'
        BY <1>1, <1>4, <2>1 DEF ParentExit, TypeOK
    <2>3. QED BY <1>4, <2>1, <2>2, ControlKeeps DEF ParentExit, NotWriting, WaitedForChild
<1>5. QED BY <1>2, <1>3, <1>4

\* Nobody comes back: a process that is gone stays gone.
LEMMA LeaveKeeps ==
    ASSUME RelayInv, TypeOK', NEW p \in Procs, NEW to \in {"ended", "killed", "kill"},
           pc[p] \notin Gone, pc' = [pc EXCEPT ![p] = to],
           UNCHANGED <<held, shortened, net, stops, news>>
    PROVE  RelayInv'
<1>1. pc'[p] = to /\ \A q \in Procs \ {p} : pc'[q] = pc[q]
    BY DEF RelayInv, TypeOK
<1>2. pc'["parent"] \in {"start", "armed", "reaped"} =>
          pc'["parent"] = pc["parent"] /\ p = "child"
    BY <1>1, TwoProcs
<1>3. WaitedForChild'
    BY <1>1, <1>2, TwoProcs DEF WaitedForChild, RelayInv, ProgramInv, Gone
<1>4. pc'["parent"] \in {"start", "armed"} => pc'["child"] = "none"
    BY <1>2, TwoProcs DEF RelayInv, ProgramInv, Gone
<1>5. QED BY <1>1, <1>3, <1>4, ControlKeeps DEF NotWriting

LEMMA SignalKeeps ==
    ASSUME RelayInv, NEW p \in Procs, Deliver(p)
    PROVE  RelayInv'
<1> USE TwoProcs DEF ParentPc, ChildPc, Gone
<1>1. TypeOK
    BY DEF RelayInv
<1>2. targets' \subseteq {"-1", "0", "child"} /\ terms' \subseteq Procs /\ ints' \subseteq Procs
    BY <1>1, KillTyped DEF Deliver, ExitHandler, IntElse, Term, TypeOK
<1>3. UNCHANGED <<cproc, held, shortened, net, stops, news, interrupts>> /\ pc[p] \notin Gone
    BY DEF Deliver, ExitHandler, IntElse, Term, Alive
<1>4. CASE \E to \in {"ended", "killed"} : pc' = [pc EXCEPT ![p] = to]
    <2>1. PICK to \in {"ended", "killed"} : pc' = [pc EXCEPT ![p] = to]
        BY <1>4
    <2>2. TypeOK'
        BY <1>1, <1>2, <1>3, <2>1, MoveTyped DEF TypeOK
    <2>3. QED BY <1>3, <2>1, <2>2, LeaveKeeps
<1>5. CASE UNCHANGED pc
    <2>1. TypeOK'
        BY <1>1, <1>2, <1>3, <1>5 DEF TypeOK
    <2>2. QED BY <1>3, <1>5, <2>1, ControlKeeps DEF RelayInv, ProgramInv, WaitedForChild
<1>6. QED BY <1>4, <1>5 DEF Deliver, ExitHandler, IntElse, Term

\* A failed call ends the process, or takes the parent to kill.
LEMMA FailKeeps ==
    ASSUME RelayInv, NEW p \in Procs, ReadFails(p) \/ WriteFails(p)
    PROVE  RelayInv'
<1>1. PICK to \in {"ended", "killed", "kill"} :
          pc' = [pc EXCEPT ![p] = to] /\ (p = "child" => to # "kill")
    BY TwoProcs DEF ReadFails, WriteFails, Fail
<1>2. UNCHANGED <<cproc, held, shortened, signals, net>> /\ pc[p] \in {"read", "write"}
    BY DEF ReadFails, WriteFails
<1>3. TypeOK'
    BY <1>1, <1>2, TwoProcs, MoveTyped DEF RelayInv, TypeOK, ParentPc, ChildPc, Gone
<1>4. QED BY <1>1, <1>2, <1>3, LeaveKeeps DEF Gone

\* What is read comes after what was read.
LEMMA ReadKeeps ==
    ASSUME RelayInv, NEW p \in Procs, Read(p)
    PROVE  RelayInv'
<1> USE TwoProcs
<1>1. TypeOK /\ ProgramInv
    BY DEF RelayInv
<1>2. PICK n \in taken[p] + 1 .. Len(sent[p]) :
        /\ held' = [held EXCEPT ![p] = SubSeq(sent[p], taken[p] + 1, n)]
        /\ taken' = [taken EXCEPT ![p] = n]
    BY DEF Read
<1>3. pc[p] = "read" /\ pc' = [pc EXCEPT ![p] = "write"]
      /\ UNCHANGED <<cproc, shortened, signals, peer, sent, got>>
    BY DEF Read
<1>4. sent[p] \in Seq(Nat) /\ got[p] \in Seq(Nat) /\ taken[p] \in Nat /\ Len(sent[p]) \in Nat /\ n \in Nat
    BY <1>1, <1>2, SMTT(20) DEF TypeOK
<1>5. SubSeq(sent[p], taken[p] + 1, n) \in Seq(Nat)
    BY <1>2, <1>4
<1>6. pc' \in [Procs -> ParentPc \cup ChildPc] /\ pc'["parent"] \in ParentPc /\ pc'["child"] \in ChildPc
      /\ pc'[p] = "write" /\ \A q \in Procs \ {p} : pc'[q] = pc[q]
    BY <1>1, <1>3, MoveTyped DEF ParentPc, ChildPc
<1>7. TypeOK'
    BY <1>1, <1>2, <1>3, <1>4, <1>5, <1>6 DEF TypeOK
<1>8. /\ held'[p] = SubSeq(sent[p], taken[p] + 1, n) /\ taken'[p] = n
      /\ \A q \in Procs \ {p} : held'[q] = held[q] /\ taken'[q] = taken[q]
    BY <1>1, <1>2 DEF TypeOK
<1>9. ProgramInv'
    BY <1>1, <1>3, <1>6, <1>8 DEF ProgramInv, WaitedForChild, NotWriting, Gone
<1>10. Forwarded(p)'
    <2>1. held[p] = <<>> /\ Forwarded(p)
        BY <1>1, <1>3 DEF ProgramInv, NotWriting, RelayInv
    <2>2. got[p] \o held[p] = got[p]
        BY <2>1, <1>4, ConcatEmptySeq
    <2>3. SubSeq(sent[p], 1, taken[p]) \o SubSeq(sent[p], taken[p] + 1, n) = SubSeq(sent[p], 1, n)
        <3>1. 1 \in 1 .. Len(sent[p]) + 1 /\ taken[p] \in 1 - 1 .. Len(sent[p]) /\ n \in taken[p] .. Len(sent[p])
            BY <2>1, <1>2, <1>4 DEF Forwarded
        <3>2. QED BY <3>1, <1>4, ConcatAdjacentSubSeq
    <2>4. stops = 0 /\ peer[Target(p)] \in {"open", "half"} =>
              got[p] \o held'[p] = SubSeq(sent[p], 1, n)
        BY <2>1, <2>2, <2>3, <1>8 DEF Forwarded
    <2>5. n <= Len(sent[p])
        BY <1>2, <1>4
    <2>6. QED BY <2>4, <2>5, <1>3, <1>8 DEF Forwarded
<1>11. \A q \in Procs \ {p} : Forwarded(q)'
    BY <1>3, <1>8 DEF RelayInv, Forwarded
<1>12. QED BY <1>7, <1>9, <1>10, <1>11 DEF RelayInv

\* What is written is what was held, and all of it if nobody typed Ctrl-Z.
LEMMA WriteEffect ==
    ASSUME RelayInv, NEW p \in Procs, Write(p)
    PROVE  /\ got' \in [Procs -> Seq(Nat)]
           /\ \A q \in Procs \ {p} : got'[q] = got[q]
           /\ stops = 0 => got'[p] = got[p] \o held[p]
<1>1. PICK n \in 0 .. Len(held[p]) :
        /\ n < Len(held[p]) => shortened[p]
        /\ got' = [got EXCEPT ![p] = @ \o SubSeq(held[p], 1, n)]
    BY DEF Write
<1>2. held[p] \in Seq(Nat) /\ got[p] \in Seq(Nat) /\ got \in [Procs -> Seq(Nat)]
    BY DEF RelayInv, TypeOK
<1>3. SubSeq(held[p], 1, n) \in Seq(Nat)
    BY <1>1, <1>2
<1>4. got[p] \o SubSeq(held[p], 1, n) \in Seq(Nat)
    BY <1>2, <1>3
<1>5. got'[p] = got[p] \o SubSeq(held[p], 1, n)
    BY <1>1, <1>2
<1>6. stops = 0 => SubSeq(held[p], 1, n) = held[p]
    <2>1. stops = 0 => n = Len(held[p])
        BY <1>1, <1>2 DEF RelayInv, ProgramInv
    <2>2. QED BY <2>1, <1>2, SubSeqFull
<1>7. QED BY <1>1, <1>2, <1>4, <1>5, <1>6

LEMMA WriteKeeps ==
    ASSUME RelayInv, NEW p \in Procs, Write(p) \/ WriteLost(p)
    PROVE  RelayInv'
<1> USE TwoProcs
<1>1. TypeOK /\ ProgramInv
    BY DEF RelayInv
<1>2. pc[p] = "write" /\ pc' = [pc EXCEPT ![p] = "read"]
      /\ held' = [held EXCEPT ![p] = <<>>] /\ shortened' = [shortened EXCEPT ![p] = FALSE]
      /\ UNCHANGED <<cproc, signals, sent, taken>>
    BY DEF Write, WriteLost
<1>3. pc' \in [Procs -> ParentPc \cup ChildPc] /\ pc'["parent"] \in ParentPc /\ pc'["child"] \in ChildPc
      /\ pc'[p] = "read" /\ \A q \in Procs \ {p} : pc'[q] = pc[q]
    BY <1>1, <1>2, MoveTyped DEF ParentPc, ChildPc
<1>4. held' \in [Procs -> Seq(Nat)] /\ held'[p] = <<>> /\ (\A q \in Procs \ {p} : held'[q] = held[q])
      /\ shortened' \in [Procs -> BOOLEAN] /\ (\A q \in Procs : shortened'[q] => shortened[q])
    BY <1>1, <1>2 DEF TypeOK
<1>5. ProgramInv'
    BY <1>1, <1>2, <1>3, <1>4 DEF ProgramInv, WaitedForChild, NotWriting, Gone
<1>6. CASE Write(p)
    <2>1. UNCHANGED peer
        BY <1>6 DEF Write
    <2>2. TypeOK'
        BY <1>1, <1>2, <1>3, <1>4, <1>6, <2>1, WriteEffect DEF TypeOK
    <2>3. Forwarded(p)'
        <3>1. Forwarded(p) /\ peer[Target(p)] \in {"open", "half"}
            BY <1>6 DEF RelayInv, Write
        <3>2. stops = 0 => got'[p] \o <<>> = got[p] \o held[p]
            BY <1>6, <2>2, WriteEffect, ConcatEmptySeq DEF TypeOK
        <3>3. QED BY <1>2, <1>4, <2>1, <3>1, <3>2 DEF Forwarded
    <2>4. \A q \in Procs \ {p} : Forwarded(q)'
        <3>1. \A q \in Procs \ {p} : got'[q] = got[q]
            BY <1>6, WriteEffect
        <3>2. QED BY <1>2, <1>4, <2>1, <3>1 DEF RelayInv, Forwarded
    <2>5. QED BY <1>5, <2>2, <2>3, <2>4 DEF RelayInv
<1>7. CASE WriteLost(p)
    <2>1. UNCHANGED got /\ peer' = [peer EXCEPT ![Target(p)] = "reset"]
        BY <1>7 DEF WriteLost
    <2>2. TypeOK'
        BY <1>1, <1>2, <1>3, <1>4, <2>1 DEF TypeOK
    <2>3. peer'[Target(p)] = "reset" /\ \A d \in Peers : peer'[d] \in {"open", "half"} => peer'[d] = peer[d]
        BY <1>1, <2>1 DEF TypeOK
    <2>4. \A q \in Procs : Forwarded(q)'
        BY <1>2, <1>4, <2>1, <2>3 DEF RelayInv, Forwarded
    <2>5. QED BY <1>5, <2>2, <2>4 DEF RelayInv
<1>8. QED BY <1>6, <1>7

\* A peer sends one message more.
LEMMA SendKeeps ==
    ASSUME RelayInv, NEW p \in Procs, PeerSends(p)
    PROVE  /\ RelayInv'
           /\ Len(sent'[p]) = Len(sent[p]) + 1 /\ SubSeq(sent'[p], 1, Len(sent[p])) = sent[p]
           /\ \A q \in Procs \ {p} : sent'[q] = sent[q]
<1> DEFINE s == sent[p]
           t == Append(s, Len(s) + 1)
<1>1. TypeOK /\ ProgramInv /\ Forwarded(p)
    BY DEF RelayInv
<1>2. sent' = [sent EXCEPT ![p] = t] /\ UNCHANGED <<procs, signals, peer, taken, got>>
    BY DEF PeerSends
<1>3. s \in Seq(Nat) /\ Len(s) \in Nat /\ taken[p] \in Nat
    BY <1>1 DEF TypeOK
<1>4. t \in Seq(Nat) /\ Len(t) = Len(s) + 1 /\ \A i \in 1 .. Len(s) : t[i] = s[i]
    BY <1>3
<1>5. sent' \in [Procs -> Seq(Nat)] /\ sent'[p] = t /\ \A q \in Procs \ {p} : sent'[q] = sent[q]
    BY <1>1, <1>2, <1>4 DEF TypeOK
<1> HIDE DEF s, t
<1>6. \A n \in 0 .. Len(s) : SubSeq(t, 1, n) = SubSeq(s, 1, n)
    BY <1>3, <1>4
<1>7. SubSeq(t, 1, Len(s)) = s
    BY <1>3, <1>6, SubSeqFull
<1>8. TypeOK'
    BY <1>1, <1>2, <1>5 DEF TypeOK
<1>9. ProgramInv'
    BY <1>1, <1>2 DEF ProgramInv, WaitedForChild
<1>10. Forwarded(p)'
    <2>1. taken[p] <= Len(s)
          /\ (stops = 0 /\ peer[Target(p)] \in {"open", "half"} =>
                got[p] \o held[p] = SubSeq(s, 1, taken[p]))
        BY <1>1 DEF Forwarded, s
    <2>2. taken[p] <= Len(t) /\ SubSeq(t, 1, taken[p]) = SubSeq(s, 1, taken[p])
        BY <2>1, <1>3, <1>4, <1>6
    <2>3. QED BY <2>1, <2>2, <1>2, <1>5 DEF Forwarded
<1>11. \A q \in Procs \ {p} : Forwarded(q)'
    BY <1>2, <1>5 DEF Forwarded, RelayInv
<1>12. QED BY <1>4, <1>5, <1>7, <1>8, <1>9, <1>10, <1>11 DEF RelayInv, s

LEMMA EnvironmentKeeps ==
    ASSUME RelayInv, Environment
    PROVE  RelayInv'
<1>1. TypeOK /\ ProgramInv
    BY DEF RelayInv
<1>2. CASE CtrlC
    <2>1. TypeOK'
        BY <1>1, <1>2 DEF CtrlC, TypeOK, Alive
    <2>2. QED BY <1>1, <1>2, <2>1, ControlKeeps DEF CtrlC, ProgramInv, WaitedForChild
<1>3. CASE JobControl
    <2>1. stops' = stops + 1 /\ stops \in Nat
          /\ UNCHANGED <<pc, cproc, held, ints, terms, targets, interrupts, net>>
        BY <1>1, <1>3 DEF JobControl, TypeOK
    <2>2. news' \in BOOLEAN /\ shortened' \in [Procs -> BOOLEAN]
        BY <1>3 DEF JobControl
    <2>3. TypeOK'
        BY <1>1, <2>1, <2>2 DEF TypeOK
    <2>4. stops' # 0
        BY <2>1
    <2>5. QED BY <1>1, <2>1, <2>3, <2>4 DEF RelayInv, ProgramInv, Forwarded, WaitedForChild
<1>4. CASE \E p \in Procs : PeerSends(p)
    BY <1>4, SendKeeps
<1>5. CASE \E d \in Peers : PeerLeaves(d)
    <2>1. PICK d \in Peers, s \in {"half", "closed", "reset"} :
             /\ peer' = [peer EXCEPT ![d] = s]
             /\ <<peer[d], s>> \in {"open"} \X {"half", "closed", "reset"} \cup {"half"} \X {"closed", "reset"}
        BY <1>5 DEF PeerLeaves
    <2>2. UNCHANGED <<procs, signals, sent, taken, got>>
        BY <1>5 DEF PeerLeaves
    <2>3. peer[d] \in {"open", "half"}
        BY <2>1
    <2>4. peer' \in [Peers -> {"open", "half", "closed", "reset"}]
          /\ \A e \in Peers : peer'[e] \in {"open", "half"} => peer[e] \in {"open", "half"}
        BY <1>1, <2>1, <2>3 DEF TypeOK
    <2>5. TypeOK'
        BY <1>1, <2>2, <2>4 DEF TypeOK
    <2>6. \A p \in Procs : Forwarded(p)'
        BY <2>2, <2>4, TwoProcs DEF RelayInv, Forwarded
    <2>7. QED BY <1>1, <2>2, <2>5, <2>6 DEF RelayInv, ProgramInv, WaitedForChild
<1>6. QED BY <1>2, <1>3, <1>4, <1>5 DEF Environment

LEMMA RelayInductive == RelayInv /\ [Next]_vars => RelayInv'
<1> SUFFICES ASSUME RelayInv, [Next]_vars PROVE RelayInv'
    OBVIOUS
<1>1. CASE StartFails \/ Start \/ Fork \/ ParentAssigns \/ ChildStep
    BY <1>1, StartKeeps
<1>2. CASE KillChild \/ WaitPid \/ ParentExit
    BY <1>2, EndKeeps
<1>3. ASSUME NEW p \in Procs, ProcStep(p) PROVE RelayInv'
    BY <1>3, ReadKeeps, FailKeeps, WriteKeeps DEF ProcStep
<1>4. ASSUME NEW p \in Procs, Deliver(p) PROVE RelayInv'
    BY <1>4, SignalKeeps
<1>5. CASE Environment
    BY <1>5, EnvironmentKeeps
<1>6. CASE UNCHANGED vars
    BY <1>6 DEF RelayInv, TypeOK, ProgramInv, Forwarded, WaitedForChild
<1>7. QED BY <1>1, <1>2, <1>3, <1>4, <1>5, <1>6 DEF Next, ParentStep

LEMMA RelayInitially == Init => RelayInv
<1> SUFFICES ASSUME Init PROVE RelayInv
    OBVIOUS
<1>1. TypeOK
    BY EmptySeq DEF Init, TypeOK, ParentPc, ChildPc, Gone, Procs, Peers
<1>2. ProgramInv
    BY DEF Init, ProgramInv, WaitedForChild, Procs
<1>3. \A p \in Procs : Forwarded(p)
    BY SubSeqEmpty, ConcatEmptySeq, EmptySeq DEF Init, Forwarded
<1>4. QED BY <1>1, <1>2, <1>3 DEF RelayInv

\* Each process is in a state of its own program, and a parent that nobody
\* stopped goes on after waitpid only when its child is gone.
THEOREM ProcessesStayOK == Spec => []ProcessesOK
<1>1. RelayInv => ProcessesOK
    BY DEF RelayInv, ProgramInv, ProcessesOK
<1>2. QED BY RelayInitially, RelayInductive, <1>1, PTL DEF Spec

\* A step of the relay, as a step of the channel of process p.
ChannelStep(p) ==
    \/ sent'[p] = sent[p] /\ got'[p] = got[p] /\ (stops' > 0) = (stops > 0)
    \/ /\ Len(sent'[p]) = Len(sent[p]) + 1 /\ SubSeq(sent'[p], 1, Len(sent[p])) = sent[p]
       /\ got'[p] = got[p] /\ (stops' > 0) = (stops > 0)
    \/ /\ \E n \in Len(got[p]) + 1 .. Len(sent[p]) : got'[p] = SubSeq(sent[p], 1, n)
       /\ sent'[p] = sent[p] /\ (stops' > 0) = (stops > 0)
    \/ (stops' > 0) = TRUE

LEMMA EveryStepIsOfTheChannel ==
    ASSUME RelayInv, [Next]_vars, NEW p \in Procs
    PROVE  ChannelStep(p)
<1>1. TypeOK /\ Forwarded(p)
    BY DEF RelayInv
<1>2. CASE stops > 0
    <2>1. JobControl \/ UNCHANGED stops
        BY DEF Next, StartFails, Start, Fork, ParentStep, ChildStep, ParentAssigns,
           KillChild, WaitPid, ParentExit, ChildAssigns, ChildIgnoresInt, ChildHandlesTerm,
           ProcStep, Read, ReadFails, Write, WriteLost, WriteFails, Deliver, ExitHandler,
           IntElse, Term, Environment, CtrlC, PeerSends, PeerLeaves
    <2>2. stops' > 0
        BY <1>1, <1>2, <2>1 DEF TypeOK, JobControl
    <2>3. QED BY <2>2 DEF ChannelStep
<1>3. CASE stops = 0
    <2>1. CASE UNCHANGED <<sent, got, stops>>
        BY <2>1 DEF ChannelStep
    <2>2. ASSUME NEW q \in Procs, PeerSends(q) PROVE ChannelStep(p)
        <3>1. UNCHANGED <<got, stops>>
            BY <2>2 DEF PeerSends
        <3>2. QED BY <2>2, <3>1, SendKeeps DEF ChannelStep
    <2>3. ASSUME NEW q \in Procs, Write(q) PROVE ChannelStep(p)
        <3>1. UNCHANGED <<sent, stops>>
            BY <2>3 DEF Write
        <3>2. CASE p # q
            BY <2>3, <3>1, <3>2, WriteEffect DEF ChannelStep
        <3>3. CASE p = q
            <4>1. got'[p] = SubSeq(sent[p], 1, taken[p])
                BY <1>1, <1>3, <2>3, <3>3, WriteEffect DEF Write, Forwarded
            <4>2. got'[p] = got[p] \o held[p]
                BY <1>3, <2>3, <3>3, WriteEffect
            <4>3. got[p] \in Seq(Nat) /\ held[p] \in Seq(Nat) /\ sent[p] \in Seq(Nat)
                  /\ taken[p] \in Nat /\ taken[p] <= Len(sent[p]) /\ Len(sent[p]) \in Nat
                BY <1>1 DEF TypeOK, Forwarded
            <4>4. Len(got'[p]) = taken[p]
                BY <4>1, <4>3
            <4>5. Len(got'[p]) = Len(got[p]) + Len(held[p])
                BY <4>2, <4>3, ConcatProperties
            <4>6. CASE held[p] = <<>>
                BY <4>2, <4>3, <4>6, <3>1, ConcatEmptySeq DEF ChannelStep
            <4>7. CASE held[p] # <<>>
                <5>1. Len(held[p]) \in Nat \ {0} /\ Len(got[p]) \in Nat
                    <6>1. \A x \in Seq(Nat) : Len(x) \in Nat /\ (x # <<>> => Len(x) # 0)
                        OBVIOUS
                    <6>2. QED BY <6>1, <4>3, <4>7
                <5>2. taken[p] \in Len(got[p]) + 1 .. Len(sent[p])
                    <6>1. taken[p] = Len(got[p]) + Len(held[p])
                        BY <4>4, <4>5
                    <6>2. \A a, b, c, d \in Nat : a = b + c /\ c # 0 /\ a <= d => a \in b + 1 .. d
                        OBVIOUS
                    <6>3. QED BY <4>3, <5>1, <6>1, <6>2
                <5>3. QED BY <3>1, <4>1, <5>2 DEF ChannelStep
            <4>8. QED BY <4>6, <4>7
        <3>4. QED BY <3>2, <3>3
    <2>4. CASE JobControl
        BY <1>3, <2>4 DEF JobControl, ChannelStep
    <2>5. QED
        BY <2>1, <2>2, <2>3, <2>4
        DEF Next, StartFails, Start, Fork, ParentStep, ChildStep, ParentAssigns,
           KillChild, WaitPid, ParentExit, ChildAssigns, ChildIgnoresInt, ChildHandlesTerm,
           ProcStep, Read, ReadFails, WriteLost, WriteFails, Deliver, ExitHandler,
           IntElse, Term, Environment, CtrlC, PeerLeaves
<1>4. QED BY <1>1, <1>2, <1>3 DEF TypeOK

\* Both directions are channels: without Ctrl-Z nothing is lost, doubled or
\* reordered before the end, whatever fails and whoever is signalled.
THEOREM RelayImplementsChannels == Spec => ImplementsChannels
<1>1. Init => Up!Init /\ Down!Init
    BY TwoProcs DEF Init, Up!Init, Down!Init
<1>2. RelayInv /\ [Next]_vars =>
          [Up!Send \/ Up!Deliver \/ Up!Cut]_<<sent["parent"], got["parent"], stops > 0>>
    <2>1. RelayInv /\ [Next]_vars => ChannelStep("parent")
        BY EveryStepIsOfTheChannel, TwoProcs
    <2>2. QED BY <2>1 DEF ChannelStep, Up!Send, Up!Deliver, Up!Cut
<1>3. RelayInv /\ [Next]_vars =>
          [Down!Send \/ Down!Deliver \/ Down!Cut]_<<sent["child"], got["child"], stops > 0>>
    <2>1. RelayInv /\ [Next]_vars => ChannelStep("child")
        BY EveryStepIsOfTheChannel, TwoProcs
    <2>2. QED BY <2>1 DEF ChannelStep, Down!Send, Down!Deliver, Down!Cut
<1>4. QED
    BY RelayInitially, RelayInductive, <1>1, <1>2, <1>3, PTL
    DEF Spec, ImplementsChannels, Up!Spec, Down!Spec
=============================================================================
