---------------------------- MODULE AniV1Proofs ----------------------------
(***************************************************************************)
(* Proofs about ANI v1, for any switch, traffic, signals, failures of      *)
(* allocations and length of the lists: where a pointer that is not set is *)
(* followed, that everything is freed, that a host has one row, what       *)
(* show_hosts prints and where flows lead.  The state is a stack, of main  *)
(* and the handlers that interrupted it, over two linked lists that each   *)
(* of them changes pointer by pointer; V1Inv says how far the lists are,   *)
(* by the place of each context.  Once a handler interrupted free_list     *)
(* (Torn), of the pointers only WeakInv is claimed.                        *)
(***************************************************************************)
EXTENDS AniV1, SequenceTheorems, WellFoundedInduction, TLAPS

(* The number of objects made for a list. *)
N(l) == Len(obj[l])

(* The context of main, and the contexts below the one that runs. *)
M == stack[1]
Lower == 1 .. Len(stack) - 1

(* A handler interrupted free_list: nothing is claimed from then on. *)
Torn == \E i \in Lower : stack[i].pc \in Freeing

(* No handler runs above a context that shows or frees. *)
Undisturbed == \A i \in Lower : stack[i].pc \notin Ending

(* Where the lists are no longer as main left them. *)
Busy == {"free", "exit"} \cup Freeing

(* Where an object is added, from the call to the writing of its row. *)
AddPc == {"add", "add_next", "fill"} \cup Adding

(* The list has all its objects, in the order they were made; last is one  *)
(* behind while an object is added, or since the first one got no payload. *)
Linked(l) ==
    /\ first[l] = IF N(l) = 0 THEN 0 ELSE 1
    /\ last[l] \in {N(l), N(l) - 1}
    /\ \A c \in 1 .. N(l) :
         /\ obj[l][c].live
         /\ c < N(l) => obj[l][c].next = c + 1
         /\ c = N(l) => obj[l][c].next = 0 \/ (last[l] = 0 /\ obj[l][c].next = -1)
         /\ obj[l][c].prev = c - 1 \/ (last[l] = 0 /\ obj[l][c].prev = -1)

(* Main adds an object to the list. *)
Unfinished(l) == M.l = l /\ M.pc \in Adding

(* last is behind the objects only then, or because an allocation failed. *)
Behind(l) == last[l] # N(l) => Unfinished(l) \/ (N(l) = 1 /\ failed > 0)

(* The list is as its callers expect it. *)
Whole(l) == Linked(l) /\ Behind(l)

(* What is left of a list that a handler freed: the object main was adding. *)
Leak(l) == Len(stack) > 1 /\ M.l = l /\ M.pc = "add_last"

OnlyLeaked(l) == \A c \in 1 .. N(l) : obj[l][c].live => c = N(l) /\ Leak(l)

(* The list was freed. *)
Freed(l) == first[l] = 0 /\ last[l] = 0 /\ OnlyLeaked(l)

(* The list is half built, and stays so. *)
Half(l) ==
    /\ first[l] = 1 /\ last[l] = 0 /\ N(l) = 1
    /\ failed > 0 \/ Unfinished(l)

(* The list was freed, or could not be. *)
Gone(l) == Freed(l) \/ Half(l)

(* What free_list left so far: the objects up to k, and one being added. *)
LiveUpTo(l, k) ==
    \A c \in 1 .. N(l) : obj[l][c].live => c <= k \/ c > last[l]

(* free_list has come to the object tmp. *)
Backwards(l, k) ==
    /\ k \in 1 .. last[l] /\ LiveUpTo(l, k) /\ obj[l][k].live
    /\ \A c \in 1 .. k - 1 : obj[l][c].live /\ obj[l][c].prev = c - 1

(* The list is being freed by the context that runs. *)
Partly(l) ==
    /\ Top.pc \in {"unlink", "delete", "clear_last"} =>
         last[l] # 0 /\ (last[l] = N(l) \/ (last[l] = N(l) - 1 /\ Leak(l)))
    /\ Top.pc = "unlink" => Backwards(l, Top.tmp) /\ obj[l][Top.tmp].prev = Top.tmp - 1
    /\ Top.pc = "delete" => Backwards(l, Top.tmp) /\ Top.prev = Top.tmp - 1
    /\ Top.pc = "clear_last" => LiveUpTo(l, 0)
    /\ Top.pc = "clear_first" => last[l] = 0 /\ OnlyLeaked(l)

(* The list is whole, or freed, or on the way. *)
ListInv(l) ==
    IF Top.pc \in Freeing /\ Top.l = l THEN Partly(l) ELSE Whole(l) \/ Freed(l)

(* Both lists, wherever main and the handlers are, and the cursor of hosts. *)
HeapInv ==
    ~Torn =>
      /\ \A l \in Lists : ListInv(l)
      /\ Undisturbed /\ Top.pc \notin Busy => \A l \in Lists : Whole(l)
      /\ Top.pc = "exit" \/ (Top.pc \in Busy /\ Top.l = "ports") => Gone("hosts")
      /\ Top.pc = "exit" => Gone("ports")
      /\ current \in 0 .. N("hosts")
      /\ first["hosts"] = 0 \/ Top.pc \in Busy => current = 0

(* What holds of the objects of a list that is torn, too. *)
Cells(l) ==
    /\ first[l] \in {0, 1}
    /\ \A c \in 1 .. N(l) :
         /\ obj[l][c].next \in {-1, 0, c + 1}
         /\ obj[l][c].prev \in Nat \/ (obj[l][c].prev = -1 /\ N(l) = 1 /\ last[l] = 0)

(* Main made the first object of the list and has not finished it. *)
Started(l) ==
    \/ M.l = l /\ M.pc \in {"add_payload", "add_links"}
    \/ l = "hosts" /\ \E c \in 1 .. N("hosts") : obj["hosts"][c].p = NULL

(* What holds of the pointers even where free_list was interrupted. *)
WeakInv ==
    /\ \A l \in Lists : Cells(l)
    /\ Top.pc \in {"unlink", "delete", "clear_last"} => last[Top.l] # 0
    /\ Top.pc = "delete" => Top.tmp \in 1 .. N(Top.l)
    /\ M.pc \in {"add_payload", "add_links"} => first[M.l] = 1 /\ last[M.l] = 0 /\ N(M.l) = 1
    /\ Top.pc = "clear_first" => ~Started(Top.l)

(* What an object of hosts holds. *)
P(c) == obj["hosts"][c].p

(* Main adds a host, and is at one of these places. *)
Filling(pcs) == M.l = "hosts" /\ M.pc \in pcs

(* An object of hosts holds a row, unless it is the one being made. *)
CellInv ==
    \A c \in 1 .. N("hosts") :
         \/ P(c) \in Row
         \/ P(c) = NULL /\ Half("hosts") /\ failed > 0
         \/ P(c) = Raw /\ c = N("hosts") /\ Filling({"add_links", "add_last", "fill"})
         \/ P(c) \in {NULL, Junk} /\ N("hosts") = 1 /\ Filling({"add_payload"})

(* No two objects are rows of the same host. *)
OneRow ==
    \A c, d \in 1 .. N("hosts") :
        P(c) \in Row /\ P(d) \in Row /\ P(c).mac = P(d).mac => c = d

(* What holds of the rows. *)
RowsInv == CellInv /\ OneRow

(* The host is not in the first k rows. *)
NotUpTo(mac, k) == \A d \in 1 .. k : P(d) \in Row => P(d).mac # mac

(* Where no message is in hand. *)
Waiting == {"start", "set_int", "set_term", "recv"}

(* Where a packet is in hand. *)
DataPc == {"data", "src", "src_walk", "learn_show", "learn_rewind", "dst", "dst_walk", "answer"}

(* The rows of all objects, in the order they were made. *)
AllRows == [c \in 1 .. N("hosts") |-> P(c)]

(* The row in hand is that of the cursor. *)
InHand == current \in 1 .. N("hosts") /\ Top.p = P(current)

(* The packet is answered with a port of the table. *)
NeedsPort(pkt) == pkt.type = "ip" \/ (pkt.type = "arp" /\ pkt.dst # Broadcast)

(* A message is in hand, and where main is fits it. *)
MessageInv ==
    /\ Top.pc \notin Waiting => buf # <<>>
    /\ Top.pc \in {"features", "ports"} \/ (Top.pc \in AddPc /\ Top.l = "ports") =>
         Head(buf).type = "features"
    /\ Top.pc \in DataPc \/ (Top.pc \in AddPc /\ Top.l = "hosts") => Head(buf).type = "data"
    /\ Top.pc \in {"features", "ports"} => Top.l = "ports" /\ Top.tmp <= Len(Head(buf).list)
    /\ Top.pc \in AddPc /\ Top.l = "ports" => Top.tmp < Len(Head(buf).list)

(* What main is adding. *)
AddInv ==
    /\ Top.pc = "start" => \A l \in Lists : N(l) = 0
    /\ Top.pc \in AddPc /\ Top.l = "hosts" =>
         /\ Top.p = SourceRow /\ (current = 0 \/ (Top.pc \in {"add", "add_next"} /\ Half("hosts")))
         /\ NotUpTo(Head(buf).pkt.src, N("hosts")) /\ Head(buf).pkt.type = "arp"
    /\ Top.pc = "add_next" => first[Top.l] # 0
    /\ Top.pc = "add_links" => obj[Top.l][1].p = Raw
    /\ Top.pc = "add_last" =>
         /\ N(Top.l) > 0 /\ obj[Top.l][N(Top.l)].p = Raw
         /\ obj[Top.l][N(Top.l)].next = 0 /\ obj[Top.l][N(Top.l)].prev = N(Top.l) - 1
    /\ Top.pc = "fill" => last[Top.l] = N(Top.l) /\ N(Top.l) > 0

(* How far a walk of hosts has come, and what it showed. *)
WalkInv ==
    /\ Top.pc \in {"src", "learn_show", "learn_rewind"} => Head(buf).pkt.type = "arp"
    /\ Top.pc = "src_walk" =>
         InHand /\ P(current) \in Row /\ NotUpTo(Head(buf).pkt.src, current - 1)
         /\ Head(buf).pkt.type = "arp"
    /\ Top.pc = "dst" => NeedsPort(Head(buf).pkt)
    /\ Top.pc = "dst_walk" =>
         InHand /\ P(current) \in Row /\ NotUpTo(Head(buf).pkt.dst, current - 1)
         /\ NeedsPort(Head(buf).pkt)
    /\ Top.pc = "learn_show" /\ proc # "fault" =>
         \/ Half("hosts")
         \/ Top.p = NULL /\ report = <<>> /\ current = 0
         \/ Top.p # NULL /\ InHand /\ report = SubSeq(AllRows, 1, current - 1)
    /\ Top.pc = "learn_rewind" => Half("hosts") \/ report = AllRows
    /\ Top.pc = "answer" /\ NeedsPort(Head(buf).pkt) =>
         Half("hosts") \/ Top.tmp = PortOf(AllRows, Head(buf).pkt.dst)

(* What holds of main until the end. *)
MainInv == Top.pc \notin Ending => MessageInv /\ AddInv /\ WalkInv

(* What show_hosts has printed is the rows of the objects before the cursor. *)
ShowInv ==
    /\ Top.pc \in {"show", "learn_show"} => Top.p \in Row \cup {NULL, Junk, Raw}
    /\ Top.pc \in {"show", "learn_show"} /\ Top.p = Junk => Filling({"add_payload"})
    /\ Top.pc \in {"show", "rewind"} => Top.l = "hosts"
    /\ Undisturbed /\ Top.pc = "show" /\ proc # "fault" =>
         \/ Top.p = NULL /\ report = <<>>
         \/ /\ Top.p # NULL /\ InHand
            /\ \E k \in 0 .. current - 1 : report = SubSeq(AllRows, k + 1, current - 1)
    /\ Undisturbed /\ Top.pc = "rewind" =>
         \E k \in 0 .. N("hosts") : report = SubSeq(AllRows, k + 1, N("hosts"))

(* What runs above main are handlers. *)
StackInv == \A i \in 2 .. Len(stack) : stack[i].pc \in Ending

(* How the program may end. *)
EndInv ==
    /\ proc = "ended" => Top.pc = "exit" /\ sock # "open"
    /\ FaultOnlyWhenTorn

(* The inductive invariant. *)
V1Inv ==
    /\ TypeOK /\ StackInv /\ HeapInv /\ WeakInv /\ RowsInv
    /\ MainInv /\ ShowInv /\ EndInv

----------------------------------------------------------------------------
(* What follows from the types, and what a step of main leaves alone. *)

(* The marks are not rows. *)
LEMMA Marks == NULL \notin Row /\ Junk \notin Row /\ Raw \notin Row
               /\ NULL # Junk /\ NULL # Raw /\ Junk # Raw
BY MarksAssumption

(* The stack holds main and the handlers above it; what runs is its top. *)
LEMMA TopFacts ==
  ASSUME TypeOK
  PROVE  /\ Len(stack) \in Nat /\ Len(stack) >= 1 /\ Len(stack) \in 1 .. Len(stack) /\ 1 \in 1 .. Len(stack)
         /\ Top \in ContextType /\ M \in ContextType /\ Lower \subseteq 1 .. Len(stack)
         /\ \A i \in 1 .. Len(stack) : stack[i] \in ContextType
         /\ Len(stack) = 1 => M = Top /\ Lower = {}
         /\ Len(stack) # 1 => 1 \in Lower
<1>1. stack \in Seq(ContextType) /\ stack # <<>>
  BY DEF TypeOK
<1>2. Len(stack) \in Nat /\ Len(stack) # 0
  BY <1>1, LenProperties, EmptySeq
<1>3. Len(stack) >= 1 /\ Len(stack) \in 1 .. Len(stack) /\ 1 \in 1 .. Len(stack) /\ Lower \subseteq 1 .. Len(stack)
      /\ (Len(stack) = 1 => Lower = {}) /\ (Len(stack) # 1 => 1 \in Lower)
  <2>1. \A n \in Nat : n # 0 =>
           /\ n >= 1 /\ n \in 1 .. n /\ 1 \in 1 .. n /\ 1 .. n - 1 \subseteq 1 .. n
           /\ (n = 1 => 1 .. n - 1 = {}) /\ (n # 1 => 1 \in 1 .. n - 1)
    OBVIOUS
  <2> QED
    BY <1>2, <2>1 DEF Lower
<1>4. \A i \in 1 .. Len(stack) : stack[i] \in ContextType
  BY <1>1, ElementOfSeq
<1> QED
  BY <1>2, <1>3, <1>4 DEF Top, M

(* A context goes on: the others stay as they are. *)
LEMMA ResumeStack ==
  ASSUME TypeOK, NEW c \in ContextType, Resume(c)
  PROVE  /\ stack' \in Seq(ContextType) /\ stack' # <<>> /\ Len(stack') = Len(stack)
         /\ Top' = c /\ M' = (IF Len(stack) = 1 THEN c ELSE M)
         /\ Lower' = Lower /\ \A i \in Lower : stack'[i] = stack[i]
         /\ (Torn' <=> Torn) /\ (Undisturbed' <=> Undisturbed)
         /\ StackInv /\ (c.pc \in Ending \/ Len(stack) = 1) => StackInv'
<1>1. stack \in Seq(ContextType) /\ Len(stack) \in Nat /\ Len(stack) >= 1
      /\ Len(stack) \in 1 .. Len(stack) /\ 1 \in 1 .. Len(stack)
  BY TopFacts DEF TypeOK
<1>2. stack' = [stack EXCEPT ![Len(stack)] = c]
  BY DEF Resume
<1>3. /\ stack' \in Seq(ContextType) /\ Len(stack') = Len(stack)
      /\ \A i \in 1 .. Len(stack) : stack'[i] = IF i = Len(stack) THEN c ELSE stack[i]
  BY <1>1, <1>2, ExceptSeq
<1>4. stack' # <<>>
  BY <1>1, <1>3, EmptySeq
<1>5. Top' = c /\ M' = (IF Len(stack) = 1 THEN c ELSE M)
  BY <1>1, <1>3 DEF Top, M
<1>6. Lower' = Lower /\ \A i \in Lower : stack'[i] = stack[i]
  BY <1>1, <1>3 DEF Lower
<1>7. (Torn' <=> Torn) /\ (Undisturbed' <=> Undisturbed)
  BY <1>6 DEF Torn, Undisturbed
<1>8. StackInv /\ (c.pc \in Ending \/ Len(stack) = 1) => StackInv'
  BY <1>1, <1>3 DEF StackInv
<1> QED
  BY <1>3, <1>4, <1>5, <1>6, <1>7, <1>8

(* What the objects of a list are. *)
LEMMA ObjectFacts ==
  ASSUME TypeOK, NEW l \in Lists
  PROVE  /\ obj[l] \in Seq(Object) /\ N(l) \in Nat /\ first[l] \in Nat /\ last[l] \in Nat
         /\ DOMAIN obj[l] = 1 .. N(l)
         /\ \A c \in 1 .. N(l) : /\ obj[l][c] \in Object /\ obj[l][c].next \in Int /\ obj[l][c].prev \in Int
                                 /\ obj[l][c].live \in BOOLEAN /\ obj[l][c].p \in Payload
<1>1. obj[l] \in Seq(Object) /\ first[l] \in Nat /\ last[l] \in Nat
  BY DEF TypeOK
<1>2. \A c \in 1 .. N(l) : obj[l][c] \in Object
  BY <1>1, ElementOfSeq DEF N
<1>3. N(l) \in Nat /\ DOMAIN obj[l] = 1 .. N(l)
  BY <1>1, LenProperties DEF N
<1> QED
  BY <1>1, <1>2, <1>3 DEF Object

(* There are two lists. *)
LEMMA InLists == "hosts" \in Lists /\ "ports" \in Lists /\ (\A l \in Lists : l = "hosts" \/ l = "ports")
BY DEF Lists

(* What depends on the heap alone stays with it. *)
LEMMA SameHeap ==
  ASSUME UNCHANGED heap
  PROVE  /\ \A l : N(l)' = N(l) /\ (Linked(l)' <=> Linked(l)) /\ (Cells(l)' <=> Cells(l))
         /\ \A c : P(c)' = P(c)
         /\ AllRows' = AllRows /\ (OneRow' <=> OneRow)
         /\ first' = first /\ last' = last /\ obj' = obj /\ failed' = failed
         /\ \A mac, k : NotUpTo(mac, k)' <=> NotUpTo(mac, k)
<1>1. first' = first /\ last' = last /\ obj' = obj /\ failed' = failed
  BY DEF heap
<1>2. \A l : N(l)' = N(l)
  BY <1>1 DEF N
<1>3. \A l : (Linked(l)' <=> Linked(l)) /\ (Cells(l)' <=> Cells(l))
  BY <1>1, <1>2 DEF Linked, Cells
<1>4. \A c : P(c)' = P(c)
  BY <1>1 DEF P
<1>5. AllRows' = AllRows
  BY <1>2, <1>4 DEF AllRows
<1>6. (OneRow' <=> OneRow) /\ \A mac, k : NotUpTo(mac, k)' <=> NotUpTo(mac, k)
  BY <1>2, <1>4 DEF OneRow, NotUpTo
<1> QED
  BY <1>1, <1>2, <1>3, <1>4, <1>5, <1>6

(* While main runs, it has both lists to itself. *)
LEMMA MainAlone ==
  ASSUME TypeOK, StackInv, HeapInv, Len(stack) = 1
  PROVE  /\ M = Top /\ ~Torn /\ Undisturbed
         /\ Top.pc \notin Busy => Whole("hosts") /\ Whole("ports")
         /\ current \in 0 .. N("hosts")
         /\ first["hosts"] = 0 => current = 0
<1>1. M = Top /\ Lower = {}
  BY TopFacts
<1>2. ~Torn /\ Undisturbed
  BY <1>1 DEF Torn, Undisturbed
<1> QED
  BY <1>1, <1>2, InLists DEF HeapInv

(* Main goes from a place where no list is half built to another one and   *)
(* leaves the lists alone.                                                 *)
LEMMA MainMoves ==
  ASSUME TypeOK, StackInv, HeapInv, WeakInv, RowsInv, UNCHANGED heap, Len(stack) = 1,
         Top.pc \notin Busy \cup Adding \cup {"fill"},
         NEW c \in ContextType, Resume(c),
         c.pc \notin Busy \cup Adding \cup {"fill"},
         current' \in 0 .. N("hosts"), first["hosts"] = 0 => current' = 0
  PROVE  StackInv' /\ HeapInv' /\ WeakInv' /\ RowsInv'
<1>1. /\ Top' = c /\ M' = c /\ M = Top /\ Len(stack') = Len(stack) /\ StackInv'
      /\ ~Torn' /\ Undisturbed'
  BY ResumeStack, MainAlone
<1>2. Whole("hosts") /\ Whole("ports")
  BY MainAlone
<1>3. /\ \A l : N(l)' = N(l) /\ (Linked(l)' <=> Linked(l)) /\ (Cells(l)' <=> Cells(l))
      /\ \A k : P(k)' = P(k)
      /\ (OneRow' <=> OneRow) /\ first' = first /\ last' = last /\ failed' = failed
  BY SameHeap
<1>4. \A l \in Lists : Whole(l)'
  <2> TAKE l \in Lists
  <2>1. Linked(l) /\ Behind(l)
    BY <1>2, InLists DEF Whole
  <2>2. ~Unfinished(l)
    BY <1>1 DEF Unfinished
  <2> QED
    BY <1>3, <2>1, <2>2 DEF Whole, Behind
<1>5. HeapInv'
  BY <1>1, <1>3, <1>4 DEF HeapInv, ListInv, Busy
<1>6. WeakInv'
  BY <1>1, <1>3 DEF WeakInv, Busy, Freeing, Adding
<1>7. CellInv'
  <2> SUFFICES ASSUME NEW k \in 1 .. N("hosts")
               PROVE  \/ P(k) \in Row
                      \/ P(k) = NULL /\ Half("hosts")' /\ failed > 0
    BY <1>3 DEF CellInv
  <2>1. ~Filling({"add_links", "add_last", "fill"}) /\ ~Filling({"add_payload"})
    BY <1>1 DEF Filling, Adding
  <2>2. Half("hosts") /\ failed > 0 => Half("hosts")'
    BY <1>3 DEF Half
  <2> QED
    BY <2>1, <2>2 DEF RowsInv, CellInv
<1> QED
  BY <1>1, <1>3, <1>5, <1>6, <1>7 DEF RowsInv

(* TypeOK, by the groups of variables. *)
IoType ==
    /\ sock \in {"none", "open", "closed"} /\ peer \in {"none", "open", "gone"}
    /\ inq \in Seq(V1Message) /\ buf \in Seq(V1Message) /\ spent \in Nat
    /\ write_buffer_len \in {-1, 0, 1}

(* TypeOK of the lists. *)
HeapType ==
    /\ first \in [Lists -> Nat] /\ last \in [Lists -> Nat]
    /\ obj \in [Lists -> Seq(Object)] /\ failed \in Nat

(* TypeOK holds iff each of its groups does. *)
LEMMA TypeParts ==
    TypeOK <=> /\ proc \in {"running", "ended", "killed", "fault"}
               /\ stack \in Seq(ContextType) /\ stack # <<>>
               /\ IoType /\ HeapType
               /\ current \in Nat /\ report \in Seq(Row \cup {Raw})
BY DEF TypeOK, IoType, HeapType

(* A handler only shows and frees, so what does more is main. *)
LEMMA MainRuns ==
  ASSUME TypeOK, StackInv, Top.pc \notin Ending
  PROVE  Len(stack) = 1
<1>1. Len(stack) # 1 => Len(stack) \in 2 .. Len(stack)
  <2>1. \A n \in Nat : n >= 1 /\ n # 1 => n \in 2 .. n
    OBVIOUS
  <2> QED
    BY <2>1, TopFacts
<1> QED
  BY <1>1 DEF StackInv, Top

(* A step that neither ends nor faults leaves nothing to show about the end. *)
LEMMA EndQuiet == proc' \in {"running", "killed"} => EndInv'
BY DEF EndInv, FaultOnlyWhenTorn

(* Nothing that the invariants are about moves. *)
LEMMA Stays ==
  ASSUME V1Inv, UNCHANGED <<stack, heap, current, buf>>, proc' # "fault" => proc # "fault",
         report' = report \/ (proc' = "fault" /\ Top.pc \in {"show", "learn_show"})
  PROVE  StackInv' /\ HeapInv' /\ WeakInv' /\ RowsInv' /\ MainInv' /\ ShowInv'
<1>1. stack' = stack /\ current' = current /\ buf' = buf
  OBVIOUS
<1>2. /\ \A l : N(l)' = N(l) /\ (Linked(l)' <=> Linked(l)) /\ (Cells(l)' <=> Cells(l))
      /\ \A k : P(k)' = P(k)
      /\ AllRows' = AllRows /\ (OneRow' <=> OneRow)
      /\ first' = first /\ last' = last /\ obj' = obj /\ failed' = failed
      /\ \A mac, k : NotUpTo(mac, k)' <=> NotUpTo(mac, k)
  BY SameHeap
<1>3. /\ Top' = Top /\ M' = M /\ Lower' = Lower /\ (Torn' <=> Torn) /\ (Undisturbed' <=> Undisturbed)
      /\ (StackInv' <=> StackInv)
  BY <1>1 DEF Top, M, Lower, Torn, Undisturbed, StackInv
<1>4. \A l : /\ Unfinished(l)' <=> Unfinished(l)
             /\ Leak(l)' <=> Leak(l)
  BY <1>1, <1>3 DEF Unfinished, Leak
<1>5. \A l : /\ Whole(l)' <=> Whole(l)
             /\ OnlyLeaked(l)' <=> OnlyLeaked(l)
             /\ Half(l)' <=> Half(l)
  BY <1>2, <1>4 DEF Whole, Behind, OnlyLeaked, Half
<1>6. \A l : Freed(l)' <=> Freed(l)
  BY <1>2, <1>5 DEF Freed
<1>7. \A l : Partly(l)' <=> Partly(l)
  BY <1>2, <1>3, <1>4, <1>5 DEF Partly, Backwards, LiveUpTo
<1>8. HeapInv'
  BY <1>1, <1>2, <1>3, <1>5, <1>6, <1>7 DEF V1Inv, HeapInv, ListInv, Gone
<1>9. WeakInv'
  BY <1>1, <1>2, <1>3 DEF V1Inv, WeakInv, Started
<1>10. RowsInv'
  <2>1. \A pcs : Filling(pcs)' <=> Filling(pcs)
    BY <1>3 DEF Filling
  <2>2. CellInv'
    BY <1>2, <1>5, <2>1 DEF V1Inv, RowsInv, CellInv
  <2> QED
    BY <1>2, <2>2 DEF V1Inv, RowsInv
<1>11. (InHand' <=> InHand) /\ SourceRow' = SourceRow
  BY <1>1, <1>2, <1>3 DEF InHand, SourceRow
<1>12. MessageInv' <=> MessageInv
  BY <1>1, <1>3 DEF MessageInv
<1>13. AddInv' <=> AddInv
  BY <1>1, <1>2, <1>3, <1>5, <1>11 DEF AddInv
<1>14. WalkInv => WalkInv'
  BY <1>1, <1>2, <1>3, <1>5, <1>11 DEF WalkInv
<1>15. MainInv'
  BY <1>3, <1>12, <1>13, <1>14 DEF V1Inv, MainInv
<1>16. ShowInv'
  BY <1>1, <1>2, <1>3, <1>11 DEF V1Inv, ShowInv, Filling
<1> QED
  BY <1>3, <1>8, <1>9, <1>10, <1>15, <1>16 DEF V1Inv

(* Main goes on with the next message, or waits for one. *)
LEMMA HandleStep ==
  ASSUME TypeOK, NEW msgs \in Seq(V1Message), Handle(msgs), Len(stack) = 1
  PROVE  \E c \in ContextType :
           /\ Resume(c) /\ c.pc \notin Busy \cup Adding \cup {"fill"} \cup Ending
           /\ buf' = msgs /\ MainInv' /\ ShowInv'
<1> DEFINE pc == IF msgs = <<>> THEN "recv" ELSE Head(msgs).type
           c == [Context(NULL, pc) EXCEPT !.l = "ports"]
<1>1. Resume(c) /\ buf' = msgs
  BY DEF Handle
<1>2. msgs # <<>> => Head(msgs) \in V1Message
  BY HeadTailProperties
<1>3. pc \in {"recv", "hello", "echo", "other", "alien", "features", "data"}
  BY <1>2 DEF V1Message
<1>4. pc = "features" => msgs # <<>> /\ Head(msgs).type = "features" /\ Head(msgs).list \in Seq(Nat)
  BY <1>2 DEF V1Message
<1>5. pc = "data" => msgs # <<>> /\ Head(msgs).type = "data"
  OBVIOUS
<1>6. pc # "recv" => msgs # <<>>
  OBVIOUS
<1> HIDE DEF pc
<1>7. c = [sig |-> NULL, pc |-> pc, l |-> "ports", tmp |-> 0, prev |-> 0, p |-> NULL]
  BY DEF Context
<1>8. c \in ContextType
  BY <1>3, <1>7 DEF ContextType, Pc, Lists, Payload
<1>9. c.pc = pc /\ c.l = "ports" /\ c.tmp = 0
  BY <1>7
<1> HIDE DEF c
<1>10. Top' = c
  BY <1>1, <1>8, ResumeStack
<1>11. MessageInv'
  <2>1. pc = "features" => Len(Head(msgs).list) \in Nat
    BY <1>4, LenProperties
  <2>2. pc = "features" => 0 <= Len(Head(msgs).list)
    BY <2>1
  <2> QED
    BY <1>1, <1>3, <1>4, <1>5, <1>6, <1>9, <1>10, <2>2
    DEF MessageInv, Waiting, AddPc, Adding, DataPc
<1>12. AddInv' /\ WalkInv'
  BY <1>3, <1>9, <1>10 DEF AddInv, WalkInv, AddPc, Adding
<1>13. ShowInv'
  BY <1>3, <1>9, <1>10 DEF ShowInv
<1>14. c.pc \notin Busy \cup Adding \cup {"fill"} \cup Ending
  BY <1>3, <1>9 DEF Busy, Freeing, Adding, Ending
<1> QED
  BY <1>1, <1>8, <1>11, <1>12, <1>13, <1>14 DEF MainInv

(* Main gives up, and show_hosts begins. *)
LEMMA GiveUpStep ==
  ASSUME TypeOK, GiveUp, Len(stack) = 1
  PROVE  \E c \in ContextType :
           /\ Resume(c) /\ c.pc \notin Busy \cup Adding \cup {"fill"}
           /\ report' = <<>> /\ MainInv' /\ ShowInv'
<1> DEFINE c == Context(NULL, "show")
<1>1. c = [sig |-> NULL, pc |-> "show", l |-> "hosts", tmp |-> 0, prev |-> 0, p |-> NULL]
  BY DEF Context
<1>2. c \in ContextType
  BY <1>1 DEF ContextType, Pc, Lists, Payload, Ending
<1>3. Resume(c) /\ report' = <<>>
  BY DEF GiveUp
<1>4. c.pc = "show" /\ c.p = NULL /\ c.l = "hosts"
  BY <1>1
<1> HIDE DEF c
<1>5. Top' = c
  BY <1>2, <1>3, ResumeStack
<1>6. MainInv' /\ ShowInv'
  BY <1>3, <1>4, <1>5, Marks DEF MainInv, ShowInv, Ending
<1>7. c.pc \notin Busy \cup Adding \cup {"fill"}
  BY <1>4 DEF Busy, Freeing, Adding
<1> QED
  BY <1>2, <1>3, <1>6, <1>7

----------------------------------------------------------------------------
(* Messages that leave the lists alone. *)

(* Where main is with a message in hand and both lists whole. *)
Between == Pc \ (Ending \cup Adding \cup {"fill"})

(* At these places no object is being added, nor a list freed. *)
LEMMA PcFacts ==
  /\ \A pc \in Between : pc \notin Busy \cup Adding \cup {"fill"} /\ pc \notin Ending
  /\ "fill" \notin Ending /\ "show" \notin Between
BY DEF Between, Busy, Freeing, Ending

(* A step of main that leaves the lists alone. *)
LEMMA MainGoes ==
  ASSUME V1Inv, UNCHANGED heap, Top.pc \in Between, proc' \in {"running", "killed"},
         NEW c \in ContextType, Resume(c), c.pc \notin Busy \cup Adding \cup {"fill"},
         current' \in 0 .. N("hosts"), first["hosts"] = 0 => current' = 0,
         IoType', report' \in Seq(Row \cup {Raw}), MainInv', ShowInv'
  PROVE  V1Inv'
<1>0. TypeOK /\ StackInv /\ HeapInv /\ WeakInv /\ RowsInv
  BY DEF V1Inv
<1>1. Len(stack) = 1
  BY <1>0, PcFacts, MainRuns
<1>2. StackInv' /\ HeapInv' /\ WeakInv' /\ RowsInv'
  BY <1>0, <1>1, PcFacts, MainMoves
<1>3. stack' \in Seq(ContextType) /\ stack' # <<>>
  BY <1>0, ResumeStack
<1>4. HeapType'
  BY <1>0, TypeParts DEF HeapType, heap
<1>5. current' \in Nat
  BY <1>0, InLists, ObjectFacts
<1>6. TypeOK'
  <2>1. proc' \in {"running", "ended", "killed", "fault"}
    OBVIOUS
  <2> QED
    BY <1>3, <1>4, <1>5, <2>1 DEF TypeOK, IoType, HeapType
<1> QED
  BY <1>2, <1>6, EndQuiet DEF V1Inv

(* The cursor is where it was. *)
LEMMA CursorStays ==
  ASSUME V1Inv, Top.pc \in Between
  PROVE  /\ Len(stack) = 1 /\ Top \in ContextType /\ TypeOK /\ IoType
         /\ current \in 0 .. N("hosts") /\ (first["hosts"] = 0 => current = 0)
         /\ report \in Seq(Row \cup {Raw})
         /\ Whole("hosts") /\ Whole("ports") /\ M = Top /\ Undisturbed
         /\ MessageInv /\ AddInv /\ WalkInv
<1>0. TypeOK /\ StackInv /\ HeapInv /\ MainInv
  BY DEF V1Inv
<1>1. Len(stack) = 1 /\ Top.pc \notin Ending /\ Top.pc \notin Busy
  BY <1>0, PcFacts, MainRuns
<1> QED
  BY <1>0, <1>1, MainAlone, TopFacts, TypeParts DEF MainInv

(* After a message is done, or a send failed. *)
LEMMA DoneKeeps ==
  ASSUME V1Inv, NEW msgs \in Seq(V1Message), Handle(msgs), Top.pc \in Between,
         sock' \in {"none", "open", "closed"}, peer' \in {"none", "open", "gone"},
         inq' \in Seq(V1Message), spent' \in Nat, write_buffer_len' \in {-1, 0, 1},
         UNCHANGED <<proc, heap, current, report>>, proc = "running"
  PROVE  V1Inv'
<1>1. /\ Len(stack) = 1 /\ TypeOK /\ report \in Seq(Row \cup {Raw})
      /\ current \in 0 .. N("hosts") /\ (first["hosts"] = 0 => current = 0)
  BY CursorStays
<1>2. PICK c \in ContextType :
           /\ Resume(c) /\ c.pc \notin Busy \cup Adding \cup {"fill"} \cup Ending
           /\ buf' = msgs /\ MainInv' /\ ShowInv'
  BY <1>1, HandleStep
<1>3. IoType'
  BY <1>2 DEF IoType
<1>4. /\ proc' \in {"running", "killed"} /\ current' \in 0 .. N("hosts")
      /\ (first["hosts"] = 0 => current' = 0) /\ report' \in Seq(Row \cup {Raw})
      /\ UNCHANGED heap
  BY <1>1
<1>5. c.pc \notin Busy \cup Adding \cup {"fill"}
  BY <1>2
<1> QED
  BY <1>2, <1>3, <1>4, <1>5, MainGoes

(* A handler that returned -1, or a recv that did, keeps the invariant: main *)
(* goes on as the end does.                                                  *)
LEMMA GiveUpKeeps ==
  ASSUME V1Inv, GiveUp, Top.pc \in Between,
         sock' \in {"none", "open", "closed"}, peer' \in {"none", "open", "gone"},
         inq' \in Seq(V1Message), spent' \in Nat, write_buffer_len' \in {-1, 0, 1},
         UNCHANGED <<proc, heap, current, buf>>, proc = "running"
  PROVE  V1Inv'
<1>1. /\ Len(stack) = 1 /\ TypeOK /\ IoType
      /\ current \in 0 .. N("hosts") /\ (first["hosts"] = 0 => current = 0)
  BY CursorStays
<1>2. PICK c \in ContextType :
           /\ Resume(c) /\ c.pc \notin Busy \cup Adding \cup {"fill"}
           /\ report' = <<>> /\ MainInv' /\ ShowInv'
  BY <1>1, GiveUpStep
<1>3. IoType'
  BY <1>1 DEF IoType
<1>4. report' \in Seq(Row \cup {Raw})
  BY <1>2, EmptySeq
<1>5. /\ proc' \in {"running", "killed"} /\ current' \in 0 .. N("hosts")
      /\ (first["hosts"] = 0 => current' = 0) /\ UNCHANGED heap
  BY <1>1
<1> QED
  BY <1>2, <1>3, <1>4, <1>5, MainGoes

(* SIGPIPE. *)
LEMMA KillKeeps ==
  ASSUME V1Inv, proc' = "killed", proc = "running",
         UNCHANGED <<stack, sock, peer, inq, spent, buf, write_buffer_len, heap, current, report>>
  PROVE  V1Inv'
<1>1. StackInv' /\ HeapInv' /\ WeakInv' /\ RowsInv' /\ MainInv' /\ ShowInv'
  BY Stays
<1>2. TypeOK'
  BY TypeParts DEF V1Inv, TypeOK, heap
<1> QED
  BY <1>1, <1>2, EndQuiet DEF V1Inv

(* The rest of read_buffer is a sequence of messages. *)
LEMMA RestOfBuffer ==
  ASSUME V1Inv, Top.pc \in Between, Top.pc \notin Waiting
  PROVE  Tail(buf) \in Seq(V1Message) /\ buf \in Seq(V1Message) /\ buf # <<>> /\ Head(buf) \in V1Message
<1>1. buf # <<>> /\ buf \in Seq(V1Message)
  BY CursorStays DEF MessageInv, TypeOK
<1> QED
  BY <1>1, HeadTailProperties

(* A send of a handler, whatever becomes of it. *)
LEMMA SendKeeps ==
  ASSUME V1Inv, proc = "running", Top.pc \in Between, Top.pc \notin Waiting,
         SendThen(Done) \/ SendGivesUp \/ SendUndefined \/ SendKills,
         UNCHANGED <<sock, peer, inq, spent, heap, current>>
  PROVE  V1Inv'
<1>1. Tail(buf) \in Seq(V1Message)
  BY RestOfBuffer
<1>2. sock \in {"none", "open", "closed"} /\ peer \in {"none", "open", "gone"}
      /\ inq \in Seq(V1Message) /\ spent \in Nat
  BY DEF V1Inv, TypeOK
<1>3. CASE SendThen(Done)
  <2>1. Handle(Tail(buf)) /\ UNCHANGED <<proc, report>> /\ write_buffer_len' = 1
    BY <1>3 DEF SendThen, Done, Sends
  <2> QED
    BY <1>1, <1>2, <2>1, DoneKeeps
<1>4. CASE SendUndefined
  <2>1. Handle(Tail(buf)) /\ UNCHANGED <<proc, report>> /\ write_buffer_len' = -1
    BY <1>4 DEF SendUndefined, Done, SendFails
  <2> QED
    BY <1>1, <1>2, <2>1, DoneKeeps
<1>5. CASE SendGivesUp
  <2>1. GiveUp /\ UNCHANGED <<proc, buf>> /\ write_buffer_len' = -1
    BY <1>5 DEF SendGivesUp, SendFails
  <2> QED
    BY <1>2, <2>1, GiveUpKeeps
<1>6. CASE SendKills
  BY <1>6, KillKeeps DEF SendKills, SigPipe
<1> QED
  BY <1>3, <1>4, <1>5, <1>6

(* Main goes on elsewhere, without a change of anything else. *)
LEMMA GotoKeeps ==
  ASSUME V1Inv, proc = "running", Top.pc \in Between, NEW pc \in Between, pc # "learn_show",
         Goto(pc), UNCHANGED <<proc, heap, current, buf, report>>, IoType',
         Top' = [Top EXCEPT !.pc = pc] => MainInv'
  PROVE  V1Inv'
<1> DEFINE c == [Top EXCEPT !.pc = pc]
<1>1. /\ Len(stack) = 1 /\ TypeOK /\ Top \in ContextType /\ report \in Seq(Row \cup {Raw})
      /\ current \in 0 .. N("hosts") /\ (first["hosts"] = 0 => current = 0)
  BY CursorStays
<1>2. c \in ContextType /\ c.pc = pc
  BY <1>1 DEF ContextType, Between
<1>3. Resume(c)
  BY DEF Goto
<1>4. Top' = c
  BY <1>1, <1>2, <1>3, ResumeStack
<1>5. pc \notin Ending
  BY PcFacts
<1>6. ShowInv' \/ pc = "learn_show"
  BY <1>2, <1>4, <1>5 DEF ShowInv, Ending
<1>7. c.pc \notin Busy \cup Adding \cup {"fill"}
  BY <1>2, PcFacts
<1>8. /\ proc' \in {"running", "killed"} /\ current' \in 0 .. N("hosts")
      /\ (first["hosts"] = 0 => current' = 0) /\ UNCHANGED heap /\ report' \in Seq(Row \cup {Raw})
  BY <1>1
<1> HIDE DEF c
<1>9. MainInv'
  BY <1>4 DEF c
<1> QED
  BY <1>2, <1>3, <1>6, <1>7, <1>8, <1>9, MainGoes

(* Where nothing is in hand, nothing is claimed. *)
LEMMA WaitingMain ==
  ASSUME Top'.pc \in {"set_int", "set_term", "recv"}
  PROVE  MainInv'
<1>1. MessageInv'
  BY DEF MessageInv, Waiting, AddPc, Adding, DataPc
<1>2. AddInv' /\ WalkInv'
  BY DEF AddInv, WalkInv, AddPc, Adding
<1> QED
  BY <1>1, <1>2 DEF MainInv

(* A switch connects and the handlers are set; nothing is in hand yet. *)
LEMMA AcceptKeeps ==
  ASSUME V1Inv, Accept \/ SetInt \/ SetTerm
  PROVE  V1Inv'
<1>1. PICK pc \in {"set_int", "set_term", "recv"} :
         Goto(pc) /\ proc = "running" /\ UNCHANGED <<proc, inq, spent, buf, write_buffer_len, heap, current, report>>
         /\ Top.pc \in {"start", "set_int", "set_term"}
         /\ sock' \in {sock, "open"} /\ peer' \in {peer, "open"}
  BY DEF Accept, SetInt, SetTerm, At, io, history
<1>2. Top.pc \in Between /\ pc \in Between /\ pc # "learn_show"
  BY <1>1 DEF Between, Pc, Ending, Adding
<1>3. IoType'
  BY <1>1 DEF IoType, V1Inv, TypeOK
<1>4. Top' = [Top EXCEPT !.pc = pc] => MainInv'
  <2>1. Top \in ContextType
    BY <1>2, CursorStays
  <2>2. [Top EXCEPT !.pc = pc].pc = pc
    BY <2>1 DEF ContextType
  <2> QED
    BY <2>2, WaitingMain
<1> QED
  BY <1>1, <1>2, <1>3, <1>4, GotoKeeps

(* The socket set-up fails; the lists are empty, so the end has nothing to *)
(* free.                                                                   *)
LEMMA SetUpFailsKeeps ==
  ASSUME V1Inv, SetUpFails
  PROVE  V1Inv'
<1> DEFINE c == [Top EXCEPT !.pc = "exit"]
<1>1. /\ At("start") /\ Goto("exit") /\ proc = "running"
      /\ UNCHANGED <<proc, io, heap, current, report>>
  BY DEF SetUpFails, At, history
<1>2. Top.pc \in Between /\ Top.pc = "start"
  BY <1>1 DEF Between, Pc, Ending, Adding, At
<1>3. /\ Len(stack) = 1 /\ TypeOK /\ Top \in ContextType /\ StackInv
      /\ current \in 0 .. N("hosts") /\ (first["hosts"] = 0 => current = 0)
      /\ Whole("hosts") /\ Whole("ports") /\ M = Top /\ AddInv
  BY <1>2, CursorStays DEF V1Inv
<1>4. N("hosts") = 0 /\ N("ports") = 0
  BY <1>2, <1>3, InLists DEF AddInv
<1>5. c \in ContextType /\ c.pc = "exit" /\ Resume(c)
  BY <1>1, <1>3 DEF ContextType, Pc, Ending, Goto
<1> HIDE DEF c
<1>6. /\ Top' = c /\ M' = c /\ Len(stack') = Len(stack) /\ StackInv'
      /\ (Torn' <=> Torn) /\ Undisturbed' = Undisturbed /\ stack' \in Seq(ContextType) /\ stack' # <<>>
  BY <1>3, <1>5, ResumeStack, MainAlone DEF V1Inv, Ending
<1>7. /\ \A l : N(l)' = N(l) /\ (Linked(l)' <=> Linked(l)) /\ (Cells(l)' <=> Cells(l))
      /\ \A k : P(k)' = P(k)
      /\ (OneRow' <=> OneRow) /\ first' = first /\ last' = last /\ failed' = failed /\ obj' = obj
  BY <1>1, SameHeap
<1>8. \A l \in Lists : Freed(l)'
  <2> TAKE l \in Lists
  <2>1. N(l) = 0 /\ Linked(l)
    BY <1>3, <1>4, InLists DEF Whole
  <2>2. first[l] = 0 /\ last[l] = 0
    <3>1. last[l] \in {0, -1} /\ last[l] \in Nat
      BY <1>3, <2>1, ObjectFacts DEF Linked
    <3> QED
      BY <2>1, <3>1 DEF Linked
  <2>3. OnlyLeaked(l)'
    BY <1>7, <2>1 DEF OnlyLeaked
  <2> QED
    BY <1>7, <2>2, <2>3 DEF Freed
<1>9. HeapInv'
  <2>1. current' = 0
    BY <1>1, <1>3, <1>4
  <2>2. \A l \in Lists : ListInv(l)'
    BY <1>5, <1>6, <1>8 DEF ListInv, Freeing
  <2>3. N("hosts")' = 0
    BY <1>4, <1>7
  <2>4. 0 \in 0 .. 0
    OBVIOUS
  <2> QED
    BY <1>5, <1>6, <1>8, <2>1, <2>2, <2>3, <2>4, InLists DEF HeapInv, Gone, Busy
<1>10. WeakInv'
  BY <1>5, <1>6, <1>7 DEF WeakInv, V1Inv
<1>11. RowsInv'
  BY <1>4, <1>7 DEF RowsInv, CellInv, V1Inv
<1>12. MainInv' /\ ShowInv'
  BY <1>5, <1>6 DEF MainInv, ShowInv, Ending
<1>13. EndInv'
  BY <1>1, EndQuiet
<1>14. TypeOK'
  <2>1. IoType' /\ HeapType'
    BY <1>1, <1>3, TypeParts DEF IoType, HeapType, io, heap
  <2> QED
    BY <1>1, <1>3, <1>6, <2>1 DEF TypeOK, IoType, HeapType
<1> QED
  BY <1>6, <1>9, <1>10, <1>11, <1>12, <1>13, <1>14 DEF V1Inv

(* recv takes messages off the queue. *)
LEMMA RecvKeeps ==
  ASSUME V1Inv, Recv
  PROVE  V1Inv'
<1>1. PICK n \in 1 .. Len(inq) : Handle(SubSeq(inq, 1, n)) /\ inq' = SubSeq(inq, n + 1, Len(inq))
  BY DEF Recv
<1>2. inq \in Seq(V1Message) /\ Len(inq) \in Nat
  BY LenProperties DEF V1Inv, TypeOK
<1>3. SubSeq(inq, 1, n) \in Seq(V1Message) /\ SubSeq(inq, n + 1, Len(inq)) \in Seq(V1Message)
  <2>1. n \in Nat /\ n <= Len(inq)
    BY <1>1, <1>2
  <2>2. \A i \in 1 .. n : inq[i] \in V1Message
    BY <1>2, <2>1, ElementOfSeq
  <2>3. \A i \in n + 1 .. Len(inq) : inq[i] \in V1Message
    BY <1>2, <2>1, ElementOfSeq
  <2> QED
    BY <1>2, <2>1, <2>2, <2>3, SubSeqProperties
<1>4. Top.pc \in Between /\ proc = "running"
  BY DEF Recv, At, Between, Pc, Ending, Adding
<1>5. UNCHANGED <<proc, sock, peer, spent, write_buffer_len, heap, current, report>>
  BY DEF Recv
<1>6. /\ sock' \in {"none", "open", "closed"} /\ peer' \in {"none", "open", "gone"}
      /\ inq' \in Seq(V1Message) /\ spent' \in Nat /\ write_buffer_len' \in {-1, 0, 1}
  BY <1>1, <1>3, <1>5 DEF V1Inv, TypeOK
<1> QED
  BY <1>1, <1>3, <1>4, <1>5, <1>6, DoneKeeps

(* recv fails: the hosts are shown and freed, as at the end. *)
LEMMA RecvFailsKeeps ==
  ASSUME V1Inv, RecvFails
  PROVE  V1Inv'
<1>1. GiveUp /\ inq' = <<>> /\ UNCHANGED <<proc, sock, peer, spent, buf, write_buffer_len, heap, current>>
  BY DEF RecvFails
<1>2. Top.pc \in Between /\ proc = "running"
  BY DEF RecvFails, At, Between, Pc, Ending, Adding
<1>3. /\ sock' \in {"none", "open", "closed"} /\ peer' \in {"none", "open", "gone"}
      /\ inq' \in Seq(V1Message) /\ spent' \in Nat /\ write_buffer_len' \in {-1, 0, 1}
  BY <1>1, EmptySeq DEF V1Inv, TypeOK
<1> QED
  BY <1>1, <1>2, <1>3, GiveUpKeeps

(* A message of another version, and one that no handler is for, are dropped. *)
LEMMA CheckOpenflowKeeps ==
  ASSUME V1Inv, CheckOpenflow \/ Other
  PROVE  V1Inv'
<1>1. Top.pc \in Between /\ Top.pc \notin Waiting /\ proc = "running"
  BY DEF CheckOpenflow, Other, At, Between, Pc, Ending, Adding, Waiting
<1>2. Tail(buf) \in Seq(V1Message)
  BY <1>1, RestOfBuffer
<1>3. PICK msgs \in Seq(V1Message) :
         Handle(msgs) /\ UNCHANGED <<proc, sock, peer, inq, spent, write_buffer_len, heap, current, report>>
  BY <1>2, EmptySeq DEF CheckOpenflow, Other, Done, history
<1>4. /\ sock' \in {"none", "open", "closed"} /\ peer' \in {"none", "open", "gone"}
      /\ inq' \in Seq(V1Message) /\ spent' \in Nat /\ write_buffer_len' \in {-1, 0, 1}
  BY <1>3 DEF V1Inv, TypeOK
<1> QED
  BY <1>1, <1>3, <1>4, DoneKeeps

(* The answer to a hello, and what becomes of its send. *)
LEMMA ActionHelloKeeps ==
  ASSUME V1Inv, ActionHello
  PROVE  V1Inv'
<1>1. Top.pc = "hello" /\ Top.pc \in Between /\ Top.pc \notin Waiting /\ proc = "running"
  BY DEF ActionHello, At, Between, Pc, Ending, Adding, Waiting
<1>2. UNCHANGED <<sock, peer, inq, spent, heap, current>>
  BY DEF ActionHello
<1>3. CASE SendThen(Goto("features_request") /\ UNCHANGED buf)
  <2>1. Goto("features_request") /\ UNCHANGED <<proc, heap, current, buf, report>> /\ write_buffer_len' = 1
    BY <1>2, <1>3 DEF SendThen, Sends
  <2>2. IoType'
    BY <1>2, <2>1 DEF V1Inv, TypeOK, IoType
  <2>3. "features_request" \in Between
    BY DEF Between, Pc, Ending, Adding
  <2>4. Top' = [Top EXCEPT !.pc = "features_request"] => MainInv'
    <3>1. Top \in ContextType /\ buf # <<>>
      BY <1>1, CursorStays DEF MessageInv
    <3>2. [Top EXCEPT !.pc = "features_request"].pc = "features_request"
      BY <3>1 DEF ContextType
    <3> SUFFICES ASSUME Top'.pc = "features_request"
                 PROVE  MainInv'
      BY <3>2
    <3>3. MessageInv'
      BY <2>1, <3>1 DEF MessageInv, AddPc, Adding, DataPc
    <3>4. AddInv' /\ WalkInv'
      BY DEF AddInv, WalkInv, AddPc, Adding
    <3> QED
      BY <3>3, <3>4 DEF MainInv
  <2> QED
    BY <1>1, <2>1, <2>2, <2>3, <2>4, GotoKeeps
<1>4. CASE SendGivesUp \/ SendUndefined \/ SendKills
  BY <1>1, <1>2, <1>4, SendKeeps
<1> QED
  BY <1>3, <1>4 DEF ActionHello

(* The features request, the answer to an echo and the configuration. *)
LEMMA RequestsKeep ==
  ASSUME V1Inv, FeaturesRequest \/ ActionEcho \/ SetConfig
  PROVE  V1Inv'
<1>1. Top.pc \in Between /\ Top.pc \notin Waiting /\ proc = "running"
  BY DEF FeaturesRequest, ActionEcho, SetConfig, At, Between, Pc, Ending, Adding, Waiting
<1>2. UNCHANGED <<sock, peer, inq, spent, heap, current>>
      /\ (SendThen(Done) \/ SendGivesUp \/ SendUndefined \/ SendKills)
  BY DEF FeaturesRequest, ActionEcho, SetConfig
<1> QED
  BY <1>1, <1>2, SendKeeps

(* A switch without ports ends the program; else its ports are added. *)
LEMMA FeaturesReplyKeeps ==
  ASSUME V1Inv, FeaturesReply
  PROVE  V1Inv'
<1>1. Top.pc = "features" /\ Top.pc \in Between /\ Top.pc \notin Waiting /\ proc = "running"
  BY DEF FeaturesReply, At, Between, Pc, Ending, Adding, Waiting
<1>2. UNCHANGED <<proc, io, heap, current>>
  BY DEF FeaturesReply
<1>3. /\ sock' \in {"none", "open", "closed"} /\ peer' \in {"none", "open", "gone"}
      /\ inq' \in Seq(V1Message) /\ spent' \in Nat /\ write_buffer_len' \in {-1, 0, 1}
      /\ UNCHANGED buf /\ IoType'
  BY <1>2 DEF V1Inv, TypeOK, io, IoType
<1>4. CASE GiveUp
  BY <1>1, <1>2, <1>3, <1>4, GiveUpKeeps
<1>5. CASE Goto("ports") /\ UNCHANGED report
  <2>1. "ports" \in Between
    BY DEF Between, Pc, Ending, Adding
  <2>2. Top' = [Top EXCEPT !.pc = "ports"] => MainInv'
    <3>1. Top \in ContextType /\ MessageInv
      BY <1>1, CursorStays
    <3>2. [Top EXCEPT !.pc = "ports"].pc = "ports" /\ [Top EXCEPT !.pc = "ports"].l = Top.l
          /\ [Top EXCEPT !.pc = "ports"].tmp = Top.tmp
      BY <3>1 DEF ContextType
    <3> SUFFICES ASSUME Top'.pc = "ports" /\ Top'.l = Top.l /\ Top'.tmp = Top.tmp
                 PROVE  MainInv'
      BY <3>2
    <3>3. MessageInv'
      BY <1>1, <1>3, <3>1 DEF MessageInv, AddPc, Adding, DataPc
    <3>4. AddInv' /\ WalkInv'
      BY DEF AddInv, WalkInv, AddPc, Adding
    <3> QED
      BY <3>3, <3>4 DEF MainInv
  <2> QED
    BY <1>1, <1>2, <1>3, <1>5, <2>1, <2>2, GotoKeeps
<1> QED
  BY <1>4, <1>5 DEF FeaturesReply

(* The next port is added, to a list that is whole. *)
LEMMA NextPortKeeps ==
  ASSUME V1Inv, NextPort
  PROVE  V1Inv'
<1> DEFINE port == [port_no |-> Head(buf).list[Top.tmp + 1]]
           c == [Top EXCEPT !.pc = "add", !.p = port]
<1>1. Top.pc = "ports" /\ Top.pc \in Between /\ Top.pc \notin Waiting /\ proc = "running"
  BY DEF NextPort, At, Between, Pc, Ending, Adding, Waiting
<1>2. /\ Resume(c) /\ UNCHANGED <<proc, io, heap, current, report>>
      /\ Top.tmp < Len(Head(buf).list)
  BY DEF NextPort, history
<1>3. /\ Len(stack) = 1 /\ TypeOK /\ IoType /\ Top \in ContextType /\ report \in Seq(Row \cup {Raw})
      /\ current \in 0 .. N("hosts") /\ (first["hosts"] = 0 => current = 0)
      /\ MessageInv
  BY <1>1, CursorStays
<1>4. Top.l = "ports" /\ Head(buf).type = "features" /\ buf # <<>>
  BY <1>1, <1>3 DEF MessageInv
<1>5. Head(buf).list \in Seq(Nat)
  BY <1>1, <1>4, RestOfBuffer DEF V1Message
<1>6. port \in Payload
  <2>1. Top.tmp \in Nat /\ Len(Head(buf).list) \in Nat
    BY <1>3, <1>5, LenProperties DEF ContextType
  <2>2. Top.tmp + 1 \in 1 .. Len(Head(buf).list)
    BY <1>2, <2>1
  <2>3. Head(buf).list[Top.tmp + 1] \in Nat
    BY <1>5, <2>2, ElementOfSeq
  <2> QED
    BY <2>3 DEF Payload
<1> HIDE DEF port
<1>7. c \in ContextType /\ c.pc = "add" /\ c.l = "ports" /\ c.tmp = Top.tmp
  BY <1>3, <1>4, <1>6 DEF ContextType, Pc
<1> HIDE DEF c
<1>8. Top' = c
  BY <1>2, <1>3, <1>7, ResumeStack
<1>9. IoType' /\ UNCHANGED buf
  BY <1>2, <1>3 DEF IoType, io
<1>10. MessageInv'
  BY <1>2, <1>4, <1>7, <1>8, <1>9 DEF MessageInv, AddPc, DataPc, Adding
<1>11. AddInv' /\ WalkInv'
  BY <1>7, <1>8 DEF AddInv, WalkInv, AddPc, Adding
<1>12. MainInv' /\ ShowInv'
  BY <1>7, <1>8, <1>10, <1>11 DEF MainInv, ShowInv
<1>13. c.pc \notin Busy \cup Adding \cup {"fill"}
  BY <1>7 DEF Busy, Freeing, Adding
<1>14. /\ proc' \in {"running", "killed"} /\ current' \in 0 .. N("hosts")
       /\ (first["hosts"] = 0 => current' = 0) /\ UNCHANGED heap /\ report' \in Seq(Row \cup {Raw})
  BY <1>1, <1>2, <1>3
<1> QED
  BY <1>1, <1>2, <1>7, <1>9, <1>12, <1>13, <1>14, MainGoes

(* A packet is in hand: whom to look for first depends on its type. *)
LEMMA ActionPackoutKeeps ==
  ASSUME V1Inv, ActionPackout
  PROVE  V1Inv'
<1>1. Top.pc = "data" /\ Top.pc \in Between /\ Top.pc \notin Waiting /\ proc = "running"
  BY DEF ActionPackout, At, Between, Pc, Ending, Adding, Waiting
<1>2. UNCHANGED <<proc, io, heap, current, report>>
  BY DEF ActionPackout, history
<1>3. Top \in ContextType /\ MessageInv /\ IoType /\ TypeOK
  BY <1>1, CursorStays
<1>4. buf # <<>> /\ Head(buf).type = "data"
  BY <1>1, <1>3 DEF MessageInv, DataPc
<1>5. PICK pc \in {"src", "dst", "answer"} :
        /\ Goto(pc)
        /\ pc = "src" => Head(buf).pkt.type = "arp"
        /\ pc = "dst" => Head(buf).pkt.type = "ip"
        /\ pc = "answer" => Head(buf).pkt.type # "arp" /\ Head(buf).pkt.type # "ip"
  <2>1. CASE Head(buf).pkt.type = "arp"
    <3>1. Goto("src")
      BY <2>1 DEF ActionPackout
    <3> QED
      BY <2>1, <3>1
  <2>2. CASE Head(buf).pkt.type = "ip"
    <3>1. Goto("dst")
      BY <2>2 DEF ActionPackout
    <3> QED
      BY <2>2, <3>1
  <2>3. CASE Head(buf).pkt.type # "arp" /\ Head(buf).pkt.type # "ip"
    <3>1. Goto("answer")
      BY <2>3 DEF ActionPackout
    <3> QED
      BY <2>3, <3>1
  <2> QED
    BY <2>1, <2>2, <2>3
<1>6. pc \in Between /\ pc # "learn_show"
  BY DEF Between, Pc, Ending, Adding
<1>7. IoType' /\ UNCHANGED buf
  BY <1>2, <1>3 DEF IoType, io
<1>8. Top' = [Top EXCEPT !.pc = pc] => MainInv'
  <2>1. [Top EXCEPT !.pc = pc].pc = pc
    BY <1>3 DEF ContextType
  <2> SUFFICES ASSUME Top'.pc = pc
               PROVE  MainInv'
    BY <2>1
  <2>2. MessageInv'
    BY <1>4, <1>7 DEF MessageInv, AddPc, Adding, DataPc
  <2>3. AddInv'
    BY DEF AddInv, AddPc, Adding
  <2>4. WalkInv'
    BY <1>5, <1>7 DEF WalkInv, NeedsPort
  <2> QED
    BY <2>2, <2>3, <2>4 DEF MainInv
<1> QED
  BY <1>1, <1>2, <1>5, <1>6, <1>7, <1>8, GotoKeeps

(* The answer is sent, or nothing is, and the packet is done. *)
LEMMA RespondKeeps ==
  ASSUME V1Inv, Respond
  PROVE  V1Inv'
<1>1. Top.pc = "answer" /\ Top.pc \in Between /\ Top.pc \notin Waiting /\ proc = "running"
  BY DEF Respond, At, Between, Pc, Ending, Adding, Waiting
<1>2. UNCHANGED <<sock, peer, inq, spent, heap, current>>
  BY DEF Respond
<1>3. \/ PackoutEnd /\ UNCHANGED proc /\ (UNCHANGED write_buffer_len \/ write_buffer_len' = 1)
      \/ SendGivesUp \/ SendKills
  BY DEF Respond, Silent, Sends
<1>4. CASE PackoutEnd /\ UNCHANGED proc /\ (UNCHANGED write_buffer_len \/ write_buffer_len' = 1)
  <2>1. UNCHANGED proc /\ (UNCHANGED write_buffer_len \/ write_buffer_len' = 1)
    BY <1>4
  <2>2. /\ sock' \in {"none", "open", "closed"} /\ peer' \in {"none", "open", "gone"}
        /\ inq' \in Seq(V1Message) /\ spent' \in Nat /\ write_buffer_len' \in {-1, 0, 1}
    BY <1>2, <2>1 DEF V1Inv, TypeOK
  <2>3. CASE GiveUp /\ UNCHANGED buf
    BY <1>1, <1>2, <2>1, <2>2, <2>3, GiveUpKeeps
  <2>4. CASE Done /\ UNCHANGED report
    <3>1. Tail(buf) \in Seq(V1Message) /\ Handle(Tail(buf))
      BY <1>1, <2>4, RestOfBuffer DEF Done
    <3> QED
      BY <1>1, <1>2, <2>1, <2>2, <2>4, <3>1, DoneKeeps
  <2> QED
    BY <1>4, <2>3, <2>4 DEF PackoutEnd
<1>5. CASE SendGivesUp \/ SendKills
  BY <1>1, <1>2, <1>5, SendKeeps
<1> QED
  BY <1>3, <1>4, <1>5

----------------------------------------------------------------------------
(* Walks of hosts. *)

(* Where get_object goes in a list that is whole. *)
LEMMA GetObjectStep ==
  ASSUME TypeOK, Linked("hosts"), NEW c \in 0 .. N("hosts"), NEW found, NEW ended,
         GetObject(c, found, ended)
  PROVE  \/ /\ c + 1 \in 1 .. N("hosts") /\ current' = c + 1 /\ UNCHANGED proc
            /\ \/ P(c + 1) # NULL /\ Resume([found EXCEPT !.p = P(c + 1)])
               \/ P(c + 1) = NULL /\ Resume(ended)
         \/ c = N("hosts") /\ current' = 0 /\ UNCHANGED proc /\ Resume(ended)
         \/ c # 0 /\ HalfBuilt("hosts") /\ proc' = "fault" /\ UNCHANGED <<stack, current>>
<1>1. /\ N("hosts") \in Nat /\ DOMAIN obj["hosts"] = 1 .. N("hosts") /\ last["hosts"] \in Nat
      /\ c \in Nat
  BY ObjectFacts, InLists
<1>2. \A d \in 1 .. N("hosts") : Live("hosts", d)
  BY <1>1 DEF Live, Linked
<1>3. ~Wild(c)
  <2>1. c # 0 => c \in 1 .. N("hosts")
    BY <1>1
  <2> QED
    BY <1>2, <2>1 DEF Wild
<1>4. CASE c < N("hosts")
  <2>1. c + 1 \in 1 .. N("hosts") /\ c + 1 # 0
    BY <1>1, <1>4
  <2>2. Following(c) = c + 1
    <3>1. CASE c = 0
      BY <1>1, <1>4, <3>1 DEF Following, Linked
    <3>2. CASE c # 0
      <4>1. c \in 1 .. N("hosts")
        BY <1>1, <3>2
      <4> QED
        BY <1>4, <3>2, <4>1 DEF Following, Linked
    <3> QED
      BY <3>1, <3>2
  <2>3. ~Wild(c + 1) /\ RowAt(c + 1) = P(c + 1)
    BY <1>2, <2>1 DEF Wild, RowAt, P
  <2>4. /\ current' = c + 1 /\ UNCHANGED proc
        /\ Resume(IF P(c + 1) = NULL THEN ended ELSE [found EXCEPT !.p = P(c + 1)])
    BY <1>3, <2>2, <2>3 DEF GetObject
  <2> QED
    BY <2>1, <2>4
<1>5. CASE c = N("hosts")
  <2>1. Following(c) = 0 \/ (c = 1 /\ last["hosts"] = 0 /\ Following(c) = -1)
    <3>1. CASE c = 0
      BY <1>5, <3>1 DEF Following, Linked
    <3>2. CASE c # 0
      <4>1. c \in 1 .. N("hosts")
        BY <1>1, <3>2
      <4>2. obj["hosts"][c].next = 0 \/ (last["hosts"] = 0 /\ obj["hosts"][c].next = -1)
        BY <1>5, <4>1 DEF Linked
      <4>3. last["hosts"] = c \/ last["hosts"] = c - 1
        BY <1>5 DEF Linked
      <4>4. last["hosts"] = 0 => c = 1
        BY <1>1, <3>2, <4>3
      <4> QED
        BY <3>2, <4>2, <4>4 DEF Following
    <3> QED
      BY <3>1, <3>2
  <2>2. CASE Following(c) = 0
    <3>1. ~Wild(0) /\ RowAt(0) = NULL
      BY DEF Wild, RowAt
    <3>2. current' = 0 /\ UNCHANGED proc /\ Resume(ended)
      BY <1>3, <2>2, <3>1 DEF GetObject
    <3> QED
      BY <1>5, <3>2
  <2>3. CASE c = 1 /\ last["hosts"] = 0 /\ Following(c) = -1
    <3>1. -1 # 0 /\ -1 \notin 1 .. N("hosts")
      BY <1>1
    <3>2. Wild(-1)
      BY <1>1, <3>1 DEF Wild, Live
    <3>3. proc' = "fault" /\ UNCHANGED <<stack, current>>
      BY <2>3, <3>2 DEF GetObject
    <3>4. first["hosts"] # 0
      BY <1>1, <1>5, <2>3 DEF Linked
    <3> QED
      BY <2>3, <3>3, <3>4 DEF HalfBuilt
  <2> QED
    BY <2>1, <2>2, <2>3
<1> QED
  BY <1>1, <1>4, <1>5

(* A pointer that nobody set was followed. *)
LEMMA FaultKeeps ==
  ASSUME V1Inv, proc' = "fault", UNCHANGED <<stack, io, heap, current>>,
         report' = report \/ Top.pc \in {"show", "learn_show"},
         report' \in Seq(Row \cup {Raw}),
         Torn \/ \E l \in Lists : HalfBuilt(l)
  PROVE  V1Inv'
<1>0. UNCHANGED buf
  BY DEF io
<1>1. StackInv' /\ HeapInv' /\ WeakInv' /\ RowsInv' /\ MainInv' /\ ShowInv'
  BY <1>0, Stays
<1>2. TypeOK'
  BY TypeParts DEF V1Inv, TypeOK, heap, io
<1>3. EndInv'
  <2>1. Torn' <=> Torn
    BY DEF Torn, Lower
  <2>2. \A l \in Lists : HalfBuilt(l)' <=> HalfBuilt(l)
    BY DEF HalfBuilt, heap
  <2>3. Torn' \/ \E l \in Lists : HalfBuilt(l)'
    BY <2>1, <2>2
  <2> QED
    BY <2>3 DEF EndInv, FaultOnlyWhenTorn, Torn, Lower
<1> QED
  BY <1>1, <1>2, <1>3 DEF V1Inv

(* An object of hosts that holds no row, while main walks. *)
LEMMA RowOrNull ==
  ASSUME RowsInv, M.pc \notin {"add_payload", "add_links", "add_last", "fill"},
         NEW c \in 1 .. N("hosts")
  PROVE  P(c) \in Row \/ (P(c) = NULL /\ Half("hosts"))
BY DEF RowsInv, CellInv, Filling

(* A walk for an address, with the cursor at c and no row of it before. *)
LEMMA WalkStep ==
  ASSUME V1Inv, Top.pc \in {"src", "src_walk", "dst", "dst_walk"},
         NEW mac, NEW c \in 0 .. N("hosts"), NotUpTo(mac, c), NEW found, NEW ended,
         GetObject(c, found, ended)
  PROVE  \/ /\ c + 1 \in 1 .. N("hosts") /\ current' = c + 1 /\ UNCHANGED proc
            /\ P(c + 1) \in Row /\ Resume([found EXCEPT !.p = P(c + 1)])
         \/ /\ current' \in 0 .. N("hosts") /\ UNCHANGED proc /\ Resume(ended)
            /\ current' = 0 \/ Half("hosts")
            /\ NotUpTo(mac, N("hosts"))
         \/ /\ c # 0 /\ HalfBuilt("hosts") /\ proc' = "fault" /\ UNCHANGED <<stack, current>>
<1>1. Top.pc \in Between /\ Top.pc \notin {"add_payload", "add_links", "add_last", "fill"}
  BY DEF Between, Pc, Ending, Adding
<1>2. TypeOK /\ Linked("hosts") /\ M = Top /\ RowsInv
  BY <1>1, CursorStays DEF Whole, V1Inv
<1>3. N("hosts") \in Nat
  BY <1>2, ObjectFacts, InLists
<1>4. \/ /\ c + 1 \in 1 .. N("hosts") /\ current' = c + 1 /\ UNCHANGED proc
         /\ \/ P(c + 1) # NULL /\ Resume([found EXCEPT !.p = P(c + 1)])
            \/ P(c + 1) = NULL /\ Resume(ended)
      \/ c = N("hosts") /\ current' = 0 /\ UNCHANGED proc /\ Resume(ended)
      \/ c # 0 /\ HalfBuilt("hosts") /\ proc' = "fault" /\ UNCHANGED <<stack, current>>
  BY <1>2, GetObjectStep
<1>5. CASE c + 1 \in 1 .. N("hosts") /\ current' = c + 1 /\ UNCHANGED proc
           /\ P(c + 1) # NULL /\ Resume([found EXCEPT !.p = P(c + 1)])
  <2>1. P(c + 1) \in Row
    BY <1>1, <1>2, <1>5, RowOrNull
  <2> QED
    BY <1>5, <2>1
<1>6. CASE c + 1 \in 1 .. N("hosts") /\ current' = c + 1 /\ UNCHANGED proc
           /\ P(c + 1) = NULL /\ Resume(ended)
  <2>1. Half("hosts")
    BY <1>1, <1>2, <1>6, RowOrNull, Marks
  <2>2. N("hosts") = 1
    BY <2>1 DEF Half
  <2>3. c = 0 /\ current' \in 0 .. N("hosts")
    BY <1>3, <1>6, <2>2
  <2>4. NotUpTo(mac, N("hosts"))
    BY <1>6, <2>2, <2>3, Marks DEF NotUpTo
  <2> QED
    BY <1>6, <2>1, <2>3, <2>4
<1>7. CASE c = N("hosts") /\ current' = 0 /\ UNCHANGED proc /\ Resume(ended)
  <2>1. 0 \in 0 .. N("hosts")
    BY <1>3
  <2> QED
    BY <1>7, <2>1
<1> QED
  BY <1>4, <1>5, <1>6, <1>7

(* The context of main after a search that found no row, or found one. *)
LEMMA SearchGoes ==
  ASSUME V1Inv, proc = "running", Top.pc \in Between, UNCHANGED <<proc, io, heap, report>>,
         NEW c \in ContextType, Resume(c), c.pc \in Between, c.pc # "learn_show",
         current' \in 0 .. N("hosts"), first["hosts"] = 0 => current' = 0,
         Top' = c => MessageInv' /\ AddInv' /\ WalkInv'
  PROVE  V1Inv'
<1>1. TypeOK /\ Len(stack) = 1 /\ IoType /\ report \in Seq(Row \cup {Raw})
  BY CursorStays
<1>2. Top' = c
  BY <1>1, ResumeStack
<1>3. c.pc \notin Busy \cup Adding \cup {"fill"} /\ c.pc \notin Ending
  BY PcFacts
<1>4. MainInv' /\ ShowInv'
  BY <1>2, <1>3 DEF MainInv, ShowInv, Ending
<1>5. IoType' /\ report' \in Seq(Row \cup {Raw}) /\ proc' \in {"running", "killed"} /\ UNCHANGED heap
  BY <1>1 DEF IoType, io
<1> QED
  BY <1>3, <1>4, <1>5, MainGoes

(* The message in hand is a packet-in, with the fields of one. *)
LEMMA DataInHand ==
  ASSUME V1Inv, Top.pc \in DataPc
  PROVE  /\ buf # <<>> /\ Head(buf) \in V1Message /\ Head(buf).type = "data"
         /\ Head(buf).pkt \in Packet /\ SourceRow \in Row
         /\ Top.pc \in Between /\ Top.pc \notin Waiting
<1>1. Top.pc \in Between /\ Top.pc \notin Waiting
  BY DEF DataPc, Between, Pc, Ending, Adding, Waiting
<1>2. buf # <<>> /\ Head(buf) \in V1Message /\ Head(buf).type = "data"
  BY <1>1, CursorStays, RestOfBuffer DEF MessageInv
<1>3. Head(buf).pkt \in Packet /\ Head(buf).in_port \in Nat
  BY <1>2 DEF V1Message
<1>4. SourceRow \in Row
  BY <1>3 DEF SourceRow, Row, Packet
<1> QED
  BY <1>1, <1>2, <1>3, <1>4

(* The walk for the sender goes on. *)
LEMMA SourceSearch ==
  ASSUME V1Inv, proc = "running", Top.pc \in {"src", "src_walk"}, UNCHANGED <<io, heap, report>>,
         NEW c \in 0 .. N("hosts"), NotUpTo(Head(buf).pkt.src, c), Head(buf).pkt.type = "arp",
         NEW found \in ContextType, found.pc = "src_walk",
         GetObject(c, found, [Top EXCEPT !.pc = "add", !.l = "hosts", !.p = SourceRow])
  PROVE  V1Inv'
<1> DEFINE mac == Head(buf).pkt.src
           ended == [Top EXCEPT !.pc = "add", !.l = "hosts", !.p = SourceRow]
<1>1. Top.pc \in Between /\ buf # <<>> /\ Head(buf).type = "data" /\ SourceRow \in Row
  BY DataInHand DEF DataPc
<1>2. TypeOK /\ Top \in ContextType /\ Linked("hosts") /\ Len(stack) = 1 /\ report \in Seq(Row \cup {Raw})
  BY <1>1, CursorStays DEF Whole
<1>3. N("hosts") \in Nat /\ c \in Nat
  BY <1>2, ObjectFacts, InLists
<1>4. N("hosts")' = N("hosts") /\ (\A k : P(k)' = P(k)) /\ \A m, k : NotUpTo(m, k)' <=> NotUpTo(m, k)
  BY SameHeap
<1>5. buf' = buf
  BY DEF io
<1>6. CASE /\ c + 1 \in 1 .. N("hosts") /\ current' = c + 1 /\ UNCHANGED proc
           /\ P(c + 1) \in Row /\ Resume([found EXCEPT !.p = P(c + 1)])
  <2> DEFINE d == [found EXCEPT !.p = P(c + 1)]
  <2>1. d \in ContextType /\ d.pc = "src_walk" /\ d.p = P(c + 1)
    BY <1>6 DEF ContextType, Payload
  <2> HIDE DEF d
  <2>2. "src_walk" \in Between /\ "src_walk" # "learn_show"
    BY DEF Between, Pc, Ending, Adding
  <2>3. current' \in 0 .. N("hosts") /\ (first["hosts"] = 0 => current' = 0)
    BY <1>2, <1>3, <1>6 DEF Linked
  <2>4. Top' = d => MessageInv' /\ AddInv' /\ WalkInv'
    <3> SUFFICES ASSUME Top' = d
                 PROVE  MessageInv' /\ AddInv' /\ WalkInv'
      OBVIOUS
    <3>1. MessageInv'
      BY <1>1, <1>5, <2>1 DEF MessageInv, AddPc, Adding
    <3>2. AddInv'
      BY <2>1 DEF AddInv, AddPc, Adding
    <3>3. InHand' /\ P(current)' \in Row /\ NotUpTo(Head(buf).pkt.src, current - 1)'
      <4>1. current' - 1 = c
        BY <1>3, <1>6
      <4>2. P(current)' = P(c + 1)
        BY <1>6 DEF P, heap
      <4>3. NotUpTo(Head(buf).pkt.src, current - 1)'
        BY <1>4, <1>5, <4>1 DEF NotUpTo
      <4> QED
        BY <1>4, <1>6, <2>1, <4>2, <4>3 DEF InHand
    <3>4. WalkInv'
      BY <1>5, <2>1, <3>3 DEF WalkInv
    <3> QED
      BY <3>1, <3>2, <3>4
  <2>5. Resume(d)
    BY <1>6 DEF d
  <2>6. UNCHANGED <<proc, io, heap, report>>
    BY <1>6
  <2> QED
    BY <1>1, <2>1, <2>2, <2>3, <2>4, <2>5, <2>6, SearchGoes
<1>7. CASE /\ current' \in 0 .. N("hosts") /\ UNCHANGED proc /\ Resume(ended)
           /\ current' = 0 \/ Half("hosts")
           /\ NotUpTo(mac, N("hosts"))
  <2>1. ended \in ContextType /\ ended.pc = "add" /\ ended.l = "hosts" /\ ended.p = SourceRow
    BY <1>1, <1>2 DEF ContextType, Payload, Pc, Lists
  <2> HIDE DEF ended
  <2>2. "add" \in Between /\ "add" # "learn_show"
    BY DEF Between, Pc, Ending, Adding
  <2>3. first["hosts"] = 0 => current' = 0
    BY <1>7 DEF Half
  <2>4. Top' = ended => MessageInv' /\ AddInv' /\ WalkInv'
    <3> SUFFICES ASSUME Top' = ended
                 PROVE  MessageInv' /\ AddInv' /\ WalkInv'
      OBVIOUS
    <3>1. MessageInv'
      BY <1>1, <1>5, <2>1 DEF MessageInv, AddPc, Adding, DataPc
    <3>2. M' = ended
      BY <1>2, <2>1, <1>7, ResumeStack
    <3>3. Half("hosts") => Half("hosts")'
      <4>1. Half("hosts") => failed > 0
        <5>1. ~Unfinished("hosts")
          BY <1>1, CursorStays DEF Unfinished, Between
        <5> QED
          BY <5>1 DEF Half
      <4> QED
        BY <1>4, <4>1 DEF Half, heap
    <3>4. SourceRow' = SourceRow
      BY <1>5 DEF SourceRow
    <3>5. NotUpTo(Head(buf).pkt.src, N("hosts"))'
      BY <1>4, <1>5, <1>7 DEF NotUpTo
    <3>6. AddInv'
      BY <1>5, <1>7, <2>1, <3>3, <3>4, <3>5 DEF AddInv, AddPc, Adding
    <3>7. WalkInv'
      BY <2>1 DEF WalkInv
    <3> QED
      BY <3>1, <3>6, <3>7
  <2>5. UNCHANGED <<proc, io, heap, report>>
    BY <1>7
  <2> QED
    BY <1>1, <1>7, <2>1, <2>2, <2>3, <2>4, <2>5, SearchGoes
<1>8. CASE HalfBuilt("hosts") /\ proc' = "fault" /\ UNCHANGED <<stack, current>>
  BY <1>2, <1>8, InLists, FaultKeeps
<1>9. \/ /\ c + 1 \in 1 .. N("hosts") /\ current' = c + 1 /\ UNCHANGED proc
         /\ P(c + 1) \in Row /\ Resume([found EXCEPT !.p = P(c + 1)])
      \/ /\ current' \in 0 .. N("hosts") /\ UNCHANGED proc /\ Resume(ended)
         /\ current' = 0 \/ Half("hosts")
         /\ NotUpTo(mac, N("hosts"))
      \/ /\ c # 0 /\ HalfBuilt("hosts") /\ proc' = "fault" /\ UNCHANGED <<stack, current>>
  BY WalkStep
<1> QED
  BY <1>6, <1>7, <1>8, <1>9

(* One row more that is not the host's. *)
LEMMA OneMore ==
  ASSUME TypeOK, NEW mac, current \in 1 .. N("hosts"), NotUpTo(mac, current - 1), P(current).mac # mac
  PROVE  NotUpTo(mac, current) /\ current \in 0 .. N("hosts")
<1>1. N("hosts") \in Nat
  BY ObjectFacts, InLists
<1>2. \A d \in 1 .. current : d = current \/ d \in 1 .. current - 1
  BY <1>1
<1> QED
  BY <1>1, <1>2 DEF NotUpTo

(* The walk for the sender begins at the first object, so that no row is *)
(* before it.                                                            *)
LEMMA SourceRewindKeeps ==
  ASSUME V1Inv, SourceRewind
  PROVE  V1Inv'
<1>1. /\ Top.pc = "src" /\ proc = "running" /\ UNCHANGED <<io, heap, report>>
      /\ GetObject(0, [Top EXCEPT !.pc = "src_walk"],
                      [Top EXCEPT !.pc = "add", !.l = "hosts", !.p = SourceRow])
  BY DEF SourceRewind, At, ListRewind, history
<1>2. Top.pc \in Between
  BY <1>1, DataInHand DEF DataPc
<1>3. Top \in ContextType /\ TypeOK /\ WalkInv
  BY <1>2, CursorStays
<1>4. 0 \in 0 .. N("hosts") /\ NotUpTo(Head(buf).pkt.src, 0)
  <2>1. N("hosts") \in Nat
    BY <1>3, ObjectFacts, InLists
  <2> QED
    BY <2>1 DEF NotUpTo
<1>5. [Top EXCEPT !.pc = "src_walk"] \in ContextType /\ [Top EXCEPT !.pc = "src_walk"].pc = "src_walk"
  BY <1>3 DEF ContextType, Pc
<1>6. Head(buf).pkt.type = "arp"
  BY <1>1, <1>3 DEF WalkInv
<1> QED
  BY <1>1, <1>4, <1>5, <1>6, SourceSearch

(* It stops at the sender, or goes on; at the end no row is the sender's. *)
LEMMA SourceWalkKeeps ==
  ASSUME V1Inv, SourceWalk
  PROVE  V1Inv'
<1>1. Top.pc = "src_walk" /\ proc = "running" /\ UNCHANGED <<io, heap, report>>
  BY DEF SourceWalk, At, history
<1>2. Top.pc \in Between /\ buf # <<>> /\ Head(buf).type = "data"
  BY <1>1, DataInHand DEF DataPc
<1>3. /\ Top \in ContextType /\ TypeOK /\ WalkInv
      /\ current \in 0 .. N("hosts") /\ (first["hosts"] = 0 => current = 0)
  BY <1>2, CursorStays
<1>4. /\ InHand /\ P(current) \in Row /\ NotUpTo(Head(buf).pkt.src, current - 1)
      /\ Head(buf).pkt.type = "arp"
  BY <1>1, <1>3 DEF WalkInv
<1>5. CASE Top.p.mac = Head(buf).pkt.src
  <2> DEFINE c == [Top EXCEPT !.pc = AfterLearning, !.p = NULL]
  <2>1. Resume(c) /\ UNCHANGED <<proc, current>>
    BY <1>5 DEF SourceWalk
  <2>2. AfterLearning \in {"answer", "dst"} /\ (AfterLearning = "answer" <=> Head(buf).pkt.dst = Broadcast)
    BY DEF AfterLearning
  <2>3. c \in ContextType /\ c.pc = AfterLearning
    BY <1>3, <2>2 DEF ContextType, Pc, Payload
  <2> HIDE DEF c
  <2>4. AfterLearning \in Between /\ AfterLearning # "learn_show"
    BY <2>2 DEF Between, Pc, Ending, Adding
  <2>5. buf' = buf
    BY <1>1 DEF io
  <2>6. Top' = c => MessageInv' /\ AddInv' /\ WalkInv'
    <3> SUFFICES ASSUME Top'.pc = AfterLearning
                 PROVE  MessageInv' /\ AddInv' /\ WalkInv'
      BY <2>3
    <3>1. MessageInv'
      BY <1>2, <2>2, <2>5 DEF MessageInv, AddPc, Adding
    <3>2. AddInv'
      BY <2>2 DEF AddInv, AddPc, Adding
    <3>3. WalkInv'
      BY <1>4, <2>2, <2>5 DEF WalkInv, NeedsPort
    <3> QED
      BY <3>1, <3>2, <3>3
  <2>7. UNCHANGED <<proc, io, heap, report>> /\ current' \in 0 .. N("hosts") /\ (first["hosts"] = 0 => current' = 0)
    BY <1>1, <1>3, <2>1
  <2> QED
    BY <1>1, <1>2, <2>1, <2>3, <2>4, <2>6, <2>7, SearchGoes
<1>6. CASE Top.p.mac # Head(buf).pkt.src
  <2>1. GetObject(current, Top, [Top EXCEPT !.pc = "add", !.l = "hosts", !.p = SourceRow])
    BY <1>6 DEF SourceWalk
  <2>2. NotUpTo(Head(buf).pkt.src, current)
    BY <1>3, <1>4, <1>6, OneMore DEF InHand
  <2> QED
    BY <1>1, <1>3, <1>4, <2>1, <2>2, SourceSearch
<1> QED
  BY <1>5, <1>6

(* The walk for an address stops at the row PortOf means. *)
LEMMA PortFound ==
  ASSUME TypeOK, \A d \in 1 .. N("hosts") : P(d) \in Row, NEW i \in 1 .. N("hosts"),
         NotUpTo(P(i).mac, i - 1)
  PROVE  PortOf(AllRows, P(i).mac) = P(i).port_no
<1> DEFINE mac == P(i).mac
           Is(k) == AllRows[k].mac = mac /\ \A j \in DOMAIN AllRows : AllRows[j].mac = mac => k <= j
<1>1. N("hosts") \in Nat
  BY ObjectFacts, InLists
<1>2. DOMAIN AllRows = 1 .. N("hosts") /\ \A d \in 1 .. N("hosts") : AllRows[d] = P(d)
  BY DEF AllRows
<1>3. \A j \in 1 .. N("hosts") : P(j).mac = mac => i <= j
  <2> SUFFICES ASSUME NEW j \in 1 .. N("hosts"), P(j).mac = mac, ~(i <= j)
               PROVE  FALSE
    OBVIOUS
  <2>1. j \in 1 .. i - 1
    BY <1>1
  <2> QED
    BY <2>1 DEF NotUpTo
<1>4. Is(i)
  BY <1>2, <1>3
<1>5. \A k \in DOMAIN AllRows : Is(k) => k = i
  <2> SUFFICES ASSUME NEW k \in DOMAIN AllRows, Is(k)
               PROVE  k = i
    OBVIOUS
  <2>1. k <= i /\ i <= k
    BY <1>2, <1>3
  <2> QED
    BY <1>1, <1>2, <2>1
<1>6. RowOf(AllRows, mac) = CHOOSE k \in DOMAIN AllRows : Is(k)
  BY DEF RowOf
<1> HIDE DEF Is
<1>7. RowOf(AllRows, mac) = i
  BY <1>2, <1>4, <1>5, <1>6
<1>8. Known(AllRows, mac)
  BY <1>2 DEF Known
<1> QED
  BY <1>2, <1>7, <1>8 DEF PortOf

(* Where no row is the host's, PortOf is 0. *)
LEMMA PortAbsent ==
  ASSUME \A d \in 1 .. N("hosts") : P(d) \in Row, NEW mac, NotUpTo(mac, N("hosts"))
  PROVE  PortOf(AllRows, mac) = 0
<1>1. DOMAIN AllRows = 1 .. N("hosts") /\ \A d \in 1 .. N("hosts") : AllRows[d] = P(d)
  BY DEF AllRows
<1>2. ~Known(AllRows, mac)
  BY <1>1 DEF Known, NotUpTo
<1> QED
  BY <1>2 DEF PortOf

(* Whether a list is half built depends on the heap and on main alone. *)
LEMMA SameHalf ==
  ASSUME V1Inv, Top.pc \in Between, UNCHANGED heap
  PROVE  Half("hosts") => Half("hosts")'
<1>1. ~Unfinished("hosts")
  BY CursorStays DEF Unfinished, Between
<1> QED
  BY <1>1, SameHeap DEF Half

(* The answer is known. *)
LEMMA AnswerGoes ==
  ASSUME V1Inv, proc = "running", Top.pc \in {"dst", "dst_walk"}, UNCHANGED <<proc, io, heap, report>>,
         NEW c \in ContextType, Resume(c), c.pc = "answer",
         current' \in 0 .. N("hosts"), first["hosts"] = 0 => current' = 0,
         Half("hosts") \/ c.tmp = PortOf(AllRows, Head(buf).pkt.dst)
  PROVE  V1Inv'
<1>1. /\ Top.pc \in Between /\ buf # <<>> /\ Head(buf).type = "data"
  BY DataInHand DEF DataPc
<1>2. "answer" \in Between
  BY DEF Between, Pc, Ending, Adding
<1>3. AllRows' = AllRows /\ (Half("hosts") => Half("hosts")')
  BY <1>1, SameHeap, SameHalf
<1>4. buf' = buf
  BY DEF io
<1>5. Top' = c => MessageInv' /\ AddInv' /\ WalkInv'
  <2> SUFFICES ASSUME Top' = c
               PROVE  MessageInv' /\ AddInv' /\ WalkInv'
    OBVIOUS
  <2>1. MessageInv'
    BY <1>1, <1>4 DEF MessageInv, AddPc, Adding
  <2>2. AddInv'
    BY DEF AddInv, AddPc, Adding
  <2>3. WalkInv'
    BY <1>3, <1>4 DEF WalkInv
  <2> QED
    BY <2>1, <2>2, <2>3
<1> QED
  BY <1>1, <1>2, <1>5, SearchGoes

(* The walk for the receiver goes on. *)
LEMMA DestinationSearch ==
  ASSUME V1Inv, proc = "running", Top.pc \in {"dst", "dst_walk"}, UNCHANGED <<io, heap, report>>,
         NEW c \in 0 .. N("hosts"), NotUpTo(Head(buf).pkt.dst, c), NeedsPort(Head(buf).pkt),
         NEW found \in ContextType, found.pc = "dst_walk",
         NEW ended \in ContextType, ended.pc = "answer", ended.tmp = 0,
         GetObject(c, found, ended)
  PROVE  V1Inv'
<1> DEFINE mac == Head(buf).pkt.dst
<1>1. Top.pc \in Between /\ buf # <<>> /\ Head(buf).type = "data"
  BY DataInHand DEF DataPc
<1>2. TypeOK /\ Linked("hosts") /\ M = Top /\ report \in Seq(Row \cup {Raw})
  BY <1>1, CursorStays DEF Whole
<1>3. N("hosts") \in Nat /\ c \in Nat
  BY <1>2, ObjectFacts, InLists
<1>4. N("hosts")' = N("hosts") /\ (\A k : P(k)' = P(k)) /\ \A m, k : NotUpTo(m, k)' <=> NotUpTo(m, k)
  BY SameHeap
<1>5. buf' = buf
  BY DEF io
<1>6. CASE /\ c + 1 \in 1 .. N("hosts") /\ current' = c + 1 /\ UNCHANGED proc
           /\ P(c + 1) \in Row /\ Resume([found EXCEPT !.p = P(c + 1)])
  <2> DEFINE d == [found EXCEPT !.p = P(c + 1)]
  <2>1. d \in ContextType /\ d.pc = "dst_walk" /\ d.p = P(c + 1)
    BY <1>6 DEF ContextType, Payload
  <2> HIDE DEF d
  <2>2. "dst_walk" \in Between /\ "dst_walk" # "learn_show"
    BY DEF Between, Pc, Ending, Adding
  <2>3. current' \in 0 .. N("hosts") /\ (first["hosts"] = 0 => current' = 0)
    BY <1>2, <1>3, <1>6 DEF Linked
  <2>4. Top' = d => MessageInv' /\ AddInv' /\ WalkInv'
    <3> SUFFICES ASSUME Top' = d
                 PROVE  MessageInv' /\ AddInv' /\ WalkInv'
      OBVIOUS
    <3>1. MessageInv'
      BY <1>1, <1>5, <2>1 DEF MessageInv, AddPc, Adding
    <3>2. AddInv'
      BY <2>1 DEF AddInv, AddPc, Adding
    <3>3. InHand' /\ P(current)' \in Row /\ NotUpTo(Head(buf).pkt.dst, current - 1)'
      <4>1. current' - 1 = c
        BY <1>3, <1>6
      <4>2. P(current)' = P(c + 1)
        BY <1>6 DEF P, heap
      <4>3. NotUpTo(Head(buf).pkt.dst, current - 1)'
        BY <1>4, <1>5, <4>1 DEF NotUpTo
      <4> QED
        BY <1>4, <1>6, <2>1, <4>2, <4>3 DEF InHand
    <3>4. WalkInv'
      BY <1>5, <2>1, <3>3 DEF WalkInv
    <3> QED
      BY <3>1, <3>2, <3>4
  <2>5. Resume(d)
    BY <1>6 DEF d
  <2>6. UNCHANGED <<proc, io, heap, report>>
    BY <1>6
  <2> QED
    BY <1>1, <2>1, <2>2, <2>3, <2>4, <2>5, <2>6, SearchGoes
<1>7. CASE /\ current' \in 0 .. N("hosts") /\ UNCHANGED proc /\ Resume(ended)
           /\ current' = 0 \/ Half("hosts")
           /\ NotUpTo(mac, N("hosts"))
  <2>1. first["hosts"] = 0 => current' = 0
    BY <1>7 DEF Half
  <2>2. Half("hosts") \/ \A d \in 1 .. N("hosts") : P(d) \in Row
    <3>1. RowsInv /\ M.pc \notin {"add_payload", "add_links", "add_last", "fill"}
      BY <1>2 DEF V1Inv
    <3> QED
      BY <3>1, RowOrNull
  <2>3. Half("hosts") \/ ended.tmp = PortOf(AllRows, mac)
    BY <1>7, <2>2, PortAbsent
  <2> QED
    BY <1>7, <2>1, <2>3, AnswerGoes
<1>8. CASE HalfBuilt("hosts") /\ proc' = "fault" /\ UNCHANGED <<stack, current>>
  BY <1>2, <1>8, InLists, FaultKeeps
<1>9. \/ /\ c + 1 \in 1 .. N("hosts") /\ current' = c + 1 /\ UNCHANGED proc
         /\ P(c + 1) \in Row /\ Resume([found EXCEPT !.p = P(c + 1)])
      \/ /\ current' \in 0 .. N("hosts") /\ UNCHANGED proc /\ Resume(ended)
         /\ current' = 0 \/ Half("hosts")
         /\ NotUpTo(mac, N("hosts"))
      \/ /\ c # 0 /\ HalfBuilt("hosts") /\ proc' = "fault" /\ UNCHANGED <<stack, current>>
  BY WalkStep
<1> QED
  BY <1>6, <1>7, <1>8, <1>9

(* The walk for the receiver begins at the first object. *)
LEMMA DestinationRewindKeeps ==
  ASSUME V1Inv, DestinationRewind
  PROVE  V1Inv'
<1> DEFINE found == [Top EXCEPT !.pc = "dst_walk"]
           ended == [Top EXCEPT !.pc = "answer", !.tmp = 0]
<1>1. /\ Top.pc = "dst" /\ proc = "running" /\ UNCHANGED <<io, heap, report>>
      /\ GetObject(0, found, ended)
  BY DEF DestinationRewind, At, ListRewind, history
<1>2. Top.pc \in Between
  BY <1>1, DataInHand DEF DataPc
<1>3. Top \in ContextType /\ TypeOK /\ WalkInv
  BY <1>2, CursorStays
<1>4. 0 \in 0 .. N("hosts") /\ NotUpTo(Head(buf).pkt.dst, 0)
  <2>1. N("hosts") \in Nat
    BY <1>3, ObjectFacts, InLists
  <2> QED
    BY <2>1 DEF NotUpTo
<1>5. found \in ContextType /\ found.pc = "dst_walk"
      /\ ended \in ContextType /\ ended.pc = "answer" /\ ended.tmp = 0
  BY <1>3 DEF ContextType, Pc
<1>6. NeedsPort(Head(buf).pkt)
  BY <1>1, <1>3 DEF WalkInv
<1> HIDE DEF found, ended
<1> QED
  BY <1>1, <1>4, <1>5, <1>6, DestinationSearch

(* It stops at the receiver with its port, or at the end with 0. *)
LEMMA DestinationWalkKeeps ==
  ASSUME V1Inv, DestinationWalk
  PROVE  V1Inv'
<1>1. Top.pc = "dst_walk" /\ proc = "running" /\ UNCHANGED <<io, heap, report>>
  BY DEF DestinationWalk, At, history
<1>2. Top.pc \in Between /\ buf # <<>> /\ Head(buf).type = "data"
  BY <1>1, DataInHand DEF DataPc
<1>3. /\ Top \in ContextType /\ TypeOK /\ WalkInv /\ M = Top
      /\ current \in 0 .. N("hosts") /\ (first["hosts"] = 0 => current = 0)
  BY <1>2, CursorStays
<1>4. /\ InHand /\ P(current) \in Row /\ NotUpTo(Head(buf).pkt.dst, current - 1)
      /\ NeedsPort(Head(buf).pkt)
  BY <1>1, <1>3 DEF WalkInv
<1>5. CASE Top.p.mac = Head(buf).pkt.dst
  <2> DEFINE c == [Top EXCEPT !.pc = "answer", !.tmp = Top.p.port_no, !.p = NULL]
  <2>1. Resume(c) /\ UNCHANGED <<proc, current>>
    BY <1>5 DEF DestinationWalk
  <2>2. Top.p = P(current) /\ current \in 1 .. N("hosts")
    BY <1>4 DEF InHand
  <2>3. Top.p.port_no \in Nat
    BY <1>4, <2>2 DEF Row
  <2>4. c \in ContextType /\ c.pc = "answer" /\ c.tmp = P(current).port_no
    BY <1>3, <2>2, <2>3 DEF ContextType, Pc, Payload
  <2> HIDE DEF c
  <2>5. Half("hosts") \/ \A d \in 1 .. N("hosts") : P(d) \in Row
    <3>1. RowsInv /\ M.pc \notin {"add_payload", "add_links", "add_last", "fill"}
      BY <1>1, <1>3 DEF V1Inv
    <3> QED
      BY <3>1, RowOrNull
  <2>6. Half("hosts") \/ c.tmp = PortOf(AllRows, Head(buf).pkt.dst)
    BY <1>3, <1>4, <1>5, <2>2, <2>4, <2>5, PortFound
  <2>7. UNCHANGED <<proc, io, heap, report>> /\ current' \in 0 .. N("hosts") /\ (first["hosts"] = 0 => current' = 0)
    BY <1>1, <1>3, <2>1
  <2> QED
    BY <1>1, <2>1, <2>4, <2>6, <2>7, AnswerGoes
<1>6. CASE Top.p.mac # Head(buf).pkt.dst
  <2> DEFINE ended == [Top EXCEPT !.pc = "answer", !.tmp = 0, !.p = NULL]
  <2>1. GetObject(current, Top, ended)
    BY <1>6 DEF DestinationWalk
  <2>2. NotUpTo(Head(buf).pkt.dst, current)
    BY <1>3, <1>4, <1>6, OneMore DEF InHand
  <2>3. ended \in ContextType /\ ended.pc = "answer" /\ ended.tmp = 0
    BY <1>3 DEF ContextType, Pc, Payload
  <2> HIDE DEF ended
  <2> QED
    BY <1>1, <1>3, <1>4, <2>1, <2>2, <2>3, DestinationSearch
<1> QED
  BY <1>5, <1>6

----------------------------------------------------------------------------
(* show_hosts. *)

(* The rows are a sequence, with one of each object. *)
LEMMA RowsAreSeq ==
  ASSUME TypeOK
  PROVE  /\ N("hosts") \in Nat
         /\ AllRows \in Seq(Payload) /\ Len(AllRows) = N("hosts") /\ DOMAIN AllRows = 1 .. N("hosts")
         /\ \A c \in 1 .. N("hosts") : AllRows[c] = P(c)
<1>1. N("hosts") \in Nat /\ \A c \in 1 .. N("hosts") : P(c) \in Payload
  BY ObjectFacts, InLists DEF P
<1>2. AllRows \in [1 .. N("hosts") -> Payload]
  BY <1>1 DEF AllRows
<1>3. DOMAIN AllRows = 1 .. N("hosts") /\ \A c \in 1 .. N("hosts") : AllRows[c] = P(c)
  BY DEF AllRows
<1>4. AllRows \in Seq(Payload) /\ Len(AllRows) = N("hosts")
  <2>1. AllRows \in Seq(Payload)
    BY <1>1, <1>2, SeqDef
  <2>2. Len(AllRows) \in Nat /\ 1 .. Len(AllRows) = 1 .. N("hosts")
    BY <1>3, <2>1, LenProperties
  <2>3. \A m, n \in Nat : 1 .. m = 1 .. n => m = n
    OBVIOUS
  <2> QED
    BY <1>1, <2>1, <2>2, <2>3
<1> QED
  BY <1>1, <1>3, <1>4

(* One row more is shown. *)
LEMMA RowsGrow ==
  ASSUME NEW S, NEW rows \in Seq(S), NEW k \in Nat, NEW c \in Nat, k < c, c <= Len(rows)
  PROVE  Append(SubSeq(rows, k + 1, c - 1), rows[c]) = SubSeq(rows, k + 1, c)
<1> DEFINE s == SubSeq(rows, k + 1, c - 1)
           t == SubSeq(rows, k + 1, c)
<1>1. Len(rows) \in Nat /\ \A i \in 1 .. Len(rows) : rows[i] \in S
  BY LenProperties, ElementOfSeq
<1>2. /\ s \in Seq(S) /\ Len(s) = c - 1 - k
      /\ \A i \in 1 .. Len(s) : s[i] = rows[k + i]
  <2>1. \A i \in k + 1 .. c - 1 : rows[i] \in S
    BY <1>1
  <2>2. k + 1 \in Int /\ c - 1 \in Int
    OBVIOUS
  <2> QED
    BY <1>1, <2>1, <2>2, SubSeqProperties
<1>3. /\ t \in Seq(S) /\ Len(t) = c - k
      /\ \A i \in 1 .. Len(t) : t[i] = rows[k + i]
  <2>1. \A i \in k + 1 .. c : rows[i] \in S
    BY <1>1
  <2> QED
    BY <1>1, <2>1, SubSeqProperties
<1> HIDE DEF s, t
<1>4. rows[c] \in S
  BY <1>1
<1>5. /\ Append(s, rows[c]) \in Seq(S) /\ Len(Append(s, rows[c])) = Len(s) + 1
      /\ \A i \in 1 .. Len(s) : Append(s, rows[c])[i] = s[i]
      /\ Append(s, rows[c])[Len(s) + 1] = rows[c]
  BY <1>2, <1>4, AppendProperties
<1>6. Len(Append(s, rows[c])) = Len(t)
  BY <1>2, <1>3, <1>5
<1>7. \A i \in 1 .. Len(t) : Append(s, rows[c])[i] = t[i]
  <2> TAKE i \in 1 .. Len(t)
  <2>1. CASE i \in 1 .. Len(s)
    BY <1>2, <1>3, <1>5, <2>1
  <2>2. CASE i \notin 1 .. Len(s)
    <3>1. i = Len(s) + 1 /\ k + i = c
      BY <1>2, <1>3, <2>2
    <3> QED
      BY <1>3, <1>5, <3>1
  <2> QED
    BY <2>1, <2>2
<1> QED
  BY <1>3, <1>5, <1>6, <1>7, SeqEqual DEF s, t

(* The part of the rows after k up to k is empty. *)
LEMMA RowsNone ==
  ASSUME NEW S, NEW rows \in Seq(S), NEW k \in Nat
  PROVE  SubSeq(rows, k + 1, k) = <<>>
BY SubSeqEmpty

(* The part from the first row to the last one is all of them. *)
LEMMA RowsWhole ==
  ASSUME NEW S, NEW rows \in Seq(S)
  PROVE  SubSeq(rows, 1, Len(rows)) = rows
BY SubSeqFull

(* What a row of hosts can be. *)
LEMMA CellCases ==
  ASSUME RowsInv, NEW c \in 1 .. N("hosts")
  PROVE  /\ P(c) \in Row \cup {NULL, Junk, Raw}
         /\ P(c) = Junk => Filling({"add_payload"})
         /\ P(c) = NULL => N("hosts") = 1
BY Marks DEF RowsInv, CellInv, Half

(* The row in hand is printed. *)
LEMMA Printed ==
  ASSUME TypeOK, NEW k \in Nat, k < current, InHand, report = SubSeq(AllRows, k + 1, current - 1)
  PROVE  Append(report, Top.p) = SubSeq(AllRows, k + 1, current)
<1>1. /\ AllRows \in Seq(Payload) /\ Len(AllRows) = N("hosts") /\ current \in Nat /\ N("hosts") \in Nat
      /\ current \in 1 .. N("hosts") /\ AllRows[current] = Top.p
  BY RowsAreSeq DEF InHand
<1>2. current <= Len(AllRows)
  BY <1>1
<1>3. Append(SubSeq(AllRows, k + 1, current - 1), AllRows[current]) = SubSeq(AllRows, k + 1, current)
  BY <1>1, <1>2, RowsGrow
<1> QED
  BY <1>1, <1>3

(* show_hosts after learning prints one row more, from the first one on. *)
LEMMA ShowLearnedKeeps ==
  ASSUME V1Inv, ShowLearned
  PROVE  V1Inv'
<1> DEFINE ended == [Top EXCEPT !.pc = "learn_rewind", !.p = NULL]
           shown == IF Top.p = NULL THEN report ELSE Append(report, Top.p)
<1>1. Top.pc = "learn_show" /\ proc = "running"
  BY DEF ShowLearned, ShowHosts, At
<1>2. Top.pc \in Between /\ buf # <<>> /\ Head(buf).type = "data"
  BY <1>1, DataInHand DEF DataPc
<1>3. /\ Len(stack) = 1 /\ Top \in ContextType /\ TypeOK /\ IoType /\ M = Top /\ WalkInv
      /\ report \in Seq(Row \cup {Raw}) /\ Linked("hosts") /\ RowsInv /\ WeakInv
      /\ current \in 0 .. N("hosts") /\ (first["hosts"] = 0 => current = 0)
  BY <1>2, CursorStays DEF Whole, V1Inv
<1>4. Top.p \in Row \cup {NULL, Raw}
  <2>1. ~Filling({"add_payload"})
    BY <1>1, <1>3 DEF Filling
  <2> QED
    BY <1>1, <2>1 DEF V1Inv, ShowInv
<1>5. /\ report' = shown /\ GetObject(current, Top, ended) /\ UNCHANGED <<io, heap>>
  BY <1>4, Marks DEF ShowLearned, ShowHosts
<1>6. shown \in Seq(Row \cup {Raw})
  BY <1>3, <1>4, Marks, AppendProperties
<1>7. Half("hosts") \/ shown = SubSeq(AllRows, 1, current)
  <2>1. CASE Half("hosts")
    BY <2>1
  <2>2. CASE Top.p = NULL /\ report = <<>> /\ current = 0
    <3>1. SubSeq(AllRows, 1, 0) = <<>>
      BY SubSeqEmpty
    <3> QED
      BY <2>2, <3>1
  <2>3. CASE Top.p # NULL /\ InHand /\ report = SubSeq(AllRows, 1, current - 1)
    <3>1. 0 < current /\ 0 \in Nat
      BY <1>3, <2>3, RowsAreSeq DEF InHand
    <3>2. report = SubSeq(AllRows, 0 + 1, current - 1)
      BY <2>3
    <3>3. Append(report, Top.p) = SubSeq(AllRows, 0 + 1, current)
      BY <1>3, <2>3, <3>1, <3>2, Printed
    <3>4. 0 + 1 = 1
      OBVIOUS
    <3>5. shown = Append(report, Top.p)
      BY <2>3
    <3> QED
      BY <3>3, <3>4, <3>5
  <2> QED
    BY <1>1, <1>3, <2>1, <2>2, <2>3 DEF WalkInv
<1>8. /\ AllRows' = AllRows /\ N("hosts")' = N("hosts") /\ (\A k : P(k)' = P(k))
      /\ (Half("hosts") => Half("hosts")') /\ buf' = buf
  BY <1>2, <1>5, SameHeap, SameHalf DEF io
<1>9. IoType' /\ report' \in Seq(Row \cup {Raw}) /\ UNCHANGED heap
  BY <1>3, <1>5, <1>6 DEF IoType, io
<1> HIDE DEF shown
<1>10. ASSUME current + 1 \in 1 .. N("hosts"), current' = current + 1, UNCHANGED proc,
              P(current + 1) # NULL, Resume([Top EXCEPT !.p = P(current + 1)])
       PROVE  V1Inv'
  <2> DEFINE d == [Top EXCEPT !.p = P(current + 1)]
  <2>1. P(current + 1) \in Row
    BY <1>1, <1>3, <1>10, RowOrNull
  <2>2. d \in ContextType /\ d.pc = "learn_show" /\ d.p = P(current + 1)
    BY <1>1, <1>3, <2>1 DEF ContextType, Payload
  <2>3. Resume(d)
    BY <1>10
  <2> HIDE DEF d
  <2>4. Top' = d
    BY <1>3, <2>2, <2>3, ResumeStack
  <2>5. MessageInv' /\ AddInv'
    BY <1>2, <1>8, <2>2, <2>4 DEF MessageInv, AddInv, AddPc, Adding
  <2>6. InHand' /\ (Half("hosts")' \/ report' = SubSeq(AllRows, 1, current - 1)')
    <3>1. P(current)' = P(current + 1)
      BY <1>5, <1>10 DEF P, heap
    <3>2. current' - 1 = current
      BY <1>3, <1>10, RowsAreSeq
    <3>3. SubSeq(AllRows, 1, current - 1)' = SubSeq(AllRows, 1, current)
      BY <1>8, <3>2
    <3> QED
      BY <1>5, <1>7, <1>8, <1>10, <2>2, <2>4, <3>1, <3>3 DEF InHand
  <2>7. WalkInv'
    BY <1>1, <1>3, <1>8, <1>10, <2>2, <2>4, <2>6 DEF WalkInv
  <2>8. MainInv' /\ ShowInv'
    BY <2>1, <2>2, <2>4, <2>5, <2>7, Marks DEF MainInv, ShowInv
  <2>9. current' \in 0 .. N("hosts") /\ (first["hosts"] = 0 => current' = 0)
    BY <1>3, <1>10, RowsAreSeq DEF Linked
  <2>10. d.pc \notin Busy \cup Adding \cup {"fill"}
    BY <2>2 DEF Busy, Freeing, Adding
  <2>11. proc' \in {"running", "killed"}
    BY <1>1, <1>10
  <2> QED
    BY <1>2, <1>9, <2>2, <2>3, <2>8, <2>9, <2>10, <2>11, MainGoes
<1>11. ASSUME UNCHANGED proc, Resume(ended), current' \in 0 .. N("hosts"), first["hosts"] = 0 => current' = 0,
              Half("hosts") \/ shown = AllRows
       PROVE  V1Inv'
  <2>1. ended \in ContextType /\ ended.pc = "learn_rewind"
    BY <1>1, <1>3 DEF ContextType, Payload, Pc
  <2>2. Resume(ended)
    BY <1>11
  <2> HIDE DEF ended
  <2>3. Top' = ended
    BY <1>3, <2>1, <2>2, ResumeStack
  <2>4. MessageInv' /\ AddInv'
    BY <1>2, <1>8, <2>1, <2>3 DEF MessageInv, AddInv, AddPc, Adding
  <2>5. WalkInv'
    BY <1>1, <1>3, <1>5, <1>8, <1>11, <2>1, <2>3 DEF WalkInv
  <2>6. MainInv' /\ ShowInv'
    BY <2>1, <2>3, <2>4, <2>5 DEF MainInv, ShowInv
  <2>7. ended.pc \notin Busy \cup Adding \cup {"fill"}
    BY <2>1 DEF Busy, Freeing, Adding
  <2>8. proc' \in {"running", "killed"}
    BY <1>1, <1>11
  <2> QED
    BY <1>2, <1>9, <1>11, <2>1, <2>2, <2>6, <2>7, <2>8, MainGoes
<1>12. ASSUME HalfBuilt("hosts"), proc' = "fault", UNCHANGED <<stack, current>>
       PROVE  V1Inv'
  BY <1>1, <1>5, <1>9, <1>12, InLists, FaultKeeps
<1>13. \/ /\ current + 1 \in 1 .. N("hosts") /\ current' = current + 1 /\ UNCHANGED proc
          /\ \/ P(current + 1) # NULL /\ Resume([Top EXCEPT !.p = P(current + 1)])
             \/ P(current + 1) = NULL /\ Resume(ended)
       \/ current = N("hosts") /\ current' = 0 /\ UNCHANGED proc /\ Resume(ended)
       \/ current # 0 /\ HalfBuilt("hosts") /\ proc' = "fault" /\ UNCHANGED <<stack, current>>
  BY <1>3, <1>5, GetObjectStep
<1>14. CASE current + 1 \in 1 .. N("hosts") /\ current' = current + 1 /\ UNCHANGED proc
            /\ P(current + 1) = NULL /\ Resume(ended)
  <2>1. Half("hosts")
    BY <1>1, <1>3, <1>14, RowOrNull, Marks
  <2>2. current' \in 0 .. N("hosts") /\ (first["hosts"] = 0 => current' = 0)
    BY <1>3, <1>14, <2>1, RowsAreSeq DEF Half
  <2> QED
    BY <1>11, <1>14, <2>1, <2>2
<1>15. CASE current = N("hosts") /\ current' = 0 /\ UNCHANGED proc /\ Resume(ended)
  <2>1. SubSeq(AllRows, 1, N("hosts")) = AllRows
    <3>1. AllRows \in Seq(Payload) /\ Len(AllRows) = N("hosts")
      BY <1>3, RowsAreSeq
    <3> QED
      BY <3>1, SubSeqFull
  <2>2. Half("hosts") \/ shown = AllRows
    BY <1>7, <1>15, <2>1
  <2>3. 0 \in 0 .. N("hosts")
    BY <1>3, RowsAreSeq
  <2> QED
    BY <1>11, <1>15, <2>2, <2>3
<1> QED
  BY <1>10, <1>12, <1>13, <1>14, <1>15

(* It is over: every row was printed. *)
LEMMA ShowLearnedEndKeeps ==
  ASSUME V1Inv, ShowLearnedEnd
  PROVE  V1Inv'
<1>1. /\ Top.pc = "learn_rewind" /\ proc = "running" /\ current' = 0 /\ Goto(AfterLearning)
      /\ UNCHANGED <<proc, io, heap, report>>
  BY DEF ShowLearnedEnd, ShowHostsEnd, At, history
<1>2. Top.pc \in Between /\ buf # <<>> /\ Head(buf).type = "data"
  BY <1>1, DataInHand DEF DataPc
<1>3. TypeOK /\ Top \in ContextType /\ WalkInv
  BY <1>2, CursorStays
<1> DEFINE c == [Top EXCEPT !.pc = AfterLearning]
<1>4. AfterLearning \in {"answer", "dst"} /\ (AfterLearning = "answer" <=> Head(buf).pkt.dst = Broadcast)
  BY DEF AfterLearning
<1>5. c \in ContextType /\ c.pc = AfterLearning /\ Resume(c)
  BY <1>1, <1>3, <1>4 DEF ContextType, Pc, Goto
<1> HIDE DEF c
<1>6. AfterLearning \in Between /\ AfterLearning # "learn_show"
  BY <1>4 DEF Between, Pc, Ending, Adding
<1>7. buf' = buf /\ Head(buf).pkt.type = "arp"
  BY <1>1, <1>3 DEF io, WalkInv
<1>8. Top' = c => MessageInv' /\ AddInv' /\ WalkInv'
  <2> SUFFICES ASSUME Top'.pc = AfterLearning
               PROVE  MessageInv' /\ AddInv' /\ WalkInv'
    BY <1>5
  <2>1. MessageInv' /\ AddInv'
    BY <1>2, <1>4, <1>7 DEF MessageInv, AddInv, AddPc, Adding
  <2>2. WalkInv'
    BY <1>4, <1>7 DEF WalkInv, NeedsPort
  <2> QED
    BY <2>1, <2>2
<1>9. current' \in 0 .. N("hosts") /\ (first["hosts"] = 0 => current' = 0)
  <2>1. N("hosts") \in Nat
    BY <1>3, RowsAreSeq
  <2> QED
    BY <1>1, <2>1
<1> QED
  BY <1>1, <1>2, <1>5, <1>6, <1>8, <1>9, SearchGoes

(* At the end a context stays at the end; what main was at is as before. *)
LEMMA EndSame ==
  ASSUME TypeOK, Top.pc \in Ending, NEW c \in ContextType, c.pc \in Ending, Resume(c)
  PROVE  /\ \A l : (Unfinished(l)' <=> Unfinished(l)) /\ (Leak(l)' <=> Leak(l))
         /\ \A pcs : pcs \cap Ending = {} => (Filling(pcs)' <=> Filling(pcs))
         /\ M.pc \in Adding \/ M'.pc \in Adding => M' = M
<1>1. /\ Len(stack') = Len(stack) /\ M' = (IF Len(stack) = 1 THEN c ELSE M)
      /\ (Len(stack) = 1 => M = Top)
  BY ResumeStack, TopFacts
<1>2. Adding \cap Ending = {} /\ "add_last" \in Adding
  BY DEF Adding, Ending
<1>3. CASE Len(stack) = 1
  <2>1. M.pc \in Ending /\ M'.pc \in Ending /\ Len(stack') = 1
    BY <1>1, <1>3
  <2> QED
    BY <1>2, <1>3, <2>1 DEF Unfinished, Leak, Filling
<1>4. CASE Len(stack) # 1
  BY <1>1, <1>4 DEF Unfinished, Leak, Filling
<1> QED
  BY <1>3, <1>4

(* A context at the end goes on with the walk, or to free_list. *)
LEMMA ShowGoes ==
  ASSUME V1Inv, proc = "running", Top.pc \in {"show", "rewind"}, UNCHANGED <<proc, io, heap>>,
         NEW c \in ContextType, c.pc \in {"show", "rewind", "free"}, Resume(c), c.l = "hosts",
         current' \in Nat, c.pc = "free" => current' = 0,
         ~Torn => current' \in 0 .. N("hosts") /\ (first["hosts"] = 0 => current' = 0),
         report' \in Seq(Row \cup {Raw}), ShowInv'
  PROVE  V1Inv'
<1>1. TypeOK /\ StackInv /\ HeapInv /\ WeakInv /\ RowsInv /\ Top.pc \in Ending /\ c.pc \in Ending
  BY DEF V1Inv, Ending
<1>2. /\ stack' \in Seq(ContextType) /\ stack' # <<>> /\ Top' = c
      /\ (Torn' <=> Torn) /\ (Undisturbed' <=> Undisturbed) /\ StackInv'
  BY <1>1, ResumeStack
<1>3. /\ \A l : (Unfinished(l)' <=> Unfinished(l)) /\ (Leak(l)' <=> Leak(l))
      /\ \A pcs : pcs \cap Ending = {} => (Filling(pcs)' <=> Filling(pcs))
      /\ M'.pc \in Adding => M' = M
  BY <1>1, EndSame
<1>4. /\ \A l : N(l)' = N(l) /\ (Linked(l)' <=> Linked(l)) /\ (Cells(l)' <=> Cells(l))
      /\ \A k : P(k)' = P(k)
      /\ (OneRow' <=> OneRow)
      /\ first' = first /\ last' = last /\ obj' = obj /\ failed' = failed
  BY SameHeap
<1>5. \A l : (Whole(l)' <=> Whole(l)) /\ (Freed(l)' <=> Freed(l)) /\ (Half(l)' <=> Half(l))
  BY <1>3, <1>4 DEF Whole, Behind, Freed, OnlyLeaked, Half
<1>6. HeapInv'
  <2> SUFFICES ASSUME ~Torn
               PROVE  /\ \A l \in Lists : ListInv(l)'
                      /\ Undisturbed /\ c.pc \notin Busy => \A l \in Lists : Whole(l)'
                      /\ current' \in 0 .. N("hosts")
                      /\ (first["hosts"] = 0 => current' = 0) /\ (c.pc \in Busy => current' = 0)
    BY <1>2, <1>4 DEF HeapInv, Busy
  <2>1. Top.pc \notin Busy /\ Top.pc \notin Freeing /\ c.pc \notin Freeing
    BY DEF Busy, Freeing
  <2>2. \A l \in Lists : Whole(l) \/ Freed(l)
    BY <1>1, <2>1 DEF HeapInv, ListInv
  <2>3. \A l \in Lists : ListInv(l)'
    BY <1>2, <1>5, <2>1, <2>2 DEF ListInv
  <2>4. Undisturbed => \A l \in Lists : Whole(l)'
    BY <1>1, <1>5, <2>1 DEF HeapInv
  <2>5. c.pc \in Busy => c.pc = "free"
    BY DEF Busy, Freeing
  <2> QED
    BY <2>3, <2>4, <2>5
<1>7. WeakInv'
  <2>1. \A l \in Lists : Cells(l)'
    BY <1>1, <1>4 DEF WeakInv
  <2>2. M'.pc \in {"add_payload", "add_links"} => M' = M
    BY <1>3 DEF Adding
  <2> QED
    BY <1>1, <1>2, <1>4, <2>1, <2>2 DEF WeakInv
<1>8. RowsInv'
  <2>1. /\ Filling({"add_links", "add_last", "fill"})' <=> Filling({"add_links", "add_last", "fill"})
        /\ Filling({"add_payload"})' <=> Filling({"add_payload"})
    <3>1. {"add_links", "add_last", "fill"} \cap Ending = {} /\ {"add_payload"} \cap Ending = {}
      BY DEF Ending
    <3> QED
      BY <1>3, <3>1
  <2>2. CellInv'
    BY <1>1, <1>4, <1>5, <2>1 DEF RowsInv, CellInv
  <2> QED
    BY <1>1, <1>4, <2>2 DEF RowsInv
<1>9. MainInv'
  BY <1>1, <1>2 DEF MainInv
<1>10. EndInv'
  BY EndQuiet
<1>11. TypeOK'
  BY <1>1, <1>2 DEF TypeOK, io, heap
<1> QED
  BY <1>2, <1>6, <1>7, <1>8, <1>9, <1>10, <1>11 DEF V1Inv

(* show_hosts at the end is over, and free_list begins. *)
LEMMA ShowFinalEndKeeps ==
  ASSUME V1Inv, ShowFinalEnd
  PROVE  V1Inv'
<1> DEFINE c == [Top EXCEPT !.pc = "free"]
<1>1. /\ Top.pc = "rewind" /\ proc = "running" /\ current' = 0 /\ Resume(c)
      /\ UNCHANGED <<proc, io, heap, report>>
  BY DEF ShowFinalEnd, ShowHostsEnd, At, history, Goto
<1>2. TypeOK /\ Top \in ContextType /\ Top.l = "hosts"
  BY <1>1, TopFacts DEF V1Inv, ShowInv
<1>3. c \in ContextType /\ c.pc = "free" /\ c.l = "hosts"
  BY <1>2 DEF ContextType, Pc, Ending
<1> HIDE DEF c
<1>4. Top' = c
  BY <1>1, <1>2, <1>3, ResumeStack
<1>5. ShowInv'
  BY <1>3, <1>4 DEF ShowInv
<1>6. report' \in Seq(Row \cup {Raw})
  BY <1>1, <1>2 DEF TypeOK
<1>7. 0 \in 0 .. N("hosts")
  BY <1>2, RowsAreSeq
<1>8. /\ Top.pc \in {"show", "rewind"} /\ c.pc \in {"show", "rewind", "free"}
      /\ current' \in Nat /\ (c.pc = "free" => current' = 0)
      /\ (~Torn => current' \in 0 .. N("hosts") /\ (first["hosts"] = 0 => current' = 0))
  BY <1>1, <1>3, <1>7
<1> QED
  BY <1>1, <1>3, <1>5, <1>6, <1>8, ShowGoes

(* What get_object may do in a list that is torn, or freed. *)
LEMMA GetObjectAnyhow ==
  ASSUME TypeOK, NEW found, NEW ended, GetObject(current, found, ended)
  PROVE  \/ proc' = "fault" /\ UNCHANGED <<stack, current>>
         \/ /\ UNCHANGED proc /\ current' \in Nat
            /\ \/ Resume(ended)
               \/ current' \in 1 .. N("hosts") /\ Resume([found EXCEPT !.p = P(current')]) /\ P(current') # NULL
<1> DEFINE f == Following(current)
<1>1. DOMAIN obj["hosts"] = 1 .. N("hosts") /\ N("hosts") \in Nat
  BY ObjectFacts, InLists
<1>2. CASE Wild(current) \/ Wild(f)
  BY <1>2 DEF GetObject
<1>3. CASE ~(Wild(current) \/ Wild(f))
  <2>1. /\ current' = f /\ UNCHANGED proc
        /\ Resume(IF RowAt(f) = NULL THEN ended ELSE [found EXCEPT !.p = RowAt(f)])
    BY <1>3 DEF GetObject
  <2>2. f = 0 \/ (f # 0 /\ f \in 1 .. N("hosts"))
    BY <1>1, <1>3 DEF Wild, Live
  <2> HIDE DEF f
  <2>3. f \in Nat
    BY <1>1, <2>2
  <2>4. f # 0 => RowAt(f) = P(f)
    BY DEF RowAt, P
  <2>5. f = 0 => RowAt(f) = NULL
    BY DEF RowAt
  <2> QED
    BY <2>1, <2>2, <2>3, <2>4, <2>5
<1> QED
  BY <1>2, <1>3

(* A handler follows a row that is not set. *)
LEMMA JunkIsHalfBuilt ==
  ASSUME WeakInv, Filling({"add_payload"})
  PROVE  HalfBuilt("hosts")
BY DEF WeakInv, Filling, HalfBuilt

(* show_hosts at the end, or in a handler, prints one row more, from the row *)
(* after the cursor on; a handler may meet a row that is not set.            *)
LEMMA ShowFinalKeeps ==
  ASSUME V1Inv, ShowFinal
  PROVE  V1Inv'
<1> DEFINE ended == [Top EXCEPT !.pc = "rewind", !.p = NULL]
           shown == IF Top.p = NULL THEN report ELSE Append(report, Top.p)
<1>1. Top.pc = "show" /\ proc = "running"
  BY DEF ShowFinal, ShowHosts, At
<1>2. /\ TypeOK /\ Top \in ContextType /\ HeapInv /\ WeakInv /\ RowsInv /\ ShowInv
      /\ report \in Seq(Row \cup {Raw})
  BY TopFacts DEF V1Inv, TypeOK
<1>3. /\ Top.p \in Row \cup {NULL, Junk, Raw} /\ Top.l = "hosts"
      /\ (Top.p = Junk => Filling({"add_payload"}))
  BY <1>1, <1>2 DEF ShowInv
<1>4. CASE Top.p = Junk
  <2>1. HalfBuilt("hosts")
    BY <1>2, <1>3, <1>4, JunkIsHalfBuilt
  <2>2. Fault
    BY <1>4 DEF ShowFinal, ShowHosts
  <2>3. proc' = "fault" /\ UNCHANGED <<stack, io, heap, current>> /\ report' = report
        /\ report' \in Seq(Row \cup {Raw})
    BY <1>2, <2>2 DEF Fault, history
  <2> QED
    BY <2>1, <2>3, InLists, FaultKeeps
<1>5. CASE Top.p # Junk
  <2>1. /\ report' = shown /\ GetObject(current, Top, ended) /\ UNCHANGED <<io, heap>>
    BY <1>5 DEF ShowFinal, ShowHosts
  <2>2. shown \in Seq(Row \cup {Raw})
    BY <1>2, <1>3, <1>5, AppendProperties
  <2>3. report' \in Seq(Row \cup {Raw})
    BY <2>1, <2>2
  <2>4. /\ AllRows' = AllRows /\ N("hosts")' = N("hosts") /\ \A k : P(k)' = P(k)
    BY <2>1, SameHeap
  <2>5. N("hosts") \in Nat /\ AllRows \in Seq(Payload) /\ Len(AllRows) = N("hosts")
    BY <1>2, RowsAreSeq
  <2>6. Undisturbed => ~Torn
    BY DEF Undisturbed, Torn, Freeing, Ending
  <2>7. Undisturbed => current \in 0 .. N("hosts") /\ \E k \in 0 .. current : shown = SubSeq(AllRows, k + 1, current)
    <3> SUFFICES ASSUME Undisturbed
                 PROVE  current \in 0 .. N("hosts") /\ \E k \in 0 .. current : shown = SubSeq(AllRows, k + 1, current)
      OBVIOUS
    <3>1. current \in 0 .. N("hosts")
      BY <1>2, <2>6 DEF HeapInv
    <3>2. CASE Top.p = NULL /\ report = <<>>
      <4>1. current \in 0 .. current /\ current \in Nat
        BY <2>5, <3>1
      <4>2. SubSeq(AllRows, current + 1, current) = <<>>
        BY <4>1, <2>5, RowsNone
      <4> QED
        BY <3>1, <3>2, <4>1, <4>2
    <3>3. CASE Top.p # NULL /\ InHand /\ \E k \in 0 .. current - 1 : report = SubSeq(AllRows, k + 1, current - 1)
      <4>1. PICK k \in 0 .. current - 1 : report = SubSeq(AllRows, k + 1, current - 1)
        BY <3>3
      <4>2. k \in Nat /\ k < current /\ k \in 0 .. current
        BY <2>5, <3>1
      <4>3. Append(report, Top.p) = SubSeq(AllRows, k + 1, current)
        BY <1>2, <3>3, <4>1, <4>2, Printed
      <4>4. shown = SubSeq(AllRows, k + 1, current)
        BY <3>3, <4>3
      <4> QED
        BY <3>1, <4>2, <4>4
    <3> QED
      BY <1>1, <1>2, <3>2, <3>3 DEF ShowInv
  <2> HIDE DEF shown
  <2>8. ASSUME NEW d \in 1 .. N("hosts"), current' = d, UNCHANGED proc, P(d) # NULL,
               Resume([Top EXCEPT !.p = P(d)]), ~Torn => d = current + 1 /\ first["hosts"] # 0
        PROVE  V1Inv'
    <3> DEFINE c == [Top EXCEPT !.p = P(d)]
    <3>1. P(d) \in Row \cup {NULL, Junk, Raw} /\ (P(d) = Junk => Filling({"add_payload"}))
      BY <1>2, CellCases
    <3>2. c \in ContextType /\ c.pc = "show" /\ c.l = "hosts" /\ c.p = P(d)
      BY <1>1, <1>2, <1>3, <3>1 DEF ContextType, Payload
    <3>3. Resume(c)
      BY <2>8
    <3> HIDE DEF c
    <3>4. Top' = c /\ (Undisturbed' <=> Undisturbed)
      BY <1>2, <3>2, <3>3, ResumeStack
    <3>5. Filling({"add_payload"})' <=> Filling({"add_payload"})
      <4>1. Top.pc \in Ending /\ c.pc \in Ending /\ {"add_payload"} \cap Ending = {}
        BY <1>1, <3>2 DEF Ending
      <4> QED
        <5>1. \A pcs : pcs \cap Ending = {} => (Filling(pcs)' <=> Filling(pcs))
          BY <1>2, <3>2, <3>3, <4>1, EndSame
        <5> QED
          BY <4>1, <5>1
    <3>6. Undisturbed => InHand' /\ \E k \in 0 .. current' - 1 : report' = SubSeq(AllRows', k + 1, current' - 1)
      <4> SUFFICES ASSUME Undisturbed
                   PROVE  InHand' /\ \E k \in 0 .. current' - 1 : report' = SubSeq(AllRows', k + 1, current' - 1)
        OBVIOUS
      <4>1. current' - 1 = current
        BY <2>5, <2>6, <2>7, <2>8
      <4>2. P(current)' = P(d)
        BY <2>1, <2>8 DEF P, heap
      <4>3. InHand'
        BY <2>4, <2>8, <3>2, <3>4, <4>2 DEF InHand
      <4> QED
        BY <2>1, <2>4, <2>7, <4>1, <4>3
    <3>7. ShowInv'
      BY <2>8, <3>1, <3>2, <3>4, <3>5, <3>6 DEF ShowInv
    <3>8. current' \in Nat /\ (~Torn => current' \in 0 .. N("hosts") /\ (first["hosts"] = 0 => current' = 0))
      <4>1. current' \in Nat /\ current' \in 0 .. N("hosts")
        BY <2>5, <2>8
      <4> QED
        BY <2>8, <4>1
    <3> QED
      BY <1>1, <2>1, <2>3, <2>8, <3>2, <3>3, <3>7, <3>8, ShowGoes
  <2>9. ASSUME UNCHANGED proc, Resume(ended), current' \in Nat,
               ~Torn => current' \in 0 .. N("hosts") /\ (first["hosts"] = 0 => current' = 0),
               Undisturbed => \E k \in 0 .. N("hosts") : shown = SubSeq(AllRows, k + 1, N("hosts"))
        PROVE  V1Inv'
    <3>1. ended \in ContextType /\ ended.pc = "rewind" /\ ended.l = "hosts"
      BY <1>2, <1>3 DEF ContextType, Payload, Pc, Ending
    <3>2. Resume(ended)
      BY <2>9
    <3> HIDE DEF ended
    <3>3. Top' = ended /\ (Undisturbed' <=> Undisturbed)
      BY <1>2, <3>1, <3>2, ResumeStack
    <3>4. ShowInv'
      BY <2>1, <2>4, <2>9, <3>1, <3>3 DEF ShowInv
    <3> QED
      BY <1>1, <2>1, <2>3, <2>9, <3>1, <3>2, <3>4, ShowGoes
  <2>10. ASSUME proc' = "fault", UNCHANGED <<stack, current>>, Torn \/ HalfBuilt("hosts")
         PROVE  V1Inv'
    BY <1>1, <2>1, <2>3, <2>10, InLists, FaultKeeps
  <2>11. CASE Torn
    <3>1. CASE proc' = "fault" /\ UNCHANGED <<stack, current>>
      BY <2>10, <2>11, <3>1
    <3>2. CASE UNCHANGED proc /\ current' \in Nat /\ Resume(ended)
      BY <2>6, <2>9, <2>11, <3>2
    <3>3. CASE UNCHANGED proc /\ current' \in 1 .. N("hosts") /\ P(current') # NULL
               /\ Resume([Top EXCEPT !.p = P(current')])
      BY <2>8, <2>11, <3>3
    <3> QED
      BY <1>2, <2>1, <3>1, <3>2, <3>3, GetObjectAnyhow
  <2>12. CASE ~Torn /\ Whole("hosts")
    <3>1. current \in 0 .. N("hosts") /\ Linked("hosts")
      BY <1>2, <2>12 DEF HeapInv, Whole
    <3>2. CASE current + 1 \in 1 .. N("hosts") /\ current' = current + 1 /\ UNCHANGED proc
               /\ P(current + 1) # NULL /\ Resume([Top EXCEPT !.p = P(current + 1)])
      <4>1. first["hosts"] # 0
        BY <2>5, <3>1, <3>2 DEF Linked
      <4> QED
        BY <2>8, <3>2, <4>1
    <3>3. CASE current + 1 \in 1 .. N("hosts") /\ current' = current + 1 /\ UNCHANGED proc
               /\ P(current + 1) = NULL /\ Resume(ended)
      <4>1. N("hosts") = 1
        BY <1>2, <3>3, CellCases
      <4>2. current = 0 /\ current' = 1 /\ 1 \in 0 .. N("hosts") /\ first["hosts"] # 0
        BY <2>5, <3>1, <3>3, <4>1 DEF Linked
      <4>3. Undisturbed => \E k \in 0 .. N("hosts") : shown = SubSeq(AllRows, k + 1, N("hosts"))
        <5> SUFFICES ASSUME Undisturbed
                     PROVE  \E k \in 0 .. N("hosts") : shown = SubSeq(AllRows, k + 1, N("hosts"))
          OBVIOUS
        <5>1. PICK k \in 0 .. 0 : shown = SubSeq(AllRows, k + 1, 0)
          BY <2>7, <4>2
        <5>2. shown = <<>>
          <6>1. k \in Nat
            OBVIOUS
          <6>2. k = 0
            OBVIOUS
          <6>3. SubSeq(AllRows, 0 + 1, 0) = <<>>
            BY <2>5, RowsNone
          <6> QED
            BY <5>1, <6>2, <6>3
        <5>3. SubSeq(AllRows, N("hosts") + 1, N("hosts")) = <<>>
          BY <2>5, RowsNone
        <5>4. N("hosts") \in 0 .. N("hosts")
          BY <2>5
        <5> QED
          BY <5>2, <5>3, <5>4
      <4> QED
        BY <2>9, <3>3, <4>2, <4>3
    <3>4. CASE current = N("hosts") /\ current' = 0 /\ UNCHANGED proc /\ Resume(ended)
      <4>1. 0 \in 0 .. N("hosts")
        BY <2>5
      <4>2. Undisturbed => \E k \in 0 .. N("hosts") : shown = SubSeq(AllRows, k + 1, N("hosts"))
        BY <2>7, <3>4
      <4> QED
        BY <2>9, <3>4, <4>1, <4>2
    <3>5. CASE HalfBuilt("hosts") /\ proc' = "fault" /\ UNCHANGED <<stack, current>>
      BY <2>10, <3>5
    <3> HIDE DEF ended
    <3> QED
      BY <1>2, <2>1, <3>1, <3>2, <3>3, <3>4, <3>5, GetObjectStep
  <2>13. CASE ~Torn /\ ~Whole("hosts")
    <3>1. Freed("hosts") /\ ~Undisturbed
      BY <1>1, <1>2, <2>13, InLists DEF HeapInv, ListInv, Busy, Freeing
    <3>2. first["hosts"] = 0 /\ current = 0
      BY <1>2, <2>13, <3>1 DEF HeapInv, Freed
    <3>3. Following(current) = 0 /\ ~Wild(0) /\ RowAt(0) = NULL
      BY <3>2 DEF Following, Wild, RowAt
    <3>4. Resume(ended) /\ current' = 0 /\ UNCHANGED proc
      BY <2>1, <3>2, <3>3 DEF GetObject
    <3>5. 0 \in 0 .. N("hosts")
      BY <2>5
    <3> QED
      BY <2>9, <3>1, <3>4, <3>5
  <2> QED
    BY <2>11, <2>12, <2>13
<1> QED
  BY <1>4, <1>5

(* An object of a list is written, or a new one is made behind s. *)
Written(l, i, o) == obj' = [obj EXCEPT ![l] = [obj[l] EXCEPT ![i] = o]]
Made(l, s, o) == obj' = [obj EXCEPT ![l] = Append(s, o)]

----------------------------------------------------------------------------
(* add_object. *)

(* An object of a list is written. *)
LEMMA ObjectSet ==
  ASSUME TypeOK, NEW l \in Lists, NEW i \in 1 .. N(l), NEW o \in Object,
         Written(l, i, o)
  PROVE  /\ obj' \in [Lists -> Seq(Object)]
         /\ N(l)' = N(l) /\ obj'[l][i] = o
         /\ \A c \in 1 .. N(l) : c # i => obj'[l][c] = obj[l][c]
         /\ \A k \in Lists : k # l => obj'[k] = obj[k]
<1> DEFINE s == [obj[l] EXCEPT ![i] = o]
<1>1. obj \in [Lists -> Seq(Object)] /\ obj[l] \in Seq(Object) /\ N(l) = Len(obj[l])
  BY DEF TypeOK, N
<1>2. /\ s \in Seq(Object) /\ Len(s) = Len(obj[l])
      /\ \A c \in 1 .. Len(obj[l]) : s[c] = IF c = i THEN o ELSE obj[l][c]
  BY <1>1, ExceptSeq
<1> HIDE DEF s
<1>3. obj' = [obj EXCEPT ![l] = s]
  BY DEF s, Written
<1>4. obj' \in [Lists -> Seq(Object)] /\ obj'[l] = s /\ \A k \in Lists : k # l => obj'[k] = obj[k]
  BY <1>1, <1>2, <1>3
<1> QED
  BY <1>1, <1>2, <1>4 DEF N

(* An object is made. *)
LEMMA ObjectNew ==
  ASSUME TypeOK, NEW l \in Lists, NEW s \in Seq(Object), Len(s) = N(l), NEW o \in Object,
         Made(l, s, o)
  PROVE  /\ obj' \in [Lists -> Seq(Object)]
         /\ N(l)' = N(l) + 1 /\ obj'[l][N(l) + 1] = o
         /\ \A c \in 1 .. N(l) : obj'[l][c] = s[c]
         /\ \A k \in Lists : k # l => obj'[k] = obj[k]
<1>1. obj \in [Lists -> Seq(Object)] /\ obj[l] \in Seq(Object) /\ N(l) = Len(obj[l])
  BY DEF TypeOK, N
<1>2. /\ Append(s, o) \in Seq(Object) /\ Len(Append(s, o)) = Len(s) + 1
      /\ \A i \in 1 .. Len(s) : Append(s, o)[i] = s[i]
      /\ Append(s, o)[Len(s) + 1] = o
  BY AppendProperties
<1>3. /\ obj' \in [Lists -> Seq(Object)] /\ obj'[l] = Append(s, o)
      /\ \A k \in Lists : k # l => obj'[k] = obj[k]
  BY <1>1, <1>2 DEF Made
<1> QED
  BY <1>1, <1>2, <1>3 DEF N

(* What holds while main adds an object. *)
LEMMA AddFacts ==
  ASSUME V1Inv, Top.pc \in AddPc
  PROVE  /\ TypeOK /\ StackInv /\ WeakInv /\ RowsInv /\ IoType
         /\ Len(stack) = 1 /\ M = Top /\ ~Torn /\ Undisturbed /\ Top \in ContextType /\ Top.l \in Lists
         /\ \A l \in Lists : Linked(l) /\ Behind(l) /\ Cells(l)
         /\ current \in 0 .. N("hosts") /\ (first["hosts"] = 0 => current = 0)
         /\ MessageInv /\ AddInv /\ buf # <<>> /\ report \in Seq(Row \cup {Raw})
<1>1. TypeOK /\ StackInv /\ HeapInv /\ WeakInv /\ RowsInv /\ MainInv
  BY DEF V1Inv
<1>2. Top.pc \notin Ending /\ Top.pc \notin Busy /\ Top.pc \notin Waiting
  BY DEF AddPc, Adding, Ending, Busy, Freeing, Waiting
<1>3. Len(stack) = 1
  BY <1>1, <1>2, MainRuns
<1>4. /\ M = Top /\ ~Torn /\ Undisturbed /\ Whole("hosts") /\ Whole("ports")
      /\ current \in 0 .. N("hosts") /\ (first["hosts"] = 0 => current = 0)
  BY <1>1, <1>2, <1>3, MainAlone
<1>5. Top \in ContextType /\ Top.l \in Lists /\ IoType
  BY <1>1, TopFacts, TypeParts DEF ContextType
<1>6. MessageInv /\ AddInv /\ buf # <<>>
  BY <1>1, <1>2 DEF MainInv, MessageInv
<1>7. \A l \in Lists : Linked(l) /\ Behind(l) /\ Cells(l)
  BY <1>1, <1>4, InLists DEF Whole, WeakInv
<1>8. report \in Seq(Row \cup {Raw})
  BY <1>1 DEF TypeOK
<1> QED
  BY <1>1, <1>3, <1>4, <1>5, <1>6, <1>7, <1>8

(* Main writes to the list it adds to. *)
LEMMA AddGoes ==
  ASSUME V1Inv, proc = "running", Top.pc \in AddPc, UNCHANGED <<proc, io, current>>,
         NEW c \in ContextType, Resume(c), c.pc \in AddPc \cup {"learn_show", "ports"},
         HeapType', report' \in Seq(Row \cup {Raw}), failed' \in {failed, failed + 1},
         NEW l \in Lists, l = Top.l,
         \A k \in Lists : k # l => obj'[k] = obj[k] /\ first'[k] = first[k] /\ last'[k] = last[k],
         Top' = c /\ M' = c => Linked(l)' /\ Behind(l)' /\ Cells(l)',
         N(l) <= N(l)', first'[l] = 0 => first[l] = 0,
         l = "hosts" /\ Top' = c /\ M' = c => RowsInv',
         c.pc \in {"add_payload", "add_links"} => c.l = l /\ first'[l] = 1 /\ last'[l] = 0 /\ N(l)' = 1,
         Top' = c => MessageInv' /\ AddInv' /\ WalkInv' /\ ShowInv'
  PROVE  V1Inv'
<1>1. /\ TypeOK /\ StackInv /\ WeakInv /\ RowsInv /\ IoType
      /\ Len(stack) = 1 /\ M = Top /\ ~Torn /\ Undisturbed
      /\ \A k \in Lists : Linked(k) /\ Behind(k) /\ Cells(k)
      /\ current \in 0 .. N("hosts") /\ (first["hosts"] = 0 => current = 0)
  BY AddFacts
<1>2. /\ stack' \in Seq(ContextType) /\ stack' # <<>> /\ Len(stack') = 1
      /\ Top' = c /\ M' = c /\ ~Torn' /\ Undisturbed' /\ StackInv'
  BY <1>1, ResumeStack
<1>3. c.pc \notin Busy /\ c.pc \notin Ending /\ c.pc \notin Freeing
  BY DEF AddPc, Adding, Ending, Busy, Freeing
<1>4. failed \in Nat /\ failed' \in Nat /\ (failed > 0 => failed' > 0)
  BY <1>1 DEF TypeOK
<1>5. \A k \in Lists : Linked(k)' /\ Behind(k)' /\ Cells(k)'
  <2> TAKE k \in Lists
  <2>1. CASE k = l
    BY <1>2, <2>1
  <2>2. CASE k # l
    <3>1. N(k)' = N(k) /\ first'[k] = first[k] /\ last'[k] = last[k] /\ obj'[k] = obj[k]
      BY <2>2 DEF N
    <3>2. Linked(k)' /\ Cells(k)'
      BY <1>1, <3>1 DEF Linked, Cells
    <3>3. ~Unfinished(k)
      BY <1>1, <2>2 DEF Unfinished
    <3>4. Behind(k)'
      BY <1>1, <1>4, <3>1, <3>3 DEF Behind
    <3> QED
      BY <3>2, <3>4
  <2> QED
    BY <2>1, <2>2
<1>6. current' \in 0 .. N("hosts")' /\ (first'["hosts"] = 0 => current' = 0)
  <2>1. N("hosts") \in Nat
    BY <1>1, RowsAreSeq
  <2>2. N("hosts")' \in Nat
    <3>1. obj'["hosts"] \in Seq(Object)
      BY InLists DEF HeapType
    <3> QED
      BY <3>1, LenProperties DEF N
  <2>3. N("hosts") <= N("hosts")' /\ (first'["hosts"] = 0 => first["hosts"] = 0)
    <3>1. CASE l = "hosts"
      BY <3>1
    <3>2. CASE l # "hosts"
      <4>1. N("hosts")' = N("hosts") /\ first'["hosts"] = first["hosts"]
        BY <3>2, InLists DEF N
      <4> QED
        BY <2>1, <4>1
    <3> QED
      BY <3>1, <3>2
  <2> QED
    BY <1>1, <2>1, <2>2, <2>3
<1>7. HeapInv'
  <2>1. \A k \in Lists : Whole(k)'
    BY <1>5 DEF Whole
  <2> QED
    BY <1>2, <1>3, <1>6, <2>1 DEF HeapInv, ListInv, Busy
<1>8. WeakInv'
  BY <1>2, <1>3, <1>5 DEF WeakInv, Freeing
<1>9. RowsInv'
  <2>1. CASE l = "hosts"
    BY <1>2, <2>1
  <2>2. CASE l # "hosts"
    <3>1. /\ N("hosts")' = N("hosts") /\ first'["hosts"] = first["hosts"]
          /\ last'["hosts"] = last["hosts"] /\ obj'["hosts"] = obj["hosts"]
      BY <2>2, InLists DEF N
    <3>2. \A k : P(k)' = P(k)
      BY <3>1 DEF P
    <3>3. \A pcs : ~Filling(pcs)
      BY <1>1, <2>2 DEF Filling
    <3>4. Half("hosts") /\ failed > 0 => Half("hosts")' /\ failed' > 0
      BY <1>4, <3>1 DEF Half
    <3>5. CellInv'
      BY <1>1, <3>1, <3>2, <3>3, <3>4 DEF RowsInv, CellInv
    <3>6. OneRow'
      BY <1>1, <3>1, <3>2 DEF RowsInv, OneRow
    <3> QED
      BY <3>5, <3>6 DEF RowsInv
  <2> QED
    BY <2>1, <2>2
<1>10. MainInv' /\ ShowInv'
  BY <1>2 DEF MainInv
<1>11. IoType' /\ current' \in Nat
  BY <1>1 DEF IoType, io, TypeOK
<1>12. TypeOK'
  BY <1>2, <1>11 DEF TypeOK, IoType, HeapType
<1> QED
  BY <1>2, <1>7, <1>8, <1>9, <1>10, <1>12, EndQuiet DEF V1Inv

(* The message in hand stays, and what is added. *)
LEMMA AddMessage ==
  ASSUME V1Inv, Top.pc \in AddPc, buf' = buf,
         Top'.pc \in AddPc, Top'.l = Top.l, Top'.tmp = Top.tmp
  PROVE  MessageInv' /\ WalkInv' /\ ShowInv'
<1>1. MessageInv /\ buf # <<>>
  BY AddFacts
<1>2. MessageInv'
  BY <1>1 DEF MessageInv, AddPc, Adding, DataPc
<1>3. WalkInv' /\ ShowInv'
  BY DEF WalkInv, ShowInv, AddPc, Adding
<1> QED
  BY <1>2, <1>3

(* The next place of add_object. *)
LEMMA AddGoto ==
  ASSUME V1Inv, Top.pc \in AddPc, NEW pc \in AddPc, Goto(pc)
  PROVE  \E c \in ContextType :
           Resume(c) /\ c = [Top EXCEPT !.pc = pc]
           /\ c.pc = pc /\ c.l = Top.l /\ c.tmp = Top.tmp /\ c.p = Top.p
<1>1. Top \in ContextType
  BY AddFacts
<1>2. pc \in Pc
  BY DEF AddPc, Adding, Pc
<1> DEFINE c == [Top EXCEPT !.pc = pc]
<1>3. c \in ContextType /\ c.pc = pc /\ c.l = Top.l /\ c.tmp = Top.tmp /\ c.p = Top.p
  BY <1>1, <1>2 DEF ContextType
<1>4. Resume(c)
  BY DEF Goto
<1> QED
  BY <1>3, <1>4

(* The first object: first points to it before its fields are set. *)
LEMMA AddFirstKeeps ==
  ASSUME V1Inv, AddFirst, NEW l, l = Top.l
  PROVE  V1Inv'
<1>1. /\ Top.pc = "add" /\ proc = "running" /\ first[l] = 0 /\ Goto("add_payload")
      /\ first' = [first EXCEPT ![l] = Len(obj[l]) + 1]
      /\ UNCHANGED <<proc, io, last, failed, current, report>>
  BY DEF AddFirst, At, history
<1>2. PICK p \in {NULL, Junk}, n \in {0, -1} :
        New(l, [p |-> p, next |-> n, prev |-> -1, live |-> TRUE])
  BY DEF AddFirst
<1> DEFINE o == [p |-> p, next |-> n, prev |-> -1, live |-> TRUE]
<1>3. Top.pc \in AddPc /\ "add_payload" \in AddPc
  BY <1>1 DEF AddPc, Adding
<1>4. /\ TypeOK /\ Linked(l) /\ l \in Lists /\ RowsInv /\ AddInv /\ M = Top /\ IoType
      /\ report \in Seq(Row \cup {Raw})
      /\ (first["hosts"] = 0 => current = 0)
  BY <1>3, AddFacts
<1>5. N(l) = 0 /\ last[l] = 0 /\ obj[l] \in Seq(Object)
  <2>1. N(l) = 0
    BY <1>1, <1>4 DEF Linked
  <2>2. last[l] \in {0, -1} /\ last[l] \in Nat
    BY <1>4, <2>1, ObjectFacts DEF Linked
  <2> QED
    BY <1>4, <2>1, <2>2 DEF TypeOK
<1>6. o \in Object /\ o.p \in {NULL, Junk} /\ o.next \in {0, -1} /\ o.prev = -1 /\ o.live
  BY DEF Object, Payload
<1> HIDE DEF o
<1>7. /\ obj' \in [Lists -> Seq(Object)] /\ N(l)' = 1 /\ obj'[l][1] = o
      /\ \A k \in Lists : k # l => obj'[k] = obj[k]
  <2>1. Made(l, obj[l], o)
    BY <1>2 DEF New, o, Made
  <2>2. TypeOK /\ l \in Lists /\ obj[l] \in Seq(Object) /\ Len(obj[l]) = N(l) /\ o \in Object
    BY <1>4, <1>5, <1>6 DEF N
  <2>3. N(l)' = N(l) + 1 /\ obj'[l][N(l) + 1] = o
        /\ obj' \in [Lists -> Seq(Object)] /\ \A k \in Lists : k # l => obj'[k] = obj[k]
    BY ONLY <2>1, <2>2, ObjectNew
  <2>4. N(l) + 1 = 1
    BY <1>5
  <2> QED
    BY <2>3, <2>4
<1>8. first' \in [Lists -> Nat] /\ first'[l] = 1 /\ \A k \in Lists : k # l => first'[k] = first[k]
  <2>1. first \in [Lists -> Nat] /\ Len(obj[l]) + 1 = 1
    BY <1>4, <1>5 DEF TypeOK, N
  <2> QED
    BY <1>1, <1>4, <2>1
<1>9. HeapType' /\ last' = last /\ failed' = failed /\ buf' = buf /\ UNCHANGED <<proc, io, current>>
  BY <1>1, <1>4, <1>7, <1>8 DEF HeapType, TypeOK, io
<1>10. PICK c \in ContextType :
          Resume(c) /\ c = [Top EXCEPT !.pc = "add_payload"]
          /\ c.pc = "add_payload" /\ c.l = l /\ c.tmp = Top.tmp /\ c.p = Top.p
  BY <1>1, <1>3, AddGoto
<1>11. ASSUME M' = c
       PROVE  Linked(l)' /\ Behind(l)' /\ Cells(l)'
  <2>1. Linked(l)'
    BY <1>5, <1>6, <1>7, <1>8, <1>9 DEF Linked
  <2>2. Behind(l)'
    BY <1>10, <1>11 DEF Behind, Unfinished, Adding
  <2>3. Cells(l)'
    BY <1>5, <1>6, <1>7, <1>8, <1>9 DEF Cells
  <2> QED
    BY <2>1, <2>2, <2>3
<1>12. l = "hosts" => N("hosts")' = 1 /\ P(1)' \in {NULL, Junk}
  BY <1>6, <1>7 DEF P
<1>13. ASSUME l = "hosts", M' = c
       PROVE  RowsInv'
  <2>1. CellInv'
    BY <1>10, <1>12, <1>13 DEF CellInv, Filling
  <2>2. OneRow'
    BY <1>12, <1>13 DEF OneRow
  <2> QED
    BY <2>1, <2>2 DEF RowsInv
<1>14. ASSUME Top' = c
       PROVE  MessageInv' /\ AddInv' /\ WalkInv' /\ ShowInv'
  <2>1. MessageInv' /\ WalkInv' /\ ShowInv'
    BY <1>3, <1>9, <1>10, <1>14  , AddMessage
  <2>2. l = "hosts" => current = 0 /\ Top.p = SourceRow /\ Head(buf).pkt.type = "arp"
    BY <1>1, <1>3, <1>4 DEF AddInv
  <2>3. SourceRow' = SourceRow
    BY <1>9 DEF SourceRow
  <2>4. l = "hosts" => NotUpTo(Head(buf).pkt.src, N("hosts"))'
    BY <1>12, Marks DEF NotUpTo
  <2>5. AddInv'
    BY <1>9, <1>10, <1>14, <2>2, <2>3, <2>4 DEF AddInv
  <2> QED
    BY <2>1, <2>5
<1>15. /\ N(l) <= N(l)' /\ (first'[l] = 0 => first[l] = 0) /\ failed' \in {failed, failed + 1}
       /\ \A k \in Lists : k # l => obj'[k] = obj[k] /\ first'[k] = first[k] /\ last'[k] = last[k]
       /\ (c.pc \in {"add_payload", "add_links"} => c.l = l /\ first'[l] = 1 /\ last'[l] = 0 /\ N(l)' = 1)
       /\ report' \in Seq(Row \cup {Raw})
  BY <1>1, <1>4, <1>5, <1>7, <1>8, <1>9, <1>10
<1>16. l \in Lists /\ l = Top.l /\ c.pc \in AddPc \cup {"learn_show", "ports"}
  BY <1>3, <1>4, <1>10
<1> QED
  BY <1>1, <1>3, <1>9, <1>10, <1>11, <1>13, <1>14, <1>15, <1>16, AddGoes

(* The first object gets its payload, whose fields are not set yet. *)
LEMMA AddPayloadKeeps ==
  ASSUME V1Inv, AddPayload, NEW l, l = Top.l
  PROVE  V1Inv'
<1>1. /\ Top.pc = "add_payload" /\ proc = "running" /\ Goto("add_links")
      /\ obj' = [obj EXCEPT ![l][first[l]].p = Raw]
      /\ UNCHANGED <<proc, io, first, last, failed, current, report>>
  BY DEF AddPayload, At, history
<1>2. Top.pc \in AddPc /\ "add_links" \in AddPc
  BY <1>1 DEF AddPc, Adding
<1>3. /\ TypeOK /\ Linked(l) /\ Cells(l) /\ l \in Lists /\ WeakInv /\ RowsInv /\ AddInv /\ M = Top /\ IoType
      /\ report \in Seq(Row \cup {Raw})
  BY <1>2, AddFacts
<1>4. first[l] = 1 /\ last[l] = 0 /\ N(l) = 1 /\ 1 \in 1 .. N(l)
  BY <1>1, <1>3 DEF WeakInv
<1>5. obj[l][1] \in Object
  BY <1>3, <1>4, ObjectFacts
<1> DEFINE o == [obj[l][1] EXCEPT !.p = Raw]
<1>6. o \in Object /\ o.p = Raw /\ o.next = obj[l][1].next /\ o.prev = obj[l][1].prev /\ o.live = obj[l][1].live
  BY <1>5 DEF Object, Payload
<1>7. Written(l, 1, o)
  BY <1>1, <1>4 DEF Written
<1> HIDE DEF o
<1>8. /\ obj' \in [Lists -> Seq(Object)] /\ N(l)' = 1 /\ obj'[l][1] = o
      /\ \A k \in Lists : k # l => obj'[k] = obj[k]
  <2>1. TypeOK /\ l \in Lists /\ 1 \in 1 .. N(l) /\ o \in Object
    BY <1>3, <1>4, <1>6
  <2>2. /\ obj' \in [Lists -> Seq(Object)] /\ N(l)' = N(l) /\ obj'[l][1] = o
        /\ \A k \in Lists : k # l => obj'[k] = obj[k]
    BY ONLY <1>7, <2>1, ObjectSet
  <2> QED
    BY <1>4, <2>2
<1>9. HeapType' /\ first' = first /\ last' = last /\ failed' = failed /\ buf' = buf
  BY <1>1, <1>3, <1>8 DEF HeapType, TypeOK, io
<1>10. PICK c \in ContextType :
          Resume(c) /\ c = [Top EXCEPT !.pc = "add_links"]
          /\ c.pc = "add_links" /\ c.l = l /\ c.tmp = Top.tmp /\ c.p = Top.p
  BY <1>1, <1>2, AddGoto
<1>11. ASSUME M' = c
       PROVE  Linked(l)' /\ Behind(l)' /\ Cells(l)'
  <2>1. Linked(l)'
    BY <1>3, <1>4, <1>6, <1>8, <1>9 DEF Linked
  <2>2. Behind(l)'
    BY <1>10, <1>11 DEF Behind, Unfinished, Adding
  <2>3. Cells(l)'
    BY <1>3, <1>4, <1>6, <1>8, <1>9 DEF Cells
  <2> QED
    BY <2>1, <2>2, <2>3
<1>12. l = "hosts" => N("hosts")' = 1 /\ P(1)' = Raw
  BY <1>6, <1>8 DEF P
<1>13. ASSUME l = "hosts", M' = c
       PROVE  RowsInv'
  <2>1. CellInv'
    BY <1>10, <1>12, <1>13 DEF CellInv, Filling
  <2>2. OneRow'
    BY <1>12, <1>13 DEF OneRow
  <2> QED
    BY <2>1, <2>2 DEF RowsInv
<1>14. ASSUME Top' = c
       PROVE  MessageInv' /\ AddInv' /\ WalkInv' /\ ShowInv'
  <2>1. MessageInv' /\ WalkInv' /\ ShowInv'
    BY <1>2, <1>9, <1>10, <1>14, AddMessage
  <2>2. l = "hosts" => current = 0 /\ Top.p = SourceRow /\ Head(buf).pkt.type = "arp"
    BY <1>1, <1>2, <1>3 DEF AddInv
  <2>3. SourceRow' = SourceRow /\ current' = current
    BY <1>1, <1>9 DEF SourceRow
  <2>4. l = "hosts" => NotUpTo(Head(buf).pkt.src, N("hosts"))'
    BY <1>12, Marks DEF NotUpTo
  <2>5. AddInv'
    BY <1>6, <1>8, <1>9, <1>10, <1>14, <2>2, <2>3, <2>4 DEF AddInv
  <2> QED
    BY <2>1, <2>5
<1>15. /\ N(l) <= N(l)' /\ (first'[l] = 0 => first[l] = 0) /\ failed' \in {failed, failed + 1}
       /\ \A k \in Lists : k # l => obj'[k] = obj[k] /\ first'[k] = first[k] /\ last'[k] = last[k]
       /\ (c.pc \in {"add_payload", "add_links"} => c.l = l /\ first'[l] = 1 /\ last'[l] = 0 /\ N(l)' = 1)
       /\ report' \in Seq(Row \cup {Raw})
  BY <1>1, <1>3, <1>4, <1>8, <1>9, <1>10
<1>16. l \in Lists /\ l = Top.l /\ c.pc \in AddPc \cup {"learn_show", "ports"} /\ UNCHANGED <<proc, io, current>>
  BY <1>1, <1>2, <1>3, <1>10
<1> QED
  BY <1>1, <1>2, <1>9, <1>10, <1>11, <1>13, <1>14, <1>15, <1>16, AddGoes

(* The first object gets its links. *)
LEMMA AddLinksKeeps ==
  ASSUME V1Inv, AddLinks, NEW l, l = Top.l
  PROVE  V1Inv'
<1>1. /\ Top.pc = "add_links" /\ proc = "running" /\ Goto("add_last")
      /\ obj' = [obj EXCEPT ![l][first[l]].next = 0, ![l][first[l]].prev = 0]
      /\ UNCHANGED <<proc, io, first, last, failed, current, report>>
  BY DEF AddLinks, At, history
<1>2. Top.pc \in AddPc /\ "add_last" \in AddPc
  BY <1>1 DEF AddPc, Adding
<1>3. /\ TypeOK /\ Linked(l) /\ Cells(l) /\ l \in Lists /\ WeakInv /\ RowsInv /\ AddInv /\ M = Top /\ IoType
      /\ report \in Seq(Row \cup {Raw})
  BY <1>2, AddFacts
<1>4. first[l] = 1 /\ last[l] = 0 /\ N(l) = 1 /\ 1 \in 1 .. N(l)
  BY <1>1, <1>3 DEF WeakInv
<1>5. obj[l][1] \in Object /\ obj[l][1].p = Raw
  BY <1>1, <1>3, <1>4, ObjectFacts DEF AddInv
<1> DEFINE o == [obj[l][1] EXCEPT !.next = 0, !.prev = 0]
<1>6. o \in Object /\ o.p = Raw /\ o.next = 0 /\ o.prev = 0 /\ o.live = obj[l][1].live
  <2> DEFINE a == [obj[l][1] EXCEPT !.next = 0]
  <2>0. a = [p |-> obj[l][1].p, next |-> 0, prev |-> obj[l][1].prev, live |-> obj[l][1].live]
    BY <1>5 DEF Object
  <2>a. o = [a EXCEPT !.prev = 0]
    OBVIOUS
  <2>1. o = [p |-> obj[l][1].p, next |-> 0, prev |-> 0, live |-> obj[l][1].live]
    <3> HIDE DEF o, a
    <3> QED
      BY <2>0, <2>a
  <2> HIDE DEF o, a
  <2> QED
    BY <1>5, <2>1 DEF Object
<1>7. Written(l, 1, o)
  <2> DEFINE mid == [obj EXCEPT ![l][1].next = 0]
             t == [obj[l] EXCEPT ![1] = [obj[l][1] EXCEPT !.next = 0]]
  <2>1. obj \in [Lists -> Seq(Object)] /\ obj[l] \in Seq(Object) /\ 1 \in DOMAIN obj[l]
    BY <1>3, <1>4, ObjectFacts DEF TypeOK
  <2>2. obj' = [mid EXCEPT ![l][1].prev = 0]
    BY <1>1, <1>4
  <2>3. mid = [obj EXCEPT ![l] = t]
    OBVIOUS
  <2>4. mid[l] = t /\ t[1] = [obj[l][1] EXCEPT !.next = 0]
    BY <1>3, <2>1, <2>3
  <2>5. obj' = [mid EXCEPT ![l] = [t EXCEPT ![1] = [t[1] EXCEPT !.prev = 0]]]
    BY <2>2, <2>4
  <2>6. [t[1] EXCEPT !.prev = 0] = o
    BY <2>4
  <2>7. [t EXCEPT ![1] = o] = [obj[l] EXCEPT ![1] = o]
    OBVIOUS
  <2>8. obj' = [mid EXCEPT ![l] = [obj[l] EXCEPT ![1] = o]]
    BY <2>5, <2>6, <2>7
  <2> QED
    BY <2>3, <2>8 DEF Written
<1> HIDE DEF o
<1>8. /\ obj' \in [Lists -> Seq(Object)] /\ N(l)' = 1 /\ obj'[l][1] = o
      /\ \A k \in Lists : k # l => obj'[k] = obj[k]
  <2>1. TypeOK /\ l \in Lists /\ 1 \in 1 .. N(l) /\ o \in Object
    BY <1>3, <1>4, <1>6
  <2>2. /\ obj' \in [Lists -> Seq(Object)] /\ N(l)' = N(l) /\ obj'[l][1] = o
        /\ \A k \in Lists : k # l => obj'[k] = obj[k]
    BY ONLY <1>7, <2>1, ObjectSet
  <2> QED
    BY <1>4, <2>2
<1>9. HeapType' /\ first' = first /\ last' = last /\ failed' = failed /\ buf' = buf
  BY <1>1, <1>3, <1>8 DEF HeapType, TypeOK, io
<1>10. PICK c \in ContextType :
          Resume(c) /\ c = [Top EXCEPT !.pc = "add_last"]
          /\ c.pc = "add_last" /\ c.l = l /\ c.tmp = Top.tmp /\ c.p = Top.p
  BY <1>1, <1>2, AddGoto
<1>11. ASSUME M' = c
       PROVE  Linked(l)' /\ Behind(l)' /\ Cells(l)'
  <2>1. Linked(l)'
    BY <1>3, <1>4, <1>6, <1>8, <1>9 DEF Linked
  <2>2. Behind(l)'
    BY <1>10, <1>11 DEF Behind, Unfinished, Adding
  <2>3. Cells(l)'
    BY <1>3, <1>4, <1>6, <1>8, <1>9 DEF Cells
  <2> QED
    BY <2>1, <2>2, <2>3
<1>12. l = "hosts" => N("hosts")' = 1 /\ P(1)' = Raw
  BY <1>6, <1>8 DEF P
<1>13. ASSUME l = "hosts", M' = c
       PROVE  RowsInv'
  <2>1. CellInv'
    BY <1>10, <1>12, <1>13 DEF CellInv, Filling
  <2>2. OneRow'
    BY <1>12, <1>13 DEF OneRow
  <2> QED
    BY <2>1, <2>2 DEF RowsInv
<1>14. ASSUME Top' = c
       PROVE  MessageInv' /\ AddInv' /\ WalkInv' /\ ShowInv'
  <2>1. MessageInv' /\ WalkInv' /\ ShowInv'
    BY <1>2, <1>9, <1>10, <1>14, AddMessage
  <2>2. l = "hosts" => current = 0 /\ Top.p = SourceRow /\ Head(buf).pkt.type = "arp"
    BY <1>1, <1>2, <1>3 DEF AddInv
  <2>3. SourceRow' = SourceRow /\ current' = current
    BY <1>1, <1>9 DEF SourceRow
  <2>4. l = "hosts" => NotUpTo(Head(buf).pkt.src, N("hosts"))'
    BY <1>12, Marks DEF NotUpTo
  <2>5. AddInv'
    BY <1>6, <1>8, <1>9, <1>10, <1>14, <2>2, <2>3, <2>4 DEF AddInv
  <2> QED
    BY <2>1, <2>5
<1>15. /\ N(l) <= N(l)' /\ (first'[l] = 0 => first[l] = 0) /\ failed' \in {failed, failed + 1}
       /\ \A k \in Lists : k # l => obj'[k] = obj[k] /\ first'[k] = first[k] /\ last'[k] = last[k]
       /\ (c.pc \in {"add_payload", "add_links"} => c.l = l /\ first'[l] = 1 /\ last'[l] = 0 /\ N(l)' = 1)
       /\ report' \in Seq(Row \cup {Raw})
  BY <1>1, <1>3, <1>4, <1>8, <1>9, <1>10
<1>16. l \in Lists /\ l = Top.l /\ c.pc \in AddPc \cup {"learn_show", "ports"} /\ UNCHANGED <<proc, io, current>>
  BY <1>1, <1>2, <1>3, <1>10
<1> QED
  BY <1>1, <1>2, <1>9, <1>10, <1>11, <1>13, <1>14, <1>15, <1>16, AddGoes

(* An object is made that only main knows of. *)
LEMMA AddTmpKeeps ==
  ASSUME V1Inv, AddTmp, NEW l, l = Top.l
  PROVE  V1Inv'
<1>1. /\ Top.pc = "add" /\ proc = "running" /\ Goto("add_next") /\ first[l] # 0
      /\ UNCHANGED <<proc, io, heap, current, report>>
  BY DEF AddTmp, At, history
<1>2. /\ Top.pc \in AddPc /\ "add_next" \in AddPc /\ Top.pc \in Between
      /\ "add_next" \notin Busy \cup Adding \cup {"fill"} \cup Ending
  BY <1>1 DEF AddPc, Between, Pc, Adding, Ending, Busy, Freeing
<1>3. /\ TypeOK /\ Len(stack) = 1 /\ M = Top /\ AddInv /\ IoType /\ report \in Seq(Row \cup {Raw})
      /\ current \in 0 .. N("hosts") /\ (first["hosts"] = 0 => current = 0)
  BY <1>2, AddFacts
<1>4. PICK c \in ContextType :
          Resume(c) /\ c = [Top EXCEPT !.pc = "add_next"]
          /\ c.pc = "add_next" /\ c.l = l /\ c.tmp = Top.tmp /\ c.p = Top.p
  BY <1>1, <1>2, AddGoto
<1>5. Top' = c /\ M' = c
  BY <1>3, <1>4, ResumeStack
<1>6. MessageInv' /\ WalkInv' /\ ShowInv'
  BY <1>1, <1>2, <1>4, <1>5, AddMessage DEF io
<1>7. /\ N("hosts")' = N("hosts") /\ first' = first /\ last' = last /\ failed' = failed
      /\ buf' = buf /\ \A d : P(d)' = P(d)
  BY <1>1 DEF N, P, heap, io
<1>8. Half("hosts") => Half("hosts")'
  <2>1. ~Unfinished("hosts")
    BY <1>1, <1>3 DEF Unfinished, Adding
  <2> QED
    BY <1>7, <2>1 DEF Half
<1>9. AddInv'
  <2>1. l = "hosts" => /\ c.p = SourceRow' /\ (current' = 0 \/ Half("hosts")')
                       /\ NotUpTo(Head(buf).pkt.src, N("hosts"))' /\ Head(buf').pkt.type = "arp"
    <3>1. l = "hosts" => /\ Top.p = SourceRow /\ (current = 0 \/ Half("hosts"))
                         /\ NotUpTo(Head(buf).pkt.src, N("hosts")) /\ Head(buf).pkt.type = "arp"
      BY <1>1, <1>2, <1>3 DEF AddInv
    <3>2. SourceRow' = SourceRow /\ current' = current
      BY <1>1, <1>7 DEF SourceRow
    <3>3. NotUpTo(Head(buf).pkt.src, N("hosts")) => NotUpTo(Head(buf).pkt.src, N("hosts"))'
      BY <1>7 DEF NotUpTo
    <3> QED
      BY <1>4, <1>7, <1>8, <3>1, <3>2, <3>3
  <2> QED
    BY <1>1, <1>4, <1>5, <1>7, <2>1 DEF AddInv
<1>10. MainInv' /\ IoType'
  BY <1>1, <1>3, <1>6, <1>9 DEF MainInv, IoType, io
<1> QED
  BY <1>1, <1>2, <1>3, <1>4, <1>6, <1>10, MainGoes

(* Another object is linked behind the last one, complete but for its row. *)
LEMMA AddNextKeeps ==
  ASSUME V1Inv, AddNext, NEW l, l = Top.l
  PROVE  V1Inv'
<1>0. PICK n \in Nat : n = Len(obj[l])
  <2>1. Top.pc \in AddPc
    BY DEF AddNext, At, AddPc
  <2>2. TypeOK /\ l \in Lists
    BY <2>1, AddFacts
  <2> QED
    BY <2>2, LenProperties DEF TypeOK
<1> DEFINE t == [obj[l] EXCEPT ![last[l]].next = n + 1]
           o == [p |-> Raw, next |-> 0, prev |-> last[l], live |-> TRUE]
<1>1. /\ Top.pc = "add_next" /\ proc = "running" /\ Goto("add_last") /\ last[l] # 0
      /\ obj' = [obj EXCEPT ![l] = Append(t, o)]
      /\ UNCHANGED <<proc, io, first, last, failed, current, report>>
  BY <1>0 DEF AddNext, At, history
<1>2. Top.pc \in AddPc /\ "add_last" \in AddPc
  BY <1>1 DEF AddPc, Adding
<1>3. /\ TypeOK /\ Linked(l) /\ Behind(l) /\ Cells(l) /\ l \in Lists /\ RowsInv /\ AddInv /\ M = Top /\ IoType
      /\ report \in Seq(Row \cup {Raw}) /\ n = N(l) /\ first[l] # 0
  BY <1>0, <1>1, <1>2, AddFacts DEF N, AddInv
<1>4. /\ n \in Nat /\ last[l] = n /\ n \in 1 .. n /\ obj[l] \in Seq(Object) /\ first[l] = 1
      /\ obj[l][n] \in Object
  <2>1. n \in Nat /\ last[l] \in Nat /\ obj[l] \in Seq(Object) /\ \A c \in 1 .. n : obj[l][c] \in Object
    BY <1>3, ObjectFacts
  <2>2. ~Unfinished(l)
    BY <1>1, <1>3 DEF Unfinished, Adding
  <2>3. last[l] \in {n, n - 1} /\ n # 0 /\ first[l] = 1
    BY <1>1, <1>3 DEF Linked
  <2>4. last[l] # n => n = 1
    BY <1>3, <2>2 DEF Behind
  <2>5. last[l] = n
    BY <1>1, <2>1, <2>3, <2>4
  <2> QED
    BY <2>1, <2>3, <2>5
<1> DEFINE e == [obj[l][n] EXCEPT !.next = n + 1]
<1>5. /\ e \in Object /\ e.p = obj[l][n].p /\ e.next = n + 1 /\ e.prev = obj[l][n].prev /\ e.live = obj[l][n].live
  <2>1. PICK k \in Int : k = n + 1
    BY <1>4
  <2>2. PICK b \in Object : b = obj[l][n]
    BY <1>4
  <2>3. /\ [b EXCEPT !.next = k] \in Object
        /\ [b EXCEPT !.next = k].p = b.p /\ [b EXCEPT !.next = k].next = k
        /\ [b EXCEPT !.next = k].prev = b.prev /\ [b EXCEPT !.next = k].live = b.live
    BY ONLY <2>1, <2>2 DEF Object
  <2> QED
    BY <2>1, <2>2, <2>3
<1>6. t = [obj[l] EXCEPT ![n] = e]
  BY <1>4
<1> HIDE DEF e
<1>7. /\ t \in Seq(Object) /\ Len(t) = n
      /\ \A c \in 1 .. n : t[c] = IF c = n THEN e ELSE obj[l][c]
  <2>1. e \in Object /\ obj[l] \in Seq(Object) /\ n \in 1 .. Len(obj[l]) /\ n = Len(obj[l])
    BY <1>0, <1>4, <1>5
  <2> HIDE DEF t
  <2> QED
    BY <1>6, <2>1, ExceptSeq
<1>8. o \in Object /\ o.p = Raw /\ o.next = 0 /\ o.prev = n /\ o.live
  BY <1>4 DEF Object, Payload
<1> HIDE DEF t, o
<1>9. /\ obj' \in [Lists -> Seq(Object)] /\ N(l)' = n + 1 /\ obj'[l][n + 1] = o
      /\ \A c \in 1 .. n : obj'[l][c] = t[c]
      /\ \A k \in Lists : k # l => obj'[k] = obj[k]
  <2>1. TypeOK /\ l \in Lists /\ t \in Seq(Object) /\ Len(t) = N(l) /\ o \in Object
        /\ Made(l, t, o)
    BY <1>1, <1>3, <1>7, <1>8 DEF Made
  <2>2. /\ obj' \in [Lists -> Seq(Object)] /\ N(l)' = N(l) + 1 /\ obj'[l][N(l) + 1] = o
        /\ \A c \in 1 .. N(l) : obj'[l][c] = t[c]
        /\ \A k \in Lists : k # l => obj'[k] = obj[k]
    BY ONLY <2>1, ObjectNew
  <2> QED
    BY <1>3, <2>2
<1>10. HeapType' /\ first' = first /\ last' = last /\ failed' = failed /\ buf' = buf
  BY <1>1, <1>3, <1>9 DEF HeapType, TypeOK, io
<1>11. PICK c \in ContextType :
          Resume(c) /\ c = [Top EXCEPT !.pc = "add_last"]
          /\ c.pc = "add_last" /\ c.l = l /\ c.tmp = Top.tmp /\ c.p = Top.p
  BY <1>1, <1>2, AddGoto
<1>12. ASSUME NEW d \in 1 .. n
       PROVE  /\ d # n => obj'[l][d] = obj[l][d]
              /\ d = n => obj'[l][d] = e
              /\ obj[l][d].live /\ obj[l][d].prev = d - 1 /\ (d # n => obj[l][d].next = d + 1)
  <2>1. (d = n => obj'[l][d] = e) /\ (d # n => obj'[l][d] = obj[l][d])
    BY <1>7, <1>9
  <2>2. last[l] # 0
    BY <1>1
  <2>3. obj[l][d].live /\ obj[l][d].prev = d - 1 /\ (d < n => obj[l][d].next = d + 1)
    BY <1>3, <2>2 DEF Linked
  <2>4. d # n => d < n
    BY <1>4
  <2> QED
    BY <2>1, <2>3, <2>4
<1>13. \A d \in 1 .. n + 1 : d = n + 1 \/ (d \in 1 .. n /\ d # n + 1 /\ d < n + 1)
  BY <1>4
<1>14. ASSUME NEW d \in 1 .. n + 1
       PROVE  /\ obj'[l][d].live /\ obj'[l][d].prev = d - 1
              /\ (d < n + 1 => obj'[l][d].next = d + 1) /\ (d = n + 1 => obj'[l][d].next = 0)
  <2>1. CASE d = n + 1
    BY <1>4, <1>8, <1>9, <2>1
  <2>2. CASE d \in 1 .. n /\ d # n + 1
    <3>1. CASE d = n
      BY <1>4, <1>5, <1>12, <2>2, <3>1
    <3>2. CASE d # n
      BY <1>12, <2>2, <3>2
    <3> QED
      BY <3>1, <3>2
  <2> QED
    BY <1>13, <2>1, <2>2
<1>15. ASSUME M' = c
       PROVE  Linked(l)' /\ Behind(l)' /\ Cells(l)'
  <2>1. last[l] \in {n + 1, n + 1 - 1} /\ n + 1 # 0
    BY <1>4
  <2>2. Linked(l)'
    BY <1>4, <1>9, <1>10, <1>14, <2>1 DEF Linked
  <2>3. Behind(l)'
    BY <1>11, <1>15 DEF Behind, Unfinished, Adding
  <2>4. \A d \in 1 .. n + 1 : d - 1 \in Nat
    BY <1>4
  <2>5. Cells(l)'
    <3>1. ASSUME NEW d \in 1 .. N(l)'
          PROVE  obj'[l][d].next \in {-1, 0, d + 1} /\ obj'[l][d].prev \in Nat
      <4>1. d \in 1 .. n + 1
        BY <1>9
      <4>2. d = n + 1 \/ d < n + 1
        BY <1>13, <4>1
      <4>3. obj'[l][d].next \in {-1, 0, d + 1}
        BY <1>14, <4>1, <4>2
      <4>4. obj'[l][d].prev = d - 1 /\ d - 1 \in Nat
        BY <1>14, <2>4, <4>1
      <4> QED
        BY <4>3, <4>4
    <3>2. first'[l] = 1
      BY <1>4, <1>10
    <3> QED
      BY <3>1, <3>2 DEF Cells
  <2> QED
    BY <2>2, <2>3, <2>5
<1>16. l = "hosts" => N("hosts")' = n + 1 /\ N("hosts") = n /\ P(n + 1)' = Raw /\ (\A d \in 1 .. n : P(d)' = P(d))
  <2> SUFFICES ASSUME l = "hosts"
               PROVE  N("hosts")' = n + 1 /\ N("hosts") = n /\ P(n + 1)' = Raw /\ (\A d \in 1 .. n : P(d)' = P(d))
    OBVIOUS
  <2>1. N("hosts")' = n + 1 /\ N("hosts") = n /\ P(n + 1)' = Raw
    BY <1>3, <1>8, <1>9 DEF P
  <2>2. ASSUME NEW d \in 1 .. n
        PROVE  P(d)' = P(d)
    <3>1. CASE d = n
      BY <1>5, <1>12, <3>1 DEF P
    <3>2. CASE d # n
      BY <1>12, <3>2 DEF P
    <3> QED
      BY <3>1, <3>2
  <2> QED
    BY <2>1, <2>2
<1>17. l = "hosts" => \A d \in 1 .. n : P(d) \in Row
  <2>1. ~Half("hosts") \/ l # "hosts"
    BY <1>1 DEF Half
  <2> QED
    BY <1>1, <1>3, <1>16, <2>1, RowOrNull
<1>18. ASSUME l = "hosts", M' = c
       PROVE  RowsInv'
  <2>1. CellInv'
    BY <1>11, <1>13, <1>16, <1>17, <1>18 DEF CellInv, Filling
  <2>2. OneRow'
    BY <1>3, <1>13, <1>16, <1>18, Marks DEF OneRow, RowsInv
  <2> QED
    BY <2>1, <2>2 DEF RowsInv
<1>19. ASSUME Top' = c
       PROVE  MessageInv' /\ AddInv' /\ WalkInv' /\ ShowInv'
  <2>1. MessageInv' /\ WalkInv' /\ ShowInv'
    BY <1>2, <1>10, <1>11, <1>19, AddMessage
  <2>2. l = "hosts" => current = 0 /\ Top.p = SourceRow /\ Head(buf).pkt.type = "arp"
                       /\ NotUpTo(Head(buf).pkt.src, N("hosts"))
    BY <1>1, <1>2, <1>3 DEF AddInv, Half
  <2>3. SourceRow' = SourceRow /\ current' = current
    BY <1>1, <1>10 DEF SourceRow
  <2>4. l = "hosts" => NotUpTo(Head(buf).pkt.src, N("hosts"))'
    BY <1>10, <1>13, <1>16, <2>2, Marks DEF NotUpTo
  <2>5. n + 1 > 0 /\ n + 1 - 1 = n
    BY <1>4
  <2>6. AddInv'
    BY <1>8, <1>9, <1>10, <1>11, <1>19, <2>2, <2>3, <2>4, <2>5 DEF AddInv
  <2> QED
    BY <2>1, <2>6
<1>20. /\ N(l) <= N(l)' /\ (first'[l] = 0 => first[l] = 0) /\ failed' \in {failed, failed + 1}
       /\ \A k \in Lists : k # l => obj'[k] = obj[k] /\ first'[k] = first[k] /\ last'[k] = last[k]
       /\ (c.pc \in {"add_payload", "add_links"} => c.l = l /\ first'[l] = 1 /\ last'[l] = 0 /\ N(l)' = 1)
       /\ report' \in Seq(Row \cup {Raw})
  BY <1>1, <1>3, <1>4, <1>9, <1>10, <1>11
<1>21. l \in Lists /\ l = Top.l /\ c.pc \in AddPc \cup {"learn_show", "ports"} /\ UNCHANGED <<proc, io, current>>
  BY <1>1, <1>2, <1>3, <1>11
<1> QED
  BY <1>1, <1>2, <1>10, <1>11, <1>15, <1>18, <1>19, <1>20, <1>21, AddGoes

(* last points to the new object, and the list is whole again. *)
LEMMA AddLastKeeps ==
  ASSUME V1Inv, AddLast, NEW l, l = Top.l
  PROVE  V1Inv'
<1>1. /\ Top.pc = "add_last" /\ proc = "running" /\ Goto("fill")
      /\ last' = [last EXCEPT ![l] = Len(obj[l])]
      /\ UNCHANGED <<proc, io, first, obj, failed, current, report>>
  BY DEF AddLast, At, history
<1>2. Top.pc \in AddPc /\ "fill" \in AddPc
  BY <1>1 DEF AddPc, Adding
<1>3. /\ TypeOK /\ Linked(l) /\ Behind(l) /\ Cells(l) /\ l \in Lists /\ RowsInv /\ AddInv /\ M = Top /\ IoType
      /\ report \in Seq(Row \cup {Raw})
  BY <1>2, AddFacts
<1>4. /\ N(l) \in Nat /\ N(l) > 0 /\ obj[l][N(l)].p = Raw
      /\ obj[l][N(l)].next = 0 /\ obj[l][N(l)].prev = N(l) - 1
  BY <1>1, <1>3, ObjectFacts DEF AddInv
<1>5. /\ last' \in [Lists -> Nat] /\ last'[l] = N(l) /\ \A k \in Lists : k # l => last'[k] = last[k]
  <2>1. last \in [Lists -> Nat] /\ Len(obj[l]) = N(l)
    BY <1>3 DEF TypeOK, N
  <2> QED
    BY <1>1, <1>3, <1>4, <2>1
<1>6. HeapType' /\ first' = first /\ obj' = obj /\ failed' = failed /\ buf' = buf /\ N(l)' = N(l)
  BY <1>1, <1>3, <1>5 DEF HeapType, TypeOK, io, N
<1>7. PICK c \in ContextType :
          Resume(c) /\ c = [Top EXCEPT !.pc = "fill"]
          /\ c.pc = "fill" /\ c.l = l /\ c.tmp = Top.tmp /\ c.p = Top.p
  BY <1>1, <1>2, AddGoto
<1>8. \A d \in 1 .. N(l) : obj[l][d].prev = d - 1 /\ d - 1 # -1
  <2> TAKE d \in 1 .. N(l)
  <2>1. d - 1 # -1
    BY <1>4
  <2>2. CASE d = N(l)
    BY <1>4, <2>1, <2>2
  <2>3. CASE d # N(l)
    <3>1. last[l] = N(l) \/ last[l] = N(l) - 1
      BY <1>3 DEF Linked
    <3>2. last[l] # 0
      BY <1>4, <2>3, <3>1
    <3> QED
      BY <1>3, <2>1, <3>2 DEF Linked
  <2> QED
    BY <2>2, <2>3
<1>9. ASSUME M' = c
      PROVE  Linked(l)' /\ Behind(l)' /\ Cells(l)'
  <2>1. Linked(l)'
    BY <1>3, <1>4, <1>5, <1>6, <1>8 DEF Linked
  <2>2. Behind(l)'
    BY <1>5, <1>6 DEF Behind
  <2>3. Cells(l)'
    BY <1>3, <1>6, <1>8 DEF Cells
  <2> QED
    BY <2>1, <2>2, <2>3
<1>10. l = "hosts" => N("hosts")' = N("hosts") /\ (\A d : P(d)' = P(d)) /\ P(N("hosts")) = Raw
  BY <1>4, <1>6 DEF P
<1>11. ASSUME l = "hosts", M' = c
       PROVE  RowsInv'
  <2>1. \A d \in 1 .. N("hosts") : P(d) \in Row \/ (P(d) = Raw /\ d = N("hosts"))
    <3> TAKE d \in 1 .. N("hosts")
    <3>1. P(d) = NULL => d = N("hosts")
      <4>1. P(d) = NULL => N("hosts") = 1
        BY <1>3, CellCases
      <4> QED
        BY <4>1
    <3>2. P(d) # NULL
      BY <1>10, <1>11, <3>1, Marks
    <3>3. ~Filling({"add_payload"})
      BY <1>1, <1>3 DEF Filling
    <3> QED
      BY <1>3, <3>2, <3>3 DEF RowsInv, CellInv
  <2>2. CellInv'
    BY <1>7, <1>10, <1>11, <2>1 DEF CellInv, Filling
  <2>3. OneRow'
    BY <1>3, <1>10, <1>11 DEF OneRow, RowsInv
  <2> QED
    BY <2>2, <2>3 DEF RowsInv
<1>12. ASSUME Top' = c
       PROVE  MessageInv' /\ AddInv' /\ WalkInv' /\ ShowInv'
  <2>1. MessageInv' /\ WalkInv' /\ ShowInv'
    BY <1>2, <1>6, <1>7, <1>12, AddMessage
  <2>2. l = "hosts" => current = 0 /\ Top.p = SourceRow /\ Head(buf).pkt.type = "arp"
                       /\ NotUpTo(Head(buf).pkt.src, N("hosts"))
    BY <1>1, <1>2, <1>3 DEF AddInv
  <2>3. SourceRow' = SourceRow /\ current' = current
    BY <1>1, <1>6 DEF SourceRow
  <2>4. l = "hosts" => NotUpTo(Head(buf).pkt.src, N("hosts"))'
    BY <1>6, <1>10, <2>2 DEF NotUpTo
  <2>5. AddInv'
    BY <1>4, <1>5, <1>6, <1>7, <1>12, <2>2, <2>3, <2>4 DEF AddInv
  <2> QED
    BY <2>1, <2>5
<1>13. /\ N(l) <= N(l)' /\ (first'[l] = 0 => first[l] = 0) /\ failed' \in {failed, failed + 1}
       /\ \A k \in Lists : k # l => obj'[k] = obj[k] /\ first'[k] = first[k] /\ last'[k] = last[k]
       /\ (c.pc \in {"add_payload", "add_links"} => c.l = l /\ first'[l] = 1 /\ last'[l] = 0 /\ N(l)' = 1)
       /\ report' \in Seq(Row \cup {Raw})
  BY <1>1, <1>3, <1>4, <1>5, <1>6, <1>7
<1>14. l \in Lists /\ l = Top.l /\ c.pc \in AddPc \cup {"learn_show", "ports"} /\ UNCHANGED <<proc, io, current>>
  BY <1>1, <1>2, <1>3, <1>7
<1> QED
  BY <1>1, <1>2, <1>6, <1>7, <1>9, <1>11, <1>12, <1>13, <1>14, AddGoes

(* The caller of add_object goes on. *)
LEMMA ReturnStep ==
  ASSUME V1Inv, Top.pc \in AddPc, AddReturns, NEW l, l = Top.l
  PROVE  \E c \in ContextType :
           /\ Resume(c)
           /\ l = "hosts" => c.pc = "learn_show" /\ c.p = NULL
           /\ l = "ports" => c.pc = "ports" /\ c.l = "ports" /\ c.tmp = Top.tmp + 1
<1>1. Top \in ContextType /\ l \in Lists /\ Top.tmp \in Nat
  BY AddFacts DEF ContextType
<1>2. CASE l = "hosts"
  <2> DEFINE c == [Top EXCEPT !.pc = "learn_show", !.p = NULL]
  <2>1. c \in ContextType /\ c.pc = "learn_show" /\ c.p = NULL
    BY <1>1 DEF ContextType, Pc, Payload
  <2>2. Resume(c)
    BY <1>2 DEF AddReturns
  <2> QED
    BY <1>2, <2>1, <2>2
<1>3. CASE l = "ports"
  <2> DEFINE c == [Top EXCEPT !.pc = "ports", !.tmp = @ + 1]
  <2> DEFINE a == [Top EXCEPT !.pc = "ports"]
  <2>0. a \in ContextType /\ a.pc = "ports" /\ a.l = "ports" /\ a.tmp = Top.tmp
    BY <1>1, <1>3 DEF ContextType, Pc
  <2>a. c = [a EXCEPT !.tmp = a.tmp + 1]
    BY <2>0
  <2>1. c \in ContextType /\ c.pc = "ports" /\ c.l = "ports" /\ c.tmp = Top.tmp + 1
    <3> HIDE DEF a, c
    <3>1. Top.tmp + 1 \in Nat
      BY <1>1
    <3> QED
      BY <2>0, <2>a, <3>1 DEF ContextType
  <2>2. Resume(c)
    BY <1>3 DEF AddReturns
  <2> QED
    BY <1>3, <2>1, <2>2
<1> QED
  BY <1>1, <1>2, <1>3, InLists

(* Where main is then, the message is as before; hosts are shown anew. *)
LEMMA ReturnMain ==
  ASSUME V1Inv, Top.pc \in AddPc, NEW l, l = Top.l, buf' = buf,
         l = "hosts" => Top'.pc = "learn_show" /\ Top'.p = NULL /\ report' = <<>>
                        /\ (Half("hosts")' \/ current' = 0),
         l = "ports" => Top'.pc = "ports" /\ Top'.l = "ports" /\ Top'.tmp = Top.tmp + 1
  PROVE  MessageInv' /\ AddInv' /\ WalkInv' /\ ShowInv'
<1>1. /\ MessageInv /\ AddInv /\ buf # <<>> /\ Top \in ContextType /\ TypeOK /\ l \in Lists
  BY AddFacts
<1>2. CASE l = "hosts"
  <2>1. Head(buf).type = "data" /\ Head(buf).pkt.type = "arp"
    BY <1>1, <1>2 DEF MessageInv, AddInv
  <2>2. MessageInv' /\ AddInv'
    BY <1>1, <1>2, <2>1 DEF MessageInv, AddInv, AddPc, Adding
  <2>3. WalkInv'
    BY <1>2, <2>1 DEF WalkInv
  <2>4. ShowInv'
    BY <1>2, Marks DEF ShowInv
  <2> QED
    BY <2>2, <2>3, <2>4
<1>3. CASE l = "ports"
  <2>1. Head(buf).type = "features" /\ Top.tmp < Len(Head(buf).list)
    BY <1>1, <1>3 DEF MessageInv
  <2>2. Head(buf) \in V1Message
    BY <1>1, HeadTailProperties DEF TypeOK
  <2>3. Head(buf).list \in Seq(Nat)
    BY <2>1, <2>2 DEF V1Message
  <2>4. Len(Head(buf).list) \in Nat /\ Top.tmp \in Nat
    BY <1>1, <2>3, LenProperties DEF ContextType
  <2>5. Top.tmp + 1 <= Len(Head(buf).list)
    BY <2>1, <2>4
  <2>6. MessageInv'
    BY <1>1, <1>3, <2>1, <2>5 DEF MessageInv, AddPc, Adding, DataPc
  <2>7. AddInv' /\ WalkInv' /\ ShowInv'
    BY <1>3 DEF AddInv, WalkInv, ShowInv, AddPc, Adding
  <2> QED
    BY <2>6, <2>7
<1> QED
  BY <1>1, <1>2, <1>3, InLists

(* The caller writes the row, of a host that had none or of a port. *)
LEMMA FillKeeps ==
  ASSUME V1Inv, Fill, NEW l, l = Top.l
  PROVE  V1Inv'
<1>1. /\ Top.pc = "fill" /\ proc = "running" /\ AddReturns
      /\ obj' = [obj EXCEPT ![l][last[l]].p = Top.p]
      /\ report' = IF l = "hosts" THEN <<>> ELSE report
      /\ UNCHANGED <<proc, io, first, last, failed, current>>
  BY DEF Fill, At
<1>2. Top.pc \in AddPc
  BY <1>1 DEF AddPc
<1>3. /\ TypeOK /\ Linked(l) /\ Behind(l) /\ Cells(l) /\ l \in Lists /\ RowsInv /\ AddInv /\ M = Top /\ IoType
      /\ report \in Seq(Row \cup {Raw}) /\ Top \in ContextType
  BY <1>2, AddFacts
<1>4. PICK n \in Nat : n = N(l)
  BY <1>3, ObjectFacts
<1>5. last[l] = n /\ n > 0 /\ n \in 1 .. N(l) /\ obj[l][n] \in Object
  <2>1. last[l] = n /\ n > 0
    BY <1>1, <1>3, <1>4 DEF AddInv
  <2>2. n \in 1 .. N(l)
    BY <1>4, <2>1
  <2> QED
    BY <1>3, <2>1, <2>2, ObjectFacts
<1>a. PICK o \in Object : o = [obj[l][n] EXCEPT !.p = Top.p]
  BY <1>3, <1>5 DEF Object, ContextType
<1>6. o \in Object /\ o.p = Top.p /\ o.next = obj[l][n].next /\ o.prev = obj[l][n].prev /\ o.live = obj[l][n].live
  BY <1>3, <1>5, <1>a DEF Object, ContextType
<1>7. Written(l, n, o)
  BY <1>1, <1>5, <1>a DEF Written
<1>8. /\ obj' \in [Lists -> Seq(Object)] /\ N(l)' = n /\ obj'[l][n] = o
      /\ \A d \in 1 .. n : d # n => obj'[l][d] = obj[l][d]
      /\ \A k \in Lists : k # l => obj'[k] = obj[k]
  <2>1. TypeOK /\ l \in Lists /\ n \in 1 .. N(l) /\ o \in Object
    BY <1>3, <1>5, <1>6
  <2>2. /\ obj' \in [Lists -> Seq(Object)] /\ N(l)' = N(l) /\ obj'[l][n] = o
        /\ \A d \in 1 .. N(l) : d # n => obj'[l][d] = obj[l][d]
        /\ \A k \in Lists : k # l => obj'[k] = obj[k]
    BY ONLY <1>7, <2>1, ObjectSet
  <2> QED
    BY <1>4, <2>2
<1>9. HeapType' /\ first' = first /\ last' = last /\ failed' = failed /\ buf' = buf
  BY <1>1, <1>3, <1>8 DEF HeapType, TypeOK, io
<1>10. PICK c \in ContextType :
          /\ Resume(c)
          /\ l = "hosts" => c.pc = "learn_show" /\ c.p = NULL
          /\ l = "ports" => c.pc = "ports" /\ c.l = "ports" /\ c.tmp = Top.tmp + 1
  BY <1>1, <1>2, ReturnStep
<1>11. \A d \in 1 .. n : obj'[l][d].next = obj[l][d].next /\ obj'[l][d].prev = obj[l][d].prev
                         /\ obj'[l][d].live = obj[l][d].live /\ (d # n => obj'[l][d].p = obj[l][d].p)
  BY <1>6, <1>8
<1>12. Linked(l)' /\ Behind(l)' /\ Cells(l)'
  <2>0. \A d \in 1 .. n : obj'[l][d].live
    BY <1>3, <1>4, <1>11 DEF Linked
  <2>1. Linked(l)'
    <3>1. ASSUME NEW d \in 1 .. n
          PROVE  /\ d < n => obj'[l][d].next = d + 1
                 /\ d = n => obj'[l][d].next = 0 \/ (last[l] = 0 /\ obj'[l][d].next = -1)
                 /\ obj'[l][d].prev = d - 1 \/ (last[l] = 0 /\ obj'[l][d].prev = -1)
      BY <1>3, <1>4, <1>11 DEF Linked
    <3>2. first[l] = (IF n = 0 THEN 0 ELSE 1) /\ last[l] \in {n, n - 1}
      BY <1>3, <1>4 DEF Linked
    <3> QED
      BY <1>8, <1>9, <2>0, <3>1, <3>2 DEF Linked
  <2>2. Behind(l)'
    BY <1>5, <1>8, <1>9 DEF Behind
  <2>3. Cells(l)'
    <3>1. first[l] \in {0, 1}
      BY <1>3 DEF Cells
    <3>2. ASSUME NEW d \in 1 .. n
          PROVE  /\ obj'[l][d].next \in {-1, 0, d + 1}
                 /\ obj'[l][d].prev \in Nat \/ (obj'[l][d].prev = -1 /\ n = 1 /\ last[l] = 0)
      <4>1. /\ obj[l][d].next \in {-1, 0, d + 1}
            /\ obj[l][d].prev \in Nat \/ (obj[l][d].prev = -1 /\ n = 1 /\ last[l] = 0)
        BY <1>3, <1>4 DEF Cells
      <4>2. obj'[l][d].next = obj[l][d].next /\ obj'[l][d].prev = obj[l][d].prev
        BY <1>11
      <4> QED
        BY <4>1, <4>2
    <3>3. N(l)' = n /\ first' = first /\ last' = last
      BY <1>8, <1>9
    <3> QED
      BY ONLY <3>1, <3>2, <3>3 DEF Cells
  <2> QED
    BY <2>1, <2>2, <2>3
<1>13. ASSUME l = "hosts"
       PROVE  RowsInv' /\ current = 0
  <2>1. N("hosts")' = n /\ N("hosts") = n /\ P(n)' = Top.p /\ \A d \in 1 .. n : d # n => P(d)' = P(d)
    BY <1>4, <1>6, <1>8, <1>13 DEF P
  <2>2. /\ Top.p = SourceRow /\ NotUpTo(Head(buf).pkt.src, n) /\ Head(buf).type = "data" /\ current = 0
    BY <1>1, <1>2, <1>3, <1>4, <1>13, AddFacts DEF AddInv, MessageInv
  <2>3. SourceRow \in Row /\ SourceRow.mac = Head(buf).pkt.src
    <3>1. Head(buf) \in V1Message
      BY <1>2, <1>3, AddFacts, HeadTailProperties DEF TypeOK
    <3>2. Head(buf).pkt \in Packet /\ Head(buf).in_port \in Nat
      BY <2>2, <3>1 DEF V1Message
    <3> QED
      BY <3>2 DEF SourceRow, Row, Packet
  <2>4. \A d \in 1 .. n : d # n => P(d) \in Row
    <3> SUFFICES ASSUME NEW d \in 1 .. n, d # n
                 PROVE  P(d) \in Row
      OBVIOUS
    <3>1. ~Half("hosts")
      BY <1>5, <1>13 DEF Half
    <3>2. ~Filling({"add_payload"})
      BY <1>1, <1>3 DEF Filling
    <3> QED
      BY <1>3, <2>1, <3>1, <3>2 DEF RowsInv, CellInv
  <2>5. CellInv'
    BY <2>1, <2>2, <2>3, <2>4 DEF CellInv
  <2>6. OneRow'
    <3>1. \A d \in 1 .. n : d # n => P(d).mac # SourceRow.mac
      BY <2>2, <2>3, <2>4 DEF NotUpTo
    <3>2. \A d, e \in 1 .. n : P(d) \in Row /\ P(e) \in Row /\ P(d).mac = P(e).mac => d = e
      BY <1>3, <2>1 DEF RowsInv, OneRow
    <3> QED
      BY <2>1, <2>2, <2>3, <2>4, <3>1, <3>2 DEF OneRow
  <2> QED
    BY <2>2, <2>5, <2>6 DEF RowsInv
<1>14. ASSUME Top' = c
       PROVE  MessageInv' /\ AddInv' /\ WalkInv' /\ ShowInv'
  <2>1. l = "hosts" => Top'.pc = "learn_show" /\ Top'.p = NULL /\ report' = <<>>
                        /\ (Half("hosts")' \/ current' = 0)
    BY <1>1, <1>10, <1>13, <1>14
  <2>2. l = "ports" => Top'.pc = "ports" /\ Top'.l = "ports" /\ Top'.tmp = Top.tmp + 1
    BY <1>10, <1>14
  <2> QED
    BY <1>2, <1>9, <2>1, <2>2, ReturnMain
<1>15. /\ N(l) <= N(l)' /\ (first'[l] = 0 => first[l] = 0) /\ failed' \in {failed, failed + 1}
       /\ \A k \in Lists : k # l => obj'[k] = obj[k] /\ first'[k] = first[k] /\ last'[k] = last[k]
       /\ report' \in Seq(Row \cup {Raw})
  <2>1. <<>> \in Seq(Row \cup {Raw})
    BY EmptySeq
  <2> QED
    BY <1>1, <1>3, <1>4, <1>8, <1>9, <2>1
<1>16. /\ l \in Lists /\ l = Top.l /\ UNCHANGED <<proc, io, current>>
       /\ c.pc \in {"learn_show", "ports"}
  BY <1>1, <1>3, <1>10, InLists
<1> QED
  BY <1>1, <1>2, <1>9, <1>10, <1>12, <1>13, <1>14, <1>15, <1>16, AddGoes

(* An allocation failed; a first object without a payload stays as it is. *)
LEMMA AddFailsKeeps ==
  ASSUME V1Inv, AddFails, NEW l, l = Top.l
  PROVE  V1Inv'
<1>1. /\ Top.pc \in {"add", "add_payload"} /\ proc = "running" /\ AddReturns
      /\ obj' = IF Top.pc = "add" THEN obj ELSE [obj EXCEPT ![l][first[l]].p = NULL]
      /\ report' = IF l = "hosts" THEN <<>> ELSE report
      /\ failed' = failed + 1
      /\ UNCHANGED <<proc, io, first, last, current>>
  BY DEF AddFails, At
<1>2. Top.pc \in AddPc
  BY <1>1 DEF AddPc, Adding
<1>3. /\ TypeOK /\ Linked(l) /\ Behind(l) /\ Cells(l) /\ l \in Lists /\ RowsInv /\ WeakInv /\ AddInv /\ M = Top /\ IoType
      /\ report \in Seq(Row \cup {Raw}) /\ Top \in ContextType
  BY <1>2, AddFacts
<1>4. PICK n \in Nat : n = N(l)
  BY <1>3, ObjectFacts
<1>5. /\ obj' \in [Lists -> Seq(Object)] /\ N(l)' = n
      /\ \A k \in Lists : k # l => obj'[k] = obj[k]
      /\ \A d \in 1 .. n : obj'[l][d].next = obj[l][d].next /\ obj'[l][d].prev = obj[l][d].prev
                           /\ obj'[l][d].live = obj[l][d].live
      /\ Top.pc = "add" => obj' = obj
      /\ Top.pc = "add_payload" => first[l] = 1 /\ last[l] = 0 /\ n = 1 /\ obj'[l][1].p = NULL
  <2>1. CASE Top.pc = "add"
    BY <1>1, <1>3, <1>4, <2>1 DEF N, TypeOK
  <2>2. CASE Top.pc = "add_payload"
    <3>1. first[l] = 1 /\ last[l] = 0 /\ N(l) = 1 /\ n = 1 /\ 1 \in 1 .. N(l)
      BY <1>3, <1>4, <2>2 DEF WeakInv
    <3>2. obj[l][1] \in Object
      BY <1>3, <3>1, ObjectFacts
    <3>3. PICK o \in Object : o = [obj[l][1] EXCEPT !.p = NULL]
      BY <3>2 DEF Object, Payload
    <3>4. o.p = NULL /\ o.next = obj[l][1].next /\ o.prev = obj[l][1].prev /\ o.live = obj[l][1].live
      BY <3>2, <3>3 DEF Object
    <3>5. PICK i \in 1 .. N(l) : i = 1
      BY <3>1
    <3>6. Written(l, i, o)
      BY <1>1, <2>2, <3>1, <3>3, <3>5 DEF Written
    <3>7. /\ obj' \in [Lists -> Seq(Object)] /\ N(l)' = N(l) /\ obj'[l][i] = o
          /\ \A k \in Lists : k # l => obj'[k] = obj[k]
      <4>1. TypeOK /\ l \in Lists
        BY <1>3
      <4> QED
        BY ONLY <3>6, <4>1, ObjectSet
    <3> QED
      BY <2>2, <3>1, <3>4, <3>5, <3>7
  <2> QED
    BY <1>1, <2>1, <2>2
<1>6. HeapType' /\ first' = first /\ last' = last /\ failed' = failed + 1 /\ buf' = buf /\ failed' > 0
  <2>1. failed \in Nat
    BY <1>3 DEF TypeOK
  <2>2. failed' \in Nat /\ failed' > 0
    BY <1>1, <2>1
  <2> QED
    BY <1>1, <1>3, <1>5, <2>2 DEF HeapType, TypeOK, io
<1>7. PICK c \in ContextType :
          /\ Resume(c)
          /\ l = "hosts" => c.pc = "learn_show" /\ c.p = NULL
          /\ l = "ports" => c.pc = "ports" /\ c.l = "ports" /\ c.tmp = Top.tmp + 1
  BY <1>1, <1>2, ReturnStep
<1>8. Linked(l)' /\ Behind(l)' /\ Cells(l)'
  <2>0. \A d \in 1 .. n : obj'[l][d].live
    BY <1>3, <1>4, <1>5 DEF Linked
  <2>1. Linked(l)'
    <3>1. ASSUME NEW d \in 1 .. n
          PROVE  /\ d < n => obj'[l][d].next = d + 1
                 /\ d = n => obj'[l][d].next = 0 \/ (last[l] = 0 /\ obj'[l][d].next = -1)
                 /\ obj'[l][d].prev = d - 1 \/ (last[l] = 0 /\ obj'[l][d].prev = -1)
      <4>1. /\ d < n => obj[l][d].next = d + 1
            /\ d = n => obj[l][d].next = 0 \/ (last[l] = 0 /\ obj[l][d].next = -1)
            /\ obj[l][d].prev = d - 1 \/ (last[l] = 0 /\ obj[l][d].prev = -1)
        BY <1>3, <1>4 DEF Linked
      <4>2. obj'[l][d].next = obj[l][d].next /\ obj'[l][d].prev = obj[l][d].prev
        BY <1>5
      <4> QED
        BY <4>1, <4>2
    <3>2. first[l] = (IF n = 0 THEN 0 ELSE 1) /\ last[l] \in {n, n - 1}
      BY <1>3, <1>4 DEF Linked
    <3> QED
      BY <1>5, <1>6, <2>0, <3>1, <3>2 DEF Linked
  <2>2. Behind(l)'
    <3>1. ~Unfinished(l) \/ n = 1
      BY <1>1, <1>3, <1>5 DEF Unfinished, Adding
    <3> QED
      BY <1>3, <1>4, <1>5, <1>6, <3>1 DEF Behind
  <2>3. Cells(l)'
    <3>1. ASSUME NEW d \in 1 .. n
          PROVE  /\ obj'[l][d].next \in {-1, 0, d + 1}
                 /\ obj'[l][d].prev \in Nat \/ (obj'[l][d].prev = -1 /\ n = 1 /\ last[l] = 0)
      BY <1>3, <1>4, <1>5 DEF Cells
    <3>2. first[l] \in {0, 1}
      BY <1>3 DEF Cells
    <3> QED
      BY <1>5, <1>6, <3>1, <3>2 DEF Cells
  <2> QED
    BY <2>1, <2>2, <2>3
<1>9. l = "hosts" /\ Half("hosts") /\ Top.pc = "add" => Half("hosts")'
  BY <1>5, <1>6 DEF Half, N
<1>10. ASSUME l = "hosts"
       PROVE  RowsInv' /\ (current = 0 \/ Half("hosts")')
  <2>1. CASE Top.pc = "add"
    <3>1. N("hosts")' = N("hosts") /\ \A d : P(d)' = P(d)
      BY <1>5, <2>1 DEF N, P
    <3>2. \A d \in 1 .. N("hosts") : P(d) \in Row \/ (P(d) = NULL /\ Half("hosts"))
      BY <1>3, <2>1, RowOrNull
    <3>3. CellInv'
      BY <1>6, <1>9, <1>10, <2>1, <3>1, <3>2 DEF CellInv
    <3>4. OneRow'
      BY <1>3, <3>1 DEF RowsInv, OneRow
    <3>5. current = 0 \/ Half("hosts")
      BY <1>2, <1>3, <1>10 DEF AddInv
    <3> QED
      BY <1>9, <1>10, <2>1, <3>3, <3>4, <3>5 DEF RowsInv
  <2>2. CASE Top.pc = "add_payload"
    <3>1. N("hosts")' = 1 /\ P(1)' = NULL /\ first'["hosts"] = 1 /\ last'["hosts"] = 0
      BY <1>5, <1>6, <1>10, <2>2 DEF P
    <3>2. Half("hosts")'
      BY <1>6, <3>1 DEF Half
    <3>3. CellInv' /\ OneRow'
      BY <1>6, <3>1, <3>2 DEF CellInv, OneRow
    <3> QED
      BY <3>2, <3>3 DEF RowsInv
  <2> QED
    BY <1>1, <2>1, <2>2
<1>11. ASSUME Top' = c
       PROVE  MessageInv' /\ AddInv' /\ WalkInv' /\ ShowInv'
  <2>1. l = "hosts" => Top'.pc = "learn_show" /\ Top'.p = NULL /\ report' = <<>>
                        /\ (Half("hosts")' \/ current' = 0)
    BY <1>1, <1>7, <1>10, <1>11
  <2>2. l = "ports" => Top'.pc = "ports" /\ Top'.l = "ports" /\ Top'.tmp = Top.tmp + 1
    BY <1>7, <1>11
  <2> QED
    BY <1>2, <1>6, <2>1, <2>2, ReturnMain
<1>12. /\ N(l) <= N(l)' /\ (first'[l] = 0 => first[l] = 0) /\ failed' \in {failed, failed + 1}
       /\ \A k \in Lists : k # l => obj'[k] = obj[k] /\ first'[k] = first[k] /\ last'[k] = last[k]
       /\ report' \in Seq(Row \cup {Raw})
  <2>1. <<>> \in Seq(Row \cup {Raw})
    BY EmptySeq
  <2> QED
    BY <1>1, <1>3, <1>4, <1>5, <1>6, <2>1
<1>13. /\ l \in Lists /\ l = Top.l /\ UNCHANGED <<proc, io, current>>
       /\ c.pc \in {"learn_show", "ports"}
  BY <1>1, <1>3, <1>7, InLists
<1> QED
  BY <1>1, <1>2, <1>6, <1>7, <1>8, <1>10, <1>11, <1>12, <1>13, AddGoes

(* last is NULL in a list that is not empty only if it stayed half built. *)
LEMMA AddFaultsKeeps ==
  ASSUME V1Inv, AddFaults
  PROVE  V1Inv'
<1>1. Top.pc \in AddPc
  BY DEF AddFaults, At, AddPc
<1>2. Top.l \in Lists /\ HalfBuilt(Top.l)
  BY <1>1, AddFacts DEF AddFaults, At, AddInv, HalfBuilt
<1>3. proc' = "fault" /\ UNCHANGED <<stack, io, heap, current, report>> /\ report' \in Seq(Row \cup {Raw})
  BY <1>1, AddFacts DEF AddFaults, Fault, history
<1> QED
  BY <1>2, <1>3, FaultKeeps

----------------------------------------------------------------------------
(* free_list. *)

(* What holds while a list is freed. *)
LEMMA FreeFacts ==
  ASSUME V1Inv, Top.pc \in {"free"} \cup Freeing
  PROVE  /\ TypeOK /\ StackInv /\ HeapInv /\ WeakInv /\ RowsInv /\ IoType
         /\ Top \in ContextType /\ Top.l \in Lists /\ Top.pc \in Ending /\ Top.pc \in Busy
         /\ \A l \in Lists : Cells(l)
<1>1. TypeOK /\ StackInv /\ HeapInv /\ WeakInv /\ RowsInv
  BY DEF V1Inv
<1>2. Top.pc \in Ending /\ Top.pc \in Busy
  BY DEF Freeing, Ending, Busy
<1> QED
  BY <1>1, <1>2, TopFacts, TypeParts DEF WeakInv, ContextType

(* Where free_list goes on. *)
FreeTo(c, l) ==
    \/ c.pc \in Freeing /\ c.l = l
    \/ c.pc = "free" /\ c.l = "ports" /\ l = "hosts"
    \/ c.pc = "exit" /\ l = "ports"

(* A step of free_list. *)
LEMMA FreeGoes ==
  ASSUME V1Inv, proc = "running", Top.pc \in {"free"} \cup Freeing,
         UNCHANGED <<proc, io, failed, current, report>>,
         NEW l \in Lists, l = Top.l,
         NEW c \in ContextType, Resume(c), FreeTo(c, l),
         obj' \in [Lists -> Seq(Object)], first' \in [Lists -> Nat], last' \in [Lists -> Nat],
         \A k \in Lists : k # l => obj'[k] = obj[k] /\ first'[k] = first[k] /\ last'[k] = last[k],
         N(l)' = N(l), \A d \in 1 .. N(l) : obj'[l][d].p = obj[l][d].p,
         Cells(l)',
         Started(l) => first'[l] = first[l] /\ last'[l] = last[l],
         c.pc \in {"unlink", "delete", "clear_last"} => last'[l] # 0,
         c.pc = "delete" => c.tmp \in 1 .. N(l),
         c.pc = "clear_first" => ~Started(l),
         ~Torn /\ Top' = c => IF c.pc \in Freeing THEN Partly(l)' ELSE Gone(l)' /\ (Whole(l)' \/ Freed(l)')
  PROVE  V1Inv'
<1>1. /\ TypeOK /\ StackInv /\ HeapInv /\ WeakInv /\ RowsInv /\ IoType
      /\ Top.pc \in Ending /\ Top.pc \in Busy /\ \A k \in Lists : Cells(k)
  BY FreeFacts
<1>2. c.pc \in Ending /\ c.pc \in Busy
  BY DEF FreeTo, Freeing, Ending, Busy
<1>3. /\ stack' \in Seq(ContextType) /\ stack' # <<>> /\ Top' = c
      /\ (Torn' <=> Torn) /\ (Undisturbed' <=> Undisturbed) /\ StackInv'
  BY <1>1, <1>2, ResumeStack
<1>4. /\ \A k : (Unfinished(k)' <=> Unfinished(k)) /\ (Leak(k)' <=> Leak(k))
      /\ \A pcs : pcs \cap Ending = {} => (Filling(pcs)' <=> Filling(pcs))
      /\ M.pc \in Adding \/ M'.pc \in Adding => M' = M
  BY <1>1, <1>2, EndSame
<1>5. ASSUME NEW k \in Lists, k # l
      PROVE  /\ N(k)' = N(k) /\ first'[k] = first[k] /\ last'[k] = last[k] /\ obj'[k] = obj[k]
             /\ (Whole(k)' <=> Whole(k)) /\ (Freed(k)' <=> Freed(k)) /\ (Half(k)' <=> Half(k))
             /\ (Gone(k)' <=> Gone(k)) /\ (Cells(k)' <=> Cells(k))
  <2>1. N(k)' = N(k) /\ first'[k] = first[k] /\ last'[k] = last[k] /\ obj'[k] = obj[k]
    BY <1>5 DEF N
  <2>2. (Linked(k)' <=> Linked(k)) /\ (Cells(k)' <=> Cells(k))
    BY <2>1 DEF Linked, Cells
  <2>3. (Behind(k)' <=> Behind(k)) /\ (OnlyLeaked(k)' <=> OnlyLeaked(k)) /\ (Half(k)' <=> Half(k))
    BY <1>4, <2>1 DEF Behind, OnlyLeaked, Half
  <2> QED
    BY <2>1, <2>2, <2>3 DEF Whole, Freed, Gone
<1>6. N("hosts")' = N("hosts") /\ \A d \in 1 .. N("hosts") : P(d)' = P(d)
  <2>1. CASE l = "hosts"
    BY <2>1 DEF P
  <2>2. CASE l # "hosts"
    BY <1>5, <2>2, InLists DEF P
  <2> QED
    BY <2>1, <2>2
<1>7. HeapInv'
  <2> SUFFICES ASSUME ~Torn
               PROVE  /\ \A k \in Lists : ListInv(k)'
                      /\ c.pc = "exit" \/ c.l = "ports" => Gone("hosts")'
                      /\ c.pc = "exit" => Gone("ports")'
                      /\ current' \in 0 .. N("hosts")' /\ current' = 0
    BY <1>2, <1>3 DEF HeapInv
  <2>1. IF c.pc \in Freeing THEN Partly(l)' ELSE Gone(l)' /\ (Whole(l)' \/ Freed(l)')
    BY <1>3
  <2>2. current = 0 /\ current \in 0 .. N("hosts")
    BY <1>1 DEF HeapInv
  <2>3. l = "ports" => Gone("hosts")
    BY <1>1 DEF HeapInv
  <2>4. l = "ports" => Gone("hosts")'
    BY <1>5, <2>3, InLists
  <2>5. c.pc = "exit" \/ c.l = "ports" => Gone("hosts")'
    BY <2>1, <2>4 DEF FreeTo, Freeing
  <2>6. c.pc = "exit" => Gone("ports")'
    BY <2>1 DEF FreeTo, Freeing
  <2>7. ASSUME NEW k \in Lists
        PROVE  ListInv(k)'
    <3>1. CASE k # l
      <4>1. Whole(k) \/ Freed(k)
        BY <1>1, <3>1 DEF HeapInv, ListInv
      <4>2. ~(c.pc \in Freeing /\ c.l = k)
        BY <3>1 DEF FreeTo, Freeing
      <4> QED
        BY <1>3, <1>5, <3>1, <4>1, <4>2 DEF ListInv
    <3>2. CASE k = l /\ c.pc \in Freeing
      <4>1. c.l = l
        BY <3>2 DEF FreeTo, Freeing
      <4> QED
        BY <1>3, <2>1, <3>2, <4>1 DEF ListInv
    <3>3. CASE k = l /\ c.pc \notin Freeing
      BY <1>3, <2>1, <3>3 DEF ListInv
    <3> QED
      BY <3>1, <3>2, <3>3
  <2> QED
    BY <1>6, <2>2, <2>5, <2>6, <2>7
<1>8. WeakInv'
  <2>1. \A k \in Lists : Cells(k)'
    BY <1>1, <1>5
  <2>2. Started(l)' <=> Started(l)
    <3>1. "add_payload" \in Adding /\ "add_links" \in Adding
      BY DEF Adding
    <3> QED
      BY <1>4, <1>6, <3>1 DEF Started, P
  <2>3. ASSUME M'.pc \in {"add_payload", "add_links"}
        PROVE  first'[M'.l] = 1 /\ last'[M'.l] = 0 /\ N(M.l)' = 1
    <3>1. M' = M
      BY <1>4, <2>3 DEF Adding
    <3>2. first[M.l] = 1 /\ last[M.l] = 0 /\ N(M.l) = 1 /\ M.l \in Lists
      BY <1>1, <2>3, <3>1, TopFacts DEF WeakInv, ContextType
    <3>3. CASE M.l = l
      BY <2>3, <3>1, <3>2, <3>3 DEF Started, N
    <3>4. CASE M.l # l
      <4>1. PICK k \in Lists : k = M.l
        BY <3>2
      <4>2. N(k)' = N(k) /\ first'[k] = first[k] /\ last'[k] = last[k]
        BY <1>5, <3>4, <4>1
      <4> QED
        BY <3>1, <3>2, <4>1, <4>2 DEF N
    <3> QED
      BY <3>3, <3>4
  <2>4. /\ c.pc \in {"unlink", "delete", "clear_last"} => last'[c.l] # 0
        /\ c.pc = "delete" => c.tmp \in 1 .. N(c.l)'
        /\ c.pc = "clear_first" => ~Started(c.l)'
    <3>1. c.pc \in {"unlink", "delete", "clear_last", "clear_first"} => c.l = l
      BY DEF FreeTo, Freeing
    <3> QED
      BY <2>2, <3>1
  <2> QED
    BY <1>3, <2>1, <2>3, <2>4 DEF WeakInv
<1>9. RowsInv'
  <2>1. /\ Filling({"add_links", "add_last", "fill"})' <=> Filling({"add_links", "add_last", "fill"})
        /\ Filling({"add_payload"})' <=> Filling({"add_payload"})
    <3>1. {"add_links", "add_last", "fill"} \cap Ending = {} /\ {"add_payload"} \cap Ending = {}
      BY DEF Ending
    <3> QED
      BY <1>4, <3>1
  <2>2. ASSUME NEW d \in 1 .. N("hosts"), P(d) = NULL, Half("hosts")
        PROVE  Half("hosts")'
    <3>1. CASE l = "hosts"
      <4>1. first'[l] = first[l] /\ last'[l] = last[l]
        BY <2>2, <3>1 DEF Started, P
      <4> QED
        BY <1>4, <1>6, <2>2, <3>1, <4>1 DEF Half
    <3>2. CASE l # "hosts"
      BY <1>5, <2>2, <3>2, InLists
    <3> QED
      BY <3>1, <3>2
  <2>3. CellInv'
    BY <1>1, <1>6, <2>1, <2>2 DEF RowsInv, CellInv
  <2>4. OneRow'
    BY <1>1, <1>6 DEF RowsInv, OneRow
  <2> QED
    BY <2>3, <2>4 DEF RowsInv
<1>10. MainInv' /\ ShowInv'
  BY <1>2, <1>3 DEF MainInv, ShowInv, FreeTo, Freeing
<1>11. EndInv'
  BY EndQuiet
<1>12. TypeOK'
  BY <1>1, <1>3 DEF TypeOK, io
<1> QED
  BY <1>3, <1>7, <1>8, <1>9, <1>10, <1>11, <1>12 DEF V1Inv

(* A list that is freed was not half built. *)
LEMMA NotStarted ==
  ASSUME V1Inv, Top.pc \in {"free"} \cup Freeing, last[Top.l] # 0
  PROVE  ~Started(Top.l)
<1>1. WeakInv /\ RowsInv /\ Top.l \in Lists
  BY FreeFacts
<1>2. ~(M.l = Top.l /\ M.pc \in {"add_payload", "add_links"})
  BY <1>1 DEF WeakInv
<1>3. ASSUME Top.l = "hosts", NEW c \in 1 .. N("hosts"), P(c) = NULL
      PROVE  FALSE
  <2>1. ~Half("hosts")
    BY <1>3 DEF Half
  <2>2. ~Filling({"add_payload"})
    BY <1>2, <1>3 DEF Filling
  <2> QED
    BY <1>1, <1>3, <2>1, <2>2, Marks DEF RowsInv, CellInv
<1> QED
  BY <1>2, <1>3 DEF Started, P

(* FreeReturns goes on to the ports, or to the end. *)
LEMMA FreeReturnsStep ==
  ASSUME V1Inv, Top.pc \in {"free"} \cup Freeing, FreeReturns, NEW l, l = Top.l
  PROVE  \E c \in ContextType :
           Resume(c) /\ FreeTo(c, l) /\ c.pc \notin Freeing
<1>1. Top \in ContextType /\ l \in Lists
  BY FreeFacts
<1>2. CASE l = "hosts"
  <2>1. PICK c : c = [Top EXCEPT !.pc = "free", !.l = "ports"]
    OBVIOUS
  <2>2. c \in ContextType /\ c.pc = "free" /\ c.l = "ports"
    BY <1>1, <2>1 DEF ContextType, Pc, Ending, Lists
  <2>3. Resume(c)
    BY <1>2, <2>1 DEF FreeReturns
  <2> QED
    BY <1>2, <2>2, <2>3 DEF FreeTo, Freeing
<1>3. CASE l = "ports"
  <2>1. PICK c : c = [Top EXCEPT !.pc = "exit"]
    OBVIOUS
  <2>2. c \in ContextType /\ c.pc = "exit"
    BY <1>1, <2>1 DEF ContextType, Pc, Ending
  <2>3. Resume(c)
    BY <1>3, <2>1 DEF FreeReturns
  <2> QED
    BY <1>3, <2>2, <2>3 DEF FreeTo, Freeing
<1> QED
  BY <1>1, <1>2, <1>3, InLists

(* A context that goes on in the middle of free_list. *)
FreeAt(c, pc, tmp, prev) == [c EXCEPT !.pc = pc, !.tmp = tmp, !.prev = prev]

(* What such a context is. *)
LEMMA FreeContext ==
  ASSUME V1Inv, Top.pc \in {"free"} \cup Freeing, NEW pc \in Freeing, NEW tmp \in Nat, NEW prev \in Nat,
         NEW l, l = Top.l, NEW c, c = FreeAt(Top, pc, tmp, prev)
  PROVE  /\ c \in ContextType
         /\ c.pc = pc /\ c.l = l /\ c.tmp = tmp /\ c.prev = prev /\ FreeTo(c, l)
<1>1. PICK t \in ContextType : t = Top
  BY FreeFacts
<1>2. PICK a \in ContextType : a = [t EXCEPT !.pc = pc]
  BY DEF ContextType, Pc, Ending, Freeing
<1>a. PICK b \in ContextType : b = [a EXCEPT !.tmp = tmp]
  BY DEF ContextType
<1>b. PICK d \in ContextType : d = [b EXCEPT !.prev = prev]
  BY DEF ContextType
<1>3. c = d
  BY <1>1, <1>2, <1>a, <1>b DEF FreeAt
<1>4. c.pc = pc /\ c.l = l /\ c.tmp = tmp /\ c.prev = prev
  BY <1>1, <1>2, <1>3, <1>a, <1>b DEF ContextType
<1>5. FreeTo(c, l)
  BY <1>4 DEF FreeTo
<1> QED
  BY <1>1, <1>3, <1>4, <1>5

(* The objects and the pointers of the lists, unchanged but for one list. *)
LEMMA HeapSame ==
  ASSUME TypeOK, UNCHANGED heap, NEW l \in Lists, Cells(l)
  PROVE  /\ obj' \in [Lists -> Seq(Object)] /\ first' \in [Lists -> Nat] /\ last' \in [Lists -> Nat]
         /\ \A k \in Lists : k # l => obj'[k] = obj[k] /\ first'[k] = first[k] /\ last'[k] = last[k]
         /\ N(l)' = N(l) /\ \A d \in 1 .. N(l) : obj'[l][d].p = obj[l][d].p
         /\ Cells(l)' /\ first'[l] = first[l] /\ last'[l] = last[l] /\ UNCHANGED failed
BY SameHeap DEF TypeOK, heap

(* free_list begins at the last object, or is over at once. *)
LEMMA FreeListKeeps ==
  ASSUME V1Inv, FreeList, NEW l, l = Top.l
  PROVE  V1Inv'
<1>1. /\ Top.pc = "free" /\ Top.pc \in {"free"} \cup Freeing /\ proc = "running"
      /\ UNCHANGED <<proc, io, failed, current, report>> /\ UNCHANGED heap
  BY DEF FreeList, At, history, heap
<1>2. /\ TypeOK /\ StackInv /\ HeapInv /\ WeakInv /\ Top \in ContextType /\ l \in Lists /\ Cells(l)
      /\ Top.pc \in Ending
  BY <1>1, FreeFacts
<1>3. /\ obj' \in [Lists -> Seq(Object)] /\ first' \in [Lists -> Nat] /\ last' \in [Lists -> Nat]
      /\ \A k \in Lists : k # l => obj'[k] = obj[k] /\ first'[k] = first[k] /\ last'[k] = last[k]
      /\ N(l)' = N(l) /\ \A d \in 1 .. N(l) : obj'[l][d].p = obj[l][d].p
      /\ Cells(l)' /\ first'[l] = first[l] /\ last'[l] = last[l]
  BY <1>1, <1>2, HeapSame
<1>4. ~Torn => Whole(l) \/ Freed(l)
  BY <1>1, <1>2 DEF HeapInv, ListInv, Freeing
<1>5. N(l) \in Nat /\ last[l] \in Nat
  BY <1>2, ObjectFacts
<1>6. CASE last[l] = 0
  <2>1. PICK c \in ContextType : Resume(c) /\ FreeTo(c, l) /\ c.pc \notin Freeing
    <3>1. FreeReturns
      BY <1>6 DEF FreeList
    <3> QED
      BY <1>1, <3>1, FreeReturnsStep
  <2>2. ~Torn => Gone(l)
    <3>1. SUFFICES ASSUME ~Torn, Whole(l)
                   PROVE  Gone(l)
      BY <1>4 DEF Gone
    <3>2. last[l] \in {N(l), N(l) - 1} /\ first[l] = IF N(l) = 0 THEN 0 ELSE 1
      BY <3>1 DEF Whole, Linked
    <3>3. CASE N(l) = 0
      BY <1>6, <3>2, <3>3 DEF Gone, Freed, OnlyLeaked
    <3>4. CASE N(l) # 0
      <4>1. N(l) = 1 /\ first[l] = 1
        BY <1>5, <1>6, <3>2, <3>4
      <4>2. failed > 0 \/ Unfinished(l)
        BY <1>6, <3>1, <3>4 DEF Whole, Behind
      <4> QED
        BY <1>6, <4>1, <4>2 DEF Gone, Half
    <3> QED
      BY <3>3, <3>4
  <2>3. ~Torn => Gone(l)' /\ (Whole(l)' \/ Freed(l)')
    <3>1. (Unfinished(l)' <=> Unfinished(l)) /\ (Leak(l)' <=> Leak(l))
      <4>1. c.pc \in Ending
        BY <2>1 DEF FreeTo, Ending, Freeing
      <4> QED
        BY <1>2, <2>1, <4>1, EndSame
    <3>2. N(l)' = N(l) /\ (Linked(l)' <=> Linked(l)) /\ obj' = obj /\ failed' = failed
      BY <1>1, SameHeap
    <3>3. (Behind(l)' <=> Behind(l)) /\ (OnlyLeaked(l)' <=> OnlyLeaked(l)) /\ (Half(l)' <=> Half(l))
      BY <1>3, <3>1, <3>2 DEF Behind, OnlyLeaked, Half
    <3> QED
      BY <1>3, <1>4, <2>2, <3>2, <3>3 DEF Gone, Freed, Whole
  <2>4. /\ c.pc \notin {"unlink", "delete", "clear_last"} /\ c.pc # "delete" /\ c.pc # "clear_first"
    BY <2>1 DEF Freeing
  <2> QED
    BY <1>1, <1>2, <1>3, <2>1, <2>3, <2>4, FreeGoes
<1>7. CASE last[l] # 0
  <2>1. PICK n \in Nat : n = last[l]
    BY <1>5
  <2>2. PICK m \in Nat : m = Top.prev
    BY <1>2 DEF ContextType
  <2>a. PICK pc \in Freeing : pc = "unlink"
    BY DEF Freeing
  <2>b. PICK c : c = FreeAt(Top, pc, n, m)
    OBVIOUS
  <2>3. /\ c \in ContextType
        /\ c.pc = pc /\ c.l = l /\ c.tmp = n /\ c.prev = m /\ FreeTo(c, l)
    <3>1. V1Inv /\ Top.pc \in {"free"} \cup Freeing /\ pc \in Freeing /\ n \in Nat /\ m \in Nat /\ l = Top.l
      BY <1>1
    <3> QED
      BY ONLY <2>b, <3>1, FreeContext
  <2>4. Resume(c)
    <3>1. PICK t \in ContextType : t = Top
      BY <1>2
    <3>2. [t EXCEPT !.pc = pc, !.tmp = n, !.prev = m] = [t EXCEPT !.pc = "unlink", !.tmp = n]
      BY <2>2, <2>a, <3>1 DEF ContextType
    <3> QED
      BY <1>7, <2>1, <2>b, <3>1, <3>2 DEF FreeList, FreeAt
  <2>5. ASSUME ~Torn, Top' = c
        PROVE  Partly(l)'
    <3>1. Linked(l) /\ Behind(l)
      BY <1>4, <1>7, <2>5 DEF Whole, Freed
    <3>2. n \in {N(l), N(l) - 1} /\ n # 0 /\ n \in 1 .. N(l) /\ n \in 1 .. n
      BY <1>5, <1>7, <2>1, <3>1 DEF Linked
    <3>3. \A d \in 1 .. N(l) : obj[l][d].live /\ obj[l][d].prev = d - 1
      BY <1>7, <3>1 DEF Linked
    <3>4. n = N(l) \/ (n = N(l) - 1 /\ Leak(l))
      <4> SUFFICES ASSUME n # N(l)
                   PROVE  Leak(l)
        BY <3>2
      <4>1. N(l) # 1
        BY <1>5, <2>1, <3>2
      <4>2. Unfinished(l)
        BY <2>1, <3>1, <4>1 DEF Behind
      <4>3. M.pc \notin {"add_payload", "add_links"}
        BY <1>2, <1>7, <4>2 DEF WeakInv, Unfinished
      <4>4. M.pc = "add_last" /\ M.l = l
        BY <4>2, <4>3 DEF Unfinished, Adding
      <4>5. Len(stack) # 1 /\ Len(stack) \in Nat /\ Len(stack) >= 1
        BY <1>1, <1>2, <4>4, TopFacts
      <4>6. Len(stack) > 1
        <5>1. \A x \in Nat : x >= 1 /\ x # 1 => x > 1
          OBVIOUS
        <5> QED
          BY <4>5, <5>1
      <4> QED
        BY <4>4, <4>6 DEF Leak
    <3>5. Leak(l)' <=> Leak(l)
      <4>1. c.pc \in Ending
        BY <2>a, <2>3 DEF Ending
      <4> QED
        BY <1>2, <2>3, <2>4, <4>1, EndSame
    <3>6. obj' = obj /\ last' = last /\ N(l)' = N(l)
      BY <1>1, SameHeap
    <3>7. Backwards(l, n)'
      <4>1. \A d \in 1 .. n - 1 : d \in 1 .. N(l)
        BY <1>5, <3>2
      <4>2. \A d \in 1 .. N(l) : d <= n \/ d > n
        BY <1>5
      <4> QED
        BY <2>1, <3>2, <3>3, <3>6, <4>1, <4>2 DEF Backwards, LiveUpTo
    <3> QED
      BY <1>7, <2>1, <2>a, <2>3, <2>5, <3>2, <3>3, <3>4, <3>5, <3>6, <3>7
      DEF Partly, Backwards, LiveUpTo
  <2>6. c.pc \in Freeing /\ c.pc # "delete" /\ c.pc # "clear_first"
    BY <2>2, <2>a, <2>3
  <2> QED
    BY <1>1, <1>2, <1>3, <1>7, <2>3, <2>4, <2>5, <2>6, FreeGoes
<1> QED
  BY <1>6, <1>7

(* An object is unlinked; the one before it is kept in prev. *)
LEMMA FreeUnlinkKeeps ==
  ASSUME V1Inv, FreeUnlink, NEW l, l = Top.l
  PROVE  V1Inv'
<1>1. Top.pc = "unlink" /\ Top.pc \in Freeing /\ Top.pc \in {"free"} \cup Freeing /\ proc = "running"
  BY DEF FreeUnlink, At, Freeing
<1>2. /\ TypeOK /\ StackInv /\ HeapInv /\ WeakInv /\ Top \in ContextType /\ l \in Lists /\ Cells(l)
      /\ Top.pc \in Ending /\ last[l] # 0
  BY <1>1, FreeFacts DEF WeakInv
<1>3. ~Torn => Partly(l)
  BY <1>1, <1>2 DEF HeapInv, ListInv
<1>4. PICK t \in Nat : t = Top.tmp
  BY <1>2 DEF ContextType
<1>5. CASE ~Live(l, t)
  <2>1. Torn
    <3>1. ~Torn => t \in 1 .. last[l] /\ obj[l][t].live /\ last[l] \in {N(l), N(l) - 1}
      BY <1>1, <1>3, <1>4 DEF Partly, Backwards
    <3>2. N(l) \in Nat /\ last[l] \in Nat /\ DOMAIN obj[l] = 1 .. N(l)
      BY <1>2, ObjectFacts
    <3>3. ~Torn => t \in 1 .. N(l)
      BY <1>4, <3>1, <3>2
    <3> QED
      BY <1>5, <3>1, <3>2, <3>3 DEF Live
  <2>2. Fault
    BY <1>4, <1>5 DEF FreeUnlink
  <2>3. report \in Seq(Row \cup {Raw})
    BY <1>2 DEF TypeOK
  <2> QED
    BY <2>1, <2>2, <2>3, FaultKeeps DEF Fault, history
<1>6. CASE Live(l, t)
  <2>1. t \in 1 .. N(l) /\ obj[l][t] \in Object /\ obj[l][t].live
    BY <1>2, <1>6, ObjectFacts DEF Live
  <2>2. /\ obj' = [obj EXCEPT ![l][t].prev = 0, ![l][t].next = 0]
        /\ Resume([Top EXCEPT !.pc = "delete", !.prev = obj[l][t].prev])
        /\ UNCHANGED <<proc, io, first, last, failed, current, report>>
    BY <1>4, <1>6 DEF FreeUnlink, history
  <2>a. PICK z \in Int : z = 0
    OBVIOUS
  <2>3. PICK a \in Object : a = [obj[l][t] EXCEPT !.prev = z]
    BY <2>1 DEF Object
  <2>4. PICK o \in Object : o = [a EXCEPT !.next = z]
    BY DEF Object
  <2>5. o.p = obj[l][t].p /\ o.next = 0 /\ o.prev = 0 /\ o.live
    BY <2>1, <2>a, <2>3, <2>4 DEF Object
  <2>6. Written(l, t, o)
    <3>1. obj \in [Lists -> Seq(Object)] /\ obj[l] \in Seq(Object)
      BY <1>2 DEF TypeOK
    <3>2. [[obj[l] EXCEPT ![t].prev = 0] EXCEPT ![t].next = 0] = [obj[l] EXCEPT ![t] = o]
      BY <1>2, <2>1, <2>a, <2>3, <2>4, <3>1, ObjectFacts
    <3>3. obj' = [obj EXCEPT ![l] = [[obj[l] EXCEPT ![t].prev = 0] EXCEPT ![t].next = 0]]
      BY <1>2, <2>2, <3>1
    <3> QED
      BY <3>2, <3>3 DEF Written
  <2>7. /\ obj' \in [Lists -> Seq(Object)] /\ N(l)' = N(l) /\ obj'[l][t] = o
        /\ \A c \in 1 .. N(l) : c # t => obj'[l][c] = obj[l][c]
        /\ \A k \in Lists : k # l => obj'[k] = obj[k]
    <3>1. TypeOK /\ l \in Lists /\ t \in 1 .. N(l)
      BY <1>2, <2>1
    <3> QED
      BY ONLY <2>6, <3>1, ObjectSet
  <2>8. PICK q \in Nat : q = obj[l][t].prev
    BY <1>2, <2>1 DEF Cells
  <2>9. PICK pc \in Freeing : pc = "delete"
    BY DEF Freeing
  <2>10. PICK c : c = FreeAt(Top, pc, t, q)
    OBVIOUS
  <2>11. /\ c \in ContextType
         /\ c.pc = pc /\ c.l = l /\ c.tmp = t /\ c.prev = q /\ FreeTo(c, l)
    <3>1. V1Inv /\ Top.pc \in {"free"} \cup Freeing /\ pc \in Freeing /\ t \in Nat /\ q \in Nat /\ l = Top.l
      BY <1>1
    <3> QED
      BY ONLY <2>10, <3>1, FreeContext
  <2>12. Resume(c)
    <3>1. PICK d \in ContextType : d = Top
      BY <1>2
    <3>2. [d EXCEPT !.pc = pc, !.tmp = t, !.prev = q] = [d EXCEPT !.pc = "delete", !.prev = q]
      BY <1>4, <2>9, <3>1 DEF ContextType
    <3> QED
      BY <2>2, <2>8, <2>10, <3>1, <3>2 DEF FreeAt
  <2>13. \A d \in 1 .. N(l) : obj'[l][d].p = obj[l][d].p /\ obj'[l][d].live = obj[l][d].live
    <3>1. o.live = obj[l][t].live
      BY <2>1, <2>5 DEF Object
    <3> QED
      BY <2>5, <2>7, <3>1
  <2>14. Cells(l)'
    <3>1. ASSUME NEW d \in 1 .. N(l)
          PROVE  /\ obj'[l][d].next \in {-1, 0, d + 1}
                 /\ obj'[l][d].prev \in Nat \/ (obj'[l][d].prev = -1 /\ N(l) = 1 /\ last[l] = 0)
      <4>1. CASE d = t
        BY <2>5, <2>7, <4>1
      <4>2. CASE d # t
        BY <1>2, <2>7, <4>2 DEF Cells
      <4> QED
        BY <4>1, <4>2
    <3> QED
      BY <1>2, <2>2, <2>7, <3>1 DEF Cells
  <2>15. ASSUME ~Torn, Top' = c
         PROVE  Partly(l)'
    <3>1. Leak(l)' <=> Leak(l)
      <4>1. c.pc \in Ending
        BY <2>9, <2>11 DEF Ending
      <4> QED
        BY <1>2, <2>11, <2>12, <4>1, EndSame
    <3>2. /\ last[l] = N(l) \/ (last[l] = N(l) - 1 /\ Leak(l))
          /\ t \in 1 .. last[l] /\ LiveUpTo(l, t) /\ obj[l][t].live
          /\ \A d \in 1 .. t - 1 : obj[l][d].live /\ obj[l][d].prev = d - 1
          /\ obj[l][t].prev = t - 1
      BY <1>1, <1>3, <1>4, <2>15 DEF Partly, Backwards
    <3>3. \A d \in 1 .. t - 1 : d \in 1 .. N(l) /\ d # t
      <4>1. N(l) \in Nat
        BY <1>2, ObjectFacts
      <4> QED
        BY <2>1, <4>1
    <3>4. Backwards(l, t)'
      <4>1. \A d \in 1 .. t - 1 : obj'[l][d].live /\ obj'[l][d].prev = d - 1
        BY <2>7, <3>2, <3>3
      <4>2. LiveUpTo(l, t)'
        BY <2>2, <2>7, <2>13, <3>2 DEF LiveUpTo
      <4> QED
        BY <2>2, <2>5, <2>7, <3>2, <4>1, <4>2 DEF Backwards
    <3>5. Top'.pc = "delete" /\ Top'.tmp = t /\ Top'.prev = t - 1
      BY <2>8, <2>9, <2>11, <2>15, <3>2
    <3>6. last'[l] # 0 /\ (last'[l] = N(l)' \/ (last'[l] = N(l)' - 1 /\ Leak(l)'))
      BY <1>2, <2>2, <2>7, <3>1, <3>2
    <3> QED
      BY ONLY <3>4, <3>5, <3>6 DEF Partly, Backwards
  <2>16. /\ first' \in [Lists -> Nat] /\ last' \in [Lists -> Nat]
         /\ \A k \in Lists : k # l => obj'[k] = obj[k] /\ first'[k] = first[k] /\ last'[k] = last[k]
         /\ Started(l) => first'[l] = first[l] /\ last'[l] = last[l]
         /\ last'[l] # 0 /\ c.tmp \in 1 .. N(l) /\ c.pc # "clear_first" /\ c.pc \in Freeing
         /\ UNCHANGED <<proc, io, failed, current, report>>
    BY <1>2, <2>1, <2>2, <2>7, <2>9, <2>11 DEF TypeOK
  <2> QED
    BY <1>1, <1>2, <2>7, <2>11, <2>12, <2>13, <2>14, <2>15, <2>16, FreeGoes
<1> QED
  BY <1>5, <1>6

(* An object is freed: those before it are as they were. *)
LEMMA FreeDeleteKeeps ==
  ASSUME V1Inv, FreeDelete, NEW l, l = Top.l
  PROVE  V1Inv'
<1>1. Top.pc = "delete" /\ Top.pc \in Freeing /\ Top.pc \in {"free"} \cup Freeing /\ proc = "running"
  BY DEF FreeDelete, At, Freeing
<1>2. /\ TypeOK /\ StackInv /\ HeapInv /\ WeakInv /\ Top \in ContextType /\ l \in Lists /\ Cells(l)
      /\ Top.pc \in Ending /\ last[l] # 0
  BY <1>1, FreeFacts DEF WeakInv
<1>3. ~Torn => Partly(l)
  BY <1>1, <1>2 DEF HeapInv, ListInv
<1>4. PICK t \in 1 .. N(l) : t = Top.tmp
  BY <1>1, <1>2 DEF WeakInv
<1>5. PICK q \in Nat : q = Top.prev
  BY <1>2 DEF ContextType
<1>6. /\ obj' = [obj EXCEPT ![l][t].live = FALSE]
      /\ Resume([Top EXCEPT !.pc = IF q = 0 THEN "clear_last" ELSE "unlink", !.tmp = q])
      /\ UNCHANGED <<proc, io, first, last, failed, current, report>>
  BY <1>4, <1>5 DEF FreeDelete, history
<1>7. obj[l][t] \in Object /\ N(l) \in Nat
  BY <1>2, ObjectFacts
<1>8. PICK o \in Object : o = [obj[l][t] EXCEPT !.live = FALSE]
  BY <1>7 DEF Object
<1>9. o.p = obj[l][t].p /\ o.next = obj[l][t].next /\ o.prev = obj[l][t].prev /\ ~o.live
  BY <1>7, <1>8 DEF Object
<1>10. Written(l, t, o)
  BY <1>6, <1>8 DEF Written
<1>11. /\ obj' \in [Lists -> Seq(Object)] /\ N(l)' = N(l) /\ obj'[l][t] = o
       /\ \A c \in 1 .. N(l) : c # t => obj'[l][c] = obj[l][c]
       /\ \A k \in Lists : k # l => obj'[k] = obj[k]
  <2>1. TypeOK /\ l \in Lists /\ t \in 1 .. N(l)
    BY <1>2
  <2> QED
    BY ONLY <1>10, <2>1, ObjectSet
<1>12. PICK pc \in Freeing : pc = IF q = 0 THEN "clear_last" ELSE "unlink"
  BY DEF Freeing
<1>13. PICK c : c = FreeAt(Top, pc, q, q)
  OBVIOUS
<1>14. /\ c \in ContextType
       /\ c.pc = pc /\ c.l = l /\ c.tmp = q /\ c.prev = q /\ FreeTo(c, l)
  <2>1. V1Inv /\ Top.pc \in {"free"} \cup Freeing /\ pc \in Freeing /\ q \in Nat /\ l = Top.l
    BY <1>1
  <2> QED
    BY ONLY <1>13, <2>1, FreeContext
<1>15. Resume(c)
  <2>1. PICK d \in ContextType : d = Top
    BY <1>2
  <2>2. [d EXCEPT !.pc = pc, !.tmp = q, !.prev = q] = [d EXCEPT !.pc = pc, !.tmp = q]
    BY <1>5, <2>1 DEF ContextType
  <2> QED
    BY <1>6, <1>12, <1>13, <2>1, <2>2 DEF FreeAt
<1>16. \A d \in 1 .. N(l) : /\ obj'[l][d].p = obj[l][d].p
                            /\ obj'[l][d].next = obj[l][d].next /\ obj'[l][d].prev = obj[l][d].prev
  BY <1>9, <1>11
<1>17. Cells(l)'
  BY <1>2, <1>6, <1>11, <1>16 DEF Cells
<1>18. ASSUME ~Torn, Top' = c
       PROVE  Partly(l)'
  <2>1. Leak(l)' <=> Leak(l)
    <3>1. c.pc \in Ending
      BY <1>12, <1>14 DEF Ending
    <3> QED
      BY <1>2, <1>14, <1>15, <3>1, EndSame
  <2>2. /\ last[l] = N(l) \/ (last[l] = N(l) - 1 /\ Leak(l))
        /\ t \in 1 .. last[l] /\ LiveUpTo(l, t)
        /\ \A d \in 1 .. t - 1 : obj[l][d].live /\ obj[l][d].prev = d - 1
        /\ q = t - 1
    BY <1>1, <1>3, <1>4, <1>5, <1>18 DEF Partly, Backwards
  <2>3. last[l] \in Nat
    BY <1>2, ObjectFacts
  <2>4. LiveUpTo(l, q)'
    <3>1. ASSUME NEW d \in 1 .. N(l), obj'[l][d].live
          PROVE  d <= q \/ d > last[l]
      <4>1. d # t
        BY <1>9, <1>11, <3>1
      <4>2. d <= t \/ d > last[l]
        BY <1>11, <2>2, <3>1, <4>1 DEF LiveUpTo
      <4>3. d <= t => d <= q
        BY <2>2, <4>1
      <4> QED
        BY <4>2, <4>3
    <3> QED
      BY <1>6, <1>11, <3>1 DEF LiveUpTo
  <2>5. CASE q = 0
    <3>1. Top'.pc = "clear_last"
      BY <1>12, <1>14, <1>18, <2>5
    <3>2. LiveUpTo(l, 0)'
      BY <2>4, <2>5
    <3> QED
      BY <1>2, <1>6, <1>11, <2>1, <2>2, <3>1, <3>2 DEF Partly
  <2>6. CASE q # 0
    <3>1. Top'.pc = "unlink" /\ Top'.tmp = q
      BY <1>12, <1>14, <1>18, <2>6
    <3>2. /\ q \in 1 .. last[l] /\ q \in 1 .. t - 1
          /\ \A d \in 1 .. t - 1 : d \in 1 .. N(l) /\ d # t
          /\ \A d \in 1 .. q - 1 : d \in 1 .. t - 1
      BY <1>7, <2>2, <2>3, <2>6
    <3>3. \A d \in 1 .. t - 1 : obj'[l][d].live /\ obj'[l][d].prev = d - 1
      BY <1>11, <2>2, <3>2
    <3>4. Backwards(l, q)'
      BY <1>6, <2>4, <3>2, <3>3 DEF Backwards
    <3>5. obj'[l][q].prev = q - 1
      BY <3>2, <3>3
    <3>6. last'[l] # 0 /\ (last'[l] = N(l)' \/ (last'[l] = N(l)' - 1 /\ Leak(l)'))
      BY <1>2, <1>6, <1>11, <2>1, <2>2
    <3> QED
      BY ONLY <3>1, <3>4, <3>5, <3>6 DEF Partly, Backwards
  <2> QED
    BY <2>5, <2>6
<1>19. /\ first' \in [Lists -> Nat] /\ last' \in [Lists -> Nat]
       /\ \A k \in Lists : k # l => obj'[k] = obj[k] /\ first'[k] = first[k] /\ last'[k] = last[k]
       /\ Started(l) => first'[l] = first[l] /\ last'[l] = last[l]
       /\ last'[l] # 0 /\ c.pc # "delete" /\ c.pc # "clear_first" /\ c.pc \in Freeing
       /\ UNCHANGED <<proc, io, failed, current, report>>
  BY <1>2, <1>6, <1>11, <1>12, <1>14 DEF TypeOK
<1> QED
  BY <1>1, <1>2, <1>11, <1>14, <1>15, <1>16, <1>17, <1>18, <1>19, FreeGoes

(* All are freed, and last forgets them. *)
LEMMA FreeLastKeeps ==
  ASSUME V1Inv, FreeLast, NEW l, l = Top.l
  PROVE  V1Inv'
<1>1. /\ Top.pc = "clear_last" /\ Top.pc \in Freeing /\ Top.pc \in {"free"} \cup Freeing /\ proc = "running"
      /\ last' = [last EXCEPT ![l] = 0] /\ Goto("clear_first")
      /\ UNCHANGED <<proc, io, first, obj, failed, current, report>>
  BY DEF FreeLast, At, Freeing, history
<1>2. /\ TypeOK /\ StackInv /\ HeapInv /\ WeakInv /\ Top \in ContextType /\ l \in Lists /\ Cells(l)
      /\ Top.pc \in Ending /\ last[l] # 0
  BY <1>1, FreeFacts DEF WeakInv
<1>3. ~Torn => Partly(l)
  BY <1>1, <1>2 DEF HeapInv, ListInv
<1>4. ~Started(l)
  BY <1>1, <1>2, NotStarted
<1>5. N(l) \in Nat /\ N(l)' = N(l) /\ last[l] \in Nat
  BY <1>1, <1>2, ObjectFacts DEF N
<1>6. PICK c : c = [Top EXCEPT !.pc = "clear_first"]
  OBVIOUS
<1>7. c \in ContextType /\ c.pc = "clear_first" /\ c.l = l
  BY <1>2, <1>6 DEF ContextType, Pc, Ending
<1>8. Resume(c) /\ FreeTo(c, l) /\ c.pc \in Freeing /\ c.pc \in Ending
  BY <1>1, <1>6, <1>7 DEF Goto, FreeTo, Freeing, Ending
<1>9. /\ obj' \in [Lists -> Seq(Object)] /\ first' \in [Lists -> Nat] /\ last' \in [Lists -> Nat]
      /\ last'[l] = 0 /\ \A k \in Lists : k # l => last'[k] = last[k]
  BY <1>1, <1>2 DEF TypeOK
<1>10. Cells(l)'
  BY <1>1, <1>2, <1>5, <1>9 DEF Cells
<1>11. ASSUME ~Torn, Top' = c
       PROVE  Partly(l)'
  <2>1. Leak(l)' <=> Leak(l)
    BY <1>2, <1>7, <1>8, EndSame
  <2>2. /\ last[l] = N(l) \/ (last[l] = N(l) - 1 /\ Leak(l))
        /\ LiveUpTo(l, 0)
    BY <1>1, <1>3, <1>11 DEF Partly
  <2>3. OnlyLeaked(l)
    <3>1. ASSUME NEW d \in 1 .. N(l), obj[l][d].live
          PROVE  d = N(l) /\ Leak(l)
      <4>1. d <= 0 \/ d > last[l]
        BY <2>2, <3>1 DEF LiveUpTo
      <4>2. d > last[l]
        BY <1>5, <4>1
      <4>3. last[l] # N(l)
        BY <1>5, <4>2
      <4> QED
        BY <1>5, <2>2, <4>2, <4>3
    <3> QED
      BY <3>1 DEF OnlyLeaked
  <2>4. OnlyLeaked(l)'
    BY <1>1, <1>5, <2>1, <2>3 DEF OnlyLeaked
  <2> QED
    BY <1>7, <1>9, <1>11, <2>4 DEF Partly
<1>12. /\ \A k \in Lists : k # l => obj'[k] = obj[k] /\ first'[k] = first[k] /\ last'[k] = last[k]
       /\ \A d \in 1 .. N(l) : obj'[l][d].p = obj[l][d].p
       /\ c.pc \notin {"unlink", "delete", "clear_last"} /\ c.pc # "delete"
       /\ UNCHANGED <<proc, io, failed, current, report>>
  BY <1>1, <1>7, <1>9
<1> QED
  BY <1>1, <1>2, <1>4, <1>5, <1>7, <1>8, <1>9, <1>10, <1>11, <1>12, FreeGoes

(* first forgets them, and the next list is freed or the program ends. *)
LEMMA FreeFirstKeeps ==
  ASSUME V1Inv, FreeFirst, NEW l, l = Top.l
  PROVE  V1Inv'
<1>1. /\ Top.pc = "clear_first" /\ Top.pc \in Freeing /\ Top.pc \in {"free"} \cup Freeing /\ proc = "running"
      /\ first' = [first EXCEPT ![l] = 0] /\ FreeReturns
      /\ UNCHANGED <<proc, io, last, obj, failed, current, report>>
  BY DEF FreeFirst, At, Freeing, history
<1>2. /\ TypeOK /\ StackInv /\ HeapInv /\ WeakInv /\ Top \in ContextType /\ l \in Lists /\ Cells(l)
      /\ Top.pc \in Ending /\ ~Started(l)
  BY <1>1, FreeFacts DEF WeakInv
<1>3. ~Torn => Partly(l)
  BY <1>1, <1>2 DEF HeapInv, ListInv
<1>4. N(l)' = N(l)
  BY <1>1 DEF N
<1>5. PICK c \in ContextType : Resume(c) /\ FreeTo(c, l) /\ c.pc \notin Freeing
  BY <1>1, FreeReturnsStep
<1>6. /\ obj' \in [Lists -> Seq(Object)] /\ first' \in [Lists -> Nat] /\ last' \in [Lists -> Nat]
      /\ first'[l] = 0 /\ \A k \in Lists : k # l => first'[k] = first[k]
  BY <1>1, <1>2 DEF TypeOK
<1>7. Cells(l)'
  BY <1>1, <1>2, <1>4, <1>6 DEF Cells
<1>8. ASSUME ~Torn, Top' = c
      PROVE  Freed(l)'
  <2>1. Leak(l)' <=> Leak(l)
    <3>1. c.pc \in Ending
      BY <1>5 DEF FreeTo, Ending
    <3> QED
      BY <1>2, <1>5, <3>1, EndSame
  <2>2. last[l] = 0 /\ OnlyLeaked(l)
    BY <1>1, <1>3, <1>8 DEF Partly
  <2> QED
    BY <1>1, <1>4, <1>6, <2>1, <2>2 DEF Freed, OnlyLeaked
<1>9. ~Torn /\ Top' = c => Gone(l)' /\ (Whole(l)' \/ Freed(l)')
  BY <1>8 DEF Gone
<1>10. /\ \A k \in Lists : k # l => obj'[k] = obj[k] /\ first'[k] = first[k] /\ last'[k] = last[k]
       /\ \A d \in 1 .. N(l) : obj'[l][d].p = obj[l][d].p
       /\ c.pc \notin {"unlink", "delete", "clear_last"} /\ c.pc # "delete" /\ c.pc # "clear_first"
       /\ UNCHANGED <<proc, io, failed, current, report>>
  BY <1>1, <1>5, <1>6 DEF Freeing
<1> QED
  BY <1>1, <1>2, <1>4, <1>5, <1>6, <1>7, <1>9, <1>10, FreeGoes

----------------------------------------------------------------------------
(* Signals, the end, and every step. *)

(* A handler starts above the context it interrupts. *)
LEMMA SignalStack ==
  ASSUME TypeOK, NEW s \in Signals,
         stack' = [stack EXCEPT ![Len(stack)] = [Context(@.sig, @.pc) EXCEPT !.l = Top.l]]
                     \o <<Context(s, "show")>>
  PROVE  /\ stack' \in Seq(ContextType) /\ stack' # <<>>
         /\ Top' = Context(s, "show") /\ M'.pc = M.pc /\ M'.l = M.l /\ Len(stack') > 1
         /\ StackInv => StackInv'
         /\ Torn' <=> Torn \/ Top.pc \in Freeing
         /\ Undisturbed' <=> Undisturbed /\ Top.pc \notin Ending
<1>1. /\ stack \in Seq(ContextType) /\ Len(stack) \in Nat /\ Len(stack) >= 1 /\ Top \in ContextType
      /\ Len(stack) \in 1 .. Len(stack) /\ \A i \in 1 .. Len(stack) : stack[i] \in ContextType
  BY TopFacts DEF TypeOK
<1>2. PICK n \in Nat : n = Len(stack)
  BY <1>1
<1>3. PICK d : d = [Context(Top.sig, Top.pc) EXCEPT !.l = Top.l]
  OBVIOUS
<1>4. d \in ContextType /\ d.pc = Top.pc /\ d.l = Top.l
  <2>1. d = [sig |-> Top.sig, pc |-> Top.pc, l |-> Top.l, tmp |-> 0, prev |-> 0, p |-> NULL]
    BY <1>3 DEF Context
  <2> QED
    BY <1>1, <2>1 DEF ContextType, Payload
<1>5. PICK e : e = Context(s, "show")
  OBVIOUS
<1>6. e \in ContextType /\ e.pc = "show"
  BY <1>5 DEF Context, ContextType, Pc, Ending, Lists, Payload
<1>7. PICK t : t = [stack EXCEPT ![n] = d]
  OBVIOUS
<1>8. t \in Seq(ContextType) /\ Len(t) = n /\ \A i \in 1 .. n : t[i] = IF i = n THEN d ELSE stack[i]
  <2>1. stack \in Seq(ContextType) /\ n \in 1 .. Len(stack) /\ d \in ContextType
    BY <1>1, <1>2, <1>4
  <2>2. /\ t \in Seq(ContextType) /\ Len(t) = Len(stack)
        /\ \A i \in 1 .. Len(stack) : t[i] = IF i = n THEN d ELSE stack[i]
    BY <1>7, <2>1, ExceptSeq
  <2> QED
    BY <1>2, <2>2
<1>9. stack' = t \o <<e>>
  <2>1. stack[Len(stack)] = Top
    BY DEF Top
  <2>2. [stack EXCEPT ![Len(stack)] = [Context(@.sig, @.pc) EXCEPT !.l = Top.l]] = t
    BY <1>2, <1>3, <1>7, <2>1
  <2> QED
    BY <1>5, <2>2
<1>10. <<e>> \in Seq(ContextType) /\ Len(<<e>>) = 1 /\ <<e>>[1] = e
  BY <1>6
<1>11. /\ stack' \in Seq(ContextType) /\ Len(stack') = n + 1
       /\ \A i \in 1 .. n + 1 : stack'[i] = IF i <= n THEN t[i] ELSE <<e>>[i - n]
  <2>1. PICK u \in Seq(ContextType) : u = <<e>>
    BY <1>10
  <2>2. /\ t \o u \in Seq(ContextType) /\ Len(t \o u) = Len(t) + Len(u)
        /\ \A i \in 1 .. Len(t) + Len(u) : (t \o u)[i] = IF i <= Len(t) THEN t[i] ELSE u[i - Len(t)]
    BY <1>8, ConcatProperties
  <2> QED
    BY <1>8, <1>9, <1>10, <2>1, <2>2
<1>12. stack'[n + 1] = e /\ \A i \in 1 .. n : stack'[i] = IF i = n THEN d ELSE stack[i]
  <2>1. n + 1 \in 1 .. n + 1 /\ ~(n + 1 <= n) /\ n + 1 - n = 1
    OBVIOUS
  <2>2. \A i \in 1 .. n : i \in 1 .. n + 1 /\ i <= n
    OBVIOUS
  <2>3. stack'[n + 1] = e
    BY <1>10, <1>11, <2>1
  <2>4. \A i \in 1 .. n : stack'[i] = t[i]
    BY <1>11, <2>2
  <2> QED
    BY <1>8, <2>3, <2>4
<1>13. Top' = e /\ Len(stack') > 1
  <2>1. n + 1 > 1
    BY <1>1, <1>2
  <2> QED
    BY <1>11, <1>12, <2>1 DEF Top
<1>14. M'.pc = M.pc /\ M'.l = M.l
  <2>1. 1 \in 1 .. n
    BY <1>1, <1>2
  <2>2. M' = stack'[1] /\ Top = stack[n]
    BY <1>2 DEF M, Top
  <2> QED
    BY <1>4, <1>12, <2>1, <2>2 DEF M
<1>15. Lower' = 1 .. n /\ Lower = 1 .. n - 1 /\ n \in 1 .. n /\ Top = stack[n]
       /\ \A i \in 1 .. n : i # n => i \in 1 .. n - 1
  <2>1. n + 1 - 1 = n /\ n \in 1 .. n /\ \A i \in 1 .. n : i # n => i \in 1 .. n - 1
    BY <1>1, <1>2
  <2> QED
    BY <1>2, <1>11, <2>1 DEF Lower, Top
<1>16. \A i \in 1 .. n : stack'[i].pc = stack[i].pc
  BY <1>4, <1>12, <1>15
<1>17. \A i \in 1 .. n - 1 : i \in 1 .. n
  OBVIOUS
<1>18. Torn' <=> Torn \/ Top.pc \in Freeing
  BY <1>15, <1>16, <1>17 DEF Torn
<1>19. Undisturbed' <=> Undisturbed /\ Top.pc \notin Ending
  BY <1>15, <1>16, <1>17 DEF Undisturbed
<1>20. ASSUME StackInv
       PROVE  StackInv'
  <2>1. ASSUME NEW i \in 2 .. n + 1
        PROVE  stack'[i].pc \in Ending
    <3>1. CASE i = n + 1
      BY <1>6, <1>12, <3>1 DEF Ending
    <3>2. CASE i # n + 1
      <4>1. i \in 1 .. n /\ i \in 2 .. Len(stack)
        BY <1>2, <3>2
      <4> QED
        BY <1>16, <1>20, <4>1 DEF StackInv
    <3> QED
      BY <3>1, <3>2
  <2> QED
    BY <1>11, <2>1 DEF StackInv
<1>21. stack' # <<>>
  <2>1. n + 1 # 0
    BY <1>1, <1>2
  <2> QED
    BY <1>11, <2>1, EmptySeq
<1> QED
  BY <1>5, <1>11, <1>13, <1>14, <1>18, <1>19, <1>20, <1>21

(* exit_handler interrupts main, or the other handler, wherever it is; from *)
(* then on the place main is at tells what is wrong with its lists.         *)
LEMMA SignalKeeps ==
  ASSUME V1Inv, NEW s \in Signals, Signal(s)
  PROVE  V1Inv'
<1>1. proc = "running" /\ UNCHANGED <<spent, heap, current>>
  BY DEF Signal
<1>2. CASE Default(s)
  <2>1. proc' = "killed" /\ UNCHANGED <<stack, sock, peer, inq, buf, write_buffer_len, report>>
    BY <1>2 DEF Signal, history
  <2> QED
    BY <1>1, <2>1, KillKeeps
<1>3. CASE ~Default(s)
  <2>1. /\ stack' = [stack EXCEPT ![Len(stack)] = [Context(@.sig, @.pc) EXCEPT !.l = Top.l]]
                         \o <<Context(s, "show")>>
        /\ sock' = "closed" /\ peer' = "gone" /\ inq' = <<>>
        /\ report' = IF Top.pc \in Ending THEN report ELSE <<>>
        /\ buf' = <<>> /\ write_buffer_len' = 0
        /\ proc' = proc
    BY <1>3 DEF Signal
  <2>2. TypeOK /\ StackInv /\ HeapInv /\ WeakInv /\ RowsInv
    BY DEF V1Inv
  <2>3. /\ stack' \in Seq(ContextType) /\ stack' # <<>>
        /\ Top' = Context(s, "show") /\ M'.pc = M.pc /\ M'.l = M.l /\ Len(stack') > 1
        /\ StackInv'
        /\ Torn' <=> Torn \/ Top.pc \in Freeing
        /\ Undisturbed' <=> Undisturbed /\ Top.pc \notin Ending
    BY <2>1, <2>2, SignalStack
  <2>4. Top'.pc = "show" /\ Top'.p = NULL /\ Top'.l = "hosts"
    BY <2>3 DEF Context
  <2>5. /\ \A l : N(l)' = N(l) /\ (Linked(l)' <=> Linked(l)) /\ (Cells(l)' <=> Cells(l))
        /\ \A k : P(k)' = P(k)
        /\ (OneRow' <=> OneRow)
        /\ first' = first /\ last' = last /\ obj' = obj /\ failed' = failed
    BY <1>1, SameHeap
  <2>6. \A l : /\ (Unfinished(l)' <=> Unfinished(l)) /\ (Leak(l) => Leak(l)')
    BY <2>3 DEF Unfinished, Leak
  <2>7. \A l : (Whole(l) => Whole(l)') /\ (Freed(l) => Freed(l)') /\ (Half(l) => Half(l)')
    <3>1. \A l : (Behind(l) => Behind(l)') /\ (OnlyLeaked(l) => OnlyLeaked(l)') /\ (Half(l) => Half(l)')
      BY <2>5, <2>6 DEF Behind, OnlyLeaked, Half
    <3> QED
      BY <2>5, <3>1 DEF Whole, Freed
  <2>8. HeapInv'
    <3> SUFFICES ASSUME ~Torn, Top.pc \notin Freeing
                 PROVE  /\ \A l \in Lists : Whole(l)' \/ Freed(l)'
                        /\ Undisturbed' => \A l \in Lists : Whole(l)'
                        /\ current \in 0 .. N("hosts")
                        /\ first["hosts"] = 0 => current = 0
      BY <1>1, <2>3, <2>4, <2>5 DEF HeapInv, ListInv, Busy, Freeing
    <3>1. \A l \in Lists : Whole(l) \/ Freed(l)
      BY <2>2 DEF HeapInv, ListInv
    <3>2. Undisturbed' => \A l \in Lists : Whole(l)
      <4>1. Busy \subseteq Ending
        BY DEF Busy, Freeing, Ending
      <4> QED
        BY <2>2, <2>3, <4>1 DEF HeapInv
    <3> QED
      BY <2>2, <2>7, <3>1, <3>2 DEF HeapInv
  <2>9. WeakInv'
    BY <2>2, <2>3, <2>4, <2>5 DEF WeakInv
  <2>10. RowsInv'
    <3>1. \A pcs : Filling(pcs) => Filling(pcs)'
      BY <2>3 DEF Filling
    <3>2. CellInv'
      BY <2>2, <2>5, <2>7, <3>1 DEF RowsInv, CellInv
    <3> QED
      BY <2>2, <2>5, <3>2 DEF RowsInv
  <2>11. MainInv'
    BY <2>4 DEF MainInv, Ending
  <2>12. ShowInv'
    BY <2>1, <2>3, <2>4, Marks DEF ShowInv
  <2>13. EndInv'
    BY <1>1, <2>1, EndQuiet
  <2>14. TypeOK'
    <3>1. <<>> \in Seq(V1Message) /\ <<>> \in Seq(Row \cup {Raw})
      BY EmptySeq
    <3> QED
      BY <1>1, <2>1, <2>2, <2>3, <3>1 DEF TypeOK, heap
  <2> QED
    BY <2>3, <2>8, <2>9, <2>10, <2>11, <2>12, <2>13, <2>14 DEF V1Inv
<1> QED
  BY <1>2, <1>3

(* The program ends: nothing runs any more. *)
LEMMA ExitKeeps ==
  ASSUME V1Inv, Exit
  PROVE  V1Inv'
<1>1. /\ Top.pc = "exit" /\ proc = "running" /\ proc' = "ended"
      /\ sock' = (IF sock = "open" THEN "closed" ELSE sock)
      /\ UNCHANGED <<stack, peer, inq, spent, buf, write_buffer_len, heap, current, report>>
  BY DEF Exit, At, history
<1>2. TypeOK
  BY DEF V1Inv
<1>3. StackInv' /\ HeapInv' /\ WeakInv' /\ RowsInv' /\ MainInv' /\ ShowInv'
  BY <1>1, Stays
<1>4. Top' = Top
  BY <1>1 DEF Top
<1>5. sock' \in {"none", "closed"}
  BY <1>1, <1>2 DEF TypeOK
<1>6. EndInv'
  BY <1>1, <1>4, <1>5 DEF EndInv, FaultOnlyWhenTorn
<1>7. TypeOK'
  BY <1>1, <1>2, <1>5 DEF TypeOK, heap
<1> QED
  BY <1>3, <1>6, <1>7 DEF V1Inv

(* The switch sends, or dies. *)
LEMMA SwitchKeeps ==
  ASSUME V1Inv, (\E m \in Traffic : SwitchSends(m)) \/ SwitchDies
  PROVE  V1Inv'
<1>1. /\ proc = "running" /\ UNCHANGED <<proc, stack, sock, buf, write_buffer_len, heap, current, report>>
  BY DEF SwitchSends, SwitchDies, At, history
<1>2. TypeOK
  BY DEF V1Inv
<1>3. StackInv' /\ HeapInv' /\ WeakInv' /\ RowsInv' /\ MainInv' /\ ShowInv'
  BY <1>1, Stays
<1>4. peer' \in {"none", "open", "gone"} /\ inq' \in Seq(V1Message) /\ spent' \in Nat
  <2>1. CASE SwitchDies
    BY <1>2, <2>1 DEF SwitchDies, TypeOK
  <2>2. CASE \E m \in Traffic : SwitchSends(m)
    <3>1. PICK m \in V1Message : inq' = Append(inq, m) /\ spent' = spent + 1 /\ peer' = peer
      BY <2>2, V1Assumption DEF SwitchSends
    <3>2. inq \in Seq(V1Message) /\ spent \in Nat /\ peer \in {"none", "open", "gone"}
      BY <1>2 DEF TypeOK
    <3> QED
      BY <3>1, <3>2, AppendProperties
  <2> QED
    BY <2>1, <2>2
<1>5. EndInv'
  BY <1>1, EndQuiet
<1>6. TypeOK'
  BY <1>1, <1>2, <1>4 DEF TypeOK, heap
<1> QED
  BY <1>3, <1>5, <1>6 DEF V1Inv

(* A step of nothing keeps the invariant. *)
LEMMA StutterKeeps ==
  ASSUME V1Inv, UNCHANGED vars
  PROVE  V1Inv'
<1>1. /\ UNCHANGED <<proc, stack, io, heap, current, history>>
  BY DEF vars
<1>2. UNCHANGED buf /\ report' = report
  BY <1>1 DEF io, history
<1>3. StackInv' /\ HeapInv' /\ WeakInv' /\ RowsInv' /\ MainInv' /\ ShowInv'
  BY <1>1, <1>2, Stays
<1>4. EndInv'
  BY <1>1 DEF V1Inv, EndInv, FaultOnlyWhenTorn, HalfBuilt, Top, io, heap
<1>5. TypeOK'
  BY <1>1 DEF V1Inv, TypeOK, io, heap, history
<1> QED
  BY <1>3, <1>4, <1>5 DEF V1Inv

(* The lists are empty at first, so that the invariant holds. *)
LEMMA V1Starts == Init => V1Inv
<1> SUFFICES ASSUME Init PROVE V1Inv
  OBVIOUS
<1>a. PICK c : c = Context(NULL, "start")
  OBVIOUS
<1>1. c = Context(NULL, "start") /\ c \in ContextType /\ c.pc = "start" /\ c.l = "hosts"
  BY <1>a DEF Context, ContextType, Pc, Lists, Payload
<1>2. stack = <<c>> /\ stack \in Seq(ContextType) /\ stack # <<>> /\ Len(stack) = 1 /\ stack[1] = c
  BY <1>1 DEF Init
<1>3. Top = c /\ M = c /\ Lower = {}
  BY <1>2 DEF Top, M, Lower
<1>4. ~Torn /\ StackInv
  BY <1>2, <1>3 DEF Torn, StackInv
<1>5. \A l \in Lists : first[l] = 0 /\ last[l] = 0 /\ obj[l] = <<>> /\ N(l) = 0
  BY DEF Init, N
<1>6. \A l \in Lists : Whole(l) /\ Cells(l)
  BY <1>5 DEF Whole, Linked, Behind, Cells
<1>7. HeapInv
  <2>1. current = 0
    BY DEF Init
  <2> QED
    BY <1>1, <1>3, <1>5, <1>6, <2>1, InLists DEF HeapInv, ListInv, Busy, Freeing
<1>8. WeakInv
  BY <1>1, <1>3, <1>6 DEF WeakInv
<1>9. RowsInv
  BY <1>5, InLists DEF RowsInv, CellInv, OneRow
<1>10. MainInv
  BY <1>1, <1>3, <1>5 DEF MainInv, MessageInv, AddInv, WalkInv, Waiting, AddPc, Adding, DataPc
<1>11. ShowInv
  BY <1>1, <1>3 DEF ShowInv
<1>12. EndInv
  BY DEF EndInv, FaultOnlyWhenTorn, Init
<1>13. TypeOK
  <2>1. <<>> \in Seq(V1Message) /\ <<>> \in Seq(Object) /\ <<>> \in Seq(Row \cup {Raw})
    BY EmptySeq
  <2> QED
    BY <1>2, <2>1 DEF Init, TypeOK
<1> QED
  BY <1>4, <1>7, <1>8, <1>9, <1>10, <1>11, <1>12, <1>13 DEF V1Inv

(* Every step keeps the invariant: the steps of add_object, of the handlers of *)
(* messages, of the end, of the signals and of the switch.                     *)
LEMMA V1Steps == V1Inv /\ [Next]_vars => V1Inv'
<1> SUFFICES ASSUME V1Inv, [Next]_vars PROVE V1Inv'
  OBVIOUS
<1>0. PICK l : l = Top.l
  OBVIOUS
<1>1. CASE Accept \/ SetInt \/ SetTerm
  BY <1>1, AcceptKeeps
<1>2. CASE SetUpFails
  BY <1>2, SetUpFailsKeeps
<1>3. CASE Recv
  BY <1>3, RecvKeeps
<1>4. CASE RecvFails
  BY <1>4, RecvFailsKeeps
<1>5. CASE AddObject
  <2>1. CASE AddFirst
    BY <1>0, <2>1, AddFirstKeeps
  <2>2. CASE AddPayload
    BY <1>0, <2>2, AddPayloadKeeps
  <2>3. CASE AddLinks
    BY <1>0, <2>3, AddLinksKeeps
  <2>4. CASE AddNext
    BY <1>0, <2>4, AddNextKeeps
  <2>8. CASE AddTmp
    BY <1>0, <2>8, AddTmpKeeps
  <2>5. CASE AddLast
    BY <1>0, <2>5, AddLastKeeps
  <2>6. CASE AddFaults
    BY <2>6, AddFaultsKeeps
  <2>7. CASE Fill
    BY <1>0, <2>7, FillKeeps
  <2> QED
    BY <1>5, <2>1, <2>2, <2>3, <2>4, <2>5, <2>6, <2>7, <2>8 DEF AddObject
<1>6. CASE AddFails
  BY <1>0, <1>6, AddFailsKeeps
<1>7. CASE Handlers
  <2>1. CASE CheckOpenflow \/ Other
    BY <2>1, CheckOpenflowKeeps
  <2>2. CASE ActionHello
    BY <2>2, ActionHelloKeeps
  <2>3. CASE FeaturesRequest \/ ActionEcho \/ SetConfig
    BY <2>3, RequestsKeep
  <2>4. CASE FeaturesReply
    BY <2>4, FeaturesReplyKeeps
  <2>5. CASE NextPort
    BY <2>5, NextPortKeeps
  <2>6. CASE ActionPackout
    BY <2>6, ActionPackoutKeeps
  <2>7. CASE SourceRewind
    BY <2>7, SourceRewindKeeps
  <2>8. CASE SourceWalk
    BY <2>8, SourceWalkKeeps
  <2>9. CASE ShowLearned
    BY <2>9, ShowLearnedKeeps
  <2>10. CASE ShowLearnedEnd
    BY <2>10, ShowLearnedEndKeeps
  <2>11. CASE DestinationRewind
    BY <2>11, DestinationRewindKeeps
  <2>12. CASE DestinationWalk
    BY <2>12, DestinationWalkKeeps
  <2>13. CASE Respond
    BY <2>13, RespondKeeps
  <2> QED
    BY <1>7, <2>1, <2>2, <2>3, <2>4, <2>5, <2>6, <2>7, <2>8, <2>9, <2>10, <2>11, <2>12, <2>13
       DEF Handlers
<1>8. CASE EndSteps
  <2>1. CASE ShowFinal
    BY <2>1, ShowFinalKeeps
  <2>2. CASE ShowFinalEnd
    BY <2>2, ShowFinalEndKeeps
  <2>3. CASE FreeList
    BY <1>0, <2>3, FreeListKeeps
  <2>4. CASE FreeUnlink
    BY <1>0, <2>4, FreeUnlinkKeeps
  <2>5. CASE FreeDelete
    BY <1>0, <2>5, FreeDeleteKeeps
  <2>6. CASE FreeLast
    BY <1>0, <2>6, FreeLastKeeps
  <2>7. CASE FreeFirst
    BY <1>0, <2>7, FreeFirstKeeps
  <2>8. CASE Exit
    BY <2>8, ExitKeeps
  <2> QED
    BY <1>8, <2>1, <2>2, <2>3, <2>4, <2>5, <2>6, <2>7, <2>8 DEF EndSteps, FreeSteps
<1>9. CASE \E s \in Signals : Signal(s)
  BY <1>9, SignalKeeps
<1>10. CASE (\E m \in Traffic : SwitchSends(m)) \/ SwitchDies
  BY <1>10, SwitchKeeps
<1>11. CASE UNCHANGED vars
  BY <1>11, StutterKeeps
<1> QED
  BY <1>1, <1>2, <1>3, <1>4, <1>5, <1>6, <1>7, <1>8, <1>9, <1>10, <1>11 DEF Next

(* The invariant holds in every reachable state. *)
THEOREM V1Invariant == Spec => []V1Inv
<1>1. Init => V1Inv
  BY V1Starts
<1>2. V1Inv /\ [Next]_vars => V1Inv'
  BY V1Steps
<1> QED
  BY <1>1, <1>2, PTL DEF Spec

(* A NULL, unset or freed pointer is followed only where a list is half built, *)
(* or where exit_handler interrupted free_list (linked.cpp:21-81,              *)
(* main.cpp:201), for any switch, any traffic and any signals.                 *)
THEOREM FaultsExplained == Spec => []FaultOnlyWhenTorn
<1>1. V1Inv => FaultOnlyWhenTorn
  BY DEF V1Inv, EndInv
<1> QED
  BY <1>1, V1Invariant, PTL

(* What is left when the program ends. *)
LEMMA EndIsClean == V1Inv => EndsClean
<1> SUFFICES ASSUME V1Inv, proc = "ended"
             PROVE  /\ sock # "open"
                    /\ \A l \in Lists : (\E c \in DOMAIN obj[l] : obj[l][c].live) =>
                          failed > 0 \/ \E i \in 1 .. Len(stack) - 1 : stack[i].pc \in Adding \cup Freeing
  BY DEF EndsClean, Interrupted
<1>1. TypeOK /\ HeapInv /\ Top.pc = "exit" /\ sock # "open"
  BY DEF V1Inv, EndInv
<1>2. ASSUME ~Torn, NEW l \in Lists, NEW c \in DOMAIN obj[l], obj[l][c].live
      PROVE  failed > 0 \/ \E i \in 1 .. Len(stack) - 1 : stack[i].pc \in Adding
  <2>1. c \in 1 .. N(l)
    BY <1>1, ObjectFacts
  <2>2. Gone(l)
    BY <1>1, <1>2, InLists DEF HeapInv
  <2>3. M.pc \in Adding => \E i \in 1 .. Len(stack) - 1 : stack[i].pc \in Adding
    <3>1. M.pc \in Adding => Len(stack) # 1
      BY <1>1, TopFacts DEF Adding
    <3> QED
      BY <1>1, <3>1, TopFacts DEF M, Lower
  <2>4. CASE Freed(l)
    BY <1>2, <2>1, <2>3, <2>4 DEF Freed, OnlyLeaked, Leak, Adding
  <2>5. CASE Half(l)
    BY <2>3, <2>5 DEF Half, Unfinished
  <2> QED
    BY <2>2, <2>4, <2>5 DEF Gone
<1> QED
  BY <1>1, <1>2 DEF Torn, Lower

(* The program ends with its socket closed and both lists freed, unless an    *)
(* allocation failed or exit_handler interrupted add_object or free_list, for *)
(* lists of any length (main.cpp:201, linked.cpp:64-81).                      *)
THEOREM EndClean == Spec => []EndsClean
BY EndIsClean, V1Invariant, PTL

----------------------------------------------------------------------------
(* What the walk of Rows meets. *)

(* A set of numbers has a least one. *)
LEMMA LeastOf ==
  ASSUME NEW T \in SUBSET Nat, T # {}
  PROVE  \E m \in T : \A k \in T : m <= k
<1>1. PICK m \in T : \A y \in T : ~ (<<y, m>> \in OpToRel(<, Nat))
  BY NatLessThanWellFounded, WFMin
<1>2. \A k \in T : ~(k < m)
  BY <1>1 DEF OpToRel
<1> QED
  BY <1>2

(* The walk of Rows: where it is, and the rows it met. *)
Start == <<first["hosts"], <<>>>>

(* One step of the walk. *)
Meet(w) ==
    IF Live("hosts", w[1])
    THEN <<obj["hosts"][w[1]].next, Append(w[2], obj["hosts"][w[1]].p)>>
    ELSE w

(* f is the walk of n steps. *)
Walks(f, n) == f = [i \in 0 .. n |-> IF i = 0 THEN Start ELSE Meet(f[i - 1])]

(* There is such a walk, of any length. *)
LEMMA WalkExists ==
  ASSUME NEW n \in Nat
  PROVE  \E f : Walks(f, n)
<1> DEFINE T == {k \in 0 .. n : ~ \E f : Walks(f, k)}
<1> SUFFICES ASSUME T # {} PROVE FALSE
  OBVIOUS
<1>1. T \in SUBSET Nat
  OBVIOUS
<1>2. PICK m \in T : \A k \in T : m <= k
  <2> HIDE DEF T
  <2> QED
    BY <1>1, LeastOf
<1>3. m \in 0 .. n /\ ~ \E f : Walks(f, m)
  OBVIOUS
<1>4. m # 0
  <2> SUFFICES ASSUME m = 0 PROVE FALSE
    OBVIOUS
  <2>1. PICK f : f = [i \in 0 .. 0 |-> Start]
    OBVIOUS
  <2>2. \A i \in 0 .. 0 : i = 0
    OBVIOUS
  <2>3. f = [i \in 0 .. 0 |-> IF i = 0 THEN Start ELSE Meet(f[i - 1])]
    BY <2>1, <2>2
  <2> QED
    BY <1>3, <2>3 DEF Walks
<1>5. m - 1 \in 0 .. n /\ ~(m <= m - 1)
  BY <1>3, <1>4
<1>6. PICK f : Walks(f, m - 1)
  <2>1. m - 1 \notin T
    <3> HIDE DEF T
    <3> QED
      BY <1>2, <1>5
  <2> QED
    BY <1>5, <2>1
<1>7. PICK g : g = [i \in 0 .. m |-> IF i = m THEN Meet(f[m - 1]) ELSE f[i]]
  OBVIOUS
<1>8. \A i \in 0 .. m - 1 : f[i] = IF i = 0 THEN Start ELSE Meet(f[i - 1])
  <2>1. f = [i \in 0 .. m - 1 |-> IF i = 0 THEN Start ELSE Meet(f[i - 1])]
    BY <1>6 DEF Walks
  <2> QED
    BY <2>1
<1>9. \A i \in 0 .. m : g[i] = IF i = 0 THEN Start ELSE Meet(g[i - 1])
  <2> TAKE i \in 0 .. m
  <2>1. \A j \in 0 .. m : g[j] = IF j = m THEN Meet(f[m - 1]) ELSE f[j]
    BY <1>7
  <2>2. CASE i = m
    <3>1. m - 1 \in 0 .. m /\ m - 1 # m /\ m \in 0 .. m
      BY <1>3, <1>4
    <3>2. g[m - 1] = f[m - 1] /\ g[m] = Meet(f[m - 1])
      BY <2>1, <3>1
    <3> QED
      BY <1>4, <2>2, <3>2
  <2>3. CASE i # m
    <3>1. i \in 0 .. m - 1 /\ (i # 0 => i - 1 \in 0 .. m /\ i - 1 # m)
      BY <1>3, <2>3
    <3>2. g[i] = f[i] /\ (i # 0 => g[i - 1] = f[i - 1])
      BY <2>1, <2>3, <3>1
    <3> QED
      BY <1>8, <3>1, <3>2
  <2> QED
    BY <2>2, <2>3
<1>10. Walks(g, m)
  <2>1. g = [i \in 0 .. m |-> g[i]]
    BY <1>7
  <2>2. [i \in 0 .. m |-> g[i]] = [i \in 0 .. m |-> IF i = 0 THEN Start ELSE Meet(g[i - 1])]
    BY <1>9
  <2> QED
    BY <2>1, <2>2 DEF Walks
<1> QED
  BY <1>3, <1>10

(* Rows is what such a walk met. *)
LEMMA RowsIs ==
  ASSUME TypeOK
  PROVE  \E f : Walks(f, N("hosts")) /\ Rows = f[N("hosts")][2]
<1>1. PICK n \in Nat : n = N("hosts")
  BY RowsAreSeq
<1> DEFINE walk == CHOOSE f : Walks(f, n)
<1>2. Walks(walk, n)
  <2>1. \E f : Walks(f, n)
    BY WalkExists
  <2> QED
    BY <2>1
<1>3. Rows = walk[n][2]
  BY <1>1 DEF Rows, Walks, Start, Meet, N
<1> HIDE DEF walk
<1> QED
  BY <1>1, <1>2, <1>3

(* What the walk has met after n steps. *)
Met(w, n) ==
    /\ w = <<w[1], w[2]>> /\ w[2] \in Seq(Payload) /\ Len(w[2]) <= N("hosts")
    /\ w[1] \in {-1, 0, Len(w[2]) + 1}
    /\ \A i \in 1 .. Len(w[2]) : w[2][i] = P(i)
    /\ Linked("hosts") => Len(w[2]) = n /\ (n < N("hosts") => w[1] = n + 1)

(* A step of the walk meets the next object, or none. *)
LEMMA MeetsNext ==
  ASSUME TypeOK, Cells("hosts"), NEW n \in 1 .. N("hosts"), NEW w, Met(w, n - 1)
  PROVE  Met(Meet(w), n)
<1>1. /\ N("hosts") \in Nat /\ DOMAIN obj["hosts"] = 1 .. N("hosts")
      /\ \A c \in 1 .. N("hosts") : obj["hosts"][c].p \in Payload
  BY InLists, ObjectFacts
<1>2. PICK c, s : s \in Seq(Payload) /\ w = <<c, s>> /\ w[1] = c /\ w[2] = s
  BY DEF Met
<1>3. PICK k \in Nat : k = Len(s)
  BY <1>2, LenProperties
<1>4. /\ k <= N("hosts") /\ c \in {-1, 0, k + 1} /\ \A i \in 1 .. k : s[i] = P(i)
      /\ Linked("hosts") => k = n - 1 /\ (n - 1 < N("hosts") => c = n)
  BY <1>2, <1>3 DEF Met
<1>5. CASE Live("hosts", c)
  <2>1. c \in 1 .. N("hosts") /\ c = k + 1
    BY <1>1, <1>3, <1>4, <1>5 DEF Live
  <2>2. PICK d, t : d = obj["hosts"][c].next /\ t = Append(s, obj["hosts"][c].p)
    OBVIOUS
  <2>3. /\ t \in Seq(Payload) /\ Len(t) = k + 1 /\ t[k + 1] = P(c)
        /\ \A i \in 1 .. k : t[i] = s[i]
    <3>1. PICK x \in Payload : x = obj["hosts"][c].p
      BY <1>1, <2>1
    <3>2. /\ Append(s, x) \in Seq(Payload) /\ Len(Append(s, x)) = Len(s) + 1
          /\ \A i \in 1 .. Len(s) : Append(s, x)[i] = s[i]
          /\ Append(s, x)[Len(s) + 1] = x
      BY <1>2, AppendProperties
    <3> QED
      BY <1>3, <2>2, <3>1, <3>2 DEF P
  <2>4. Meet(w) = <<d, t>>
    BY <1>2, <1>5, <2>2 DEF Meet
  <2>5. \A i \in 1 .. k + 1 : i \in 1 .. k \/ i = k + 1
    BY <1>3
  <2>6. \A i \in 1 .. k + 1 : t[i] = P(i)
    BY <1>4, <2>1, <2>3, <2>5
  <2>7. d \in {-1, 0, c + 1}
    BY <2>1, <2>2 DEF Cells
  <2>8. Linked("hosts") => k + 1 = n /\ (n < N("hosts") => d = n + 1)
    BY <1>3, <1>4, <2>1, <2>2 DEF Linked
  <2> QED
    BY <1>1, <2>1, <2>3, <2>4, <2>6, <2>7, <2>8 DEF Met
<1>6. CASE ~Live("hosts", c)
  <2>1. Meet(w) = w
    BY <1>2, <1>6 DEF Meet
  <2>2. ~Linked("hosts")
    <3>1. n - 1 < N("hosts") /\ n \in 1 .. N("hosts")
      BY <1>1
    <3>2. Linked("hosts") => obj["hosts"][n].live /\ c = n
      BY <1>4, <3>1 DEF Linked
    <3> QED
      BY <1>1, <1>6, <3>1, <3>2 DEF Live
  <2> QED
    BY <2>1, <2>2 DEF Met
<1> QED
  BY <1>5, <1>6

(* Rows is the rows of the first objects made, and of all of them in a list *)
(* that is linked: the first step at which this fails would have a step     *)
(* before it.                                                               *)
LEMMA RowsMet ==
  ASSUME TypeOK, Cells("hosts")
  PROVE  /\ Rows \in Seq(Payload) /\ Len(Rows) <= N("hosts")
         /\ \A i \in 1 .. Len(Rows) : Rows[i] = P(i)
         /\ Linked("hosts") => Rows = AllRows
<1>1. PICK n \in Nat : n = N("hosts")
  BY RowsAreSeq
<1>2. PICK f : Walks(f, n) /\ Rows = f[n][2]
  BY <1>1, RowsIs
<1>3. \A i \in 0 .. n : f[i] = IF i = 0 THEN Start ELSE Meet(f[i - 1])
  <2>1. f = [i \in 0 .. n |-> IF i = 0 THEN Start ELSE Meet(f[i - 1])]
    BY <1>2 DEF Walks
  <2> QED
    BY <2>1
<1>4. Met(f[0], 0)
  <2>1. f[0] = Start
    BY <1>3
  <2>2. PICK c, s : c = first["hosts"] /\ s = <<>>
    OBVIOUS
  <2>3. Start = <<c, s>> /\ s \in Seq(Payload) /\ Len(s) = 0
    BY <2>2, EmptySeq DEF Start
  <2>4. c \in {0, 1} /\ (Linked("hosts") => c = IF N("hosts") = 0 THEN 0 ELSE 1)
    BY <2>2 DEF Cells, Linked
  <2> QED
    BY <1>1, <2>1, <2>3, <2>4 DEF Met
<1>5. \A k \in 0 .. n : Met(f[k], k)
  <2> DEFINE T == {k \in 0 .. n : ~Met(f[k], k)}
  <2> SUFFICES ASSUME T # {} PROVE FALSE
    OBVIOUS
  <2>1. T \in SUBSET Nat
    OBVIOUS
  <2>2. PICK m \in T : \A k \in T : m <= k
    <3> HIDE DEF T
    <3> QED
      BY <2>1, LeastOf
  <2>3. m \in 0 .. n /\ ~Met(f[m], m) /\ m # 0
    BY <1>4
  <2>4. m \in 1 .. n /\ m - 1 \in 0 .. n /\ ~(m <= m - 1)
    BY <2>3
  <2>5. Met(f[m - 1], m - 1)
    <3>1. m - 1 \notin T
      <4> HIDE DEF T
      <4> QED
        BY <2>2, <2>4
    <3> QED
      BY <2>4, <3>1
  <2>6. f[m] = Meet(f[m - 1])
    BY <1>3, <2>3
  <2> QED
    BY <1>1, <2>3, <2>4, <2>5, <2>6, MeetsNext
<1>6. Met(f[n], n)
  BY <1>5
<1>7. /\ Rows \in Seq(Payload) /\ Len(Rows) <= n
      /\ \A i \in 1 .. Len(Rows) : Rows[i] = P(i)
      /\ Linked("hosts") => Len(Rows) = n
  BY <1>1, <1>2, <1>6 DEF Met
<1>8. ASSUME Linked("hosts")
      PROVE  Rows = AllRows
  <2>1. /\ AllRows \in Seq(Payload) /\ Len(AllRows) = n
        /\ \A c \in 1 .. n : AllRows[c] = P(c)
    BY <1>1, RowsAreSeq
  <2>2. Len(Rows) = Len(AllRows) /\ \A i \in 1 .. Len(Rows) : Rows[i] = AllRows[i]
    BY <1>7, <1>8, <2>1
  <2> QED
    BY <1>7, <2>1, <2>2, SeqEqual
<1> QED
  BY <1>1, <1>7, <1>8

----------------------------------------------------------------------------
(* The theorems about the hosts. *)

(* One row for each host, in all states of the lists. *)
LEMMA HostsOnce == V1Inv => ListsOK
<1> SUFFICES ASSUME V1Inv
             PROVE  TypeOK /\ HostsUnique
  BY DEF ListsOK
<1>1. TypeOK /\ Cells("hosts") /\ OneRow
  BY InLists DEF V1Inv, WeakInv, RowsInv
<1>2. /\ Rows \in Seq(Payload) /\ Len(Rows) <= N("hosts")
      /\ \A i \in 1 .. Len(Rows) : Rows[i] = P(i)
  BY <1>1, RowsMet
<1>3. Len(Rows) \in Nat /\ DOMAIN Rows = 1 .. Len(Rows) /\ N("hosts") \in Nat
  BY <1>1, <1>2, LenProperties, RowsAreSeq
<1>4. \A i \in DOMAIN Rows : i \in 1 .. N("hosts") /\ Rows[i] = P(i)
  BY <1>2, <1>3
<1> QED
  BY <1>1, <1>4 DEF HostsUnique, OneRow

(* Types of the v1 controller, and that a host never gets a second row, for *)
(* any traffic and any number of hosts (linked.cpp:21-81, main.cpp:480).    *)
THEOREM ListsStayOK == Spec => []ListsOK
BY HostsOnce, V1Invariant, PTL

(* The lists are whole wherever no handler and no end has begun. *)
LEMMA WholeRows ==
  ASSUME V1Inv, Undisturbed, Top.pc \notin Busy
  PROVE  Rows = AllRows /\ Whole("hosts")
<1>1. TypeOK /\ HeapInv /\ Cells("hosts")
  BY InLists DEF V1Inv, WeakInv
<1>2. ~Torn
  BY DEF Torn, Undisturbed, Freeing, Ending
<1>3. Whole("hosts")
  BY <1>1, <1>2, InLists DEF HeapInv
<1> QED
  BY <1>1, <1>3, RowsMet DEF Whole

(* What the invariant says of report is what ShowsRows says of it. *)
LEMMA RowsShown == V1Inv => ShowsRows
<1> SUFFICES ASSUME V1Inv
             PROVE  ShowsTail /\ ShowsAllLearned
  BY DEF ShowsRows
<1>1. TypeOK /\ StackInv /\ MainInv /\ ShowInv
  BY DEF V1Inv
<1>2. ShowsTail
  <2> SUFFICES ASSUME Top.pc = "rewind", \A i \in 1 .. Len(stack) - 1 : stack[i].pc \notin Ending
               PROVE  \E k \in 0 .. Len(Rows) : report = SubSeq(Rows, k + 1, Len(Rows))
    BY DEF ShowsTail
  <2>1. Undisturbed
    BY DEF Undisturbed, Lower
  <2>2. Rows = AllRows
    BY <2>1, WholeRows DEF Busy, Freeing
  <2>3. \E k \in 0 .. N("hosts") : report = SubSeq(AllRows, k + 1, N("hosts"))
    BY <1>1, <2>1 DEF ShowInv
  <2>4. Len(AllRows) = N("hosts")
    BY <1>1, RowsAreSeq
  <2> QED
    BY <2>2, <2>3, <2>4
<1>3. ShowsAllLearned
  <2> SUFFICES ASSUME Top.pc = "learn_rewind", ~HalfBuilt("hosts")
               PROVE  report = Rows
    BY DEF ShowsAllLearned
  <2>1. Len(stack) = 1
    BY <1>1, MainRuns DEF Ending
  <2>2. Undisturbed
    BY <1>1, <2>1, TopFacts DEF Undisturbed
  <2>3. Rows = AllRows
    BY <2>2, WholeRows DEF Busy, Freeing
  <2>4. Half("hosts") \/ report = AllRows
    BY <1>1 DEF MainInv, WalkInv, Ending
  <2>5. ~Half("hosts")
    BY DEF Half, HalfBuilt
  <2> QED
    BY <2>3, <2>4, <2>5
<1> QED
  BY <1>2, <1>3

(* show_hosts prints the end of the table, and all of it after a host was *)
(* learned, whatever walk left the cursor where (main.cpp:781-790).       *)
THEOREM RowsAreShown == Spec => []ShowsRows
BY RowsShown, V1Invariant, PTL

(* A flow is sent for what needs a port, and to that port. *)
LEMMA FlowAnswers ==
  ASSUME NEW m, NEW port, V1Answer(m, port).kind = "flow_mod"
  PROVE  NeedsPort(m.pkt) /\ V1Answer(m, port).out_port = port /\ V1Answer(m, port).dst = m.pkt.dst
<1> DEFINE a == V1Answer(m, port)
<1>1. \A q, t : /\ Flow(m, port, q, t).out_port = port /\ Flow(m, port, q, t).dst = m.pkt.dst
  BY DEF Flow, FlowMod
<1>2. Flood(m.in_port).kind # "flow_mod" /\ Nothing.kind # "flow_mod"
  BY DEF Flood, Nothing
<1>3. \/ a \in {Flood(m.in_port), Nothing}
      \/ NeedsPort(m.pkt) /\ \E q, t : a = Flow(m, port, q, t)
  BY DEF V1Answer, Ip6Flood, ArpFlood, UnknownFlood, ArpFlow, IcmpFlow, TcpFlow, UdpFlow, NeedsPort
<1> QED
  BY <1>1, <1>2, <1>3

(* The only step that sends a flow sends it to the port of the table. *)
LEMMA FlowIsToTable ==
  ASSUME V1Inv, [Next]_vars, reply'.kind = "flow_mod", reply # reply', ~HalfBuilt("hosts")
  PROVE  reply'.out_port = PortOf(Rows, reply'.dst)
<1>1. TypeOK /\ StackInv /\ MainInv
  BY DEF V1Inv
<1>2. Nothing.kind # "flow_mod"
  BY DEF Nothing
<1>3. Respond
  <2>1. ~Recv
    BY <1>2 DEF Recv
  <2>2. \A s \in Signals : ~Signal(s)
    BY <1>2 DEF Signal, history
  <2>3. ~UNCHANGED reply
    OBVIOUS
  <2>4. ~AddObject /\ ~AddFails
    BY <2>3
    DEF AddObject, AddFirst, AddPayload, AddLinks, AddTmp, AddNext, AddLast, AddFaults, Fill, AddFails,
        Fault, history
  <2>5. ~EndSteps
    BY <2>3 DEF EndSteps, ShowFinal, ShowFinalEnd, ShowHosts, ShowHostsEnd, Exit, Fault,
                FreeSteps, FreeList, FreeUnlink, FreeDelete, FreeLast, FreeFirst, history
  <2>6. ~(Accept \/ SetUpFails \/ SetInt \/ SetTerm \/ RecvFails \/ SwitchDies \/ UNCHANGED vars
          \/ \E m \in Traffic : SwitchSends(m))
    BY <2>3
    DEF Accept, SetUpFails, SetInt, SetTerm, RecvFails, SwitchDies, SwitchSends, vars, history
  <2>7. Handlers => Respond
    BY <2>3
    DEF Handlers, CheckOpenflow, Other, ActionHello, FeaturesRequest, ActionEcho, FeaturesReply,
                NextPort, SetConfig, ActionPackout, SourceRewind, SourceWalk, ShowLearned, ShowLearnedEnd,
                ShowHosts, ShowHostsEnd, DestinationRewind, DestinationWalk, Fault, history
  <2> QED
    BY <2>1, <2>2, <2>4, <2>5, <2>6, <2>7 DEF Next
<1>4. Top.pc = "answer" /\ reply' = V1Answer(Head(buf), Top.tmp)
  BY <1>3 DEF Respond, Silent, At
<1>5. NeedsPort(Head(buf).pkt) /\ reply'.out_port = Top.tmp /\ reply'.dst = Head(buf).pkt.dst
  BY <1>4, FlowAnswers
<1>6. Top.tmp = PortOf(AllRows, Head(buf).pkt.dst)
  <2>1. ~Half("hosts")
    BY DEF Half, HalfBuilt
  <2> QED
    BY <1>1, <1>4, <1>5, <2>1 DEF MainInv, WalkInv, Ending
<1>7. Rows = AllRows
  <2>1. Len(stack) = 1
    BY <1>1, <1>4, MainRuns DEF Ending
  <2>2. Undisturbed
    BY <1>1, <2>1, TopFacts DEF Undisturbed
  <2> QED
    BY <1>4, <2>2, WholeRows DEF Busy, Freeing
<1> QED
  BY <1>5, <1>6, <1>7

(* A flow leads to where the table has its receiver, and to port 0 only if it *)
(* is not there (main.cpp:540-745).                                           *)
THEOREM FlowsLeadToHosts == Spec => FlowsFollowTable
<1>1. V1Inv /\ [Next]_vars =>
        [reply'.kind = "flow_mod" /\ reply # reply' /\ ~HalfBuilt("hosts") =>
            reply'.out_port = PortOf(Rows, reply'.dst)]_vars
  BY FlowIsToTable
<1> QED
  BY <1>1, V1Invariant, PTL DEF Spec, FlowsFollowTable
=============================================================================
