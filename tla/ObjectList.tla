---------------------------- MODULE ObjectList ----------------------------
(***************************************************************************)
(* The class object_list of linked.cpp: a doubly linked list on the heap   *)
(* with a built-in cursor `current`, through which the controller keeps    *)
(* its hosts, ports, links and sw_replys.  Memory is explicit: a cell is   *)
(* live between new and delete, following a pointer to a cell that is not  *)
(* live (or to NULL) sets `fault`, and new(nothrow) may return NULL.       *)
(* free_list and remove_object run one loop iteration per action.          *)
(***************************************************************************)
EXTENDS Naturals, FiniteSets, Sequences, SequencesExt

CONSTANTS Cells,    \* heap addresses a struct object may have
          Values,   \* contents the clients store
          NULL

ASSUME CellsAssumption ==
    /\ IsFiniteSet(Cells)
    /\ NULL \notin Cells
    /\ NULL \notin Values

VARIABLES first, current, last,   \* the members of object_list
          next, prev, p,          \* the members of every struct object
          live,                   \* the cells between new and delete
          op, tmp, key,           \* the loop that runs, its variable, its argument
          out,                    \* what add_object or get_object returned last
          stale,                  \* history: a cell under current was deleted
          fault                   \* a pointer that owns nothing was followed

heap == <<next, prev, p, live>>
loop == <<op, tmp, key>>
vars == <<first, current, last, heap, loop, out, stale, fault>>

Ptr == Cells \cup {NULL}

Init ==
    /\ first = NULL /\ current = NULL /\ last = NULL
    /\ next = [c \in Cells |-> NULL]
    /\ prev = [c \in Cells |-> NULL]
    /\ p = [c \in Cells |-> NULL]
    /\ live = {}
    /\ op = "idle" /\ tmp = NULL /\ key = NULL
    /\ out = NULL
    /\ stale = FALSE /\ fault = FALSE

Idle == op = "idle" /\ ~fault

Fault == fault' = TRUE /\ UNCHANGED <<first, current, last, heap, loop, out, stale>>

----------------------------------------------------------------------------
(* add_object, and the client's write of v through the pointer it returns. *)

AddFirst(c) ==
    /\ first = NULL
    /\ first' = c /\ last' = c
    /\ next' = [next EXCEPT ![c] = NULL]
    /\ prev' = [prev EXCEPT ![c] = NULL]
    /\ UNCHANGED fault

\* Mutant of AddLast: last gets the payload pointer, not the object.
AddLastPayload(c, v) ==
    /\ first # NULL
    /\ last \in live
    /\ next' = [next EXCEPT ![c] = NULL, ![last] = c]
    /\ prev' = [prev EXCEPT ![c] = last]
    /\ last' = v
    /\ UNCHANGED <<first, fault>>

AddLast(c, v) ==
    /\ first # NULL
    /\ last \in live
    /\ next' = [next EXCEPT ![c] = NULL, ![last] = c]
    /\ prev' = [prev EXCEPT ![c] = last]
    /\ last' = c
    /\ UNCHANGED <<first, fault>>

AddObject(v) ==
    /\ Idle
    /\ \E c \in Cells \ live :
        /\ AddFirst(c) \/ AddLast(c, v)
        /\ live' = live \cup {c}
        /\ p' = [p EXCEPT ![c] = v]
        /\ out' = v
    /\ UNCHANGED <<current, loop, stale>>

\* last->next with last == NULL.
AddFaults == Idle /\ first # NULL /\ last \notin live /\ Fault

NodeAllocFails ==
    /\ Idle
    /\ out' = NULL
    /\ UNCHANGED <<first, current, last, heap, loop, stale, fault>>

\* The struct is allocated and its payload is not: on an empty list the list
\* keeps the cell, next and prev uninitialised, without a last; on another
\* list the cell is lost.
PayloadAllocFails ==
    /\ Idle
    /\ \E c \in Cells \ live, n, b \in Ptr :
        /\ first' = IF first = NULL THEN c ELSE first
        /\ live' = live \cup {c}
        /\ next' = [next EXCEPT ![c] = n]
        /\ prev' = [prev EXCEPT ![c] = b]
        /\ p' = [p EXCEPT ![c] = NULL]
    /\ out' = NULL
    /\ UNCHANGED <<current, last, loop, stale, fault>>

----------------------------------------------------------------------------
(* get_object and list_rewind.  get_object does not know whether the cell  *)
(* under the cursor was deleted: it follows the pointer, into nothing or   *)
(* into what new has made of the cell since, and is out of it at the end.  *)

Following == IF current = NULL THEN first ELSE next[current]

Dangles == \/ current # NULL /\ current \notin live
           \/ Following # NULL /\ Following \notin live

GetObject ==
    /\ Idle
    /\ IF Dangles
       THEN Fault
       ELSE /\ current' = Following
            /\ out' = IF Following = NULL THEN NULL ELSE p[Following]
            /\ stale' = (stale /\ Following # NULL)
            /\ UNCHANGED <<first, last, heap, loop, fault>>

\* Mutant of ListRewind: the cursor is put on the first object.
ListRewindToFirst ==
    /\ Idle
    /\ current' = first /\ stale' = FALSE
    /\ UNCHANGED <<first, last, heap, loop, out, fault>>

ListRewind ==
    /\ Idle
    /\ current' = NULL /\ stale' = FALSE
    /\ UNCHANGED <<first, last, heap, loop, out, fault>>

----------------------------------------------------------------------------
(* free_list, backwards from last. *)

Delete(c) ==
    /\ live' = live \ {c}
    /\ p' = [p EXCEPT ![c] = NULL]
    /\ stale' = IF current = c THEN TRUE ELSE stale

FreeList ==
    /\ Idle /\ last # NULL
    /\ op' = "free" /\ tmp' = last
    /\ UNCHANGED <<first, current, last, heap, key, out, stale, fault>>

FreeStep ==
    /\ op = "free" /\ tmp # NULL /\ ~fault
    /\ IF tmp \notin live
       THEN Fault
       ELSE /\ tmp' = prev[tmp]
            /\ prev' = [prev EXCEPT ![tmp] = NULL]
            /\ next' = [next EXCEPT ![tmp] = NULL]
            /\ Delete(tmp)
            /\ UNCHANGED <<first, current, last, op, key, out, fault>>

\* Mutant of FreeEnd: last is not reset.
FreeEndKeepsLast ==
    /\ op = "free" /\ tmp = NULL /\ ~fault
    /\ first' = NULL
    /\ op' = "idle"
    /\ UNCHANGED <<current, last, heap, tmp, key, out, stale, fault>>

FreeEnd ==
    /\ op = "free" /\ tmp = NULL /\ ~fault
    /\ first' = NULL /\ last' = NULL
    /\ op' = "idle"
    /\ UNCHANGED <<current, heap, tmp, key, out, stale, fault>>

----------------------------------------------------------------------------
(* remove_object, forwards from first to the first object equal to v. *)

RemoveObject(v) ==
    /\ Idle /\ first # NULL
    /\ op' = "remove" /\ tmp' = first /\ key' = v
    /\ UNCHANGED <<first, current, last, heap, out, stale, fault>>

Removing == op = "remove" /\ ~fault

RemoveReturns == op' = "idle" /\ tmp' = NULL /\ key' = NULL

RemoveFaults ==
    /\ Removing /\ tmp # NULL
    /\ tmp \notin live \/ p[tmp] = NULL
    /\ Fault

RemoveSkip ==
    /\ Removing
    /\ tmp \in live /\ p[tmp] \notin {NULL, key}
    /\ tmp' = next[tmp]
    /\ UNCHANGED <<first, current, last, heap, op, key, out, stale, fault>>

RemoveMissing ==
    /\ Removing /\ tmp = NULL
    /\ RemoveReturns
    /\ UNCHANGED <<first, current, last, heap, out, stale, fault>>

\* Mutant of Relink: the neighbour keeps its pointer to tmp.
RelinkNothing(link, c, d) == [link EXCEPT ![tmp] = NULL]

\* The neighbour c of tmp gets tmp's other neighbour d, tmp itself NULL.
Relink(link, c, d) ==
    [x \in Cells |-> IF x = tmp THEN NULL ELSE IF x = c THEN d ELSE link[x]]

\* The neighbours that exist are written, so they must be live.
RemoveUnlinks ==
    /\ Removing
    /\ tmp \in live /\ p[tmp] = key
    /\ LET n == IF tmp = last THEN NULL ELSE next[tmp]
           b == IF tmp = first THEN NULL ELSE prev[tmp]
       IN  IF \/ tmp # last /\ n \notin live
              \/ tmp # first /\ b \notin live
           THEN Fault
           ELSE /\ first' = IF tmp = first THEN n ELSE first
                /\ last' = IF tmp = last THEN b ELSE last
                /\ next' = Relink(next, b, n)
                /\ prev' = Relink(prev, n, b)
                /\ Delete(tmp)
                /\ RemoveReturns
                /\ UNCHANGED <<current, out, fault>>

----------------------------------------------------------------------------
Next ==
    \/ \E v \in Values : AddObject(v) \/ RemoveObject(v)
    \/ AddFaults \/ NodeAllocFails \/ PayloadAllocFails
    \/ GetObject \/ ListRewind
    \/ FreeList \/ FreeStep \/ FreeEnd
    \/ RemoveFaults \/ RemoveSkip \/ RemoveMissing \/ RemoveUnlinks

Spec == Init /\ [][Next]_vars

----------------------------------------------------------------------------
(* Properties. *)

TypeOK ==
    /\ first \in Ptr /\ current \in Ptr /\ last \in Ptr /\ tmp \in Ptr
    /\ next \in [Cells -> Ptr] /\ prev \in [Cells -> Ptr]
    /\ p \in [Cells -> Values \cup {NULL}]
    /\ live \subseteq Cells
    /\ op \in {"idle", "free", "remove"}
    /\ key \in Values \cup {NULL} /\ out \in Values \cup {NULL}
    /\ stale \in BOOLEAN /\ fault \in BOOLEAN

\* The cells met from `start` along `link`, up to one that is not among cs.
ChainIn(cs, start, link) ==
    LET walk[n \in 0 .. Cardinality(Cells)] ==
            IF n = 0 THEN <<>>
            ELSE LET s == walk[n - 1]
                     c == IF s = <<>> THEN start ELSE link[Last(s)]
                 IN  IF c \in cs /\ Len(s) = n - 1 THEN Append(s, c) ELSE s
    IN  walk[Cardinality(Cells)]

Chain(start, link) == ChainIn(live, start, link)

\* The state a failed payload allocation on an empty list leaves.
HalfBuilt == first # NULL /\ last = NULL

\* free_list and remove_object follow no deleted or NULL pointer, whatever was
\* called before (tmp->prev is read before the delete, the neighbours of a
\* removed object are live), unless a payload allocation failed on the empty
\* list.  Between calls only get_object does, and only after the object
\* under the cursor was deleted and the cursor not rewound (linked.cpp:135);
\* add_object never does, as last is live when first is not NULL (WellLinked).
FaultOnlyHalfBuilt == fault => HalfBuilt \/ (op = "idle" /\ stale /\ Dangles)

\* Between calls the list reads the same in both directions, its ends are first
\* and last, and every live cell that holds a payload is on it, whatever was
\* added, removed and freed before: free_list will lose no object.
WellLinked ==
    op = "idle" /\ ~HalfBuilt =>
        /\ Chain(last, prev) = Reverse(Chain(first, next))
        /\ first = NULL <=> last = NULL
        /\ first # NULL => /\ Chain(first, next) # <<>>
                           /\ Last(Chain(first, next)) = last
        /\ \A c \in live : p[c] # NULL => c \in ToSet(Chain(first, next))

\* The object list implements the sequence with a cursor: free_list takes
\* effect when its loop starts, remove_object when it unlinks.
Items == IF op = "free" THEN <<>>
         ELSE LET s == Chain(first, next) IN [i \in DOMAIN s |-> p[s[i]]]

Cursor == IF current = NULL THEN 0
          ELSE IF op # "free" /\ ~stale /\ current \in ToSet(Chain(first, next))
               THEN CHOOSE i \in DOMAIN Chain(first, next) :
                        Chain(first, next)[i] = current
               ELSE -1

Abstract == INSTANCE CursorList WITH items <- Items, cursor <- Cursor, result <- out

\* Until a payload allocation fails on an empty list, every step of linked.cpp
\* is a step of CursorList.
ImplementsCursorList == Abstract!Init /\ [][~HalfBuilt' => Abstract!Next]_(Abstract!listVars)
============================================================================
