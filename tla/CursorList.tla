---------------------------- MODULE CursorList ----------------------------
(***************************************************************************)
(* What linked.h promises its clients: a sequence of objects with one      *)
(* built-in read cursor.  get_object returns the object after the cursor   *)
(* and, past the end, NULL, which also rewinds; list_rewind rewinds.       *)
(* Freeing the object the cursor stands on leaves the cursor Dangling:     *)
(* until the next list_rewind get_object may return anything.              *)
(***************************************************************************)
EXTENDS Integers, Sequences, SequencesExt

CONSTANTS Values,   \* contents the clients store
          NULL

VARIABLES items,    \* the objects, in insertion order
          cursor,   \* 0 rewound, i on items[i], or Dangling
          result    \* the object the last add_object or get_object returned

listVars == <<items, cursor, result>>

Dangling == -1

Init == items = <<>> /\ cursor = 0 /\ result = NULL

Add(v) ==
    /\ items' = Append(items, v)
    /\ result' = v
    /\ UNCHANGED cursor

AddFails ==
    /\ result' = NULL
    /\ UNCHANGED <<items, cursor>>

Get ==
    /\ cursor # Dangling
    /\ IF cursor = Len(items)
       THEN cursor' = 0 /\ result' = NULL
       ELSE cursor' = cursor + 1 /\ result' = items[cursor + 1]
    /\ UNCHANGED items

\* The list itself is safe from it.
GetDangling ==
    /\ cursor = Dangling
    /\ cursor' \in {Dangling, 0}
    /\ result' \in Values \cup {NULL}
    /\ UNCHANGED items

Rewind == cursor' = 0 /\ UNCHANGED <<items, result>>

Free ==
    /\ items' = <<>>
    /\ cursor' = IF cursor = 0 THEN 0 ELSE Dangling
    /\ UNCHANGED result

\* The first object equal to v goes; the cursor keeps its object.
Discard(v) ==
    \E i \in DOMAIN items :
        /\ items[i] = v
        /\ \A j \in 1 .. i - 1 : items[j] # v
        /\ items' = RemoveAt(items, i)
        /\ cursor' = CASE cursor = i -> Dangling
                       [] cursor > i -> cursor - 1
                       [] OTHER -> cursor
        /\ UNCHANGED result

Next ==
    \/ \E v \in Values : Add(v) \/ Discard(v)
    \/ AddFails \/ Get \/ GetDangling \/ Rewind \/ Free

Spec == Init /\ [][Next]_listVars
============================================================================
