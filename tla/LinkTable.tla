----------------------------- MODULE LinkTable -----------------------------
(***************************************************************************)
(* What links_mutex is for: to the rest of the program the links table is  *)
(* a sequence to which links are added one at a time, and which a sharing  *)
(* round prints and empties in one indivisible step, so that every link is *)
(* printed exactly once unless the switch is lost first.                   *)
(***************************************************************************)
EXTENDS Naturals, Sequences

VARIABLES pending,    \* links not yet printed
          printed,    \* everything printed so far
          connected   \* whether there is a switch

linkVars == <<pending, printed, connected>>

Init == pending = <<>> /\ printed = <<>> /\ connected = FALSE

Add ==
    /\ Len(pending') = Len(pending) + 1
    /\ SubSeq(pending', 1, Len(pending)) = pending
    /\ UNCHANGED <<printed, connected>>

Report == printed' = printed \o pending /\ pending' = <<>> /\ UNCHANGED connected

\* Links are given up only when the switch is.
SwitchLost == pending' = <<>> /\ connected' = FALSE /\ UNCHANGED printed

SwitchChange == connected' = ~connected /\ UNCHANGED <<pending, printed>>

Spec == Init /\ [][Add \/ Report \/ SwitchLost \/ SwitchChange]_linkVars
============================================================================
