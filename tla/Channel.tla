------------------------------ MODULE Channel ------------------------------
(* What DAIM stage 1 promises of each direction: "sends and receives       *)
(* OpenFlow messages without any modification" (ReadMe.txt).  Messages     *)
(* come out as they went in, in some number at a time, until the channel   *)
(* is cut: after that nothing is promised.                                 *)
EXTENDS Naturals, Sequences

VARIABLES sent, got, cut

Init == sent = <<>> /\ got = <<>> /\ cut = FALSE

Send ==
    /\ Len(sent') = Len(sent) + 1 /\ SubSeq(sent', 1, Len(sent)) = sent
    /\ UNCHANGED <<got, cut>>

Deliver ==
    /\ \E n \in Len(got) + 1 .. Len(sent) : got' = SubSeq(sent, 1, n)
    /\ UNCHANGED <<sent, cut>>

Cut == cut' = TRUE

Spec == Init /\ [][Send \/ Deliver \/ Cut]_<<sent, got, cut>>
============================================================================
