----------------------------- MODULE MCFraming -----------------------------
(* A hello, one of another version, and messages whose bodies look like the *)
(* start of a message.                                                      *)
EXTENDS Framing

HelloMsg == <<1, 0, 0, 8, 0, 0, 0, 1>>
AlienMsg == <<4, 0, 0, 8, 0, 0, 0, 2>>
PacketIn == <<1, 10, 0, 14, 0, 0, 0, 3, 1, 10, 0, 0, 0, 9>>
PortStatus == <<1, 12, 0, 10, 0, 0, 0, 4, 1, 0>>
Echo == <<1, 2, 0, 12, 0, 0, 0, 5, 1, 2, 0, 2>>

MCMessages == {HelloMsg, AlienMsg, PacketIn, PortStatus, Echo}
=============================================================================
