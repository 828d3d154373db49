---------------------------- MODULE MCXAppRelay ----------------------------
(* Small instances of the relay for TLC. *)
EXTENDS XAppRelay
============================================================================
