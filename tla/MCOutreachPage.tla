-------------------------- MODULE MCOutreachPage --------------------------
(* Two threads for TLC. *)
EXTENDS OutreachPage
=============================================================================
