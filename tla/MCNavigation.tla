---------------------------- MODULE MCNavigation ----------------------------
(* Small instances of Navigation. *)
EXTENDS Navigation, TLC
=============================================================================
