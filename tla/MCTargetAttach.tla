--------------------------- MODULE MCTargetAttach ---------------------------
(* Model values for target attachment. *)
EXTENDS TargetAttach, TLC
==============================================================================
