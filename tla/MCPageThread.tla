---------------------------- MODULE MCPageThread ----------------------------
(* Model values for the page thread. *)
EXTENDS PageThread, TLC

(* Callers are alike, and so are closers.                                  *)
Symmetry == Permutations(Callers) \cup Permutations(Closers)
=============================================================================
