------------------------- MODULE MCDeferredReplies --------------------------
(* Model values for deferred replies. *)
EXTENDS DeferredReplies, TLC
=============================================================================
