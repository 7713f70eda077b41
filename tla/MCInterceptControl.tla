-------------------------- MODULE MCInterceptControl --------------------------
(* Small instances of InterceptControl: which socket each session came in by. *)
EXTENDS InterceptControl

CONSTANTS s1, s2, c1, c2, r1

TwoSockets == [s \in Sessions |-> IF s = s1 THEN c1 ELSE c2]
=============================================================================
