--------------------------- MODULE RequestLifecycle ---------------------------
(***************************************************************************)
(* What a page's network observer (the CDP `Network` domain, Resource      *)
(* Timing) is promised about each request: it is announced, it may get a   *)
(* response, it ends once, and it does end.                                *)
(***************************************************************************)
CONSTANT Requests
VARIABLE phase

Init == phase = [r \in Requests |-> "idle"]

Become(r, from, to) == phase[r] \in from /\ phase' = [phase EXCEPT ![r] = to]

Announce(r) == Become(r, {"idle"}, "requested")
Respond(r)  == Become(r, {"requested"}, "responded")
Finish(r)   == Become(r, {"responded"}, "finished")
Fail(r)     == Become(r, {"requested", "responded"}, "failed")

Next == \E r \in Requests : Announce(r) \/ Respond(r) \/ Finish(r) \/ Fail(r)

Spec == Init /\ [][Next]_phase

\* An announced request is not left open; which way it ends is not promised.
FairSpec == Spec /\ \A r \in Requests : WF_phase(Respond(r) \/ Finish(r) \/ Fail(r))
=============================================================================
