------------------------------ MODULE PausePoint ------------------------------
(***************************************************************************)
(* What a page's pause point promises, seen from the drivers as from the   *)
(* page: a request is paused, may be claimed for a decision once, by name  *)
(* or with all that is claimable, and is let go, by its decision or        *)
(* without one.  A claimed request is not to be claimed again before it    *)
(* has been let go and has paused anew.                                    *)
(***************************************************************************)
CONSTANT Requests
VARIABLE point

Init == point = [r \in Requests |-> "free"]

Claimable == {r \in Requests : point[r] = "claimable"}

Decide(rs) == point' = [r \in Requests |-> IF r \in rs THEN "decided" ELSE point[r]]

Pause(r) == point[r] = "free" /\ point' = [point EXCEPT ![r] = "claimable"]
Claim(r) == r \in Claimable /\ Decide({r})
Release  == Claimable # {} /\ Decide(Claimable)
LetGo(r) == point[r] # "free" /\ point' = [point EXCEPT ![r] = "free"]

Next == Release \/ \E r \in Requests : Pause(r) \/ Claim(r) \/ LetGo(r)

Spec == Init /\ [][Next]_point
=============================================================================
