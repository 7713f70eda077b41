---------------------------- MODULE MCNetService ----------------------------
(* Small instances of NetService: the driver's possible answers. *)
EXTENDS NetService

CONSTANTS a1, b1, s1

OneAnswer == {"provide"}
AllAnswers == {"continue", "fulfill", "redirect", "fail", "provide", "default"}
=============================================================================
