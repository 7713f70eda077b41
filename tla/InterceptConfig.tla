--------------------------- MODULE InterceptConfig ---------------------------
(***************************************************************************)
(* The value behind `InterceptControl`'s mutex (net/src/intercept.rs) and  *)
(* what each of its critical sections does to it.  A critical section is   *)
(* one operator from the old value to the new one, so the modules that use *)
(* it decide where a lock is dropped between two of them.                  *)
(*                                                                         *)
(* A pattern list is the set of requests it matches: glob matching itself  *)
(* is not modelled.  `latency` delays a request and decides nothing, so it *)
(* is left out.                                                            *)
(***************************************************************************)
EXTENDS Naturals

CONSTANTS
  Sessions,   \* protocol sessions that may be attached to the page
  Requests,   \* request ids
  MaxSeq      \* bound: receive stamps handed out are 0 .. MaxSeq - 1

ASSUME MaxSeqAssumption == MaxSeq \in Nat

\* u64::MAX: the stamp a teardown uses, above every stamp a command can have.
Forever == MaxSeq

\* The session name `release_sessions` and `release_all` pass: nobody's.
NoSession == "no session"

InterceptConfigs ==
  [enabled    : BOOLEAN,
   patterns   : SUBSET Requests,
   handleAuth : BOOLEAN,
   offline    : BOOLEAN,
   paused     : SUBSET Requests,
   wantedBy   : SUBSET Sessions,
   configSeq  : 0 .. Forever]

DefaultConfig ==
  [enabled |-> FALSE, patterns |-> {}, handleAuth |-> FALSE, offline |-> FALSE,
   paused |-> {}, wantedBy |-> {}, configSeq |-> 0]

\* `InterceptConfig::matches`, behind the scheme gate of `intercepts`.
Matches(c, r) == c.enabled /\ r \in c.patterns

\* Mutant: the stamp is not compared.
EnableUnchecked(c, seq, s, patterns, auth) ==
  [c EXCEPT !.wantedBy = @ \union {s}, !.configSeq = seq,
            !.enabled = TRUE, !.patterns = patterns, !.handleAuth = auth]

\* `InterceptControl::enable`: an older stamp than the last one applied is
\* ignored, claim and all.
Enable(c, seq, s, patterns, auth) ==
  IF seq < c.configSeq
    THEN c
    ELSE [c EXCEPT !.wantedBy = @ \union {s}, !.configSeq = seq,
                   !.enabled = TRUE, !.patterns = patterns, !.handleAuth = auth]

\* The claims left once the sessions in `gone` have dropped theirs.
ClaimsWithout(c, gone) == c.wantedBy \ gone

\* Mutant: one session's disable switches the page off under the others' claims.
DisableUnderClaims(c, seq, s) ==
  [c EXCEPT !.wantedBy = ClaimsWithout(c, {s}), !.paused = {}, !.configSeq = seq,
            !.enabled = FALSE, !.patterns = {}, !.handleAuth = FALSE]

\* Mutant: the caller is put among the claims, not taken out of them.
DisableClaims(c, seq, s) == [c EXCEPT !.wantedBy = @ \union {s}]

\* Mutant: the paused set is drained before the other claims are looked at.
DisableDrainsFirst(c, seq, s) ==
  LET left == ClaimsWithout(c, {s}) IN
  IF left # {} \/ seq < c.configSeq
    THEN [c EXCEPT !.wantedBy = left, !.paused = {}]
    ELSE [c EXCEPT !.wantedBy = {}, !.paused = {}, !.configSeq = seq,
                   !.enabled = FALSE, !.patterns = {}, !.handleAuth = FALSE]

\* `InterceptControl::disable`, the new value: the claim always goes; nothing
\* else does while another stands; a stale stamp keeps the configuration.
Disable(c, seq, s) ==
  LET left == ClaimsWithout(c, {s}) IN
  IF left # {}
    THEN [c EXCEPT !.wantedBy = left]
    ELSE IF seq < c.configSeq
      THEN [c EXCEPT !.wantedBy = {}, !.paused = {}]
      ELSE [c EXCEPT !.wantedBy = {}, !.paused = {}, !.configSeq = seq,
                     !.enabled = FALSE, !.patterns = {}, !.handleAuth = FALSE]

\* `InterceptControl::disable`, the ids it hands back to be released.
DisableReleases(c, s) == IF ClaimsWithout(c, {s}) # {} THEN {} ELSE c.paused

\* The first critical section of `release_sessions` and of `release_all`.
DropClaims(c, gone) == [c EXCEPT !.wantedBy = @ \ gone]

\* `claim`, and the page's own removals from the shared set.
Unpause(c, r) == [c EXCEPT !.paused = @ \ {r}]

\* The insertion of `announce_pause` and `announce_auth`.
Pause(c, r) == [c EXCEPT !.paused = @ \union {r}]

\* `set_conditions`.
SetConditions(c, offline) == [c EXCEPT !.offline = offline]
=============================================================================
