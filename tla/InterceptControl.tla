--------------------------- MODULE InterceptControl ---------------------------
(***************************************************************************)
(* Who may switch a page's request interception on and off, and in which   *)
(* order: the `Fetch.enable` / `Fetch.disable` of several protocol         *)
(* sessions, the lanes that run them, detaching, sockets closing, and the  *)
(* page thread that consults the shared configuration (net/intercept.rs,   *)
(* cdp/session.rs, cdp/domains/fetch.rs, net/service.rs).                  *)
(*                                                                         *)
(* Every command is stamped with its receive order by the socket's read    *)
(* loop and then queued: `Fetch.enable` on its session's lane,             *)
(* `Fetch.disable` on its connection's priority lane.  A lane is one       *)
(* thread, so lanes race with each other and with teardown.                *)
(***************************************************************************)
EXTENDS InterceptConfig, Sequences, FiniteSets

CONSTANTS
  Connections,   \* sockets of the endpoint
  ConnectionOf,  \* the connection each session belongs to
  MayLeave       \* sessions may detach and sockets may close

ASSUME ConnectionOfAssumption == ConnectionOf \in [Sessions -> Connections]
ASSUME MayLeaveAssumption == MayLeave \in BOOLEAN

VARIABLES
  config,     \* the value behind the shared mutex
  nextSeq,    \* NEXT_REQUEST_SEQ, the endpoint-wide receive counter
  sessions,   \* sessions the endpoint still knows (`Connection::sessions`)
  closed,     \* connections whose read loop has ended (`Connection::closed`)
  flag,       \* `DomainFlags::fetch`, per session
  lane,       \* stamps of the `Fetch.enable`s queued on each session's lane
  priority,   \* `Fetch.disable`s queued on each connection's priority lane
  enabling,   \* how far the enable a session's lane is running has come
  disabling,  \* the disable at the head of a priority lane has lowered its flag
  releasing,  \* how far a leaving session's release has come
  decided,    \* ids whose decision is claimed and not applied by the page yet
  at,         \* where the page thread is with each request
  word        \* history: what each session's commands asked for, by stamp

vars == <<config, nextSeq, sessions, closed, flag, lane, priority, enabling,
          disabling, releasing, decided, at, word>>

laneVars == <<lane, priority, enabling, disabling>>
pageVars == <<decided, at>>

-----------------------------------------------------------------------------
Words == {"none", "enable", "disable", "refused"}
Progress == {"idle", "checked", "flagged"}
Release == {"none", "due", "claims", "disable", "done"}
Places == {"new", "matched", "paused", "sent"}

\* A `Fetch.enable` being run, with its stamp: the lane's local state.
NoEnable == [step |-> "idle", seq |-> 0]

TypeOK ==
  /\ config \in InterceptConfigs
  /\ nextSeq \in 0 .. MaxSeq
  /\ sessions \subseteq Sessions
  /\ closed \subseteq Connections
  /\ flag \in [Sessions -> BOOLEAN]
  /\ lane \in [Sessions -> Seq(0 .. MaxSeq)]
  /\ priority \in [Connections -> Seq([seq : 0 .. MaxSeq, session : Sessions])]
  /\ enabling \in [Sessions -> [step : Progress, seq : 0 .. MaxSeq]]
  /\ disabling \in [Connections -> BOOLEAN]
  /\ releasing \in [Sessions -> Release]
  /\ decided \subseteq Requests
  /\ at \in [Requests -> Places]
  /\ word \in [Sessions -> [0 .. MaxSeq -> Words]]

\* A session is live while neither it nor its socket has gone.
Live(s) == s \in sessions /\ ConnectionOf[s] \notin closed

\* No command is queued or running and no release is under way.
Quiet ==
  /\ \A s \in Sessions : lane[s] = <<>> /\ enabling[s].step = "idle"
  /\ \A c \in Connections : priority[c] = <<>>
  /\ \A s \in Sessions : releasing[s] \in {"none", "done"}

-----------------------------------------------------------------------------
(***************************************************************************)
(* The read loop: `Connection::submit`.                                    *)
(***************************************************************************)
MayReceive(s) ==
  /\ Live(s)
  /\ nextSeq < MaxSeq

ReceiveEnable(s) ==
  /\ MayReceive(s)
  /\ nextSeq' = nextSeq + 1
  /\ lane' = [lane EXCEPT ![s] = Append(@, nextSeq)]
  /\ word' = [word EXCEPT ![s][nextSeq] = "enable"]
  /\ UNCHANGED <<config, sessions, closed, flag, priority, enabling, disabling, releasing, pageVars>>

ReceiveDisable(s) ==
  /\ MayReceive(s)
  /\ nextSeq' = nextSeq + 1
  /\ priority' = [priority EXCEPT ![ConnectionOf[s]] =
                    Append(@, [seq |-> nextSeq, session |-> s])]
  /\ word' = [word EXCEPT ![s][nextSeq] = "disable"]
  /\ UNCHANGED <<config, sessions, closed, flag, lane, enabling, disabling, releasing, pageVars>>

-----------------------------------------------------------------------------
(***************************************************************************)
(* The session lane: `fetch::enable`, from the job's `closed` check and    *)
(* `require_session`, over the blocking question to the page               *)
(* (`has_event_sink`), to the flag and then the shared configuration - or  *)
(* to an error that touches neither.                                       *)
(***************************************************************************)
StartEnable(s) ==
  /\ enabling[s].step = "idle" /\ lane[s] # <<>>
  /\ lane' = [lane EXCEPT ![s] = Tail(@)]
  /\ enabling' = IF Live(s)
                   THEN [enabling EXCEPT ![s] = [step |-> "checked", seq |-> Head(lane[s])]]
                   ELSE enabling
  /\ UNCHANGED <<config, nextSeq, sessions, closed, flag, priority, disabling, releasing, pageVars, word>>

\* A stage or resource type that is not served, a closed page, a page without
\* an event sink, or a page that does not answer: the command fails.
RefuseEnable(s) ==
  /\ enabling[s].step = "checked"
  /\ enabling' = [enabling EXCEPT ![s] = NoEnable]
  /\ word' = [word EXCEPT ![s][enabling[s].seq] = "refused"]
  /\ UNCHANGED <<config, nextSeq, sessions, closed, flag, lane, priority, disabling, releasing, pageVars>>

RaiseFlag(s) ==
  /\ enabling[s].step = "checked"
  /\ flag' = [flag EXCEPT ![s] = TRUE]
  /\ enabling' = [enabling EXCEPT ![s].step = "flagged"]
  /\ UNCHANGED <<config, nextSeq, sessions, closed, lane, priority, disabling, releasing, pageVars, word>>

ApplyEnable(s) ==
  /\ enabling[s].step = "flagged"
  /\ config' = Enable(config, enabling[s].seq, s, Requests, FALSE)
  /\ enabling' = [enabling EXCEPT ![s] = NoEnable]
  /\ UNCHANGED <<nextSeq, sessions, closed, flag, lane, priority, disabling, releasing, pageVars, word>>

(***************************************************************************)
(* The priority lane: `fetch::disable`, the flag and then the shared       *)
(* configuration with its releases.  Between the drain and its release     *)
(* being applied an id is in `decided`.                                    *)
(***************************************************************************)
StartDisable(c) ==
  /\ priority[c] # <<>> /\ ~disabling[c]
  /\ LET s == Head(priority[c]).session IN
       IF Live(s)
         THEN /\ flag' = [flag EXCEPT ![s] = FALSE]
              /\ disabling' = [disabling EXCEPT ![c] = TRUE]
              /\ UNCHANGED priority
         ELSE /\ priority' = [priority EXCEPT ![c] = Tail(@)]
              /\ UNCHANGED <<flag, disabling>>
  /\ UNCHANGED <<config, nextSeq, sessions, closed, lane, enabling, releasing, pageVars, word>>

ApplyDisable(c) ==
  /\ disabling[c]
  /\ LET job == Head(priority[c]) IN
       /\ config' = Disable(config, job.seq, job.session)
       /\ decided' = decided \union DisableReleases(config, job.session)
  /\ priority' = [priority EXCEPT ![c] = Tail(@)]
  /\ disabling' = [disabling EXCEPT ![c] = FALSE]
  /\ UNCHANGED <<nextSeq, sessions, closed, flag, lane, enabling, releasing, at, word>>

\* `InterceptControl::resolve`, from any session's `Fetch.continueRequest`.
Resolve(r) ==
  /\ r \in config.paused
  /\ \E s \in Sessions : Live(s)
  /\ config' = Unpause(config, r)
  /\ decided' = decided \union {r}
  /\ UNCHANGED <<nextSeq, sessions, closed, flag, laneVars, releasing, at, word>>

\* `Network.emulateNetworkConditions`, on the session's own lane, which is not
\* in the middle of an enable.
EmulateOffline(s, offline) ==
  /\ Live(s) /\ enabling[s].step = "idle"
  /\ config' = SetConditions(config, offline)
  /\ UNCHANGED <<nextSeq, sessions, closed, flag, laneVars, releasing, pageVars, word>>

-----------------------------------------------------------------------------
(***************************************************************************)
(* Leaving: `Connection::detach`, or the socket closing                    *)
(* (`release_all_interception`), then `release_interception` for each      *)
(* session whose flag is up: two critical sections of `release_sessions`.  *)
(***************************************************************************)
Detach(s) ==
  /\ MayLeave /\ Live(s)
  /\ sessions' = sessions \ {s}
  /\ releasing' = [releasing EXCEPT ![s] = "due"]
  /\ UNCHANGED <<config, nextSeq, closed, flag, laneVars, pageVars, word>>

Close(c) ==
  /\ MayLeave /\ c \notin closed
  /\ closed' = closed \union {c}
  /\ releasing' = [s \in Sessions |->
                     IF s \in sessions /\ ConnectionOf[s] = c THEN "due" ELSE releasing[s]]
  /\ UNCHANGED <<config, nextSeq, sessions, flag, laneVars, pageVars, word>>

LowerFlag(s) ==
  /\ releasing[s] = "due"
  /\ flag' = [flag EXCEPT ![s] = FALSE]
  /\ releasing' = [releasing EXCEPT ![s] = IF flag[s] THEN "claims" ELSE "done"]
  /\ UNCHANGED <<config, nextSeq, sessions, closed, laneVars, pageVars, word>>

DropClaim(s) ==
  /\ releasing[s] = "claims"
  /\ config' = DropClaims(config, {s})
  /\ releasing' = [releasing EXCEPT ![s] =
                     IF ClaimsWithout(config, {s}) = {} THEN "disable" ELSE "done"]
  /\ UNCHANGED <<nextSeq, sessions, closed, flag, laneVars, pageVars, word>>

DisableForGood(s) ==
  /\ releasing[s] = "disable"
  /\ config' = Disable(config, Forever, NoSession)
  /\ decided' = decided \union DisableReleases(config, NoSession)
  /\ releasing' = [releasing EXCEPT ![s] = "done"]
  /\ UNCHANGED <<nextSeq, sessions, closed, flag, laneVars, at, word>>

-----------------------------------------------------------------------------
(***************************************************************************)
(* The page thread, reduced to what it does with the shared configuration: *)
(* `intercepts`, then `announce_pause`, under two critical sections; then  *)
(* a decision, or the give-up deadline.                                    *)
(***************************************************************************)
CheckRequest(r) ==
  /\ at[r] = "new"
  /\ at' = [at EXCEPT ![r] = IF Matches(config, r) THEN "matched" ELSE "sent"]
  /\ UNCHANGED <<config, nextSeq, sessions, closed, flag, laneVars, releasing, decided, word>>

AnnouncePause(r) ==
  /\ at[r] = "matched"
  /\ config' = Pause(config, r)
  /\ at' = [at EXCEPT ![r] = "paused"]
  /\ UNCHANGED <<nextSeq, sessions, closed, flag, laneVars, releasing, decided, word>>

\* Mutant: the shared set is not told that the page let go.
LetGoUntold(r) ==
  /\ at' = [at EXCEPT ![r] = "sent"]
  /\ decided' = decided \ {r}
  /\ UNCHANGED <<config, nextSeq, sessions, closed, flag, laneVars, releasing, word>>

LetGo(r) ==
  /\ at' = [at EXCEPT ![r] = "sent"]
  /\ config' = Unpause(config, r)
  /\ decided' = decided \ {r}
  /\ UNCHANGED <<nextSeq, sessions, closed, flag, laneVars, releasing, word>>

ApplyDecision(r) == at[r] = "paused" /\ r \in decided /\ LetGo(r)

\* `release_expired_pauses`, or `await_decision` giving up.
GiveUp(r) == at[r] = "paused" /\ LetGo(r)

-----------------------------------------------------------------------------
Init ==
  /\ config = DefaultConfig
  /\ nextSeq = 0
  /\ sessions = Sessions
  /\ closed = {}
  /\ flag = [s \in Sessions |-> FALSE]
  /\ lane = [s \in Sessions |-> <<>>]
  /\ priority = [c \in Connections |-> <<>>]
  /\ enabling = [s \in Sessions |-> NoEnable]
  /\ disabling = [c \in Connections |-> FALSE]
  /\ releasing = [s \in Sessions |-> "none"]
  /\ decided = {}
  /\ at = [r \in Requests |-> "new"]
  /\ word = [s \in Sessions |-> [n \in 0 .. MaxSeq |-> "none"]]

LaneNext(s) == StartEnable(s) \/ RefuseEnable(s) \/ RaiseFlag(s) \/ ApplyEnable(s)
ReleaseNext(s) == LowerFlag(s) \/ DropClaim(s) \/ DisableForGood(s)
PageNext(r) == CheckRequest(r) \/ AnnouncePause(r) \/ ApplyDecision(r) \/ GiveUp(r)

Next ==
  \/ \E s \in Sessions : ReceiveEnable(s) \/ ReceiveDisable(s) \/ Detach(s)
  \/ \E s \in Sessions, offline \in BOOLEAN : EmulateOffline(s, offline)
  \/ \E s \in Sessions : LaneNext(s) \/ ReleaseNext(s)
  \/ \E c \in Connections : StartDisable(c) \/ ApplyDisable(c) \/ Close(c)
  \/ \E r \in Requests : Resolve(r) \/ PageNext(r)

Spec == Init /\ [][Next]_vars

-----------------------------------------------------------------------------
(***************************************************************************)
(* Properties.                                                             *)
(***************************************************************************)

\* A standing claim is never starved: while some session holds a claim in
\* `wanted_by`, the page-wide switch is on.  (Disabling is the last claim's
\* doing, whatever mix of stale stamps and teardowns got there.)
ClaimsKeepItOn == config.wantedBy # {} => config.enabled

\* The shared set names only requests the page really holds, so a claim that
\* succeeds is a decision about a request that is still waiting.
PausedIsHeld == \A r \in config.paused : at[r] = "paused" /\ r \notin decided

\* A held request is either still claimable or has its decision on the way:
\* no interleaving of releases, resolutions and teardowns loses it.
HeldIsAnswerable == \A r \in Requests : at[r] = "paused" => r \in config.paused \union decided

\* The driver's view of what is paused and the page's agree, both ways.
PausesAgree == PausedIsHeld /\ HeldIsAnswerable

\* A session letting go while another still claims releases none of the
\* requests that other session is in the middle of answering.
OthersKeepTheirPauses ==
  [][config'.wantedBy # {} /\ config'.wantedBy # config.wantedBy
       => config'.paused = config.paused]_vars

\* Theorem only: the configuration never moves back to an older command's.
NeverRolledBack == [][config'.configSeq >= config.configSeq]_vars

\* The only session that ever spoke, and it is still there.
LoneDriver(s) ==
  /\ Live(s)
  /\ \A q \in Sessions \ {s} : Live(q) /\ \A n \in 0 .. MaxSeq : word[q][n] = "none"

\* The stamps of the commands of s that were not refused, and whether the newest
\* of them is an enable.
Standing(s) == {n \in 0 .. MaxSeq : word[s][n] \in {"enable", "disable"}}
SaysOn(s) == \E n \in Standing(s) : word[s][n] = "enable" /\ \A m \in Standing(s) : m <= n

\* A lone driver's order wins over the lanes': once everything it sent has run,
\* interception is on exactly when the last of its commands that was not refused
\* is an enable, whichever lane ran first and wherever among them enables were
\* refused.  (Between two drivers of a page the code promises as much and does
\* not keep it: the README says how.)
LastWordWins ==
  \A s \in Sessions : LoneDriver(s) /\ Quiet => (config.enabled <=> SaysOn(s))

\* Where r is at the pause point this module and NetService are two views of.
PauseState(r) ==
  CASE at[r] # "paused"     -> "free"
    [] r \in config.paused  -> "claimable"
    [] OTHER                -> "decided"

PausePoint == INSTANCE PausePoint WITH point <- [r \in Requests |-> PauseState(r)]

\* Theorem only: whatever lanes, teardowns and give-ups race for the shared set,
\* a pause is claimed at most once, alone or in a release of all, and a claimed
\* request comes back only as a new pause.
FollowsPausePoint == PausePoint!Spec

(***************************************************************************)
(* What the comments and the decision record say, and the code does not do.*)
(***************************************************************************)

\* "`seq` is the request's receive order; an older one is ignored": the newest
\* command of all is not older than anything, so its enable takes effect.
NewestEnableTakesEffect ==
  [][\A s \in Sessions :
       enabling[s].step = "flagged" /\ enabling[s].seq = nextSeq - 1 /\ Live(s)
         /\ enabling'[s].step = "idle"
       => s \in config'.wantedBy]_vars
=============================================================================
