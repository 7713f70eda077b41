------------------------------ MODULE NetService ------------------------------
(***************************************************************************)
(* One page's requests and the pause point (net/service.rs): the page      *)
(* thread that announces, parks, resumes, aborts and closes requests, the  *)
(* tokio tasks that fetch, the driver that decides, and the page thread    *)
(* parked inside a blocking fetch.                                         *)
(*                                                                         *)
(* Async requests are those started by `spawn_fetch`, Blocking ones those  *)
(* of `fetch_blocking`; ids are never reused.  A request's URL, method and *)
(* headers decide nothing here: whether it pauses is its membership in the *)
(* pattern set, and what its fetch answers is a member of Responses.       *)
(***************************************************************************)
EXTENDS InterceptConfig, Sequences, FiniteSets, Functions

CONSTANTS
  Async, Blocking,
  Kinds,        \* bound: the decisions the driver makes
  Responses,    \* bound: what a fetch may come to
  Permits,      \* MAX_CONCURRENT_FETCHES
  MaxHops,      \* MAX_FULFILLED_REDIRECTS
  MaxAuth,      \* MAX_AUTH_ATTEMPTS
  PatternLists, \* bound: the pattern lists the driver enables, as what they match
  MaxRequests,  \* bound: requests ever announced
  MayExpire     \* the give-up deadline of a pause may pass

ASSUME RequestsAssumption == Requests = Async \union Blocking /\ Async \intersect Blocking = {}
ASSUME KindsAssumption ==
  Kinds \subseteq {"continue", "fulfill", "redirect", "fail", "provide", "default"}
ASSUME ResponsesAssumption == Responses \subseteq {"body", "empty", "challenge", "error"}
ASSUME LimitsAssumption ==
  /\ Permits \in Nat \ {0} /\ MaxHops \in Nat /\ MaxAuth \in Nat
  /\ MaxRequests \in Nat
ASSUME DriverAssumption ==
  /\ Sessions # {} /\ PatternLists \subseteq SUBSET Requests /\ MayExpire \in BOOLEAN

VARIABLES
  config,     \* the shared InterceptConfig
  sending,    \* decisions a driver thread has claimed and not sent yet
  decisions,  \* the decision channel
  deferred,   \* decisions a blocking park received for other ids
  parked,     \* async requests at the pause point
  retryAuth,  \* credentials already tried, per request
  hops,       \* fulfilled redirects already followed, per request
  task,       \* the tokio task fetching each request
  netRx,      \* NetEvents on their way to the page, per request
  open,       \* requests that owe the observer a terminal event
  seen,       \* what the observer last heard of each request
  ends,       \* history: terminal events the observer heard, per request
  pauses,     \* history: pauses announced so far, per request
  park        \* the blocking fetch the page thread is inside

service == <<parked, retryAuth, hops, task, netRx>>
observer == <<open, seen, ends>>
channels == <<sending, decisions, deferred>>
vars == <<config, channels, service, observer, pauses, park>>

-----------------------------------------------------------------------------
Decisions == [id : Requests, kind : Kinds \union {"continue"}, pause : Nat]
NotParked == [kind |-> "none", attempts |-> 0]
NoTask == [at |-> "none", cancelled |-> FALSE, auth |-> FALSE]
NoPark == [at |-> "idle"]

\* What can be queued for a request: the events of one outcome, and its rests.
EventRuns ==
  {<<>>, <<"headers", "chunk", "done">>, <<"chunk", "done">>, <<"headers", "done">>,
   <<"done">>, <<"error">>, <<"auth">>}

Parks ==
  {NoPark} \union
  [at : {"parked", "due", "fetching", "authParked", "refetching", "succeeded", "failed", "closing"},
   id : Blocking, intercepted : BOOLEAN]

TypeOK ==
  /\ config \in InterceptConfigs
  /\ sending \subseteq Decisions
  /\ decisions \in Seq(Decisions)
  /\ deferred \in Seq(Decisions)
  /\ parked \in [Async -> [kind : {"none", "request", "auth"}, attempts : 0 .. MaxAuth]]
  /\ retryAuth \in [Async -> 0 .. MaxAuth]
  /\ hops \in [Async -> 0 .. MaxHops]
  /\ task \in [Async -> [at : {"none", "queued", "running"},
                         cancelled : BOOLEAN, auth : BOOLEAN]]
  /\ netRx \in [Async -> EventRuns]
  /\ open \subseteq Requests
  /\ seen \in [Requests -> {"idle", "requested", "responded", "finished", "failed"}]
  /\ ends \in [Requests -> Nat]
  /\ pauses \in [Requests -> Nat]
  /\ park \in Parks

-----------------------------------------------------------------------------
(***************************************************************************)
(* Helpers.                                                                *)
(***************************************************************************)
Decision(r, k) == [id |-> r, kind |-> k, pause |-> pauses[r]]

\* `note_request`
NoteRequest(r) ==
  /\ seen[r] = "idle"
  /\ Cardinality({q \in Requests : seen[q] # "idle"}) < MaxRequests
  /\ open' = open \union {r}
  /\ seen' = [seen EXCEPT ![r] = "requested"]
  /\ UNCHANGED ends

\* Mutant: a terminal event is told whether or not the record is open.
EndUngated(r, how) ==
  /\ open' = open \ {r}
  /\ seen' = [seen EXCEPT ![r] = how]
  /\ ends' = [ends EXCEPT ![r] = @ + 1]

\* `close`, and the terminal event of a request that was still open.
End(r, how) ==
  IF r \in open
    THEN /\ open' = open \ {r}
         /\ seen' = [seen EXCEPT ![r] = how]
         /\ ends' = [ends EXCEPT ![r] = @ + 1]
    ELSE UNCHANGED observer

\* `emit_outcome`: an empty body produces no chunk.
OutcomeEvents(response) ==
  IF response = "empty" THEN <<"headers", "done">> ELSE <<"headers", "chunk", "done">>

Queue(r, events) == netRx' = [netRx EXCEPT ![r] = @ \o events]

\* `spawn_fetch_with`: the offline gate, or a new task under a new cancel flag.
Spawn(r) ==
  IF config.offline
    THEN Queue(r, <<"error">>) /\ UNCHANGED task
    ELSE /\ task' = [task EXCEPT ![r] = [at |-> "queued", cancelled |-> FALSE,
                                         auth |-> Matches(config, r) /\ config.handleAuth]]
         /\ UNCHANGED netRx

\* Mutant: one redirect too many.
FollowRedirectPastLimit(r) ==
  IF hops[r] <= MaxHops
    THEN /\ hops' = [hops EXCEPT ![r] = @ + 1]
         /\ Spawn(r)
    ELSE /\ Queue(r, <<"error">>)
         /\ UNCHANGED <<hops, task>>

\* `deliver_fulfilled`, for a redirect and for anything else.
FollowRedirect(r) ==
  IF hops[r] < MaxHops
    THEN /\ hops' = [hops EXCEPT ![r] = @ + 1]
         /\ Spawn(r)
    ELSE /\ Queue(r, <<"error">>)
         /\ UNCHANGED <<hops, task>>

\* `announce_pause` / `announce_auth`, then `park`.
ParkAt(r, pause) ==
  /\ config' = Pause(config, r)
  /\ pauses' = [pauses EXCEPT ![r] = @ + 1]
  /\ parked' = [parked EXCEPT ![r] = pause]

\* The page thread is in its event loop, not inside a blocking fetch.
PageFree == park.at = "idle"

-----------------------------------------------------------------------------
(***************************************************************************)
(* The page thread: starting, aborting and receiving.                      *)
(***************************************************************************)
StartAsync(r) ==
  /\ PageFree
  /\ NoteRequest(r)
  /\ IF Matches(config, r)
       THEN /\ ParkAt(r, [kind |-> "request", attempts |-> 0])
            /\ UNCHANGED <<task, netRx>>
       ELSE /\ Spawn(r)
            /\ UNCHANGED <<config, pauses, parked>>
  /\ UNCHANGED <<channels, retryAuth, hops, park>>

\* `abort`'s `retain` on the deferred queue: the decisions about other requests
\* stay, in the order they were put aside.
AboutOthers(r) == {i \in DOMAIN deferred : deferred[i].id # r}
DropDeferred(r) ==
  \E kept \in Bijection(1 .. Cardinality(AboutOthers(r)), AboutOthers(r)) :
    /\ \A i, j \in DOMAIN kept : i < j => kept[i] < kept[j]
    /\ deferred' = [i \in DOMAIN kept |-> deferred[kept[i]]]

\* Mutant: the task is not cancelled.
AbortLeavesTask(r) ==
  /\ PageFree /\ seen[r] # "idle"
  /\ parked' = [parked EXCEPT ![r] = NotParked]
  /\ config' = Unpause(config, r)
  /\ retryAuth' = [retryAuth EXCEPT ![r] = 0]
  /\ DropDeferred(r)
  /\ End(r, "failed")
  /\ UNCHANGED <<sending, decisions, task, hops, netRx, pauses, park>>

\* `abort`: by `xhr.abort()`, an AbortController, or a navigation.
Abort(r) ==
  /\ PageFree /\ seen[r] # "idle"
  /\ parked' = [parked EXCEPT ![r] = NotParked]
  /\ config' = Unpause(config, r)
  /\ retryAuth' = [retryAuth EXCEPT ![r] = 0]
  /\ DropDeferred(r)
  /\ task' = [task EXCEPT ![r].cancelled = task[r].at # "none"]
  /\ End(r, "failed")
  /\ UNCHANGED <<sending, decisions, hops, netRx, pauses, park>>

\* `note_event`'s arms, as far as the observer goes.
NoteEvent(r, event) ==
  CASE event = "headers" /\ r \in open ->
         seen' = [seen EXCEPT ![r] = "responded"] /\ UNCHANGED <<open, ends>>
    [] event = "error"                 -> End(r, "failed")
    [] event \in {"chunk", "done"}     -> End(r, "finished")
    [] OTHER                           -> UNCHANGED observer

\* `begin_auth_pause`: nothing is parked for a request that was aborted.
BeginAuthPause(r) ==
  IF r \in open
    THEN ParkAt(r, [kind |-> "auth", attempts |-> retryAuth[r]])
    ELSE UNCHANGED <<config, pauses, parked>>

\* `dispatch_net_event`, with the `finish` that follows a terminal event.
Dispatch(r) ==
  /\ PageFree /\ netRx[r] # <<>>
  /\ netRx' = [netRx EXCEPT ![r] = Tail(@)]
  /\ LET event == Head(netRx[r]) IN
       /\ NoteEvent(r, event)
       /\ IF event = "auth" THEN BeginAuthPause(r)
                            ELSE UNCHANGED <<config, pauses, parked>>
       /\ IF event \in {"done", "error"}
            THEN /\ retryAuth' = [retryAuth EXCEPT ![r] = 0]
                 /\ hops' = [hops EXCEPT ![r] = 0]
            ELSE UNCHANGED <<retryAuth, hops>>
  /\ UNCHANGED <<channels, task, park>>

-----------------------------------------------------------------------------
(***************************************************************************)
(* The page thread: decisions (`drain_decisions`, `apply_decision`).       *)
(***************************************************************************)

\* The match on what the request was parked for and what was decided.
Act(r, kind) ==
  LET goesOut ==
        \/ parked[r].kind = "request" /\ kind \in {"continue", "provide", "default"}
        \/ parked[r].kind = "auth" /\ kind = "provide" /\ parked[r].attempts < MaxAuth
  IN
  /\ retryAuth' = IF goesOut /\ parked[r].kind = "auth"
                    THEN [retryAuth EXCEPT ![r] = parked[r].attempts + 1]
                    ELSE retryAuth
  /\ CASE goesOut            -> Spawn(r) /\ UNCHANGED hops
       [] kind = "redirect"  -> FollowRedirect(r)
       [] kind = "fail"      -> Queue(r, <<"error">>) /\ UNCHANGED <<task, hops>>
       [] OTHER              -> \* fulfilled, or the stashed 401/407 goes through
            /\ \E response \in {"body", "empty"} : Queue(r, OutcomeEvents(response))
            /\ UNCHANGED <<task, hops>>

\* A decision for a request that is not parked is dropped.
Apply(r, kind) ==
  IF r \in Async /\ parked[r].kind # "none"
    THEN /\ Act(r, kind)
         /\ parked' = [parked EXCEPT ![r] = NotParked]
         /\ config' = Unpause(config, r)
    ELSE UNCHANGED <<config, service>>

ApplyDeferred ==
  /\ PageFree /\ deferred # <<>>
  /\ Apply(Head(deferred).id, Head(deferred).kind)
  /\ deferred' = Tail(deferred)
  /\ UNCHANGED <<sending, decisions, observer, pauses, park>>

ApplyDecision ==
  /\ PageFree /\ deferred = <<>> /\ decisions # <<>>
  /\ Apply(Head(decisions).id, Head(decisions).kind)
  /\ decisions' = Tail(decisions)
  /\ UNCHANGED <<sending, deferred, observer, pauses, park>>

\* Mutant: only request pauses are swept, auth pauses are not.
ExpireRequestPause(r) ==
  /\ PageFree /\ deferred = <<>> /\ parked[r].kind = "request"
  /\ MayExpire
  /\ Apply(r, "continue")
  /\ UNCHANGED <<channels, observer, pauses, park>>

\* `release_expired_pauses`: a give-up deadline passes and the sweep lets go.
Expire(r) ==
  /\ PageFree /\ deferred = <<>> /\ parked[r].kind # "none"
  /\ MayExpire
  /\ Apply(r, "continue")
  /\ UNCHANGED <<channels, observer, pauses, park>>

-----------------------------------------------------------------------------
(***************************************************************************)
(* The tokio tasks.                                                        *)
(***************************************************************************)
Running == {r \in Async : task[r].at = "running"}

\* A permit is granted; a task cancelled meanwhile returns without a word.
TaskStart(r) ==
  /\ task[r].at = "queued"
  /\ \/ task[r].cancelled
     \/ Cardinality(Running) < Permits
  /\ task' = [task EXCEPT ![r] = IF task[r].cancelled THEN NoTask ELSE [@ EXCEPT !.at = "running"]]
  /\ UNCHANGED <<config, channels, parked, retryAuth, hops, netRx, observer, pauses, park>>

TaskEnd(r, response) ==
  /\ task[r].at = "running"
  /\ task' = [task EXCEPT ![r] = NoTask]
  /\ IF task[r].cancelled THEN UNCHANGED netRx
     ELSE Queue(r, CASE response = "error"                       -> <<"error">>
                     [] response = "challenge" /\ task[r].auth   -> <<"auth">>
                     [] OTHER                                    -> OutcomeEvents(response))
  /\ UNCHANGED <<config, channels, parked, retryAuth, hops, observer, pauses, park>>

-----------------------------------------------------------------------------
(***************************************************************************)
(* The driver: its lanes claim under the lock and send after it.           *)
(***************************************************************************)
Driver == CHOOSE s \in Sessions : TRUE

SwitchOn(patterns, auth) ==
  /\ config' = Enable(config, config.configSeq, Driver, patterns, auth)
  /\ UNCHANGED <<channels, service, observer, pauses, park>>

SwitchOff ==
  /\ config.enabled
  /\ config' = Disable(config, config.configSeq, Driver)
  /\ sending' = sending \union
                  {Decision(r, "continue") : r \in DisableReleases(config, Driver)}
  /\ UNCHANGED <<decisions, deferred, service, observer, pauses, park>>

\* Mutant: the claim only looks.
ClaimPeeks(r, k) ==
  /\ r \in config.paused
  /\ sending' = sending \union {Decision(r, k)}
  /\ UNCHANGED <<config, decisions, deferred, service, observer, pauses, park>>

Claim(r, k) ==
  /\ r \in config.paused
  /\ config' = Unpause(config, r)
  /\ sending' = sending \union {Decision(r, k)}
  /\ UNCHANGED <<decisions, deferred, service, observer, pauses, park>>

Send(d) ==
  /\ d \in sending
  /\ sending' = sending \ {d}
  /\ decisions' = Append(decisions, d)
  /\ UNCHANGED <<config, deferred, service, observer, pauses, park>>

EmulateOffline(offline) ==
  /\ config' = SetConditions(config, offline)
  /\ UNCHANGED <<channels, service, observer, pauses, park>>

-----------------------------------------------------------------------------
(***************************************************************************)
(* The blocking half (`run_blocking`): the page thread does nothing else.  *)
(***************************************************************************)
StartBlocking(r) ==
  /\ PageFree
  /\ NoteRequest(r)
  /\ park' = [at |-> IF Matches(config, r) THEN "parked" ELSE "due",
              id |-> r, intercepted |-> Matches(config, r)]
  /\ IF Matches(config, r)
       THEN config' = Pause(config, r) /\ pauses' = [pauses EXCEPT ![r] = @ + 1]
       ELSE UNCHANGED <<config, pauses>>
  /\ UNCHANGED <<channels, service>>

Waiting == park.at \in {"parked", "authParked"}

\* What the operation does with the answer of either of its two pauses.
Resume(kind) ==
  park' = [park EXCEPT !.at =
    CASE park.at = "parked" /\ kind = "fulfill" -> "succeeded"
      [] park.at = "parked" /\ kind = "fail"    -> "failed"
      [] park.at = "parked"                     -> "due"
      [] kind = "provide"                       -> "refetching"
      [] OTHER                                  -> "succeeded"]

ForPark(d) == d.id = park.id

\* `take_deferred` looks here first.  It finds nothing: ids are never reused and
\* blocking fetches do not nest, so what was put aside is for another request.
SetAside == \E i \in DOMAIN deferred : ForPark(deferred[i])

\* Mutant: a decision for another id is thrown away.
ReceiveOnlyMine ==
  /\ Waiting /\ decisions # <<>>
  /\ decisions' = Tail(decisions)
  /\ IF ForPark(Head(decisions))
       THEN Resume(Head(decisions).kind) /\ config' = Unpause(config, park.id)
       ELSE UNCHANGED <<park, config>>
  /\ UNCHANGED <<sending, deferred, service, observer, pauses>>

\* `await_decision`'s loop: an answer for this park, or one to put aside.
Receive ==
  /\ Waiting /\ decisions # <<>>
  /\ ~SetAside
  /\ decisions' = Tail(decisions)
  /\ IF ForPark(Head(decisions))
       THEN /\ Resume(Head(decisions).kind)
            /\ config' = Unpause(config, park.id)
            /\ UNCHANGED deferred
       ELSE /\ deferred' = Append(deferred, Head(decisions))
            /\ UNCHANGED <<park, config>>
  /\ UNCHANGED <<sending, service, observer, pauses>>

\* The operation's one deadline passes with the channel empty.
ParkTimeout ==
  /\ Waiting /\ decisions = <<>>
  /\ ~SetAside
  /\ MayExpire
  /\ Resume("continue")
  /\ config' = Unpause(config, park.id)
  /\ UNCHANGED <<channels, service, observer, pauses>>

\* The offline gate, after the pause.
PassGate ==
  /\ park.at = "due"
  /\ park' = [park EXCEPT !.at = IF config.offline THEN "failed" ELSE "fetching"]
  /\ UNCHANGED <<config, channels, service, observer, pauses>>

\* `block_on_fetch`; a challenge the driver answers is a second pause.
BlockingFetch(response) ==
  /\ park.at = "fetching"
  /\ IF response = "challenge" /\ park.intercepted /\ config.handleAuth
       THEN /\ park' = [park EXCEPT !.at = "authParked"]
            /\ config' = Pause(config, park.id)
            /\ pauses' = [pauses EXCEPT ![park.id] = @ + 1]
       ELSE /\ park' = [park EXCEPT !.at = IF response = "error" THEN "failed" ELSE "succeeded"]
            /\ UNCHANGED <<config, pauses>>
  /\ UNCHANGED <<channels, service, observer>>

\* The one retry with credentials: no offline gate and no third pause.
BlockingRetry(response) ==
  /\ park.at = "refetching"
  /\ park' = [park EXCEPT !.at = IF response = "error" THEN "failed" ELSE "succeeded"]
  /\ UNCHANGED <<config, channels, service, observer, pauses>>

\* `note_blocking_outcome`: Responded and then Finished, or Failed.
NoteOutcome ==
  \/ /\ park.at = "succeeded"
     /\ seen' = [seen EXCEPT ![park.id] = "responded"]
     /\ park' = [park EXCEPT !.at = "closing"]
     /\ UNCHANGED <<open, ends>>
     /\ UNCHANGED <<config, channels, service, pauses>>
  \/ /\ park.at \in {"closing", "failed"}
     /\ End(park.id, IF park.at = "failed" THEN "failed" ELSE "finished")
     /\ park' = NoPark
     /\ UNCHANGED <<config, channels, service, pauses>>

-----------------------------------------------------------------------------
Init ==
  /\ config = DefaultConfig
  /\ sending = {} /\ decisions = <<>> /\ deferred = <<>>
  /\ parked = [r \in Async |-> NotParked]
  /\ retryAuth = [r \in Async |-> 0]
  /\ hops = [r \in Async |-> 0]
  /\ task = [r \in Async |-> NoTask]
  /\ netRx = [r \in Async |-> <<>>]
  /\ open = {}
  /\ seen = [r \in Requests |-> "idle"]
  /\ ends = [r \in Requests |-> 0]
  /\ pauses = [r \in Requests |-> 0]
  /\ park = NoPark

AsyncNext(r) == StartAsync(r) \/ Abort(r) \/ Dispatch(r) \/ Expire(r)
DrainNext == ApplyDeferred \/ ApplyDecision
TaskNext(r) == TaskStart(r) \/ \E response \in Responses : TaskEnd(r, response)
DriverNext ==
  \/ \E patterns \in PatternLists, auth \in BOOLEAN : SwitchOn(patterns, auth)
  \/ SwitchOff
  \/ \E r \in Requests, k \in Kinds : Claim(r, k)
  \/ \E d \in sending : Send(d)
  \/ \E offline \in BOOLEAN : EmulateOffline(offline)
ParkNext ==
  \/ Receive \/ ParkTimeout \/ PassGate \/ NoteOutcome
  \/ \E response \in Responses : BlockingFetch(response) \/ BlockingRetry(response)

Next ==
  \/ \E r \in Async : AsyncNext(r) \/ TaskNext(r)
  \/ DrainNext
  \/ DriverNext
  \/ ParkNext
  \/ \E r \in Blocking : StartBlocking(r)

Spec == Init /\ [][Next]_vars

(***************************************************************************)
(* The event loop drains, sweeps and dispatches on every pass, deadlines   *)
(* pass, and tokio polls its tasks.  Nothing is assumed of the driver: it  *)
(* may never answer, and a lane that claimed may never send.               *)
(***************************************************************************)
Fairness ==
  /\ WF_vars(DrainNext) /\ WF_vars(ParkNext)
  /\ \A r \in Async : WF_vars(Dispatch(r)) /\ WF_vars(Expire(r)) /\ WF_vars(TaskNext(r))

FairSpec == Spec /\ Fairness

-----------------------------------------------------------------------------
(***************************************************************************)
(* Properties.                                                             *)
(***************************************************************************)

\* "A request reports Finished or Failed once, or not at all": however aborts,
\* late answers, decisions and blocking outcomes meet, the observer hears one
\* terminal event, and hears none exactly while the request's record is open.
EndsOnce ==
  \A r \in Requests :
    /\ ends[r] <= 1
    /\ r \in open <=> seen[r] \in {"requested", "responded"}
    /\ ends[r] = 1 <=> seen[r] \in {"finished", "failed"}

\* Where an asynchronous request's next step comes from.
AtPausePoint(r) == parked[r].kind # "none"
InTask(r) == task[r].at # "none" /\ ~task[r].cancelled
InChannel(r) == netRx[r] # <<>>

\* An open request is in exactly one place: it is never stranded with nothing
\* left to end it, and never in two places (a resumed request racing its own
\* first fetch).  One that has ended has nothing left that could start it again.
OneHolder ==
  \A r \in Async :
    IF r \in open
      THEN /\ AtPausePoint(r) \/ InTask(r) \/ InChannel(r)
           /\ ~(AtPausePoint(r) /\ InTask(r))
           /\ ~(AtPausePoint(r) /\ InChannel(r))
           /\ ~(InTask(r) /\ InChannel(r))
      ELSE ~AtPausePoint(r) /\ ~InTask(r)

\* The page holds r paused: at the async pause point, or in its blocking park.
Held(r) ==
  \/ r \in Async /\ AtPausePoint(r)
  \/ Waiting /\ park.id = r

\* The shared set names only requests the page really holds, so a claim that
\* succeeds is never about a request that has moved on.
PausedIsHeld == \A r \in config.paused : Held(r)

InFlight ==
  sending \union {decisions[i] : i \in DOMAIN decisions} \union {deferred[i] : i \in DOMAIN deferred}

\* A held request is claimable or its decision is on its way: no claim, release,
\* deferral or abort of another id loses the answer a parked request waits for.
HeldIsAnswerable ==
  \A r \in Requests : Held(r) => r \in config.paused \/ \E d \in InFlight : d.id = r

\* The driver's view of what is paused and the page's agree, both ways.
PausesAgree == PausedIsHeld /\ HeldIsAnswerable

\* "Claims id for resolution: true exactly once per pause": no pause has two
\* decisions under way, nor one while it can still be claimed.
Copies(d) ==
  (IF d \in sending THEN 1 ELSE 0)
    + Cardinality({i \in DOMAIN decisions : decisions[i] = d})
    + Cardinality({i \in DOMAIN deferred : deferred[i] = d})

OneDecisionPerPause ==
  \A d \in InFlight :
    /\ Copies(d) = 1
    /\ \A e \in InFlight : e.id = d.id /\ e.pause = d.pause => e = d
    /\ d.id \in config.paused => d.pause # pauses[d.id]

\* Where r is at the pause point this module and InterceptControl are two views
\* of.
PauseState(r) ==
  CASE r \in config.paused              -> "claimable"
    [] r \notin config.paused /\ Held(r) -> "decided"
    [] OTHER                            -> "free"

PausePoint == INSTANCE PausePoint WITH point <- [r \in Requests |-> PauseState(r)]

\* Theorem only: re-pauses after redirects and auth challenges, aborts, expiry
\* and answers put aside keep to the same pause point.
FollowsPausePoint == PausePoint!Spec

(***************************************************************************)
(* What the observer is promised.                                          *)
(***************************************************************************)
Lifecycle == INSTANCE RequestLifecycle WITH phase <- seen

\* No step of the service tells the observer anything out of turn: announced
\* first, answered at most once, ended at most once, and finished only after an
\* answer.
FollowsLifecycle == Lifecycle!Spec

\* "Without that sweep an unanswered async pause produces no terminal event at
\* all": everything announced does end, whatever the driver does.
ImplementsLifecycle == Lifecycle!FairSpec
=============================================================================
