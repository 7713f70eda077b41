--------------------------- MODULE NetServiceProofs ---------------------------
(***************************************************************************)
(* What holds of NetService for any number of requests, permits, redirect  *)
(* hops and auth attempts, whatever the driver does: an open request is in *)
(* exactly one place, its observer hears one terminal event, each step     *)
(* tells the observer only what RequestLifecycle allows, the driver and    *)
(* the page agree on what is paused and decide each pause once, and the    *)
(* service implements PausePoint.                                          *)
(***************************************************************************)
EXTENDS NetService, SequenceTheorems, FiniteSetTheorems, FunctionTheorems, TLAPS

-----------------------------------------------------------------------------
(***************************************************************************)
(* The types the argument needs: those of the requests, not of the         *)
(* decision channels or the shared configuration.                          *)
(***************************************************************************)
ServiceTypes ==
  /\ parked \in [Async -> [kind : {"none", "request", "auth"}, attempts : 0 .. MaxAuth]]
  /\ retryAuth \in [Async -> 0 .. MaxAuth]
  /\ task \in [Async -> [at : {"none", "queued", "running"},
                         cancelled : BOOLEAN, auth : BOOLEAN]]
  /\ netRx \in [Async -> EventRuns]
  /\ open \subseteq Requests
  /\ seen \in [Requests -> {"idle", "requested", "responded", "finished", "failed"}]
  /\ ends \in [Requests -> Nat]
  /\ park \in Parks

\* What is left of an outcome once its head has been heard.
Rests == {<<"chunk", "done">>, <<"done">>}

\* The runs an outcome starts with.
Starts == {<<"headers", "chunk", "done">>, <<"headers", "done">>, <<"error">>, <<"auth">>}

LEMMA SingleEvent == \A e : Head(<<e>>) = e /\ Tail(<<e>>) = <<>>
<1> SUFFICES ASSUME NEW e PROVE Head(<<e>>) = e /\ Tail(<<e>>) = <<>>
  OBVIOUS
<1>1. <<e>> \in Seq({e}) /\ Len(<<e>>) = 1 /\ <<e>> # <<>> /\ <<e>>[1] = e
  OBVIOUS
<1>2. Tail(<<e>>) \in Seq({e}) /\ Len(Tail(<<e>>)) = 0
  BY <1>1, HeadTailProperties
<1>3. Tail(<<e>>) = <<>>
  BY <1>2, EmptySeq
<1> QED BY <1>1, <1>3

\* How a run is consumed, one event at a time.
LEMMA RunsConsumed ==
  ASSUME NEW run \in EventRuns, run # <<>>
  PROVE  /\ Tail(run) \in EventRuns
         /\ \/ Head(run) = "headers" /\ run \in Starts /\ Tail(run) \in Rests
            \/ Head(run) = "chunk" /\ run \in Rests /\ Tail(run) = <<"done">>
            \/ Head(run) = "done" /\ run \in Rests /\ Tail(run) = <<>>
            \/ Head(run) \in {"error", "auth"} /\ run \in Starts /\ Tail(run) = <<>>
<1>1. CASE run = <<"headers", "chunk", "done">>
  <2>1. Head(run) = "headers" /\ Tail(run) = <<"chunk", "done">>
    BY <1>1
  <2> QED BY <1>1, <2>1 DEF EventRuns, Starts, Rests
<1>2. CASE run = <<"headers", "done">>
  <2>1. Head(run) = "headers" /\ Tail(run) = <<"done">>
    BY <1>2
  <2> QED BY <1>2, <2>1 DEF EventRuns, Starts, Rests
<1>3. CASE run = <<"chunk", "done">>
  <2>1. Head(run) = "chunk" /\ Tail(run) = <<"done">>
    BY <1>3
  <2> QED BY <1>3, <2>1 DEF EventRuns, Starts, Rests
<1>4. CASE run = <<"done">>
  <2>1. Head(run) = "done" /\ Tail(run) = <<>>
    BY <1>4, SingleEvent
  <2> QED BY <1>4, <2>1 DEF EventRuns, Starts, Rests
<1>5. CASE run = <<"error">>
  <2>1. Head(run) = "error" /\ Tail(run) = <<>>
    BY <1>5, SingleEvent
  <2> QED BY <1>5, <2>1 DEF EventRuns, Starts, Rests
<1>6. CASE run = <<"auth">>
  <2>1. Head(run) = "auth" /\ Tail(run) = <<>>
    BY <1>6, SingleEvent
  <2> QED BY <1>6, <2>1 DEF EventRuns, Starts, Rests
<1> QED BY <1>1, <1>2, <1>3, <1>4, <1>5, <1>6 DEF EventRuns

LEMMA RunsApart ==
  /\ Starts \intersect Rests = {} /\ <<>> \notin Starts /\ <<>> \notin Rests
  /\ EventRuns = {<<>>} \union Starts \union Rests
<1>1. /\ Len(<<"headers", "chunk", "done">>) = 3 /\ Len(<<"headers", "done">>) = 2
      /\ Len(<<"chunk", "done">>) = 2 /\ Len(<<"done">>) = 1 /\ Len(<<>>) = 0
      /\ Len(<<"error">>) = 1 /\ Len(<<"auth">>) = 1
  OBVIOUS
<1>2. /\ <<"headers", "done">>[1] = "headers" /\ <<"chunk", "done">>[1] = "chunk"
      /\ <<"done">>[1] = "done" /\ <<"error">>[1] = "error" /\ <<"auth">>[1] = "auth"
  OBVIOUS
<1>3. Starts \intersect Rests = {}
  <2>1. \A run \in Starts : run # <<"chunk", "done">> /\ run # <<"done">>
    BY <1>1, <1>2 DEF Starts
  <2> QED BY <2>1 DEF Rests
<1>4. <<>> \notin Starts /\ <<>> \notin Rests
  BY <1>1 DEF Starts, Rests
<1>5. EventRuns = {<<>>} \union Starts \union Rests
  BY DEF EventRuns, Starts, Rests
<1> QED BY <1>3, <1>4, <1>5
-----------------------------------------------------------------------------
(***************************************************************************)
(* The inductive invariant, request by request.  `EndsOnce` and `OneHolder`*)
(* are not inductive alone: what is queued for a request must also agree   *)
(* with what its observer has heard, and a blocking request is open for as *)
(* long as the page thread is parked for it.                               *)
(***************************************************************************)
Recorded(r) ==
  /\ ends[r] <= 1
  /\ r \in open <=> seen[r] \in {"requested", "responded"}
  /\ ends[r] = 1 <=> seen[r] \in {"finished", "failed"}

Placed(r) ==
  IF r \in open
    THEN /\ AtPausePoint(r) \/ InTask(r) \/ InChannel(r)
         /\ ~(AtPausePoint(r) /\ InTask(r))
         /\ ~(AtPausePoint(r) /\ InChannel(r))
         /\ ~(InTask(r) /\ InChannel(r))
    ELSE ~AtPausePoint(r) /\ ~InTask(r)

InTurn(r) ==
  /\ seen[r] = "idle" => netRx[r] = <<>>
  /\ r \in open => (seen[r] = "responded" <=> netRx[r] \in Rests)

AsyncOK(r) == Recorded(r) /\ Placed(r) /\ InTurn(r)

BlockingOK(r) ==
  /\ Recorded(r)
  /\ r \in open <=> (park.at # "idle" /\ park.id = r)
  /\ r \in open => (seen[r] = "responded" <=> park.at = "closing")

IInv ==
  /\ ServiceTypes
  /\ \A r \in Async : AsyncOK(r)
  /\ \A r \in Blocking : BlockingOK(r)

LEMMA IInvImplies == IInv => EndsOnce /\ OneHolder
  BY RequestsAssumption DEF IInv, AsyncOK, BlockingOK, Recorded, Placed, EndsOnce, OneHolder

LEMMA IInvInit == Init => IInv
<1> SUFFICES ASSUME Init PROVE IInv
  OBVIOUS
<1>1. ServiceTypes
  BY LimitsAssumption DEF Init, ServiceTypes, NotParked, NoTask, NoPark, Parks, EventRuns
<1>2. \A r \in Async : AsyncOK(r)
  BY RequestsAssumption
  DEF Init, AsyncOK, Recorded, Placed, InTurn, AtPausePoint, InTask, InChannel, NotParked, NoTask
<1>3. \A r \in Blocking : BlockingOK(r)
  BY RequestsAssumption DEF Init, BlockingOK, Recorded, NoPark
<1> QED BY <1>1, <1>2, <1>3 DEF IInv

-----------------------------------------------------------------------------
(***************************************************************************)
(* Steps about one asynchronous request leave every other one alone.       *)
(***************************************************************************)
OnlyTouches(r) ==
  /\ \A q \in Async \ {r} : parked'[q] = parked[q] /\ task'[q] = task[q] /\ netRx'[q] = netRx[q]
  /\ \A q \in Requests \ {r} : seen'[q] = seen[q] /\ ends'[q] = ends[q] /\ (q \in open' <=> q \in open)
  /\ park' = park

LEMMA Local ==
  ASSUME IInv, NEW r \in Async, OnlyTouches(r), ServiceTypes', AsyncOK(r)'
  PROVE  IInv'
<1>1. \A q \in Async : AsyncOK(q)'
  BY RequestsAssumption
  DEF IInv, OnlyTouches, AsyncOK, Recorded, Placed, InTurn, AtPausePoint, InTask, InChannel
<1>2. \A q \in Blocking : BlockingOK(q)'
  BY RequestsAssumption DEF IInv, OnlyTouches, BlockingOK, Recorded
<1> QED BY <1>1, <1>2 DEF IInv

\* A step that changes nothing of the service but its decision channels, its
\* configuration and its counters.
LEMMA Idle ==
  ASSUME IInv, UNCHANGED <<parked, retryAuth, task, netRx, open, seen, ends, park>>
  PROVE  IInv'
  BY DEF IInv, ServiceTypes, AsyncOK, BlockingOK, Recorded, Placed, InTurn, AtPausePoint, InTask, InChannel

-----------------------------------------------------------------------------
(***************************************************************************)
(* Handing a request on: to a task, or to the page as a queued outcome.    *)
(***************************************************************************)
Handed(r) ==
  /\ task' \in [Async -> [at : {"none", "queued", "running"}, cancelled : BOOLEAN, auth : BOOLEAN]]
  /\ netRx' \in [Async -> EventRuns]
  /\ \A q \in Async \ {r} : task'[q] = task[q] /\ netRx'[q] = netRx[q]
  /\ \/ InTask(r)' /\ netRx'[r] = <<>>
     \/ ~InTask(r)' /\ netRx'[r] \in Starts

LEMMA QueueRuns ==
  ASSUME ServiceTypes, NEW r \in Async, netRx[r] = <<>>, NEW events \in Starts, Queue(r, events)
  PROVE  /\ netRx' \in [Async -> EventRuns] /\ netRx'[r] = events
         /\ \A q \in Async \ {r} : netRx'[q] = netRx[q]
<1> DEFINE Events == {"headers", "chunk", "done", "error", "auth"}
<1>1. <<>> \o events = events
  <2>1. <<"headers", "chunk", "done">> \in Seq(Events)
    OBVIOUS
  <2>2. <<"headers", "done">> \in Seq(Events)
    OBVIOUS
  <2>3. <<"error">> \in Seq(Events)
    OBVIOUS
  <2>4. <<"auth">> \in Seq(Events)
    OBVIOUS
  <2>5. events \in Seq(Events)
    BY <2>1, <2>2, <2>3, <2>4 DEF Starts
  <2> QED BY <2>5, ConcatEmptySeq
<1>2. netRx' = [netRx EXCEPT ![r] = events]
  BY <1>1 DEF Queue
<1>3. events \in EventRuns
  BY RunsApart
<1> QED BY <1>2, <1>3 DEF ServiceTypes

LEMMA QueueHands ==
  ASSUME ServiceTypes, NEW r \in Async, netRx[r] = <<>>, ~InTask(r),
         NEW events \in Starts, Queue(r, events), UNCHANGED task
  PROVE  Handed(r)
  BY QueueRuns DEF ServiceTypes, Handed, InTask

LEMMA SpawnHands ==
  ASSUME ServiceTypes, NEW r \in Async, netRx[r] = <<>>, ~InTask(r), Spawn(r)
  PROVE  Handed(r)
<1>1. CASE config.offline
  <2>1. <<"error">> \in Starts
    BY DEF Starts
  <2> QED BY <1>1, <2>1, QueueHands DEF Spawn
<1>2. CASE ~config.offline
  <2> DEFINE auth == Matches(config, r) /\ config.handleAuth
  <2>1. auth \in BOOLEAN
    BY Zenon
  <2>2. task' = [task EXCEPT ![r] = [at |-> "queued", cancelled |-> FALSE, auth |-> auth]]
        /\ netRx' = netRx
    BY <1>2 DEF Spawn
  <2> HIDE DEF auth
  <2> QED BY <2>1, <2>2 DEF ServiceTypes, Handed, InTask
<1> QED BY <1>1, <1>2

LEMMA OutcomeStarts ==
  \A response : OutcomeEvents(response) \in Starts
  BY DEF OutcomeEvents, Starts

\* Whatever the driver decided, a request that leaves the pause point goes to a
\* task or comes back as one outcome.
LEMMA ActHands ==
  ASSUME ServiceTypes, NEW r \in Async, AsyncOK(r), AtPausePoint(r), NEW kind, Act(r, kind)
  PROVE  Handed(r) /\ retryAuth' \in [Async -> 0 .. MaxAuth]
<1> DEFINE goesOut ==
             \/ parked[r].kind = "request" /\ kind \in {"continue", "provide", "default"}
             \/ parked[r].kind = "auth" /\ kind = "provide" /\ parked[r].attempts < MaxAuth
<1>1. netRx[r] = <<>> /\ ~InTask(r)
  BY DEF AsyncOK, Placed, AtPausePoint, InChannel
<1>2. retryAuth' \in [Async -> 0 .. MaxAuth]
  <2>1. CASE goesOut /\ parked[r].kind = "auth"
    <3>1. parked[r].attempts + 1 \in 0 .. MaxAuth
      BY <2>1, LimitsAssumption DEF ServiceTypes
    <3> QED BY <2>1, <3>1 DEF Act, ServiceTypes
  <2>2. CASE ~(goesOut /\ parked[r].kind = "auth")
    BY <2>2 DEF Act, ServiceTypes
  <2> QED BY <2>1, <2>2
<1>3. \/ Spawn(r)
      \/ FollowRedirect(r)
      \/ \E events \in Starts : Queue(r, events) /\ UNCHANGED task
  <2>1. CASE goesOut
    BY <2>1 DEF Act
  <2>2. CASE ~goesOut /\ kind = "redirect"
    BY <2>2 DEF Act
  <2>3. CASE ~goesOut /\ kind = "fail"
    BY <2>3 DEF Act, Starts
  <2>4. CASE ~goesOut /\ kind \notin {"redirect", "fail"}
    BY <2>4, OutcomeStarts DEF Act
  <2> QED BY <2>1, <2>2, <2>3, <2>4
<1>4. CASE Spawn(r)
  BY <1>1, <1>2, <1>4, SpawnHands
<1>5. CASE FollowRedirect(r)
  <2>1. <<"error">> \in Starts
    BY DEF Starts
  <2> QED BY <1>1, <1>2, <1>5, <2>1, SpawnHands, QueueHands DEF FollowRedirect
<1>6. CASE \E events \in Starts : Queue(r, events) /\ UNCHANGED task
  BY <1>1, <1>2, <1>6, QueueHands
<1> QED BY <1>2, <1>3, <1>4, <1>5, <1>6

LEMMA ApplyStep ==
  ASSUME IInv, NEW r, NEW kind, Apply(r, kind), UNCHANGED <<observer, park>>
  PROVE  IInv'
<1>1. CASE ~(r \in Async /\ parked[r].kind # "none")
  BY <1>1, Idle DEF Apply, service, observer
<1>2. CASE r \in Async /\ parked[r].kind # "none"
  <2>1. ServiceTypes /\ AsyncOK(r) /\ r \in Async /\ AtPausePoint(r)
    BY <1>2 DEF IInv, AtPausePoint
  <2>2. Act(r, kind) /\ parked' = [parked EXCEPT ![r] = NotParked]
    BY <1>2 DEF Apply
  <2>3. Handed(r) /\ retryAuth' \in [Async -> 0 .. MaxAuth]
    BY <2>1, <2>2, ActHands
  <2>4. ServiceTypes' /\ OnlyTouches(r)
    <3>1. NotParked \in [kind : {"none", "request", "auth"}, attempts : 0 .. MaxAuth]
      BY LimitsAssumption DEF NotParked
    <3>2. /\ parked' \in [Async -> [kind : {"none", "request", "auth"}, attempts : 0 .. MaxAuth]]
          /\ \A q \in Async \ {r} : parked'[q] = parked[q]
      BY <2>1, <2>2, <3>1 DEF ServiceTypes
    <3>3. open' = open /\ seen' = seen /\ ends' = ends /\ park' = park
      BY DEF observer
    <3> QED BY <2>1, <2>3, <3>2, <3>3 DEF ServiceTypes, OnlyTouches, Handed
  <2>5. ~AtPausePoint(r)'
    BY <2>1, <2>2 DEF ServiceTypes, AtPausePoint, NotParked
  <2>6. open' = open /\ seen' = seen /\ ends' = ends
    BY DEF observer
  <2>7. r \in open /\ netRx[r] = <<>> /\ seen[r] # "responded" /\ seen[r] # "idle"
    BY <2>1, RunsApart DEF AsyncOK, Placed, InTurn, Recorded, InChannel
  <2>8. AsyncOK(r)'
    BY <2>1, <2>3, <2>5, <2>6, <2>7, RunsApart
    DEF Handed, AsyncOK, Recorded, Placed, InTurn, InChannel
  <2> QED BY <2>1, <2>4, <2>8, Local
<1> QED BY <1>1, <1>2

-----------------------------------------------------------------------------
(***************************************************************************)
(* The page thread and the tasks, one action at a time: the invariant, and *)
(* what the observer hears.                                                *)
(***************************************************************************)
Heard == Lifecycle!Next \/ seen' = seen

LEMMA HeardIs ==
  ASSUME NEW r \in Requests
  PROVE  /\ seen[r] = "idle" /\ seen' = [seen EXCEPT ![r] = "requested"] => Heard
         /\ seen[r] = "requested" /\ seen' = [seen EXCEPT ![r] = "responded"] => Heard
         /\ seen[r] = "responded" /\ seen' = [seen EXCEPT ![r] = "finished"] => Heard
         /\ seen[r] \in {"requested", "responded"} /\ seen' = [seen EXCEPT ![r] = "failed"] => Heard
  BY DEF Heard, Lifecycle!Next, Lifecycle!Announce, Lifecycle!Respond, Lifecycle!Finish,
         Lifecycle!Fail, Lifecycle!Become

\* An open request has heard no terminal event.
LEMMA OpenIsUnended ==
  ASSUME ServiceTypes, NEW r \in Requests, Recorded(r), r \in open
  PROVE  seen[r] \in {"requested", "responded"} /\ ends[r] = 0
<1>1. seen[r] \in {"requested", "responded"} /\ ends[r] # 1
  BY DEF Recorded
<1>2. ends[r] \in Nat /\ ends[r] <= 1
  BY DEF ServiceTypes, Recorded
<1> QED BY <1>1, <1>2

LEMMA StartAsyncStep ==
  ASSUME IInv, NEW r \in Async, StartAsync(r)
  PROVE  IInv' /\ Heard
<1> USE RequestsAssumption
<1>1. ServiceTypes /\ AsyncOK(r) /\ r \in Requests
  BY DEF IInv
<1>2. /\ seen[r] = "idle" /\ seen' = [seen EXCEPT ![r] = "requested"]
      /\ open' = open \union {r} /\ ends' = ends
      /\ retryAuth' = retryAuth /\ park' = park
  BY DEF StartAsync, NoteRequest
<1>3. netRx[r] = <<>> /\ r \notin open /\ ~AtPausePoint(r) /\ ~InTask(r) /\ ends[r] \in {0}
  <2>1. netRx[r] = <<>> /\ r \notin open /\ ~AtPausePoint(r) /\ ~InTask(r)
    BY <1>1, <1>2 DEF AsyncOK, Recorded, Placed, InTurn
  <2> QED BY <1>1, <1>2, <2>1 DEF AsyncOK, Recorded, ServiceTypes
<1>4. Heard
  BY <1>1, <1>2, HeardIs
<1>5. Recorded(r)' /\ seen'[r] = "requested"
  BY <1>1, <1>2, <1>3 DEF Recorded, ServiceTypes
<1>6. CASE parked' = [parked EXCEPT ![r] = [kind |-> "request", attempts |-> 0]]
           /\ UNCHANGED <<task, netRx>>
  <2>1. [kind |-> "request", attempts |-> 0] \in [kind : {"none", "request", "auth"}, attempts : 0 .. MaxAuth]
    BY LimitsAssumption
  <2>2. ServiceTypes' /\ OnlyTouches(r)
    BY <1>1, <1>2, <1>6, <2>1 DEF ServiceTypes, OnlyTouches
  <2>3. AtPausePoint(r)' /\ ~InTask(r)' /\ netRx'[r] = <<>>
    BY <1>1, <1>3, <1>6 DEF ServiceTypes, AtPausePoint, InTask
  <2>4. AsyncOK(r)'
    BY <1>2, <1>5, <2>3, RunsApart DEF AsyncOK, Placed, InTurn, InChannel
  <2> QED BY <1>4, <2>2, <2>4, Local
<1>7. CASE Spawn(r) /\ parked' = parked
  <2>1. Handed(r)
    BY <1>1, <1>3, <1>7, SpawnHands
  <2>2. ServiceTypes' /\ OnlyTouches(r)
    BY <1>1, <1>2, <1>7, <2>1 DEF ServiceTypes, OnlyTouches, Handed
  <2>3. ~AtPausePoint(r)'
    BY <1>3, <1>7 DEF AtPausePoint
  <2>4. AsyncOK(r)'
    BY <1>2, <1>5, <2>1, <2>3, RunsApart DEF AsyncOK, Placed, InTurn, InChannel, Handed
  <2> QED BY <1>4, <2>2, <2>4, Local
<1> QED BY <1>6, <1>7 DEF StartAsync, ParkAt

LEMMA AbortStep ==
  ASSUME IInv, NEW r \in Async, Abort(r)
  PROVE  IInv' /\ Heard
<1> USE RequestsAssumption
<1>1. ServiceTypes /\ AsyncOK(r) /\ r \in Requests
  BY DEF IInv
<1>2. NotParked \in [kind : {"none", "request", "auth"}, attempts : 0 .. MaxAuth]
  BY LimitsAssumption DEF NotParked
<1>3. /\ seen[r] # "idle" /\ parked' = [parked EXCEPT ![r] = NotParked]
      /\ retryAuth' = [retryAuth EXCEPT ![r] = 0]
      /\ task' = [task EXCEPT ![r].cancelled = task[r].at # "none"]
      /\ End(r, "failed") /\ netRx' = netRx /\ park' = park
  BY DEF Abort
<1>4. /\ parked' \in [Async -> [kind : {"none", "request", "auth"}, attempts : 0 .. MaxAuth]]
      /\ retryAuth' \in [Async -> 0 .. MaxAuth]
      /\ task' \in [Async -> [at : {"none", "queued", "running"}, cancelled : BOOLEAN, auth : BOOLEAN]]
      /\ \A q \in Async \ {r} : parked'[q] = parked[q] /\ task'[q] = task[q]
      /\ ~AtPausePoint(r)' /\ ~InTask(r)'
  <2>1. /\ parked' \in [Async -> [kind : {"none", "request", "auth"}, attempts : 0 .. MaxAuth]]
        /\ \A q \in Async \ {r} : parked'[q] = parked[q]
        /\ ~AtPausePoint(r)'
    BY <1>1, <1>2, <1>3 DEF ServiceTypes, AtPausePoint, NotParked
  <2>2. retryAuth' \in [Async -> 0 .. MaxAuth]
    BY <1>1, <1>3, LimitsAssumption DEF ServiceTypes
  <2> DEFINE live == task[r].at # "none"
  <2>3. live \in BOOLEAN /\ task' = [task EXCEPT ![r].cancelled = live] /\ (~live => task[r].at = "none")
    BY <1>3
  <2> HIDE DEF live
  <2>4. /\ task' \in [Async -> [at : {"none", "queued", "running"}, cancelled : BOOLEAN, auth : BOOLEAN]]
        /\ \A q \in Async \ {r} : task'[q] = task[q]
        /\ ~InTask(r)'
    BY <1>1, <2>3 DEF ServiceTypes, InTask
  <2> QED BY <2>1, <2>2, <2>4
<1>5. CASE r \in open
  <2>1. open' = open \ {r} /\ seen' = [seen EXCEPT ![r] = "failed"] /\ ends' = [ends EXCEPT ![r] = @ + 1]
    BY <1>3, <1>5 DEF End
  <2>2. seen[r] \in {"requested", "responded"} /\ ends[r] = 0
    BY <1>1, <1>5, OpenIsUnended DEF AsyncOK
  <2>3. ServiceTypes' /\ OnlyTouches(r)
    BY <1>1, <1>3, <1>4, <2>1, <2>2 DEF ServiceTypes, OnlyTouches
  <2>4. AsyncOK(r)'
    BY <1>1, <1>3, <1>4, <2>1, <2>2 DEF ServiceTypes, AsyncOK, Recorded, Placed, InTurn
  <2>5. Heard
    BY <1>1, <2>1, <2>2, HeardIs
  <2> QED BY <2>3, <2>4, <2>5, Local
<1>6. CASE r \notin open
  <2>1. open' = open /\ seen' = seen /\ ends' = ends
    BY <1>3, <1>6 DEF End, observer
  <2>2. ServiceTypes' /\ OnlyTouches(r)
    BY <1>1, <1>3, <1>4, <2>1 DEF ServiceTypes, OnlyTouches
  <2>3. AsyncOK(r)'
    BY <1>1, <1>3, <1>4, <1>6, <2>1 DEF ServiceTypes, AsyncOK, Recorded, Placed, InTurn
  <2> QED BY <2>1, <2>2, <2>3, Local DEF Heard
<1> QED BY <1>5, <1>6

\* Closing a record that was open: the one terminal event.
LEMMA Ended ==
  ASSUME ServiceTypes, NEW r \in Requests, Recorded(r), NEW how \in {"finished", "failed"}, End(r, how)
  PROVE  /\ r \notin open' /\ Recorded(r)'
         /\ seen[r] # "idle" => seen'[r] # "idle"
         /\ open' \subseteq Requests
         /\ seen' \in [Requests -> {"idle", "requested", "responded", "finished", "failed"}]
         /\ ends' \in [Requests -> Nat]
         /\ \A q \in Requests \ {r} : seen'[q] = seen[q] /\ ends'[q] = ends[q] /\ (q \in open' <=> q \in open)
         /\ seen' = IF r \in open THEN [seen EXCEPT ![r] = how] ELSE seen
<1>1. CASE r \in open
  <2>1. open' = open \ {r} /\ seen' = [seen EXCEPT ![r] = how] /\ ends' = [ends EXCEPT ![r] = @ + 1]
    BY <1>1 DEF End
  <2>2. ends[r] = 0
    BY <1>1, OpenIsUnended
  <2> QED BY <1>1, <2>1, <2>2 DEF ServiceTypes, Recorded
<1>2. CASE r \notin open
  BY <1>2 DEF End, observer, ServiceTypes, Recorded
<1> QED BY <1>1, <1>2

LEMMA DispatchStep ==
  ASSUME IInv, NEW r \in Async, Dispatch(r)
  PROVE  IInv' /\ Heard
<1> USE RequestsAssumption
<1> DEFINE event == Head(netRx[r])
<1>1. ServiceTypes /\ AsyncOK(r) /\ r \in Requests /\ Recorded(r)
  BY DEF IInv, AsyncOK
<1>2. /\ netRx[r] # <<>> /\ netRx' = [netRx EXCEPT ![r] = Tail(netRx[r])]
      /\ NoteEvent(r, event) /\ task' = task /\ park' = park
  BY DEF Dispatch
<1>3. netRx[r] \in EventRuns
  BY <1>1 DEF ServiceTypes
<1>4. ~AtPausePoint(r) /\ ~InTask(r) /\ ~InTask(r)' /\ seen[r] # "idle"
  BY <1>1, <1>2 DEF AsyncOK, Placed, InTurn, InChannel, InTask
<1>5. retryAuth' \in [Async -> 0 .. MaxAuth]
  <2>1. retryAuth' = retryAuth \/ retryAuth' = [retryAuth EXCEPT ![r] = 0]
    BY DEF Dispatch
  <2> QED BY <1>1, <2>1, LimitsAssumption DEF ServiceTypes
<1>6. Tail(netRx[r]) \in EventRuns
  BY <1>2, <1>3, RunsConsumed
<1>7. /\ netRx' \in [Async -> EventRuns] /\ netRx'[r] = Tail(netRx[r])
      /\ \A q \in Async \ {r} : netRx'[q] = netRx[q]
  BY <1>1, <1>2, <1>6 DEF ServiceTypes
<1>8. CASE event \in {"chunk", "done", "error"}
  <2> DEFINE how == IF event = "error" THEN "failed" ELSE "finished"
  <2>1. End(r, how)
    BY <1>2, <1>8 DEF NoteEvent
  <2>2. parked' = parked
    BY <1>8 DEF Dispatch
  <2>3. how \in {"finished", "failed"}
    OBVIOUS
  <2>4. r \in open => (seen[r] = "responded" <=> event # "error")
    BY <1>1, <1>2, <1>3, <1>8, RunsConsumed, RunsApart DEF AsyncOK, InTurn
  <2> HIDE DEF event
  <2>5. Heard
    <3>1. CASE r \in open
      <4>1. seen' = [seen EXCEPT ![r] = how] /\ seen[r] \in {"requested", "responded"}
        BY <1>1, <2>1, <2>3, <3>1, Ended DEF Recorded
      <4> QED BY <1>1, <2>4, <3>1, <4>1, HeardIs
    <3>2. CASE r \notin open
      BY <1>1, <2>1, <2>3, <3>2, Ended DEF Heard
    <3> QED BY <3>1, <3>2
  <2> HIDE DEF how
  <2>6. r \notin open' /\ Recorded(r)' /\ seen'[r] # "idle"
    BY <1>1, <1>4, <2>1, <2>3, Ended
  <2>7. ServiceTypes' /\ OnlyTouches(r)
    BY <1>1, <1>2, <1>5, <1>7, <2>1, <2>2, <2>3, Ended DEF ServiceTypes, OnlyTouches
  <2>8. AsyncOK(r)'
    BY <1>4, <2>2, <2>6 DEF AsyncOK, Placed, InTurn, AtPausePoint
  <2> QED BY <2>5, <2>7, <2>8, Local
<1>9. CASE event = "headers" /\ r \in open
  <2>1. seen' = [seen EXCEPT ![r] = "responded"] /\ open' = open /\ ends' = ends /\ parked' = parked
    BY <1>2, <1>9 DEF NoteEvent, Dispatch
  <2>2. Tail(netRx[r]) \in Rests /\ netRx[r] \in Starts
    BY <1>2, <1>3, <1>9, RunsConsumed
  <2>3. seen[r] = "requested"
    BY <1>1, <1>9, <2>2, RunsApart, OpenIsUnended DEF AsyncOK, InTurn
  <2>4. ServiceTypes' /\ OnlyTouches(r)
    BY <1>1, <1>2, <1>5, <1>7, <2>1 DEF ServiceTypes, OnlyTouches
  <2>5. Recorded(r)' /\ seen'[r] = "responded"
    BY <1>1, <1>9, <2>1, <2>3 DEF Recorded, ServiceTypes
  <2>6. InChannel(r)' /\ ~AtPausePoint(r)'
    BY <1>4, <1>7, <2>1, <2>2, RunsApart DEF InChannel, AtPausePoint
  <2>7. AsyncOK(r)'
    BY <1>4, <1>7, <1>9, <2>1, <2>2, <2>5, <2>6 DEF AsyncOK, Placed, InTurn
  <2> QED BY <1>1, <2>1, <2>3, <2>4, <2>7, Local, HeardIs
<1>10. CASE event \notin {"chunk", "done", "error"} /\ ~(event = "headers" /\ r \in open)
  <2>1. open' = open /\ seen' = seen /\ ends' = ends
    BY <1>2, <1>10 DEF NoteEvent, observer
  <2>2. CASE r \notin open
    <3>1. parked' = parked
      BY <2>2 DEF Dispatch, BeginAuthPause
    <3>2. ServiceTypes' /\ OnlyTouches(r)
      BY <1>1, <1>2, <1>5, <1>7, <2>1, <3>1 DEF ServiceTypes, OnlyTouches
    <3>3. AsyncOK(r)'
      BY <1>1, <1>4, <2>1, <2>2, <3>1 DEF AsyncOK, Recorded, Placed, InTurn, AtPausePoint
    <3> QED BY <2>1, <3>2, <3>3, Local DEF Heard
  <2>3. CASE r \in open
    <3>1. event = "auth" /\ netRx[r] \in Starts /\ Tail(netRx[r]) = <<>>
      BY <1>2, <1>3, <1>10, <2>3, RunsConsumed
    <3>2. parked' = [parked EXCEPT ![r] = [kind |-> "auth", attempts |-> retryAuth[r]]]
      BY <2>3, <3>1 DEF Dispatch, BeginAuthPause, ParkAt
    <3>3. [kind |-> "auth", attempts |-> retryAuth[r]]
            \in [kind : {"none", "request", "auth"}, attempts : 0 .. MaxAuth]
      BY <1>1 DEF ServiceTypes
    <3>4. ServiceTypes' /\ OnlyTouches(r)
      BY <1>1, <1>2, <1>5, <1>7, <2>1, <3>2, <3>3 DEF ServiceTypes, OnlyTouches
    <3>5. AtPausePoint(r)' /\ netRx'[r] = <<>>
      BY <1>1, <1>7, <3>1, <3>2 DEF AtPausePoint, ServiceTypes
    <3>6. seen[r] # "responded"
      BY <1>1, <2>3, <3>1, RunsApart DEF AsyncOK, InTurn
    <3>7. AsyncOK(r)'
      BY <1>1, <1>4, <2>1, <2>3, <3>5, <3>6, RunsApart
      DEF AsyncOK, Recorded, Placed, InTurn, InChannel
    <3> QED BY <2>1, <3>4, <3>7, Local DEF Heard
  <2> QED BY <2>2, <2>3
<1> QED BY <1>8, <1>9, <1>10

LEMMA TaskStep ==
  ASSUME IInv, NEW r \in Async, TaskNext(r)
  PROVE  IInv' /\ Heard
<1>1. ServiceTypes /\ AsyncOK(r)
  BY DEF IInv
<1>2. /\ parked' = parked /\ retryAuth' = retryAuth /\ open' = open /\ seen' = seen
      /\ ends' = ends /\ park' = park
  BY DEF TaskNext, TaskStart, TaskEnd, observer
<1>3. NoTask \in [at : {"none", "queued", "running"}, cancelled : BOOLEAN, auth : BOOLEAN]
  BY DEF NoTask
<1>4. CASE TaskStart(r)
  <2>1. netRx' = netRx /\ task[r].at = "queued"
    BY <1>4 DEF TaskStart
  <2>2. task' = [task EXCEPT ![r] = IF task[r].cancelled THEN NoTask ELSE [@ EXCEPT !.at = "running"]]
    BY <1>4 DEF TaskStart
  <2>3. ServiceTypes' /\ OnlyTouches(r)
    BY <1>1, <1>2, <1>3, <2>1, <2>2 DEF ServiceTypes, OnlyTouches
  <2>4. InTask(r)' <=> InTask(r)
    BY <1>1, <2>1, <2>2 DEF ServiceTypes, InTask, NoTask
  <2>5. AsyncOK(r)'
    BY <1>1, <1>2, <2>1, <2>4 DEF AsyncOK, Recorded, Placed, InTurn, AtPausePoint, InChannel
  <2> QED BY <1>2, <2>3, <2>5, Local DEF Heard
<1>5. ASSUME NEW response \in Responses, TaskEnd(r, response)
      PROVE  IInv' /\ Heard
  <2>1. task[r].at = "running" /\ task' = [task EXCEPT ![r] = NoTask]
    BY <1>5 DEF TaskEnd
  <2>2. ~InTask(r)' /\ \A q \in Async \ {r} : task'[q] = task[q]
    BY <1>1, <2>1 DEF ServiceTypes, InTask, NoTask
  <2>3. CASE task[r].cancelled
    <3>1. netRx' = netRx
      BY <1>5, <2>3 DEF TaskEnd
    <3>2. ServiceTypes' /\ OnlyTouches(r)
      BY <1>1, <1>2, <1>3, <2>1, <2>2, <3>1 DEF ServiceTypes, OnlyTouches
    <3>3. AsyncOK(r)'
      BY <1>1, <1>2, <2>2, <2>3, <3>1 DEF AsyncOK, Recorded, Placed, InTurn, AtPausePoint, InChannel, InTask
    <3> QED BY <1>2, <3>2, <3>3, Local DEF Heard
  <2>4. CASE ~task[r].cancelled
    <3>1. \E events \in Starts : Queue(r, events)
      <4>1. <<"error">> \in Starts /\ <<"auth">> \in Starts
        BY DEF Starts
      <4>2. CASE response = "error"
        BY <1>5, <2>4, <4>1, <4>2 DEF TaskEnd
      <4>3. CASE response = "challenge" /\ task[r].auth
        BY <1>5, <2>4, <4>1, <4>3 DEF TaskEnd
      <4>4. CASE response # "error" /\ ~(response = "challenge" /\ task[r].auth)
        BY <1>5, <2>4, <4>4, OutcomeStarts DEF TaskEnd
      <4> QED BY <4>2, <4>3, <4>4
    <3>2. r \in open /\ ~AtPausePoint(r) /\ netRx[r] = <<>>
      BY <1>1, <2>1, <2>4 DEF AsyncOK, Placed, InTask, InChannel
    <3>3. /\ netRx' \in [Async -> EventRuns] /\ netRx'[r] \in Starts
          /\ \A q \in Async \ {r} : netRx'[q] = netRx[q]
      BY <1>1, <3>1, <3>2, QueueRuns
    <3>4. ServiceTypes' /\ OnlyTouches(r)
      BY <1>1, <1>2, <1>3, <2>1, <2>2, <3>3 DEF ServiceTypes, OnlyTouches
    <3>5. AsyncOK(r)'
      BY <1>1, <1>2, <2>2, <3>2, <3>3, RunsApart
      DEF AsyncOK, Recorded, Placed, InTurn, AtPausePoint, InChannel
    <3> QED BY <1>2, <3>4, <3>5, Local DEF Heard
  <2> QED BY <2>3, <2>4
<1> QED BY <1>4, <1>5 DEF TaskNext

-----------------------------------------------------------------------------
(***************************************************************************)
(* The page thread inside a blocking fetch.                                *)
(***************************************************************************)

\* Steps of the blocking operation that its observer does not hear: the page
\* thread stays in the same operation, short of `closing`.
LEMMA ParkMoves ==
  ASSUME IInv, UNCHANGED <<service, observer>>, park.at \notin {"idle", "closing"},
         NEW at \in {"due", "fetching", "authParked", "refetching", "succeeded", "failed"},
         park' = [park EXCEPT !.at = at]
  PROVE  IInv'
<1>1. park \in Parks /\ park # NoPark
  BY DEF IInv, ServiceTypes, NoPark
<1>2. park' \in Parks /\ park'.id = park.id /\ park'.at = at
  BY <1>1 DEF Parks
<1>3. ServiceTypes'
  BY <1>2 DEF IInv, ServiceTypes, service, observer
<1>4. \A r \in Async : AsyncOK(r)'
  BY DEF IInv, service, observer, AsyncOK, Recorded, Placed, InTurn, AtPausePoint, InTask, InChannel
<1>5. \A r \in Blocking : BlockingOK(r)'
  BY <1>2 DEF IInv, observer, BlockingOK, Recorded
<1> QED BY <1>3, <1>4, <1>5 DEF IInv

LEMMA ResumeMoves ==
  ASSUME NEW kind, Resume(kind)
  PROVE  \E at \in {"due", "refetching", "succeeded", "failed"} : park' = [park EXCEPT !.at = at]
  BY DEF Resume

LEMMA StartBlockingStep ==
  ASSUME IInv, NEW r \in Blocking, StartBlocking(r)
  PROVE  IInv' /\ Heard
<1> USE RequestsAssumption
<1>1. ServiceTypes /\ Recorded(r) /\ r \in Requests /\ r \notin Async
  BY DEF IInv, BlockingOK
<1>2. /\ park.at = "idle" /\ seen[r] = "idle" /\ seen' = [seen EXCEPT ![r] = "requested"]
      /\ open' = open \union {r} /\ ends' = ends
      /\ parked' = parked /\ retryAuth' = retryAuth /\ task' = task /\ netRx' = netRx
  BY DEF StartBlocking, PageFree, NoteRequest, service
<1>3. Heard
  BY <1>1, <1>2, HeardIs
<1>4. park' \in Parks /\ park'.id = r /\ park'.at \in {"parked", "due"}
  <2> DEFINE matched == Matches(config, r)
  <2>1. matched \in BOOLEAN
    BY Zenon DEF Matches
  <2>2. park' = [at |-> IF matched THEN "parked" ELSE "due", id |-> r, intercepted |-> matched]
    BY DEF StartBlocking
  <2> HIDE DEF matched
  <2> QED BY <2>1, <2>2 DEF Parks
<1>5. ServiceTypes'
  BY <1>1, <1>2, <1>4 DEF ServiceTypes
<1>6. \A q \in Async : AsyncOK(q)'
  BY <1>1, <1>2 DEF IInv, AsyncOK, Recorded, Placed, InTurn, AtPausePoint, InTask, InChannel, ServiceTypes
<1>7. \A q \in Blocking : BlockingOK(q)'
  <2>1. open \intersect Blocking = {}
    BY <1>2 DEF IInv, BlockingOK
  <2>2. ASSUME NEW q \in Blocking, q # r
        PROVE  BlockingOK(q)'
    BY <1>1, <1>2, <1>4, <2>1, <2>2 DEF IInv, BlockingOK, Recorded, ServiceTypes
  <2>3. BlockingOK(r)'
    BY <1>1, <1>2, <1>4, <2>1 DEF BlockingOK, Recorded, ServiceTypes
  <2> QED BY <2>2, <2>3
<1> QED BY <1>3, <1>5, <1>6, <1>7 DEF IInv

LEMMA NoteOutcomeStep ==
  ASSUME IInv, NoteOutcome
  PROVE  IInv' /\ Heard
<1> USE RequestsAssumption
<1>1. park.at \in {"succeeded", "closing", "failed"}
  BY DEF NoteOutcome
<1>0. park.id \in Blocking
  BY <1>1 DEF IInv, ServiceTypes, Parks, NoPark
<1> PICK r \in Blocking : r = park.id
  BY <1>0
<1>2. ServiceTypes /\ park \in Parks /\ park # NoPark /\ r \in Requests /\ r \notin Async
  BY <1>1 DEF IInv, ServiceTypes, Parks, NoPark
<1>3. BlockingOK(r) /\ Recorded(r) /\ r \in open
  BY <1>1, <1>2 DEF IInv, BlockingOK
<1>4. parked' = parked /\ retryAuth' = retryAuth /\ task' = task /\ netRx' = netRx
  BY DEF NoteOutcome, service
<1>5. \A q \in Blocking \ {r} : q \notin open
  BY DEF IInv, BlockingOK
<1>6. CASE park.at = "succeeded"
  <2>1. /\ seen' = [seen EXCEPT ![r] = "responded"] /\ open' = open /\ ends' = ends
        /\ park' = [park EXCEPT !.at = "closing"]
    BY <1>6 DEF NoteOutcome
  <2>2. seen[r] = "requested"
    BY <1>2, <1>3, <1>6, OpenIsUnended DEF BlockingOK
  <2>3. park' \in Parks /\ park'.id = r /\ park'.at = "closing"
    BY <1>2, <2>1 DEF Parks
  <2>4. ServiceTypes'
    BY <1>2, <1>4, <2>1, <2>3 DEF ServiceTypes
  <2>5. \A q \in Async : AsyncOK(q)'
    BY <1>2, <1>4, <2>1 DEF IInv, AsyncOK, Recorded, Placed, InTurn, AtPausePoint, InTask, InChannel, ServiceTypes
  <2>6. \A q \in Blocking : BlockingOK(q)'
    BY <1>2, <1>3, <1>5, <2>1, <2>2, <2>3 DEF IInv, BlockingOK, Recorded, ServiceTypes
  <2> QED BY <1>2, <2>1, <2>2, <2>4, <2>5, <2>6, HeardIs DEF IInv
<1>7. CASE park.at \in {"closing", "failed"}
  <2> DEFINE how == IF park.at = "failed" THEN "failed" ELSE "finished"
  <2>1. End(r, how) /\ park' = NoPark /\ how \in {"finished", "failed"}
    BY <1>7 DEF NoteOutcome
  <2>2. Heard
    <3>1. seen' = [seen EXCEPT ![r] = how] /\ seen[r] \in {"requested", "responded"}
      BY <1>2, <1>3, <2>1, Ended, OpenIsUnended
    <3>2. seen[r] = "responded" <=> park.at = "closing"
      BY <1>3 DEF BlockingOK
    <3> QED BY <1>2, <1>7, <3>1, <3>2, HeardIs
  <2> HIDE DEF how
  <2>3. /\ r \notin open' /\ Recorded(r)'
        /\ \A q \in Requests \ {r} : seen'[q] = seen[q] /\ ends'[q] = ends[q] /\ (q \in open' <=> q \in open)
    <3>1. r \notin open' /\ Recorded(r)'
      BY <1>2, <1>3, <2>1, Ended
    <3>2. \A q \in Requests \ {r} : seen'[q] = seen[q] /\ ends'[q] = ends[q] /\ (q \in open' <=> q \in open)
      BY <1>2, <1>3, <2>1, Ended
    <3> QED BY <3>1, <3>2
  <2>4. ServiceTypes'
    BY <1>2, <1>3, <1>4, <2>1, Ended DEF ServiceTypes, NoPark, Parks
  <2>5. \A q \in Async : AsyncOK(q)'
    BY <1>2, <1>4, <2>3 DEF IInv, AsyncOK, Recorded, Placed, InTurn, AtPausePoint, InTask, InChannel
  <2>6. \A q \in Blocking : BlockingOK(q)'
    <3>1. park'.at = "idle"
      BY <2>1 DEF NoPark
    <3>2. ASSUME NEW q \in Blocking, q # r
          PROVE  BlockingOK(q)'
      BY <1>5, <2>3, <3>1, <3>2 DEF IInv, BlockingOK, Recorded
    <3>3. BlockingOK(r)'
      BY <2>3, <3>1 DEF BlockingOK
    <3> QED BY <3>2, <3>3
  <2> QED BY <2>2, <2>4, <2>5, <2>6 DEF IInv
<1> QED BY <1>1, <1>6, <1>7

LEMMA ParkStep ==
  ASSUME IInv, ParkNext
  PROVE  IInv' /\ Heard
<1>1. ASSUME NEW kind, Waiting, Resume(kind), UNCHANGED <<service, observer>>
      PROVE  IInv' /\ Heard
  <2>1. park.at \notin {"idle", "closing"}
    BY <1>1 DEF Waiting
  <2> QED BY <1>1, <2>1, ResumeMoves, ParkMoves DEF Heard, observer
<1>2. ASSUME NEW from \in {"due", "fetching", "refetching"}, park.at = from,
             NEW at \in {"fetching", "authParked", "succeeded", "failed"},
             park' = [park EXCEPT !.at = at], UNCHANGED <<service, observer>>
      PROVE  IInv' /\ Heard
  BY <1>2, ParkMoves DEF Heard, observer
<1>3. CASE ParkTimeout
  BY <1>1, <1>3 DEF ParkTimeout
<1>4. CASE Receive
  <2>1. CASE ForPark(Head(decisions))
    BY <1>1, <1>4, <2>1 DEF Receive
  <2>2. CASE ~ForPark(Head(decisions))
    BY <1>4, <2>2, Idle DEF Receive, service, observer, Heard
  <2> QED BY <2>1, <2>2
<1>5. CASE PassGate
  BY <1>2, <1>5 DEF PassGate
<1>6. CASE \E response \in Responses : BlockingFetch(response) \/ BlockingRetry(response)
  BY <1>2, <1>6 DEF BlockingFetch, BlockingRetry
<1> QED BY <1>3, <1>4, <1>5, <1>6, NoteOutcomeStep DEF ParkNext

-----------------------------------------------------------------------------
(***************************************************************************)
(* The decision channels.  Two decisions are the same answer when they are *)
(* about the same pause of the same request.                               *)
(***************************************************************************)
Same(d, e) == d.id = e.id /\ d.pause = e.pause

Elems(s) == {s[i] : i \in DOMAIN s}

\* No two positions of a channel hold the same answer.
Apart(s) == \A i, j \in DOMAIN s : i # j => ~Same(s[i], s[j])

Strangers(S, T) == \A d \in S, e \in T : ~Same(d, e)

\* What taking the head of a channel leaves.
LEMMA TakeHead ==
  ASSUME NEW s \in Seq(Decisions), s # <<>>
  PROVE  /\ Head(s) \in Decisions /\ Tail(s) \in Seq(Decisions)
         /\ Elems(s) = {Head(s)} \union Elems(Tail(s))
         /\ Apart(s) => Apart(Tail(s)) /\ Strangers({Head(s)}, Elems(Tail(s)))
<1> DEFINE t == Tail(s)
<1>1. /\ Head(s) \in Decisions /\ t \in Seq(Decisions) /\ Len(t) = Len(s) - 1
      /\ \A i \in 1 .. Len(t) : t[i] = s[i + 1]
  BY HeadTailProperties
<1>2. Len(s) \in Nat \ {0} /\ Head(s) = s[1] /\ DOMAIN s = 1 .. Len(s) /\ DOMAIN t = 1 .. Len(t)
  BY <1>1, EmptySeq, LenProperties
<1> HIDE DEF t
<1>3. \A j \in DOMAIN s \ {1} : j - 1 \in DOMAIN t /\ t[j - 1] = s[j]
  BY <1>1, <1>2
<1>4. \A i \in DOMAIN t : i + 1 \in DOMAIN s \ {1} /\ t[i] = s[i + 1]
  BY <1>1, <1>2
<1>5. Elems(s) = {Head(s)} \union Elems(t)
  <2>1. 1 \in DOMAIN s
    BY <1>2
  <2> QED BY <1>2, <1>3, <1>4, <2>1 DEF Elems
<1>6. ASSUME Apart(s)
      PROVE  Apart(t) /\ Strangers({Head(s)}, Elems(t))
  <2>1. Apart(t)
    <3> SUFFICES ASSUME NEW i \in DOMAIN t, NEW j \in DOMAIN t, i # j
                 PROVE  ~Same(t[i], t[j])
      BY DEF Apart
    <3>1. i + 1 # j + 1
      BY <1>1, <1>2
    <3> QED BY <1>4, <1>6, <3>1 DEF Apart
  <2>2. Strangers({Head(s)}, Elems(t))
    BY <1>2, <1>4, <1>6 DEF Apart, Strangers, Elems
  <2> QED BY <2>1, <2>2
<1> QED BY <1>1, <1>5, <1>6 DEF t

\* What putting a decision at the end of a channel makes of it.
LEMMA PutLast ==
  ASSUME NEW s \in Seq(Decisions), NEW d \in Decisions
  PROVE  /\ Append(s, d) \in Seq(Decisions)
         /\ Elems(Append(s, d)) = Elems(s) \union {d}
         /\ Apart(s) /\ Strangers({d}, Elems(s)) => Apart(Append(s, d))
<1> DEFINE t == Append(s, d)
<1>1. /\ t \in Seq(Decisions) /\ Len(t) = Len(s) + 1 /\ t[Len(s) + 1] = d
      /\ \A i \in 1 .. Len(s) : t[i] = s[i]
  BY AppendProperties
<1>2. Len(s) \in Nat /\ DOMAIN s = 1 .. Len(s) /\ DOMAIN t = 1 .. Len(t)
  BY <1>1, LenProperties
<1> DEFINE last == Len(s) + 1
<1> HIDE DEF t
<1>3. /\ DOMAIN t = DOMAIN s \union {last} /\ last \notin DOMAIN s
      /\ t[last] = d /\ \A i \in DOMAIN s : t[i] = s[i]
  BY <1>1, <1>2
<1> HIDE DEF last
<1>4. Elems(t) = Elems(s) \union {d}
  BY <1>3 DEF Elems
<1>5. ASSUME Apart(s), Strangers({d}, Elems(s))
      PROVE  Apart(t)
  BY <1>3, <1>5 DEF Apart, Strangers, Elems, Same
<1> QED BY <1>1, <1>4, <1>5 DEF t

\* What an abort's `retain` leaves of the deferred queue.
LEMMA DeferredDropped ==
  ASSUME deferred \in Seq(Decisions), NEW r, DropDeferred(r)
  PROVE  /\ deferred' \in Seq(Decisions)
         /\ Elems(deferred') = {d \in Elems(deferred) : d.id # r}
         /\ Apart(deferred) => Apart(deferred')
<1> DEFINE others == AboutOthers(r)
           n == Cardinality(others)
<1>1. others \subseteq DOMAIN deferred /\ n \in Nat
  <2>1. DOMAIN deferred = 1 .. Len(deferred) /\ Len(deferred) \in Nat
    BY LenProperties
  <2>2. IsFiniteSet(DOMAIN deferred) /\ others \subseteq DOMAIN deferred
    BY <2>1, FS_Interval DEF AboutOthers
  <2> QED BY <2>2, FS_Subset, FS_CardinalityType
<1> PICK kept \in Bijection(1 .. n, others) : deferred' = [i \in DOMAIN kept |-> deferred[kept[i]]]
  BY DEF DropDeferred
<1>2. /\ kept \in [1 .. n -> others]
      /\ \A i, j \in 1 .. n : kept[i] = kept[j] => i = j
      /\ \A k \in others : \E i \in 1 .. n : kept[i] = k
  <2> HIDE DEF n, others
  <2> QED BY DEF Bijection, Injection, Surjection, IsInjective
<1> HIDE DEF n
<1>3. \A i \in DOMAIN deferred : deferred[i] \in Decisions
  BY LenProperties
<1>4. /\ DOMAIN deferred' = 1 .. n
      /\ \A i \in 1 .. n : deferred'[i] = deferred[kept[i]] /\ kept[i] \in others
  BY <1>2
<1>5. deferred' \in Seq(Decisions)
  <2>1. deferred' \in [1 .. n -> Decisions]
    BY <1>1, <1>2, <1>3
  <2> QED BY <1>1, <2>1, SeqDef
<1>6. Elems(deferred') = {d \in Elems(deferred) : d.id # r}
  <2>1. Elems(deferred') = {deferred[k] : k \in others}
    BY <1>2, <1>4 DEF Elems
  <2> QED BY <2>1 DEF Elems, AboutOthers
<1>7. ASSUME Apart(deferred)
      PROVE  Apart(deferred')
  <2> HIDE DEF others
  <2> SUFFICES ASSUME NEW i \in 1 .. n, NEW j \in 1 .. n, i # j
               PROVE  ~Same(deferred'[i], deferred'[j])
    BY <1>4 DEF Apart
  <2> QED BY <1>1, <1>2, <1>4, <1>7 DEF Apart
<1> QED BY <1>5, <1>6, <1>7

-----------------------------------------------------------------------------
(***************************************************************************)
(* The configuration: every critical section the service uses maps a       *)
(* configuration to a configuration, and what each does to the paused set. *)
(***************************************************************************)
LEMMA ConfigClosed ==
  ASSUME NEW c \in InterceptConfigs
  PROVE  /\ \A s \in Sessions, p \in SUBSET Requests, a \in BOOLEAN :
              /\ Enable(c, c.configSeq, s, p, a) \in InterceptConfigs
              /\ Enable(c, c.configSeq, s, p, a).paused = c.paused
         /\ \A s : /\ Disable(c, c.configSeq, s) \in InterceptConfigs
                   /\ Disable(c, c.configSeq, s).paused = c.paused \ DisableReleases(c, s)
                   /\ DisableReleases(c, s) \subseteq c.paused
         /\ \A r : Unpause(c, r) \in InterceptConfigs /\ Unpause(c, r).paused = c.paused \ {r}
         /\ \A r \in Requests : /\ Pause(c, r) \in InterceptConfigs
                                /\ Pause(c, r).paused = c.paused \union {r}
         /\ \A offline \in BOOLEAN : /\ SetConditions(c, offline) \in InterceptConfigs
                                     /\ SetConditions(c, offline).paused = c.paused
<1> USE MaxSeqAssumption DEF InterceptConfigs, Forever
<1>1. \A s \in Sessions, p \in SUBSET Requests, a \in BOOLEAN :
        /\ Enable(c, c.configSeq, s, p, a) \in InterceptConfigs
        /\ Enable(c, c.configSeq, s, p, a).paused = c.paused
  BY DEF Enable
<1>2. \A s : /\ Disable(c, c.configSeq, s) \in InterceptConfigs
             /\ Disable(c, c.configSeq, s).paused = c.paused \ DisableReleases(c, s)
             /\ DisableReleases(c, s) \subseteq c.paused
  BY DEF Disable, DisableReleases, ClaimsWithout
<1>3. \A r : Unpause(c, r) \in InterceptConfigs /\ Unpause(c, r).paused = c.paused \ {r}
  BY DEF Unpause
<1>4. \A r \in Requests : Pause(c, r) \in InterceptConfigs /\ Pause(c, r).paused = c.paused \union {r}
  BY DEF Pause
<1>5. \A offline \in BOOLEAN : /\ SetConditions(c, offline) \in InterceptConfigs
                               /\ SetConditions(c, offline).paused = c.paused
  BY DEF SetConditions
<1> QED BY <1>1, <1>2, <1>3, <1>4, <1>5

-----------------------------------------------------------------------------
(***************************************************************************)
(* The pause point.  Whatever a step of the service does besides, as far   *)
(* as pauses and decisions go it is one of six moves.                      *)
(***************************************************************************)
ChannelTypes ==
  /\ config \in InterceptConfigs
  /\ sending \subseteq Decisions
  /\ decisions \in Seq(Decisions)
  /\ deferred \in Seq(Decisions)
  /\ pauses \in [Requests -> Nat]

HeldAlike(rs) == \A q \in rs : Held(q)' <=> Held(q)

Quiet ==
  /\ UNCHANGED <<channels, pauses>> /\ config'.paused = config.paused
  /\ HeldAlike(Requests)

\* r is announced paused, as its next pause.
Announces(r) ==
  /\ config'.paused = config.paused \union {r}
  /\ pauses' = [pauses EXCEPT ![r] = @ + 1]
  /\ UNCHANGED channels
  /\ ~Held(r) /\ Held(r)' /\ HeldAlike(Requests \ {r})

\* r leaves the pause point; what the channels lose is about r.
LetsGo(r) ==
  /\ config'.paused = config.paused \ {r}
  /\ ~Held(r)' /\ HeldAlike(Requests \ {r})
  /\ UNCHANGED <<pauses, sending>>
  /\ \/ UNCHANGED <<decisions, deferred>>
     \/ /\ decisions # <<>> /\ Head(decisions).id = r
        /\ decisions' = Tail(decisions) /\ deferred' = deferred
     \/ /\ deferred # <<>> /\ Head(deferred).id = r
        /\ deferred' = Tail(deferred) /\ decisions' = decisions
     \/ DropDeferred(r) /\ decisions' = decisions

\* A lane claims one request, all there are or none, and decides k for each.
Claims(rs, k) ==
  /\ rs \subseteq config.paused /\ config'.paused = config.paused \ rs
  /\ rs \in {{}, config.paused} \/ \E r \in rs : rs = {r}
  /\ sending' = sending \union {Decision(r, k) : r \in rs}
  /\ UNCHANGED <<decisions, deferred, pauses>>
  /\ HeldAlike(Requests)

PutsAside ==
  /\ decisions # <<>>
  /\ decisions' = Tail(decisions) /\ deferred' = Append(deferred, Head(decisions))
  /\ UNCHANGED <<sending, pauses>> /\ config'.paused = config.paused
  /\ HeldAlike(Requests)

Sends ==
  /\ \E d \in sending : sending' = sending \ {d} /\ decisions' = Append(decisions, d)
  /\ UNCHANGED <<deferred, pauses>> /\ config'.paused = config.paused
  /\ HeldAlike(Requests)

Moves ==
  \/ Quiet
  \/ \E r \in Requests : Announces(r) \/ LetsGo(r)
  \/ \E rs \in SUBSET Requests, k \in Kinds \union {"continue"} : Claims(rs, k)
  \/ PutsAside
  \/ Sends

\* The configuration part of every step.
ConfigTyped == config' \in InterceptConfigs

LEMMA HeldUnmoved ==
  parked' = parked /\ park' = park => HeldAlike(Requests)
  BY DEF HeldAlike, Held, AtPausePoint, Waiting

\* A request that is held by nobody is not in the shared set.
LEMMA FreeOfUnheld ==
  ASSUME PausedIsHeld, NEW r, ~Held(r)
  PROVE  config.paused \ {r} = config.paused
  BY DEF PausedIsHeld

\* A decision, or an expiry, lets its request go.
LEMMA ApplyMoves ==
  ASSUME ServiceTypes, ChannelTypes, PausedIsHeld, PageFree, park' = park,
         NEW r \in Requests, NEW kind, Apply(r, kind)
  PROVE  /\ ConfigTyped
         /\ config'.paused = config.paused \ {r}
         /\ ~Held(r)' /\ HeldAlike(Requests \ {r})
<1> USE RequestsAssumption
<1>0. ~Waiting
  BY DEF PageFree, Waiting
<1>1. CASE r \in Async /\ parked[r].kind # "none"
  <2>1. parked' = [parked EXCEPT ![r] = NotParked] /\ config' = Unpause(config, r)
    BY <1>1 DEF Apply
  <2>2. config' \in InterceptConfigs /\ config'.paused = config.paused \ {r}
    BY <2>1, ConfigClosed DEF ChannelTypes
  <2>3. ~Held(r)' /\ HeldAlike(Requests \ {r})
    BY <1>0, <1>1, <2>1 DEF ServiceTypes, Held, HeldAlike, AtPausePoint, Waiting, NotParked
  <2> QED BY <2>2, <2>3 DEF ConfigTyped
<1>2. CASE ~(r \in Async /\ parked[r].kind # "none")
  <2>1. parked' = parked /\ config' = config
    BY <1>2 DEF Apply, service
  <2>2. ~Held(r)
    BY <1>0, <1>2 DEF Held, AtPausePoint
  <2>3. config.paused \ {r} = config.paused
    BY <2>2, FreeOfUnheld
  <2>4. ~Held(r)' /\ HeldAlike(Requests \ {r})
    BY <2>1, <2>2 DEF Held, HeldAlike, AtPausePoint, Waiting
  <2> QED BY <2>1, <2>3, <2>4 DEF ConfigTyped, ChannelTypes
<1> QED BY <1>1, <1>2

\* A pause at the async pause point.
LEMMA ParkAtMoves ==
  ASSUME ServiceTypes, ChannelTypes, NEW r \in Async, NEW pause, pause.kind # "none",
         ParkAt(r, pause), park' = park, UNCHANGED channels, ~AtPausePoint(r), PageFree
  PROVE  ConfigTyped /\ Announces(r)
<1> USE RequestsAssumption
<1>1. config' \in InterceptConfigs /\ config'.paused = config.paused \union {r}
  BY ConfigClosed DEF ParkAt, ChannelTypes
<1>2. Held(r)' /\ HeldAlike(Requests \ {r})
  BY DEF ParkAt, ServiceTypes, HeldAlike, Held, AtPausePoint, Waiting
<1>3. ~Held(r)
  BY DEF Held, PageFree, Waiting
<1> QED BY <1>1, <1>2, <1>3 DEF ConfigTyped, Announces, ParkAt

LEMMA AsyncMoves ==
  ASSUME ServiceTypes, ChannelTypes, PausedIsHeld, NEW r \in Async, AsyncOK(r), AsyncNext(r)
  PROVE  ConfigTyped /\ Moves
<1> USE RequestsAssumption
<1>1. CASE StartAsync(r) \/ Dispatch(r)
  <2>1. park' = park /\ UNCHANGED channels
    BY <1>1 DEF StartAsync, Dispatch
  <2>2. \/ \E pause : pause.kind # "none" /\ ParkAt(r, pause)
        \/ UNCHANGED <<config, pauses, parked>>
    BY <1>1 DEF StartAsync, Dispatch, BeginAuthPause
  <2>3. CASE \E pause : pause.kind # "none" /\ ParkAt(r, pause)
    <3>1. PageFree /\ ~AtPausePoint(r)
      <4>1. CASE StartAsync(r)
        BY <4>1 DEF StartAsync, NoteRequest, AsyncOK, Recorded, Placed
      <4>2. CASE Dispatch(r)
        BY <4>2 DEF Dispatch, AsyncOK, Placed, InChannel
      <4> QED BY <1>1, <4>1, <4>2
    <3> QED BY <2>1, <2>3, <3>1, ParkAtMoves DEF Moves
  <2>4. CASE UNCHANGED <<config, pauses, parked>>
    BY <2>1, <2>4, HeldUnmoved DEF ConfigTyped, ChannelTypes, Moves, Quiet
  <2> QED BY <2>2, <2>3, <2>4
<1>2. CASE Abort(r)
  <2>1. /\ parked' = [parked EXCEPT ![r] = NotParked] /\ park' = park /\ ~Waiting
        /\ config' = Unpause(config, r) /\ DropDeferred(r)
        /\ UNCHANGED <<pauses, sending, decisions>>
    BY <1>2 DEF Abort, PageFree, Waiting
  <2>2. config' \in InterceptConfigs /\ config'.paused = config.paused \ {r}
    BY <2>1, ConfigClosed DEF ChannelTypes
  <2>3. ~Held(r)' /\ HeldAlike(Requests \ {r})
    BY <2>1 DEF ServiceTypes, Held, HeldAlike, AtPausePoint, Waiting, NotParked
  <2> QED BY <2>1, <2>2, <2>3 DEF ConfigTyped, Moves, LetsGo
<1>3. CASE Expire(r)
  <2>1. PageFree /\ park' = park /\ UNCHANGED <<channels, pauses>> /\ Apply(r, "continue")
    BY <1>3 DEF Expire
  <2> QED BY <2>1, ApplyMoves DEF Moves, LetsGo, channels
<1> QED BY <1>1, <1>2, <1>3 DEF AsyncNext

LEMMA DrainMoves ==
  ASSUME ServiceTypes, ChannelTypes, PausedIsHeld, DrainNext
  PROVE  ConfigTyped /\ Moves
<1>1. CASE ApplyDeferred
  <2>1. /\ PageFree /\ deferred # <<>> /\ deferred' = Tail(deferred) /\ park' = park
        /\ UNCHANGED <<sending, decisions, pauses>>
        /\ Apply(Head(deferred).id, Head(deferred).kind)
    BY <1>1 DEF ApplyDeferred
  <2> PICK r, kind : r = Head(deferred).id /\ kind = Head(deferred).kind
    OBVIOUS
  <2>2. r \in Requests
    BY <2>1, TakeHead DEF ChannelTypes, Decisions
  <2>3. ConfigTyped /\ config'.paused = config.paused \ {r} /\ ~Held(r)' /\ HeldAlike(Requests \ {r})
    BY <2>1, <2>2, ApplyMoves
  <2>4. LetsGo(r)
    BY <2>1, <2>3 DEF LetsGo
  <2> QED BY <2>2, <2>3, <2>4 DEF Moves
<1>2. CASE ApplyDecision
  <2>1. /\ PageFree /\ decisions # <<>> /\ decisions' = Tail(decisions) /\ park' = park
        /\ UNCHANGED <<sending, deferred, pauses>>
        /\ Apply(Head(decisions).id, Head(decisions).kind)
    BY <1>2 DEF ApplyDecision
  <2> PICK r, kind : r = Head(decisions).id /\ kind = Head(decisions).kind
    OBVIOUS
  <2>2. r \in Requests
    BY <2>1, TakeHead DEF ChannelTypes, Decisions
  <2>3. ConfigTyped /\ config'.paused = config.paused \ {r} /\ ~Held(r)' /\ HeldAlike(Requests \ {r})
    BY <2>1, <2>2, ApplyMoves
  <2>4. LetsGo(r)
    BY <2>1, <2>3 DEF LetsGo
  <2> QED BY <2>2, <2>3, <2>4 DEF Moves
<1> QED BY <1>1, <1>2 DEF DrainNext

LEMMA DriverMoves ==
  ASSUME ServiceTypes, ChannelTypes, DriverNext
  PROVE  ConfigTyped /\ Moves
<1>0. HeldAlike(Requests)
  <2>1. parked' = parked /\ park' = park
    BY DEF DriverNext, SwitchOn, SwitchOff, Claim, Send, EmulateOffline, service
  <2> QED BY <2>1, HeldUnmoved
<1>1. Driver \in Sessions
  BY DriverAssumption DEF Driver
<1>2. ASSUME NEW patterns \in PatternLists, NEW auth \in BOOLEAN, SwitchOn(patterns, auth)
      PROVE  ConfigTyped /\ Moves
  <2>1. patterns \in SUBSET Requests
    BY DriverAssumption
  <2>2. \A s \in Sessions, p \in SUBSET Requests, a \in BOOLEAN :
          /\ Enable(config, config.configSeq, s, p, a) \in InterceptConfigs
          /\ Enable(config, config.configSeq, s, p, a).paused = config.paused
    BY ConfigClosed DEF ChannelTypes
  <2>3. config' \in InterceptConfigs /\ config'.paused = config.paused
    BY <1>1, <1>2, <2>1, <2>2, Zenon DEF SwitchOn
  <2> QED BY <1>0, <1>2, <2>3 DEF SwitchOn, ConfigTyped, Moves, Quiet
<1>3. CASE SwitchOff
  <2>1. /\ config' \in InterceptConfigs
        /\ config'.paused = config.paused \ DisableReleases(config, Driver)
        /\ DisableReleases(config, Driver) \subseteq config.paused
    BY <1>3, ConfigClosed DEF SwitchOff, ChannelTypes
  <2>2. DisableReleases(config, Driver) \in SUBSET Requests
    BY <2>1 DEF ChannelTypes, InterceptConfigs
  <2>3. Claims(DisableReleases(config, Driver), "continue")
    <3>1. DisableReleases(config, Driver) \in {{}, config.paused}
      BY DEF DisableReleases
    <3> QED BY <1>0, <1>3, <2>1, <3>1 DEF SwitchOff, Claims
  <2> QED BY <2>1, <2>2, <2>3 DEF ConfigTyped, Moves
<1>4. ASSUME NEW r \in Requests, NEW k \in Kinds, Claim(r, k)
      PROVE  ConfigTyped /\ Moves
  <2>1. config' \in InterceptConfigs /\ config'.paused = config.paused \ {r}
    BY <1>4, ConfigClosed DEF Claim, ChannelTypes
  <2>2. Claims({r}, k)
    BY <1>0, <1>4, <2>1 DEF Claim, Claims
  <2> QED BY <2>1, <2>2 DEF ConfigTyped, Moves
<1>5. ASSUME NEW d \in sending, Send(d)
      PROVE  ConfigTyped /\ Moves
  BY <1>0, <1>5 DEF Send, ConfigTyped, ChannelTypes, Moves, Sends
<1>6. ASSUME NEW offline \in BOOLEAN, EmulateOffline(offline)
      PROVE  ConfigTyped /\ Moves
  <2>1. config' \in InterceptConfigs /\ config'.paused = config.paused
    BY <1>6, ConfigClosed DEF EmulateOffline, ChannelTypes
  <2> QED BY <1>0, <1>6, <2>1 DEF EmulateOffline, ConfigTyped, Moves, Quiet
<1> QED BY <1>2, <1>3, <1>4, <1>5, <1>6 DEF DriverNext

\* The blocking operation: only its own request is held by it.
LEMMA BlockingMoves ==
  ASSUME ServiceTypes, ChannelTypes, ParkNext \/ \E r \in Blocking : StartBlocking(r)
  PROVE  ConfigTyped /\ Moves
<1> USE RequestsAssumption
<1>1. ASSUME parked' = parked, Waiting, ~Waiting', park'.id = park.id
      PROVE  ~Held(park.id)' /\ HeldAlike(Requests \ {park.id}) /\ park.id \in Requests
  <2>1. park.id \in Blocking
    BY <1>1 DEF Waiting, ServiceTypes, Parks, NoPark
  <2> QED BY <1>1, <2>1 DEF Held, HeldAlike, AtPausePoint
<1>2. ASSUME parked' = parked, ~Waiting, ~Waiting'
      PROVE  HeldAlike(Requests)
  BY <1>2 DEF Held, HeldAlike, AtPausePoint
<1>3. ASSUME NEW kind, Waiting, Resume(kind)
      PROVE  ~Waiting' /\ park'.id = park.id
  <2>1. PICK at \in {"due", "refetching", "succeeded", "failed"} : park' = [park EXCEPT !.at = at]
    BY <1>3, ResumeMoves
  <2>2. park \in Parks /\ park # NoPark
    BY <1>3 DEF Waiting, ServiceTypes, NoPark
  <2> QED BY <2>1, <2>2 DEF Waiting, Parks
<1>4. CASE Receive
  <2>1. /\ Waiting /\ decisions # <<>> /\ decisions' = Tail(decisions) /\ parked' = parked
        /\ UNCHANGED <<sending, pauses>>
    BY <1>4 DEF Receive, service
  <2>2. CASE ForPark(Head(decisions))
    <3>1. Resume(Head(decisions).kind) /\ config' = Unpause(config, park.id) /\ deferred' = deferred
      BY <1>4, <2>2 DEF Receive
    <3>2. ~Held(park.id)' /\ HeldAlike(Requests \ {park.id}) /\ park.id \in Requests
      BY <1>1, <1>3, <2>1, <3>1
    <3>3. config' \in InterceptConfigs /\ config'.paused = config.paused \ {park.id}
      BY <3>1, ConfigClosed DEF ChannelTypes
    <3>4. LetsGo(park.id)
      BY <2>1, <2>2, <3>1, <3>2, <3>3 DEF LetsGo, ForPark
    <3> QED BY <3>2, <3>3, <3>4 DEF ConfigTyped, Moves
  <2>3. CASE ~ForPark(Head(decisions))
    <3>1. deferred' = Append(deferred, Head(decisions)) /\ park' = park /\ config' = config
      BY <1>4, <2>3 DEF Receive
    <3>2. HeldAlike(Requests)
      BY <2>1, <3>1, HeldUnmoved
    <3> QED BY <2>1, <3>1, <3>2 DEF ConfigTyped, ChannelTypes, Moves, PutsAside
  <2> QED BY <2>2, <2>3
<1>5. CASE ParkTimeout
  <2>1. /\ Waiting /\ parked' = parked /\ UNCHANGED <<channels, pauses>>
        /\ Resume("continue") /\ config' = Unpause(config, park.id)
    BY <1>5 DEF ParkTimeout, service
  <2>2. ~Held(park.id)' /\ HeldAlike(Requests \ {park.id}) /\ park.id \in Requests
    BY <1>1, <1>3, <2>1
  <2>3. config' \in InterceptConfigs /\ config'.paused = config.paused \ {park.id}
    BY <2>1, ConfigClosed DEF ChannelTypes
  <2>4. LetsGo(park.id)
    BY <2>1, <2>2, <2>3 DEF LetsGo, channels
  <2> QED BY <2>2, <2>3, <2>4 DEF ConfigTyped, Moves
<1>6. ASSUME ~Waiting, ~Waiting', parked' = parked, UNCHANGED <<config, channels, pauses>>
      PROVE  ConfigTyped /\ Moves
  BY <1>2, <1>6 DEF ConfigTyped, ChannelTypes, Moves, Quiet
<1>7. ASSUME NEW r \in Blocking, ~Waiting, Waiting', parked' = parked, park'.id = r, UNCHANGED channels,
             config' = Pause(config, r), pauses' = [pauses EXCEPT ![r] = @ + 1]
      PROVE  ConfigTyped /\ Moves
  <2>1. config' \in InterceptConfigs /\ config'.paused = config.paused \union {r}
    BY <1>7, ConfigClosed DEF ChannelTypes
  <2>2. Held(r)' /\ HeldAlike(Requests \ {r})
    BY <1>7 DEF HeldAlike, Held, AtPausePoint
  <2>3. ~Held(r)
    BY <1>7 DEF Held
  <2>4. Announces(r)
    BY <1>7, <2>1, <2>2, <2>3 DEF Announces
  <2> QED BY <2>1, <2>4 DEF ConfigTyped, Moves
<1>8. park.at # "idle" => park \in Parks /\ park # NoPark /\ park.id \in Blocking
  BY DEF ServiceTypes, Parks, NoPark
<1>9. CASE PassGate \/ NoteOutcome
  <2>1. ~Waiting /\ parked' = parked /\ UNCHANGED <<config, channels, pauses>>
    BY <1>9 DEF PassGate, NoteOutcome, Waiting, service
  <2>2. ~Waiting'
    <3>1. \/ park' = NoPark
          \/ park.at # "idle" /\ \E at \in {"failed", "fetching", "closing"} : park' = [park EXCEPT !.at = at]
      BY <1>9 DEF PassGate, NoteOutcome
    <3> QED BY <1>8, <3>1 DEF Waiting, NoPark, Parks
  <2> QED BY <1>6, <2>1, <2>2
<1>10. ASSUME NEW response \in Responses, BlockingFetch(response) \/ BlockingRetry(response)
       PROVE  ConfigTyped /\ Moves
  <2>1. ~Waiting /\ parked' = parked /\ UNCHANGED channels /\ park.at # "idle"
    BY <1>10 DEF BlockingFetch, BlockingRetry, Waiting, service
  <2>2. \/ /\ park' = [park EXCEPT !.at = "authParked"]
           /\ config' = Pause(config, park.id) /\ pauses' = [pauses EXCEPT ![park.id] = @ + 1]
        \/ /\ \E at \in {"failed", "succeeded"} : park' = [park EXCEPT !.at = at]
           /\ UNCHANGED <<config, pauses>>
    BY <1>10 DEF BlockingFetch, BlockingRetry
  <2>3. CASE /\ park' = [park EXCEPT !.at = "authParked"]
             /\ config' = Pause(config, park.id) /\ pauses' = [pauses EXCEPT ![park.id] = @ + 1]
    <3>1. park'.id = park.id /\ park.id \in Blocking /\ Waiting'
      BY <1>8, <2>1, <2>3 DEF Parks, Waiting
    <3> QED BY <1>7, <2>1, <2>3, <3>1
  <2>4. CASE /\ \E at \in {"failed", "succeeded"} : park' = [park EXCEPT !.at = at]
             /\ UNCHANGED <<config, pauses>>
    <3>1. ~Waiting'
      BY <1>8, <2>1, <2>4 DEF Waiting, Parks
    <3> QED BY <1>6, <2>1, <2>4, <3>1
  <2> QED BY <2>2, <2>3, <2>4
<1>11. ASSUME NEW r \in Blocking, StartBlocking(r)
       PROVE  ConfigTyped /\ Moves
  <2>1. ~Waiting /\ parked' = parked /\ UNCHANGED channels /\ park'.id = r
    BY <1>11 DEF StartBlocking, PageFree, Waiting, service
  <2>2. CASE Matches(config, r)
    <3>1. park'.at = "parked"
      BY <1>11, <2>2 DEF StartBlocking
    <3> QED BY <1>7, <1>11, <2>1, <2>2, <3>1 DEF StartBlocking, Waiting
  <2>3. CASE ~Matches(config, r)
    <3>1. park'.at = "due" /\ UNCHANGED <<config, pauses>>
      BY <1>11, <2>3 DEF StartBlocking
    <3> QED BY <1>6, <2>1, <3>1 DEF Waiting
  <2> QED BY <2>2, <2>3
<1> QED BY <1>4, <1>5, <1>9, <1>10, <1>11 DEF ParkNext

\* Every step is one of the moves.
LEMMA StepsMove ==
  ASSUME ServiceTypes, ChannelTypes, PausedIsHeld, \A r \in Async : AsyncOK(r), [Next]_vars
  PROVE  ConfigTyped /\ Moves
<1>1. CASE UNCHANGED vars
  <2>1. UNCHANGED <<config, channels, pauses, parked, park>>
    BY <1>1 DEF vars, service
  <2> QED BY <2>1, HeldUnmoved DEF ConfigTyped, ChannelTypes, Moves, Quiet
<1>2. ASSUME NEW r \in Async, TaskNext(r)
      PROVE  ConfigTyped /\ Moves
  <2>1. UNCHANGED <<config, channels, pauses, parked, park>>
    BY <1>2 DEF TaskNext, TaskStart, TaskEnd
  <2> QED BY <2>1, HeldUnmoved DEF ConfigTyped, ChannelTypes, Moves, Quiet
<1> QED BY <1>1, <1>2, AsyncMoves, DrainMoves, DriverMoves, BlockingMoves DEF Next

-----------------------------------------------------------------------------
(***************************************************************************)
(* What the moves keep.  `OneDecisionPerPause` needs two facts that it     *)
(* does not say: no answer is in two of the three channels, and every      *)
(* decision under way is about a pause already announced.                  *)
(***************************************************************************)
OneEach ==
  /\ \A d, e \in sending : Same(d, e) => d = e
  /\ Apart(decisions) /\ Apart(deferred)
  /\ Strangers(sending, Elems(decisions)) /\ Strangers(sending, Elems(deferred))
  /\ Strangers(Elems(decisions), Elems(deferred))

Spent ==
  \A d \in InFlight : /\ d.pause <= pauses[d.id]
                      /\ d.id \in config.paused => d.pause # pauses[d.id]

LEMMA InFlightIs ==
  /\ InFlight = sending \union Elems(decisions) \union Elems(deferred)
  /\ InFlight' = sending' \union Elems(decisions') \union Elems(deferred')
  BY DEF InFlight, Elems

LEMMA InFlightTyped ==
  ASSUME ChannelTypes
  PROVE  InFlight \subseteq Decisions
<1>1. \A i \in DOMAIN decisions : decisions[i] \in Decisions
  BY LenProperties DEF ChannelTypes
<1>2. \A i \in DOMAIN deferred : deferred[i] \in Decisions
  BY LenProperties DEF ChannelTypes
<1> QED BY <1>1, <1>2 DEF ChannelTypes, InFlight

LEMMA ClaimTyped ==
  ASSUME ChannelTypes, NEW r \in Requests, NEW k \in Kinds \union {"continue"}
  PROVE  Decision(r, k) \in Decisions
  BY DEF ChannelTypes, Decision, Decisions

\* What each move leaves of the channels.
LEMMA LetsGoLeaves ==
  ASSUME ChannelTypes, NEW r, LetsGo(r)
  PROVE  /\ decisions' \in Seq(Decisions) /\ deferred' \in Seq(Decisions)
         /\ Elems(decisions') \subseteq Elems(decisions)
         /\ Elems(deferred') \subseteq Elems(deferred)
         /\ \A d \in InFlight : d.id # r => d \in InFlight'
         /\ Apart(decisions) => Apart(decisions')
         /\ Apart(deferred) => Apart(deferred')
<1> USE DEF ChannelTypes
<1>0. sending' = sending
  BY DEF LetsGo
<1>1. CASE UNCHANGED <<decisions, deferred>>
  BY <1>0, <1>1, InFlightIs
<1>2. CASE /\ decisions # <<>> /\ Head(decisions).id = r
           /\ decisions' = Tail(decisions) /\ deferred' = deferred
  BY <1>0, <1>2, TakeHead, InFlightIs
<1>3. CASE /\ deferred # <<>> /\ Head(deferred).id = r
           /\ deferred' = Tail(deferred) /\ decisions' = decisions
  BY <1>0, <1>3, TakeHead, InFlightIs
<1>4. CASE DropDeferred(r) /\ decisions' = decisions
  BY <1>0, <1>4, DeferredDropped, InFlightIs
<1> QED BY <1>1, <1>2, <1>3, <1>4 DEF LetsGo

LEMMA PutsAsideLeaves ==
  ASSUME ChannelTypes, PutsAside
  PROVE  /\ decisions' \in Seq(Decisions) /\ deferred' \in Seq(Decisions)
         /\ InFlight' = InFlight
         /\ OneEach => OneEach'
<1> PICK d : d = Head(decisions)
  OBVIOUS
<1>1. /\ d \in Decisions /\ decisions' \in Seq(Decisions)
      /\ Elems(decisions) = {d} \union Elems(decisions')
      /\ Apart(decisions) => Apart(decisions') /\ Strangers({d}, Elems(decisions'))
  BY TakeHead DEF ChannelTypes, PutsAside
<1>2. /\ deferred' \in Seq(Decisions) /\ Elems(deferred') = Elems(deferred) \union {d}
      /\ Apart(deferred) /\ Strangers({d}, Elems(deferred)) => Apart(deferred')
  BY <1>1, PutLast DEF ChannelTypes, PutsAside
<1>3. sending' = sending
  BY DEF PutsAside
<1>4. InFlight' = InFlight
  BY <1>1, <1>2, <1>3, InFlightIs
<1>5. ASSUME OneEach
      PROVE  OneEach'
  <2>1. Strangers({d}, Elems(deferred))
    BY <1>1, <1>5 DEF OneEach, Strangers
  <2>2. Strangers(Elems(decisions'), {d})
    BY <1>1, <1>5 DEF OneEach, Strangers, Same
  <2> QED BY <1>1, <1>2, <1>3, <1>5, <2>1, <2>2 DEF OneEach, Strangers
<1> QED BY <1>1, <1>2, <1>4, <1>5

LEMMA SendsLeaves ==
  ASSUME ChannelTypes, Sends
  PROVE  /\ sending' \subseteq Decisions /\ decisions' \in Seq(Decisions)
         /\ InFlight' = InFlight
         /\ OneEach => OneEach'
<1> PICK d \in sending : sending' = sending \ {d} /\ decisions' = Append(decisions, d)
  BY DEF Sends
<1>1. d \in Decisions /\ sending' \subseteq Decisions
  BY DEF ChannelTypes
<1>2. /\ decisions' \in Seq(Decisions) /\ Elems(decisions') = Elems(decisions) \union {d}
      /\ Apart(decisions) /\ Strangers({d}, Elems(decisions)) => Apart(decisions')
  BY <1>1, PutLast DEF ChannelTypes
<1>3. deferred' = deferred
  BY DEF Sends
<1>4. InFlight' = InFlight
  BY <1>2, <1>3, InFlightIs
<1>5. ASSUME OneEach
      PROVE  OneEach'
  <2>1. Strangers({d}, Elems(decisions)) /\ Strangers({d}, Elems(deferred))
    BY <1>5 DEF OneEach, Strangers
  <2>2. \A e \in sending' : ~Same(e, d)
    BY <1>5 DEF OneEach
  <2> QED BY <1>2, <1>3, <1>5, <2>1, <2>2 DEF OneEach, Strangers
<1> QED BY <1>1, <1>2, <1>4, <1>5

LEMMA TypesKept ==
  ASSUME ChannelTypes, ConfigTyped, Moves
  PROVE  ChannelTypes'
<1>1. CASE Quiet
  BY <1>1 DEF Quiet, ChannelTypes, ConfigTyped, channels
<1>2. ASSUME NEW r \in Requests, Announces(r)
      PROVE  ChannelTypes'
  BY <1>2 DEF Announces, ChannelTypes, ConfigTyped, channels
<1>3. ASSUME NEW r \in Requests, LetsGo(r)
      PROVE  ChannelTypes'
  BY <1>3, LetsGoLeaves DEF LetsGo, ChannelTypes, ConfigTyped
<1>4. ASSUME NEW rs \in SUBSET Requests, NEW k \in Kinds \union {"continue"}, Claims(rs, k)
      PROVE  ChannelTypes'
  BY <1>4, ClaimTyped DEF Claims, ChannelTypes, ConfigTyped
<1>5. CASE PutsAside
  BY <1>5, PutsAsideLeaves DEF PutsAside, ChannelTypes, ConfigTyped
<1>6. CASE Sends
  BY <1>6, SendsLeaves DEF Sends, ChannelTypes, ConfigTyped
<1> QED BY <1>1, <1>2, <1>3, <1>4, <1>5, <1>6 DEF Moves

LEMMA AgreeKept ==
  ASSUME ChannelTypes, PausesAgree, Moves
  PROVE  PausesAgree'
<1> USE DEF PausesAgree
<1>0. config.paused \subseteq Requests
  BY DEF ChannelTypes, InterceptConfigs
<1>1. ASSUME config'.paused = config.paused, InFlight' = InFlight, HeldAlike(Requests)
      PROVE  PausesAgree'
  BY <1>0, <1>1 DEF PausedIsHeld, HeldIsAnswerable, HeldAlike
<1>2. CASE Quiet
  BY <1>1, <1>2, InFlightIs DEF Quiet, channels
<1>3. ASSUME NEW r \in Requests, Announces(r)
      PROVE  PausesAgree'
  <2>1. InFlight' = InFlight
    BY <1>3, InFlightIs DEF Announces, channels
  <2> QED BY <1>0, <1>3, <2>1 DEF Announces, PausedIsHeld, HeldIsAnswerable, HeldAlike
<1>4. ASSUME NEW r \in Requests, LetsGo(r)
      PROVE  PausesAgree'
  <2>1. PausedIsHeld'
    BY <1>0, <1>4 DEF LetsGo, PausedIsHeld, HeldAlike
  <2>2. HeldIsAnswerable'
    BY <1>4, LetsGoLeaves DEF LetsGo, HeldIsAnswerable, HeldAlike
  <2> QED BY <2>1, <2>2
<1>5. ASSUME NEW rs \in SUBSET Requests, NEW k \in Kinds \union {"continue"}, Claims(rs, k)
      PROVE  PausesAgree'
  <2>1. PausedIsHeld'
    BY <1>0, <1>5 DEF Claims, PausedIsHeld, HeldAlike
  <2>2. InFlight \subseteq InFlight' /\ \A r \in rs : Decision(r, k) \in InFlight'
    BY <1>5, InFlightIs DEF Claims
  <2>3. \A r \in rs : Decision(r, k).id = r
    BY DEF Decision
  <2>4. HeldIsAnswerable'
    BY <1>5, <2>2, <2>3 DEF Claims, HeldIsAnswerable, HeldAlike
  <2> QED BY <2>1, <2>4
<1>6. CASE PutsAside
  BY <1>1, <1>6, PutsAsideLeaves DEF PutsAside
<1>7. CASE Sends
  BY <1>1, <1>7, SendsLeaves DEF Sends
<1> QED BY <1>2, <1>3, <1>4, <1>5, <1>6, <1>7 DEF Moves

LEMMA OneEachKept ==
  ASSUME ChannelTypes, OneEach, Spent, Moves
  PROVE  OneEach' /\ Spent'
<1>0. InFlight \subseteq Decisions /\ \A d \in Decisions : d.id \in Requests /\ d.pause \in Nat
  BY InFlightTyped DEF Decisions
<1>1. ASSUME config'.paused = config.paused, pauses' = pauses, InFlight' = InFlight
      PROVE  Spent'
  BY <1>1 DEF Spent
<1>2. CASE Quiet
  BY <1>1, <1>2, InFlightIs DEF Quiet, channels, OneEach
<1>3. ASSUME NEW r \in Requests, Announces(r)
      PROVE  OneEach' /\ Spent'
  <2>1. InFlight' = InFlight /\ OneEach'
    BY <1>3, InFlightIs DEF Announces, channels, OneEach
  <2>2. /\ pauses[r] \in Nat /\ pauses'[r] = pauses[r] + 1
        /\ \A q \in Requests \ {r} : pauses'[q] = pauses[q]
    BY <1>3 DEF Announces, ChannelTypes
  <2>3. ASSUME NEW d \in InFlight
        PROVE  d.pause <= pauses'[d.id] /\ (d.id \in config'.paused => d.pause # pauses'[d.id])
    <3>1. d.id \in Requests /\ d.pause \in Nat /\ d.pause <= pauses[d.id]
      BY <1>0 DEF Spent
    <3>2. CASE d.id = r
      BY <2>2, <3>1, <3>2
    <3>3. CASE d.id # r
      BY <1>3, <2>2, <3>1, <3>3 DEF Announces, Spent
    <3> QED BY <3>2, <3>3
  <2> QED BY <2>1, <2>3 DEF Spent
<1>4. ASSUME NEW r \in Requests, LetsGo(r)
      PROVE  OneEach' /\ Spent'
  <2>1. /\ Elems(decisions') \subseteq Elems(decisions) /\ Elems(deferred') \subseteq Elems(deferred)
        /\ Apart(decisions) => Apart(decisions')
        /\ Apart(deferred) => Apart(deferred')
        /\ sending' = sending /\ pauses' = pauses /\ config'.paused \subseteq config.paused
    BY <1>4, LetsGoLeaves DEF LetsGo
  <2>2. InFlight' \subseteq InFlight
    BY <2>1, InFlightIs
  <2>3. OneEach'
    <3>1. /\ Strangers(sending', Elems(decisions')) /\ Strangers(sending', Elems(deferred'))
          /\ Strangers(Elems(decisions'), Elems(deferred'))
      BY <2>1 DEF OneEach, Strangers
    <3>2. \A d, e \in sending' : Same(d, e) => d = e
      BY <2>1 DEF OneEach
    <3>3. Apart(decisions') /\ Apart(deferred')
      BY <2>1 DEF OneEach
    <3> QED BY <3>1, <3>2, <3>3 DEF OneEach
  <2>4. Spent'
    BY <2>1, <2>2 DEF Spent
  <2> QED BY <2>3, <2>4
<1>5. ASSUME NEW rs \in SUBSET Requests, NEW k \in Kinds \union {"continue"}, Claims(rs, k)
      PROVE  OneEach' /\ Spent'
  <2> DEFINE made == {Decision(r, k) : r \in rs}
  <2>1. /\ sending' = sending \union made /\ decisions' = decisions /\ deferred' = deferred
        /\ rs \subseteq config.paused /\ config'.paused = config.paused \ rs /\ pauses' = pauses
    BY <1>5 DEF Claims
  <2>2. \A d \in made : d.id \in rs /\ d.pause = pauses[d.id] /\ d.kind = k /\ d = Decision(d.id, k)
    BY DEF Decision
  <2> HIDE DEF made
  <2>3. Strangers(made, InFlight)
    BY <2>1, <2>2 DEF Spent, Strangers, Same
  <2>4. \A d, e \in made : Same(d, e) => d = e
    BY <2>2 DEF Same
  <2>5. InFlight' = InFlight \union made
    BY <2>1, InFlightIs
  <2>6. OneEach'
    <3>1. Strangers(made, sending) /\ Strangers(made, Elems(decisions)) /\ Strangers(made, Elems(deferred))
      BY <2>3, InFlightIs DEF Strangers
    <3>2. \A d, e \in sending' : Same(d, e) => d = e
      BY <2>1, <2>4, <3>1 DEF OneEach, Strangers, Same
    <3> QED BY <2>1, <3>1, <3>2 DEF OneEach, Strangers
  <2>7. Spent'
    <3>1. \A d \in made : d.pause <= pauses[d.id] /\ d.id \notin config'.paused
      BY <2>1, <2>2 DEF ChannelTypes
    <3> QED BY <2>1, <2>5, <3>1 DEF Spent
  <2> QED BY <2>6, <2>7
<1>6. CASE PutsAside
  BY <1>1, <1>6, PutsAsideLeaves DEF PutsAside
<1>7. CASE Sends
  BY <1>1, <1>7, SendsLeaves DEF Sends
<1> QED BY <1>2, <1>3, <1>4, <1>5, <1>6, <1>7 DEF Moves

\* What the channels hold one each of is counted once.
LEMMA CountedOnce ==
  ASSUME OneEach, NEW d \in InFlight
  PROVE  Copies(d) = 1
<1> DEFINE inDecisions == {i \in DOMAIN decisions : decisions[i] = d}
           inDeferred == {i \in DOMAIN deferred : deferred[i] = d}
<1>1. /\ \A S : S = {} => Cardinality(S) = 0
      /\ \A S : (\E i : S = {i}) => Cardinality(S) = 1
  BY FS_EmptySet, FS_Singleton
<1>2. CASE d \in sending
  <2>1. inDecisions = {} /\ inDeferred = {}
    BY <1>2 DEF OneEach, Strangers, Same, Elems
  <2> QED BY <1>1, <1>2, <2>1 DEF Copies
<1>3. CASE d \in Elems(decisions)
  <2>1. d \notin sending /\ inDeferred = {}
    BY <1>3 DEF OneEach, Strangers, Same, Elems
  <2>2. \E i : inDecisions = {i}
    BY <1>3 DEF OneEach, Apart, Same, Elems
  <2>3. Cardinality(inDecisions) = 1 /\ Cardinality(inDeferred) = 0
    BY <1>1, <2>1, <2>2
  <2> QED BY <2>1, <2>3 DEF Copies
<1>4. CASE d \in Elems(deferred)
  <2>1. d \notin sending /\ inDecisions = {}
    BY <1>4 DEF OneEach, Strangers, Same, Elems
  <2>2. \E i : inDeferred = {i}
    BY <1>4 DEF OneEach, Apart, Same, Elems
  <2>3. Cardinality(inDeferred) = 1 /\ Cardinality(inDecisions) = 0
    BY <1>1, <2>1, <2>2
  <2> QED BY <2>1, <2>3 DEF Copies
<1> QED BY <1>2, <1>3, <1>4, InFlightIs

LEMMA OneEachImplies == OneEach /\ Spent => OneDecisionPerPause
<1> SUFFICES ASSUME OneEach, Spent, NEW d \in InFlight
             PROVE  /\ Copies(d) = 1
                    /\ \A e \in InFlight : e.id = d.id /\ e.pause = d.pause => e = d
                    /\ d.id \in config.paused => d.pause # pauses[d.id]
  BY DEF OneDecisionPerPause
<1>1. \A e \in InFlight : e.id = d.id /\ e.pause = d.pause => e = d
  BY InFlightIs DEF OneEach, Apart, Strangers, Same, Elems
<1> QED BY <1>1, CountedOnce DEF Spent

-----------------------------------------------------------------------------
(***************************************************************************)
(* The invariant of the pause point, and the redirect count beside it.     *)
(***************************************************************************)
HopsTyped == hops \in [Async -> 0 .. MaxHops]

PInv == ChannelTypes /\ HopsTyped /\ PausesAgree /\ OneEach /\ Spent

LEMMA PInvInit == Init => PInv
<1> SUFFICES ASSUME Init PROVE PInv
  OBVIOUS
<1>1. ChannelTypes /\ HopsTyped
  BY MaxSeqAssumption, LimitsAssumption, EmptySeq
  DEF Init, ChannelTypes, HopsTyped, InterceptConfigs, DefaultConfig, Forever
<1>2. sending = {} /\ decisions = <<>> /\ deferred = <<>> /\ config.paused = {} /\ park.at = "idle"
  BY DEF Init, DefaultConfig, NoPark
<1>3. Elems(decisions) = {} /\ Elems(deferred) = {}
  BY <1>2 DEF Elems
<1>4. \A r \in Requests : ~Held(r)
  BY <1>2 DEF Init, Held, AtPausePoint, NotParked, Waiting
<1>5. PausesAgree
  BY <1>2, <1>4 DEF PausesAgree, PausedIsHeld, HeldIsAnswerable
<1>6. OneEach /\ Spent
  <2>1. InFlight = {}
    BY <1>2, <1>3, InFlightIs
  <2>2. Apart(decisions) /\ Apart(deferred)
    BY <1>2 DEF Apart
  <2> QED BY <1>2, <1>3, <2>1, <2>2 DEF OneEach, Spent, Strangers
<1> QED BY <1>1, <1>5, <1>6 DEF PInv

LEMMA HopsMove ==
  ASSUME [Next]_vars
  PROVE  \/ hops' = hops
         \/ \E r \in Async : hops' = [hops EXCEPT ![r] = 0]
         \/ \E r \in Async : hops[r] < MaxHops /\ hops' = [hops EXCEPT ![r] = @ + 1]
<1> DEFINE Goal == \/ hops' = hops
                   \/ \E r \in Async : hops' = [hops EXCEPT ![r] = 0]
                   \/ \E r \in Async : hops[r] < MaxHops /\ hops' = [hops EXCEPT ![r] = @ + 1]
<1>1. CASE UNCHANGED vars
  BY <1>1 DEF vars, service
<1>2. ASSUME NEW r, NEW kind, Apply(r, kind)
      PROVE  Goal
  <2>1. CASE r \in Async /\ parked[r].kind # "none"
    <3>1. Act(r, kind)
      BY <1>2, <2>1 DEF Apply
    <3>2. UNCHANGED hops \/ FollowRedirect(r)
      BY <3>1 DEF Act
    <3> QED BY <2>1, <3>2 DEF FollowRedirect
  <2>2. CASE ~(r \in Async /\ parked[r].kind # "none")
    BY <1>2, <2>2 DEF Apply, service
  <2> QED BY <2>1, <2>2
<1>3. ASSUME NEW r \in Async, AsyncNext(r)
      PROVE  Goal
  BY <1>2, <1>3 DEF AsyncNext, StartAsync, Abort, Dispatch, Expire
<1>4. ASSUME NEW r \in Async, TaskNext(r)
      PROVE  Goal
  BY <1>4 DEF TaskNext, TaskStart, TaskEnd
<1>5. CASE DrainNext
  BY <1>2, <1>5 DEF DrainNext, ApplyDeferred, ApplyDecision
<1>6. CASE DriverNext
  BY <1>6 DEF DriverNext, SwitchOn, SwitchOff, Claim, Send, EmulateOffline, service
<1>7. CASE ParkNext
  BY <1>7 DEF ParkNext, Receive, ParkTimeout, PassGate, NoteOutcome, BlockingFetch, BlockingRetry, service
<1>8. CASE \E r \in Blocking : StartBlocking(r)
  BY <1>8 DEF StartBlocking, service
<1> QED BY <1>1, <1>3, <1>4, <1>5, <1>6, <1>7, <1>8 DEF Next

LEMMA PInvStep == IInv /\ PInv /\ [Next]_vars => PInv'
<1> SUFFICES ASSUME IInv, PInv, [Next]_vars PROVE PInv'
  OBVIOUS
<1>1. ConfigTyped /\ Moves
  BY StepsMove DEF IInv, PInv, PausesAgree
<1>2. ChannelTypes' /\ PausesAgree' /\ OneEach' /\ Spent'
  BY <1>1, TypesKept, AgreeKept, OneEachKept DEF PInv
<1>3. HopsTyped'
  BY HopsMove, LimitsAssumption DEF PInv, HopsTyped
<1> QED BY <1>2, <1>3 DEF PInv

-----------------------------------------------------------------------------
(***************************************************************************)
(* The theorems.                                                           *)
(***************************************************************************)
LEMMA IInvStep == IInv /\ [Next]_vars => IInv' /\ Heard
<1> SUFFICES ASSUME IInv, [Next]_vars PROVE IInv' /\ Heard
  OBVIOUS
<1>1. CASE UNCHANGED vars
  BY <1>1, Idle DEF vars, service, observer, Heard
<1>2. ASSUME NEW r \in Async, AsyncNext(r) \/ TaskNext(r)
      PROVE  IInv' /\ Heard
  <2>1. CASE Expire(r)
    BY <2>1, ApplyStep DEF Expire, Heard, observer
  <2> QED BY <1>2, <2>1, StartAsyncStep, AbortStep, DispatchStep, TaskStep DEF AsyncNext
<1>3. CASE DrainNext
  BY <1>3, ApplyStep DEF DrainNext, ApplyDeferred, ApplyDecision, Heard, observer
<1>4. CASE DriverNext
  <2>1. UNCHANGED <<service, observer, park>>
    BY <1>4 DEF DriverNext, SwitchOn, SwitchOff, Claim, Send, EmulateOffline
  <2> QED BY <2>1, Idle DEF service, observer, Heard
<1> QED BY <1>1, <1>2, <1>3, <1>4, ParkStep, StartBlockingStep DEF Next

LEMMA IInvAlways == Spec => []IInv
  BY IInvInit, IInvStep, PTL DEF Spec

\* However aborts, late answers, decisions and blocking outcomes meet, each
\* request's observer hears one terminal event and no second one.
THEOREM OneTerminalEvent == Spec => []EndsOnce
  BY IInvAlways, IInvImplies, PTL

\* An open asynchronous request is at the pause point, in a live task or in the
\* channel to the page: never nowhere, never in two of them.
THEOREM NeverStranded == Spec => []OneHolder
  BY IInvAlways, IInvImplies, PTL

\* The whole service implements the lifecycle its observer is promised.
THEOREM ServiceFollowsLifecycle == Spec => FollowsLifecycle
<1>1. Init => Lifecycle!Init
  BY DEF Init, Lifecycle!Init
<1>2. IInv /\ [Next]_vars => [Lifecycle!Next]_seen
  BY IInvStep DEF Heard
<1> QED BY <1>1, <1>2, IInvAlways, PTL DEF Spec, FollowsLifecycle, Lifecycle!Spec

LEMMA PInvAlways == Spec => []PInv
  BY IInvAlways, PInvInit, PInvStep, PTL DEF Spec

\* Every state the service reaches is well typed: no redirect past
\* MAX_FULFILLED_REDIRECTS and no credentials past MAX_AUTH_ATTEMPTS, whatever
\* the driver answers.
THEOREM TypeCorrect == Spec => []TypeOK
<1>1. IInv /\ PInv => TypeOK
  BY DEF IInv, PInv, ServiceTypes, ChannelTypes, HopsTyped, TypeOK
<1> QED BY <1>1, IInvAlways, PInvAlways, PTL

\* What the driver may claim is held by the page, and what the page holds is
\* claimable or has its decision on the way, through every claim, disable,
\* deferral, abort and expiry.
THEOREM DriverAndPageAgree == Spec => []PausesAgree
  BY PInvAlways, PTL DEF PInv

\* No pause is ever decided twice, nor can it be claimed once decided.
THEOREM DecidedOncePerPause == Spec => []OneDecisionPerPause
<1>1. PInv => OneDecisionPerPause
  BY OneEachImplies DEF PInv
<1> QED BY <1>1, PInvAlways, PTL

-----------------------------------------------------------------------------
(***************************************************************************)
(* The pause point: each of the six moves is one of its steps, or none.    *)
(***************************************************************************)
Stands == \A r \in Requests : PauseState(r)' = PauseState(r)

LEMMA PausesStand ==
  ASSUME config'.paused = config.paused, HeldAlike(Requests)
  PROVE  Stands
  BY DEF Stands, PauseState, HeldAlike

LEMMA MovesFollow ==
  ASSUME ChannelTypes, PausesAgree, Moves
  PROVE  PausePoint!Next \/ Stands
<1>0. /\ config.paused \subseteq Requests /\ PausedIsHeld
      /\ PausePoint!Claimable = config.paused
  <2>1. config.paused \subseteq Requests /\ PausedIsHeld
    BY DEF ChannelTypes, InterceptConfigs, PausesAgree
  <2> QED BY <2>1 DEF PausePoint!Claimable, PauseState
<1>1. CASE Quiet \/ PutsAside \/ Sends
  BY <1>1, PausesStand DEF Quiet, PutsAside, Sends
<1>2. ASSUME NEW r \in Requests, Announces(r)
      PROVE  PausePoint!Next
  <2>1. r \notin config.paused /\ PauseState(r) = "free"
    BY <1>0, <1>2 DEF Announces, PausedIsHeld, PauseState
  <2>2. PauseState(r)' = "claimable" /\ \A q \in Requests \ {r} : PauseState(q)' = PauseState(q)
    BY <1>2 DEF Announces, HeldAlike, PauseState
  <2>3. PausePoint!Pause(r)
    BY <2>1, <2>2 DEF PausePoint!Pause
  <2> QED BY <2>3 DEF PausePoint!Next
<1>3. ASSUME NEW r \in Requests, LetsGo(r)
      PROVE  PausePoint!Next \/ Stands
  <2>1. PauseState(r)' = "free" /\ \A q \in Requests \ {r} : PauseState(q)' = PauseState(q)
    BY <1>3 DEF LetsGo, HeldAlike, PauseState
  <2>2. CASE PauseState(r) = "free"
    BY <2>1, <2>2 DEF Stands
  <2>3. CASE PauseState(r) # "free"
    <3>1. PausePoint!LetGo(r)
      BY <2>1, <2>3 DEF PausePoint!LetGo
    <3> QED BY <3>1 DEF PausePoint!Next
  <2> QED BY <2>2, <2>3
<1>4. ASSUME NEW rs \in SUBSET Requests, NEW k, Claims(rs, k)
      PROVE  PausePoint!Next \/ Stands
  <2>1. \A q \in Requests : PauseState(q)' = IF q \in rs THEN "decided" ELSE PauseState(q)
    BY <1>0, <1>4 DEF Claims, HeldAlike, PauseState, PausedIsHeld
  <2>2. CASE rs = {}
    BY <2>1, <2>2 DEF Stands
  <2>3. CASE rs = config.paused /\ rs # {}
    <3>1. PausePoint!Release
      BY <1>0, <2>1, <2>3 DEF PausePoint!Release, PausePoint!Decide
    <3> QED BY <3>1 DEF PausePoint!Next
  <2>4. ASSUME NEW r \in rs, rs = {r}
        PROVE  PausePoint!Next
    <3>1. PausePoint!Claim(r)
      BY <1>0, <1>4, <2>1, <2>4 DEF Claims, PausePoint!Claim, PausePoint!Decide
    <3> QED BY <3>1 DEF PausePoint!Next
  <2> QED BY <1>4, <2>2, <2>3, <2>4 DEF Claims
<1> QED BY <1>1, <1>2, <1>3, <1>4 DEF Moves

\* Gate, park, redirect, challenge, deferral, abort and expiry together are one
\* pause point, at which each pause is claimed at most once.
THEOREM ServiceIsAPausePoint == Spec => FollowsPausePoint
<1>1. Init => PausePoint!Init
  <2>1. Init => \A r \in Requests : r \notin config.paused /\ ~Held(r)
    BY DEF Init, DefaultConfig, Held, AtPausePoint, NotParked, Waiting, NoPark
  <2> QED BY <2>1 DEF PauseState, PausePoint!Init
<1>2. IInv /\ PInv /\ [Next]_vars => [PausePoint!Next]_[r \in Requests |-> PauseState(r)]
  <2> SUFFICES ASSUME IInv, PInv, [Next]_vars
               PROVE  PausePoint!Next \/ Stands
    BY DEF Stands
  <2>1. Moves
    BY StepsMove DEF IInv, PInv, PausesAgree
  <2> QED BY <2>1, MovesFollow DEF PInv
<1> QED BY <1>1, <1>2, IInvAlways, PInvAlways, PTL DEF Spec, FollowsPausePoint, PausePoint!Spec
=============================================================================
