--------------------------- MODULE DeferredReplies ---------------------------
(***************************************************************************)
(* A command whose answer is a promise: `Runtime.evaluate` and its kin     *)
(* with `awaitPromise` (ADR-0034). The page parks the promise and hands    *)
(* back a token, the session's lane goes on without replying, and when the *)
(* promise settles the answer travels the other way round: the page's      *)
(* bounded event bus, the pump, and every connection's signal queue to the *)
(* thread that handles its events. The lane and that thread meet in the    *)
(* connection's `AwaitBook`.                                               *)
(*                                                                         *)
(* A token is named by its command. Every connection holds at most one     *)
(* session on the page, with one lane.                                     *)
(***************************************************************************)
EXTENDS Integers, Sequences, SequencesExt, FiniteSets

CONSTANTS
  Connections,   \* sockets
  Commands,      \* evaluations that may be sent
  Capacity,      \* the room other events leave on the page's event bus
  CanCrash       \* whether the page's thread may unwind

ASSUME DeferredAssumption ==
  /\ Connections # {}
  /\ Capacity \in Nat \ {0}
  /\ CanCrash \in BOOLEAN

(* The page's last event, `Closed` or `Crashed`. *)
Gone == "gone"
ASSUME GoneAssumption == Gone \notin Commands

VARIABLES
  lane,      \* command -> "unsent", "calling", "holding" its token, "released"
  issuer,    \* command -> the connection it was sent on
  job,       \* command -> "none", "queued", "running", "answered", "deferred", "skipped"
  page,      \* "running", "closing", "gone"
  parked,    \* `pending_awaits`
  bus,       \* the page's event channel
  lost,      \* answers that never reached the bus
  signals,   \* connection -> its signal queue
  ours,      \* connection -> what its event thread has seen of its sessions
  session,   \* connection -> whether it holds a session on the page
  waiting,   \* connection -> the book's commands without an answer
  settled,   \* connection -> the book's answers without a command
  declined,  \* answers no session of the issuer was there to wait for
  replies    \* command -> replies sent

laneVars == <<lane, issuer>>
pageVars == <<job, page, parked>>
busVars == <<bus, lost>>
bookVars == <<waiting, settled>>
eventVars == <<signals, ours, declined>>
vars == <<laneVars, pageVars, busVars, bookVars, eventVars, session, replies>>

Reply(c) == replies' = [replies EXCEPT ![c] = @ + 1]
Step(f, c, value) == [f EXCEPT ![c] = value]

-----------------------------------------------------------------------------
(***************************************************************************)
(* The lane.                                                               *)
(***************************************************************************)

(* A session's lane takes one command at a time and blocks on the page.    *)
Send(k, c) ==
  /\ lane[c] = "unsent" /\ session[k]
  /\ \A d \in Commands : issuer[d] = k => lane[d] \in {"unsent", "released"}
  /\ lane' = Step(lane, c, "calling")
  /\ issuer' = Step(issuer, c, k)
  /\ job' = Step(job, c, IF page = "gone" THEN "skipped" ELSE "queued")
  /\ UNCHANGED <<page, parked, busVars, bookVars, eventVars, session, replies>>

(* The page answered in time: with a result or an error, or with a token.  *)
Called(c) ==
  /\ lane[c] = "calling"
  /\ \/ /\ job[c] \in {"answered", "skipped"}
        /\ lane' = Step(lane, c, "released")
        /\ Reply(c)
     \/ /\ job[c] = "deferred"
        /\ lane' = Step(lane, c, "holding")
        /\ UNCHANGED replies
  /\ UNCHANGED <<issuer, pageVars, busVars, bookVars, eventVars, session>>

\* Mutant: the driver is told, but the lane stays with a job that runs.
CallTimesOutEarly(c) ==
  /\ lane[c] = "calling" /\ job[c] \in {"queued", "running"}
  /\ lane' = IF job[c] = "queued" THEN Step(lane, c, "released") ELSE lane
  /\ job' = IF job[c] = "queued" THEN Step(job, c, "skipped") ELSE job
  /\ Reply(c)
  /\ UNCHANGED <<issuer, page, parked, busVars, bookVars, eventVars, session>>

(* The command's deadline passed. A job not yet begun is skipped; one that *)
(* is running goes on, and may still park a promise nobody asks about.     *)
CallTimesOut(c) ==
  /\ lane[c] = "calling" /\ job[c] \in {"queued", "running"}
  /\ lane' = Step(lane, c, "released")
  /\ job' = IF job[c] = "queued" THEN Step(job, c, "skipped") ELSE job
  /\ Reply(c)
  /\ UNCHANGED <<issuer, page, parked, busVars, bookVars, eventVars, session>>

(* The answers the book may find a minute old and sweep: a lane that holds *)
(* a token, or is about to be handed one, is taken to claim it sooner.     *)
Stale(k) == {c \in settled[k] : issuer[c] # k \/ lane[c] = "released"}

\* Mutant: an answer found in the book is taken and not sent.
DeferReplySwallows(c) ==
  LET k == issuer[c] IN
  /\ lane[c] = "holding"
  /\ lane' = Step(lane, c, "released")
  /\ settled' = [settled EXCEPT ![k] = @ \ {c}]
  /\ waiting' = IF c \in settled[k] THEN waiting
                                    ELSE [waiting EXCEPT ![k] = @ \cup {c}]
  /\ UNCHANGED <<issuer, pageVars, busVars, eventVars, session, replies>>

\* Mutant: the book is not asked whether the answer is there already.
DeferReplyBlindly(c) ==
  LET k == issuer[c] IN
  /\ lane[c] = "holding"
  /\ lane' = Step(lane, c, "released")
  /\ waiting' = [waiting EXCEPT ![k] = @ \cup {c}]
  /\ UNCHANGED <<issuer, pageVars, busVars, settled, eventVars, session, replies>>

(* defer_reply: an answer already in the book is sent, else the command    *)
(* waits there.                                                            *)
DeferReply(c) ==
  LET k == issuer[c] IN
  /\ lane[c] = "holding"
  /\ lane' = Step(lane, c, "released")
  /\ \E old \in SUBSET Stale(k) :
       IF c \in settled[k] \ old
         THEN /\ Reply(c)
              /\ settled' = [settled EXCEPT ![k] = @ \ (old \cup {c})]
              /\ UNCHANGED waiting
         ELSE /\ settled' = [settled EXCEPT ![k] = @ \ old]
              /\ waiting' = [waiting EXCEPT ![k] = @ \cup {c}]
              /\ UNCHANGED replies
  /\ UNCHANGED <<issuer, pageVars, busVars, eventVars, session>>

-----------------------------------------------------------------------------
(***************************************************************************)
(* The page.                                                               *)
(***************************************************************************)

NothingRuns == \A c \in Commands : job[c] # "running"

Begin(c) ==
  /\ page = "running" /\ job[c] = "queued" /\ NothingRuns
  /\ job' = Step(job, c, "running")
  /\ UNCHANGED <<laneVars, page, parked, busVars, bookVars, eventVars, session, replies>>

(* settle_or_defer: settled by now, and the job answers; else it parks.    *)
Finish(c) ==
  /\ job[c] = "running"
  /\ \/ /\ job' = Step(job, c, "answered")
        /\ UNCHANGED parked
     \/ /\ job' = Step(job, c, "deferred")
        /\ parked' = parked \cup {c}
  /\ UNCHANGED <<laneVars, page, busVars, bookVars, eventVars, session, replies>>

\* Mutant: the bus takes one event more than it has room for.
EmitOneMore(c) ==
  IF Len(bus) <= Capacity
    THEN bus' = Append(bus, c) /\ UNCHANGED lost
    ELSE UNCHANGED bus /\ lost' = lost \cup {c}

(* The event sink: a full bus loses the event rather than block the page.  *)
Emit(c) ==
  IF Len(bus) < Capacity
    THEN bus' = Append(bus, c) /\ UNCHANGED lost
    ELSE UNCHANGED bus /\ lost' = lost \cup {c}

(* drain_pending_awaits, for an entry that has settled or outlived its     *)
(* budget; fail_pending_awaits, for every entry, when the document is      *)
(* replaced or the page closes.                                            *)
Settle(c) ==
  /\ page \in {"running", "closing"} /\ c \in parked /\ NothingRuns
  /\ parked' = parked \ {c}
  /\ Emit(c)
  /\ UNCHANGED <<laneVars, job, page, bookVars, eventVars, session, replies>>

(* The command loop ends: what is queued is dropped unrun.                 *)
BeginClose ==
  /\ page = "running" /\ NothingRuns
  /\ page' = "closing"
  /\ job' = [c \in Commands |-> IF job[c] = "queued" THEN "skipped" ELSE job[c]]
  /\ UNCHANGED <<laneVars, parked, busVars, bookVars, eventVars, session, replies>>

(* The last event waits for room.                                          *)
EndClose ==
  /\ page = "closing" /\ parked = {} /\ Len(bus) < Capacity
  /\ page' = "gone"
  /\ job' = [c \in Commands |-> IF job[c] = "queued" THEN "skipped" ELSE job[c]]
  /\ bus' = Append(bus, Gone)
  /\ UNCHANGED <<laneVars, parked, lost, bookVars, eventVars, session, replies>>

(* The thread unwinds: dropping the page drops what it had parked, unsaid. *)
Crash ==
  /\ CanCrash /\ page = "running" /\ Len(bus) < Capacity
  /\ page' = "gone"
  /\ job' = [c \in Commands |-> IF job[c] \in {"queued", "running"} THEN "skipped" ELSE job[c]]
  /\ lost' = lost \cup parked
  /\ parked' = {}
  /\ bus' = Append(bus, Gone)
  /\ UNCHANGED <<laneVars, bookVars, eventVars, session, replies>>

-----------------------------------------------------------------------------
(***************************************************************************)
(* The way back.                                                           *)
(***************************************************************************)

(* The pump hands each event to every connection.                          *)
Pump ==
  /\ bus # <<>>
  /\ bus' = Tail(bus)
  /\ signals' = [k \in Connections |-> Append(signals[k], Head(bus))]
  /\ UNCHANGED <<laneVars, pageVars, lost, bookVars, ours, declined, session, replies>>

(* dispatch_page_event looks at the connection's sessions first ...        *)
LookAtSessions(k) ==
  /\ signals[k] # <<>> /\ Head(signals[k]) \in Commands /\ ours[k] = "unknown"
  /\ ours' = [ours EXCEPT ![k] = IF session[k] THEN "yes" ELSE "no"]
  /\ UNCHANGED <<laneVars, pageVars, busVars, bookVars, signals, declined, session, replies>>

(* ... and resolve_await then answers the command that waits, or keeps the *)
(* answer for a lane that has yet to come, or for nobody.                  *)
ResolveAwait(k) ==
  /\ ours[k] # "unknown"
  /\ LET c == Head(signals[k]) IN
       \E old \in SUBSET Stale(k) :
         /\ waiting' = [waiting EXCEPT ![k] = @ \ {c}]
         /\ settled' = [settled EXCEPT ![k] =
              (@ \ old) \cup (IF c \notin waiting[k] /\ ours[k] = "yes" THEN {c} ELSE {})]
         /\ IF c \in waiting[k] THEN Reply(c) ELSE UNCHANGED replies
         /\ declined' = IF c \notin waiting[k] /\ ours[k] = "no" /\ issuer[c] = k
                          THEN declined \cup {c} ELSE declined
  /\ signals' = [signals EXCEPT ![k] = Tail(@)]
  /\ ours' = [ours EXCEPT ![k] = "unknown"]
  /\ UNCHANGED <<laneVars, pageVars, busVars, session>>

(* The page's last event takes the target, and with it the connection's    *)
(* session, away; the book is left as it is.                               *)
HandleGone(k) ==
  /\ signals[k] # <<>> /\ Head(signals[k]) = Gone
  /\ session' = [session EXCEPT ![k] = FALSE]
  /\ signals' = [signals EXCEPT ![k] = Tail(@)]
  /\ UNCHANGED <<laneVars, pageVars, busVars, bookVars, ours, declined, replies>>

(* Target.detachFromTarget, on a lane of its own.                          *)
Detach(k) ==
  /\ session[k]
  /\ session' = [session EXCEPT ![k] = FALSE]
  /\ UNCHANGED <<laneVars, pageVars, busVars, bookVars, eventVars, replies>>

-----------------------------------------------------------------------------

Init ==
  /\ lane = [c \in Commands |-> "unsent"]
  /\ issuer = [c \in Commands |-> CHOOSE k \in Connections : TRUE]
  /\ job = [c \in Commands |-> "none"]
  /\ page = "running" /\ parked = {}
  /\ bus = <<>> /\ lost = {} /\ declined = {}
  /\ signals = [k \in Connections |-> <<>>]
  /\ ours = [k \in Connections |-> "unknown"]
  /\ session = [k \in Connections |-> TRUE]
  /\ waiting = [k \in Connections |-> {}]
  /\ settled = [k \in Connections |-> {}]
  /\ replies = [c \in Commands |-> 0]

LaneStep(c) == Called(c) \/ CallTimesOut(c) \/ DeferReply(c)
PageStep(c) == Begin(c) \/ Finish(c) \/ Settle(c)
EventStep(k) == LookAtSessions(k) \/ ResolveAwait(k) \/ HandleGone(k)

Next ==
  \/ \E c \in Commands : LaneStep(c) \/ PageStep(c) \/ \E k \in Connections : Send(k, c)
  \/ \E k \in Connections : EventStep(k) \/ Detach(k)
  \/ BeginClose \/ EndClose \/ Crash \/ Pump

(* Threads that can go on do; a parked promise settles or outlives its     *)
(* budget. Nobody has to send, detach, close or crash.                     *)
Fairness ==
  /\ \A c \in Commands : WF_vars(LaneStep(c)) /\ WF_vars(PageStep(c))
  /\ \A k \in Connections : WF_vars(EventStep(k))
  /\ WF_vars(Pump)

Spec == Init /\ [][Next]_vars /\ Fairness

-----------------------------------------------------------------------------
(***************************************************************************)
(* Properties.                                                             *)
(***************************************************************************)

TypeOK ==
  /\ lane \in [Commands -> {"unsent", "calling", "holding", "released"}]
  /\ issuer \in [Commands -> Connections]
  /\ job \in [Commands -> {"none", "queued", "running", "answered", "deferred", "skipped"}]
  /\ page \in {"running", "closing", "gone"}
  /\ parked \subseteq Commands /\ lost \subseteq Commands /\ declined \subseteq Commands
  /\ bus \in Seq(Commands \cup {Gone}) /\ Len(bus) <= Capacity
  /\ signals \in [Connections -> Seq(Commands \cup {Gone})]
  /\ ours \in [Connections -> {"unknown", "yes", "no"}]
  /\ session \in [Connections -> BOOLEAN]
  /\ waiting \in [Connections -> SUBSET Commands]
  /\ settled \in [Connections -> SUBSET Commands]
  /\ replies \in [Commands -> Nat]

(* The answer to c has yet to reach its issuer's book.                     *)
UnderWay(c) == c \in parked \cup Range(bus) \cup Range(signals[issuer[c]])

(* A command never gets two replies, whichever of the lane, its deadline   *)
(* and the event thread comes first.                                       *)
AnsweredOnce == \A c \in Commands : replies[c] <= 1

(* A command waits in the book only while its answer is still under way,   *)
(* unless the answer was lost on the page's side or was turned away.       *)
WaitsForSomething ==
  \A k \in Connections : \A c \in waiting[k] :
    UnderWay(c) \/ c \in lost \cup declined

(* Every evaluation sent is replied to, unless the answer was lost on the  *)
(* page's side or was turned away.                                         *)
EveryEvaluationAnswered ==
  \A c \in Commands :
    lane[c] = "calling" ~> replies[c] = 1 \/ c \in lost \cup declined

(* A driver that waits gets an answer rather than silence. The code does   *)
(* not keep this: an answer the full bus refuses is gone.                  *)
NoSilence ==
  \A k \in Connections : \A c \in waiting[k] : UnderWay(c)
=============================================================================
