----------------------------- MODULE Navigation -----------------------------
(***************************************************************************)
(* Which loader a driver is told a document has: `Page.navigate`           *)
(* (`cdp/src/domains/page.rs`), the frame's loader bookkeeping             *)
(* (`frame.rs`), the pump that folds a page's milestones into it and the   *)
(* barrier between the two (`target.rs`), and the labels a connection puts *)
(* on the events it passes on (`pump.rs`).                                 *)
(*                                                                         *)
(* Four threads take part with no order between them: the page thread,     *)
(* which navigates and emits milestones on a bounded bus; the pump, the    *)
(* bus's one reader; the connection's event thread, any number of signals  *)
(* behind the pump; and the session lanes that run `Page.navigate`.        *)
(*                                                                         *)
(* Loaders are numbered in the order they are minted.                      *)
(***************************************************************************)
EXTENDS Naturals, Sequences

CONSTANTS
  Lanes,     \* session lanes that navigate this page
  MaxNavs,   \* bound: navigations ever begun
  Capacity   \* the page's event bus

ASSUME NavigationAssumption == MaxNavs \in Nat /\ Capacity \in Nat \ {0}

Nobody == "nobody"
ASSUME LanesAssumption == Nobody \notin Lanes

Navs == 1..MaxNavs
NoNav == 0
Docs == 0..MaxNavs   \* a document is named by the navigation that committed it
NoLoader == 0

VARIABLES
  navs,         \* navigations begun
  page,         \* the page thread: where it is in which navigation, and for whom
  doc,          \* the document the page shows
  ends,         \* history: milestones that end a navigation
  suspended,    \* the page's flag
  bus,          \* the page's events on their way to the pump
  lost,         \* whether a milestone found the bus full
  alive,        \* whether the registry has the target
  frame,        \* the committed loader and the load in flight
  minted,       \* loaders minted so far
  ended,        \* the registry's `navigations_ended`
  pump,         \* the pump: what is left to do with the event in its hand
  signals,      \* the connection's queue of published events
  lane,         \* lane -> its `Page.navigate`
  startLoader,  \* history: navigation -> the loader of the load it began
  docLoader,    \* history: document -> the loader its commit got
  failed        \* history: navigations whose failure the pump has folded

pageVars == <<navs, page, doc, ends, suspended, lost>>
registryVars == <<alive, frame, minted, ended, startLoader, docLoader, failed>>
vars == <<pageVars, bus, registryVars, pump, signals, lane>>

-----------------------------------------------------------------------------
(***************************************************************************)
(* The frame (`frame.rs`). A load in flight is a pending loader that no    *)
(* commit has adopted; `fresh` is the loader to mint.                      *)
(***************************************************************************)

NoLoad == [loader |-> NoLoader, request |-> NoNav, adopted |-> TRUE]
InFlight(f) == ~f.pending.adopted

BeginNavigation(f, fresh) ==
  [f EXCEPT !.pending = [loader |-> fresh, request |-> NoNav, adopted |-> FALSE]]

BeginDocumentLoad(f, nav, fresh) ==
  IF InFlight(f)
  THEN [f EXCEPT !.pending.request = nav]
  ELSE [f EXCEPT !.pending = [loader |-> fresh, request |-> nav, adopted |-> FALSE]]

CommitLoader(f, fresh) ==
  IF InFlight(f)
  THEN [f EXCEPT !.loader = f.pending.loader, !.pending.adopted = TRUE]
  ELSE [f EXCEPT !.loader = fresh]

\* Mutant: a failure leaves its loader pending.
AbandonNothing(f) == f

AbandonNavigation(f) == IF InFlight(f) THEN [f EXCEPT !.pending = NoLoad] ELSE f

(* What lifecycle events carry, and what the document request is called. *)
LoadingLoader(f) == IF InFlight(f) THEN f.pending.loader ELSE f.loader
DocumentLoader(f, nav) == IF f.pending.request = nav THEN f.pending.loader ELSE NoLoader

-----------------------------------------------------------------------------
(***************************************************************************)
(* The page thread.                                                        *)
(***************************************************************************)

Idle == [at |-> "idle", kind |-> "none", nav |-> NoNav, by |-> Nobody,
         first |-> FALSE, outcome |-> "none"]
Milestone(kind, nav, of) == [kind |-> kind, nav |-> nav, doc |-> of]
Endings == {"committed", "same", "failed"}

(* The event sink: a milestone that does not fit is dropped. *)
Emit(e) ==
  /\ bus' = IF Len(bus) < Capacity THEN Append(bus, e) ELSE bus
  /\ lost' = (lost \/ Len(bus) >= Capacity)
  /\ ends' = IF e.kind \in Endings THEN ends + 1 ELSE ends

(* The lane that asked hears of the first link of the chain only. *)
Settled(n, of) ==
  lane' = IF page.by = Nobody \/ ~page.first THEN lane
          ELSE [lane EXCEPT ![page.by].nav = n, ![page.by].doc = of]

PageOnly == UNCHANGED <<registryVars, pump, signals>>

(* One link of run_navigation_chain. A fragment stays in the document and  *)
(* is over at once; anything else starts a load.                           *)
Link(kind, by, first) ==
  /\ navs < MaxNavs
  /\ navs' = navs + 1
  /\ page' = [at |-> IF kind = "fragment" THEN "moved" ELSE "started", kind |-> kind,
              nav |-> navs + 1, by |-> by, first |-> first,
              outcome |-> IF first THEN "none" ELSE page.outcome]
  /\ IF kind = "fragment"
     THEN UNCHANGED <<bus, lost, ends>>
     ELSE Emit(Milestone("started", navs + 1, doc))
  /\ UNCHANGED <<doc, suspended>>
  /\ PageOnly

(* Page.navigate's job on the page thread. *)
NavigateFor(l) ==
  /\ page.at = "idle" /\ ~suspended
  /\ lane[l].at = "called"
  /\ \E kind \in {"document", "fragment"} : Link(kind, l, TRUE)
  /\ lane' = [lane EXCEPT ![l].at = "running", ![l].before = ends]

(* A navigation script queued, or `load_html`. *)
NavigateItself ==
  /\ page.at = "idle" /\ ~suspended
  /\ \E kind \in {"document", "fragment", "replacement"} : Link(kind, Nobody, TRUE)
  /\ UNCHANGED lane

(* What script queued meanwhile is done in the same chain. A failed fetch  *)
(* ends the call's chain and a download does not.                          *)
Chain ==
  /\ page.at = "ended"
  /\ \E kind \in {"document", "fragment", "replacement"} : Link(kind, page.by, FALSE)
  /\ UNCHANGED lane

(* commit_same_document. *)
MoveWithin ==
  /\ page.at = "moved"
  /\ Emit(Milestone("same", page.nav, doc))
  /\ page' = [page EXCEPT !.at = "ended", !.outcome = IF page.first THEN "committed" ELSE @]
  /\ Settled(page.nav, doc)
  /\ UNCHANGED <<navs, doc, suspended>>
  /\ PageOnly

(* fetch_blocking announces the request.  The sink waits for room for       *)
(* TERMINAL_EVENT_GRACE, which is this step being late, and drops it then. *)
RequestDocument ==
  /\ page.at = "started" /\ page.kind = "document"
  /\ Emit(Milestone("requested", page.nav, doc))
  /\ page' = [page EXCEPT !.at = "requested"]
  /\ UNCHANGED <<navs, doc, suspended, lane>>
  /\ PageOnly

Commit ==
  /\ \/ page.at = "requested"
     \/ page.at = "started" /\ page.kind = "replacement"
  /\ doc' = page.nav
  /\ Emit(Milestone("committed", page.nav, page.nav))
  /\ page' = [page EXCEPT !.at = "loading", !.outcome = IF page.first THEN "committed" ELSE @]
  /\ Settled(page.nav, page.nav)
  /\ UNCHANGED <<navs, suspended>>
  /\ PageOnly

(* The fetch fails, with or without a request, or it was a download. *)
Fail ==
  /\ page.at \in {"started", "requested"} /\ page.kind = "document"
  /\ Emit(Milestone("failed", page.nav, doc))
  /\ page' = [page EXCEPT !.at = "ended",
                          !.outcome = IF page.first /\ page.by # Nobody THEN "failed" ELSE @]
  /\ Settled(page.nav, doc)
  /\ UNCHANGED <<navs, doc, suspended>>
  /\ PageOnly

(* load_document has parsed the document and fires `load`. *)
FireLoad ==
  /\ page.at = "loading"
  /\ Emit(Milestone("load", page.nav, doc))
  /\ page' = [page EXCEPT !.at = "ended"]
  /\ UNCHANGED <<navs, doc, suspended, lane>>
  /\ PageOnly

\* Mutant: the count is taken when the navigation is over.
FinishAndCount ==
  /\ page.at = "ended"
  /\ page' = Idle
  /\ lane' = IF page.by = Nobody THEN lane
             ELSE [lane EXCEPT ![page.by].at = IF page.outcome = "committed" THEN "wait" ELSE "read",
                               ![page.by].seen = ended]
  /\ UNCHANGED <<navs, doc, ends, suspended, lost, bus>>
  /\ PageOnly

(* The chain is done and the call answers. *)
FinishChain ==
  /\ page.at = "ended"
  /\ page' = Idle
  /\ lane' = IF page.by = Nobody THEN lane
             ELSE [lane EXCEPT ![page.by].at = IF page.outcome = "committed" THEN "wait" ELSE "read"]
  /\ UNCHANGED <<navs, doc, ends, suspended, lost, bus>>
  /\ PageOnly

(* A suspended page queues the navigation and says Ok: the page does it by *)
(* itself once it is resumed.                                              *)
QueueFor(l) ==
  /\ page.at = "idle" /\ suspended
  /\ lane[l].at = "called"
  /\ lane' = [lane EXCEPT ![l].at = "wait"]
  /\ UNCHANGED <<pageVars, bus>>
  /\ PageOnly

Resume ==
  /\ suspended
  /\ suspended' = FALSE
  /\ UNCHANGED <<navs, page, doc, ends, lost, bus, lane>>
  /\ PageOnly

-----------------------------------------------------------------------------
(***************************************************************************)
(* The pump (`spawn_pump`): folds an event into the registry, one critical *)
(* section after the other, and publishes it. A target that is gone is not *)
(* in the map and nothing is folded.                                       *)
(***************************************************************************)

PumpOnly == UNCHANGED <<pageVars, lane>>

AfterFold(e) == IF e.kind \in Endings THEN "note" ELSE "publish"

(* Whoever sleeps on the condition variable looks at the count again. *)
Notified == [l \in Lanes |-> IF lane[l].at = "asleep" THEN [lane[l] EXCEPT !.at = "wait"]
                                                    ELSE lane[l]]

(* With nothing in its hand. *)
Listening == [at |-> "recv", event |-> Milestone("load", NoNav, 0)]

(* What each milestone does to the frame. *)
Fold(e) ==
  LET fresh == minted + 1 IN
  CASE e.kind = "started"   -> BeginNavigation(frame, fresh)
    [] e.kind = "requested" -> BeginDocumentLoad(frame, e.nav, fresh)
    [] e.kind = "committed" -> CommitLoader(frame, fresh)
    [] e.kind = "failed"    -> AbandonNavigation(frame)
    [] OTHER                -> frame

\* Mutant: an event is published before it is folded in.
ReceiveAndPublish ==
  /\ pump.at = "recv"
  /\ bus # <<>>
  /\ bus' = Tail(bus)
  /\ pump' = [at |-> "fold", event |-> Head(bus)]
  /\ signals' = Append(signals, Head(bus))
  /\ UNCHANGED registryVars
  /\ PumpOnly

Receive ==
  /\ pump.at = "recv"
  /\ bus # <<>>
  /\ bus' = Tail(bus)
  /\ pump' = [at |-> "fold", event |-> Head(bus)]
  /\ UNCHANGED <<registryVars, signals>>
  /\ PumpOnly

(* A loader is minted exactly when the frame comes to name a new one. *)
FoldEvent ==
  LET e == pump.event IN
  /\ pump.at = "fold"
  /\ alive
  /\ frame' = Fold(e)
  /\ minted' = IF minted + 1 \in {frame'.loader, frame'.pending.loader}
               THEN minted + 1 ELSE minted
  /\ startLoader' = IF e.kind \in {"started", "requested"}
                    THEN [startLoader EXCEPT ![e.nav] = frame'.pending.loader] ELSE startLoader
  /\ docLoader' = IF e.kind = "committed"
                  THEN [docLoader EXCEPT ![e.nav] = frame'.loader] ELSE docLoader
  /\ failed' = IF e.kind = "failed" THEN failed \cup {e.nav} ELSE failed
  /\ pump' = [pump EXCEPT !.at = AfterFold(e)]
  /\ UNCHANGED <<alive, ended, bus, signals>>
  /\ PumpOnly

(* Nothing to fold it into. *)
FoldNothing ==
  /\ pump.at = "fold"
  /\ ~alive
  /\ pump' = [pump EXCEPT !.at = AfterFold(pump.event)]
  /\ UNCHANGED <<bus, registryVars, signals>>
  /\ PumpOnly

\* Mutant: the end counts where it is folded and where it is noted.
NoteTwice ==
  /\ pump.at = "note"
  /\ ended' = IF alive THEN ended + 2 ELSE ended
  /\ lane' = Notified
  /\ pump' = [pump EXCEPT !.at = "publish"]
  /\ UNCHANGED <<pageVars, alive, frame, minted, startLoader, docLoader, failed, bus, signals>>

(* The condition variable is every target's and its waiters are all woken, *)
(* of a target that is gone too.                                           *)
NoteNavigationEnded ==
  /\ pump.at = "note"
  /\ ended' = IF alive THEN ended + 1 ELSE ended
  /\ lane' = Notified
  /\ pump' = [pump EXCEPT !.at = "publish"]
  /\ UNCHANGED <<pageVars, alive, frame, minted, startLoader, docLoader, failed, bus, signals>>

Publish ==
  /\ pump.at = "publish"
  /\ signals' = Append(signals, pump.event)
  /\ pump' = Listening
  /\ UNCHANGED <<bus, registryVars>>
  /\ PumpOnly

(* The page closed, or a driver closed the target: `destroy` removes the   *)
(* entry with all it says, and notifies nobody.                            *)
Destroy ==
  /\ alive
  /\ alive' = FALSE
  /\ frame' = [loader |-> 1, pending |-> NoLoad]
  /\ ended' = 0
  /\ startLoader' = [n \in Navs |-> NoLoader]
  /\ docLoader' = [d \in Docs |-> NoLoader]
  /\ failed' = {}
  /\ UNCHANGED <<minted, bus, pump, signals>>
  /\ PumpOnly

-----------------------------------------------------------------------------
(***************************************************************************)
(* The connection's event thread (`dispatch_page_event`): the label is     *)
(* read from the registry when the signal is handled.                      *)
(***************************************************************************)

Label(e) ==
  IF e.kind = "requested" THEN DocumentLoader(frame, e.nav) ELSE LoadingLoader(frame)

Dispatch ==
  /\ signals # <<>>
  /\ signals' = Tail(signals)
  /\ UNCHANGED <<pageVars, bus, registryVars, pump, lane>>

-----------------------------------------------------------------------------
(***************************************************************************)
(* The session lanes (`navigate`, `await_navigation_end`).                 *)
(***************************************************************************)

LaneOnly == UNCHANGED <<pageVars, bus, registryVars, pump, signals>>

NoCall == [at |-> "idle", seen |-> 0, nav |-> NoNav, before |-> 0, doc |-> 0, timely |-> TRUE]

(* The count is taken before the navigation is started. *)
CountEnds(l) ==
  /\ lane[l].at = "idle"
  /\ lane' = [lane EXCEPT ![l] = [NoCall EXCEPT !.at = "called",
                                                !.seen = IF alive THEN ended ELSE 0]]
  /\ LaneOnly

(* The page went away under the call: an error, and no loader. *)
CallFails(l) ==
  /\ lane[l].at = "called" /\ ~alive
  /\ lane' = [lane EXCEPT ![l] = NoCall]
  /\ LaneOnly

\* Mutant: the barrier returns at the first wake-up, whoever it was for.
EndWaitAtOnce(l) ==
  /\ lane[l].at = "wait"
  /\ lane' = [lane EXCEPT ![l].at = "read"]
  /\ LaneOnly

(* await_navigation_end looks at the count and returns ... *)
EndWait(l) ==
  /\ lane[l].at = "wait"
  /\ ~alive \/ ended > lane[l].seen
  /\ lane' = [lane EXCEPT ![l].at = "read"]
  /\ LaneOnly

(* ... or sleeps until it is notified, for this target or another, ... *)
Sleep(l) ==
  /\ lane[l].at = "wait"
  /\ alive /\ ended <= lane[l].seen
  /\ lane' = [lane EXCEPT ![l].at = "asleep"]
  /\ LaneOnly

OtherTargetNotifies(l) ==
  /\ lane[l].at = "asleep"
  /\ lane' = Notified
  /\ LaneOnly

(* ... or until LOADER_SETTLE_TIMEOUT. *)
WaitTimesOut(l) ==
  /\ lane[l].at = "asleep"
  /\ lane' = [lane EXCEPT ![l].at = "read", ![l].timely = FALSE]
  /\ LaneOnly

(* The loader is read and the command answered. *)
Answer(l) ==
  /\ lane[l].at = "read"
  /\ lane' = [lane EXCEPT ![l] = NoCall]
  /\ LaneOnly

-----------------------------------------------------------------------------

Init ==
  /\ navs = 0 /\ page = Idle /\ doc = 0 /\ ends = 0
  /\ suspended \in BOOLEAN
  /\ bus = <<>> /\ lost = FALSE
  /\ alive = TRUE
  /\ frame = [loader |-> 1, pending |-> NoLoad]
  /\ minted = 1 /\ ended = 0
  /\ pump = Listening
  /\ signals = <<>>
  /\ lane = [l \in Lanes |-> NoCall]
  /\ startLoader = [n \in Navs |-> NoLoader]
  /\ docLoader = [d \in Docs |-> IF d = 0 THEN 1 ELSE NoLoader]
  /\ failed = {}

PageStep == MoveWithin \/ RequestDocument \/ Commit \/ FireLoad \/ FinishChain
PumpStep == Receive \/ FoldEvent \/ FoldNothing \/ NoteNavigationEnded \/ Publish

Next ==
  \/ PageStep \/ NavigateItself \/ Chain \/ Fail \/ Resume
  \/ PumpStep \/ Destroy \/ Dispatch
  \/ \E l \in Lanes :
       \/ NavigateFor(l) \/ QueueFor(l)
       \/ CountEnds(l) \/ CallFails(l) \/ EndWait(l) \/ Sleep(l)
       \/ OtherTargetNotifies(l) \/ WaitTimesOut(l) \/ Answer(l)

Spec == Init /\ [][Next]_vars

(* The page finishes what it begins, the pump reads on, and a lane that    *)
(* has been notified runs on. No deadline is relied on.                    *)
Fairness ==
  /\ WF_vars(PageStep) /\ WF_vars(PumpStep)
  /\ \A l \in Lanes : WF_vars(EndWait(l))

FairSpec == Spec /\ Fairness

-----------------------------------------------------------------------------
(***************************************************************************)
(* Properties.                                                             *)
(***************************************************************************)

Events == [kind : {"started", "requested", "committed", "same", "failed", "load"},
           nav : Docs, doc : Docs]

(* Every variable keeps its type, and the registry never counts an end the *)
(* page has not reached.                                                   *)
TypeOK ==
  /\ navs \in Docs /\ doc \in Docs /\ ends \in Nat
  /\ page \in [at : {"idle", "moved", "started", "requested", "loading", "ended"},
               kind : {"none", "document", "fragment", "replacement"}, nav : Docs,
               by : Lanes \cup {Nobody}, first : BOOLEAN,
               outcome : {"none", "committed", "failed"}]
  /\ {suspended, lost, alive} \subseteq BOOLEAN
  /\ bus \in Seq(Events) /\ Len(bus) <= Capacity
  /\ signals \in Seq(Events)
  /\ pump \in [at : {"recv", "fold", "note", "publish"}, event : Events]
  /\ minted \in Nat /\ ended \in Nat /\ ended <= ends
  /\ frame.loader \in 1..minted
  /\ frame.pending \in [loader : 0..minted, request : Docs, adopted : BOOLEAN]
  /\ lane \in [Lanes -> [at : {"idle", "called", "running", "wait", "asleep", "read"}, seen : Nat,
                         nav : Docs, before : Nat, doc : Docs, timely : BOOLEAN]]
  /\ startLoader \in [Navs -> 0..minted] /\ docLoader \in [Docs -> 0..minted]
  /\ failed \subseteq Navs

(* A loader is one document's: it is re-minted on every commit and never   *)
(* reused, whatever the bus has dropped.                                   *)
OneLoaderPerDocument ==
  \A d, e \in Docs : d # e /\ docLoader[d] # NoLoader => docLoader[d] # docLoader[e]

(* Everything the page has done is folded in. *)
CaughtUp == alive /\ ~lost /\ page.at = "idle" /\ bus = <<>> /\ pump.at \in {"recv", "publish"}

(* At rest the loader lifecycle events would carry is that of the document *)
(* the page shows: a failed navigation leaves no phantom behind.           *)
NoPhantomLoader ==
  CaughtUp => LoadingLoader(frame) = frame.loader /\ frame.loader = docLoader[doc]

(* Loaders tell documents apart, and the registry agrees with the page. *)
LoadersNameDocuments == OneLoaderPerDocument /\ NoPhantomLoader

(* Nothing else ended between the count this lane took and its navigation. *)
Alone(l) == lane[l].before = lane[l].seen

(* Page.navigate never answers with the loader of the document it          *)
(* replaced: when no other navigation of the page was about, it is that of *)
(* its own document, or of one that has come since.                        *)
NavigateAnswersItsDocument ==
  [][\A l \in Lanes :
       /\ lane[l].at = "read" /\ lane'[l].at = "idle"
       /\ alive /\ ~lost
       /\ lane[l].nav # NoNav /\ lane[l].timely /\ Alone(l)
       => \E d \in Docs : d >= lane[l].doc /\ frame.loader = docLoader[d]]_vars

(* A load that began with this navigation has failed since. *)
FailedSince(n) == \E m \in failed : m >= n

(* An event is never labelled with a load older than its own. An init or a *)
(* document request may lose its label only to a failure or, the request,  *)
(* to a later load.                                                        *)
LabelHolds(e) ==
  CASE e.kind = "started"   -> Label(e) >= startLoader[e.nav] \/ FailedSince(e.nav)
    [] e.kind = "requested" -> \/ Label(e) = startLoader[e.nav]
                               \/ FailedSince(e.nav)
                               \/ minted > startLoader[e.nav] \/ frame.pending.request > e.nav
    [] OTHER                -> Label(e) >= docLoader[e.doc]

LabelsKeepUp == [][alive /\ signals # <<>> /\ signals' = Tail(signals)
                     => LabelHolds(Head(signals))]_vars

(* No wake-up is missed: a navigate whose milestones reached the pump does *)
(* not need its timeout to answer.                                         *)
WaitEnds ==
  \A l \in Lanes :
    lane[l].at = "wait" /\ lane[l].nav # NoNav ~> lane[l].at = "read" \/ lost

(* An init never carries the outgoing loader: a driver takes a navigation  *)
(* for over only when the loader has moved. The code does not keep this.   *)
InitNamesNewLoader ==
  [][alive /\ signals # <<>> /\ signals' = Tail(signals) /\ Head(signals).kind = "started"
       => Label(Head(signals)) # docLoader[Head(signals).doc]]_vars
=============================================================================
