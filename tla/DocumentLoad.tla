---------------------------- MODULE DocumentLoad ----------------------------
(***************************************************************************)
(* How a page loads a document (page/src/lib.rs): the parser, the scripts  *)
(* it stops for, the deferred and the dynamically inserted ones, the       *)
(* sheets and images, the waits that run the event loop inside the load,   *)
(* and the two milestones.  Everything here is the page thread; the        *)
(* network answers, or does not, whenever it likes, and a driver suspends  *)
(* and resumes the page wherever the loop serves it.                       *)
(*                                                                         *)
(* An element is its place in `kind`: those of the markup first, in        *)
(* document order, then those script inserts, in insertion order.  A       *)
(* script that fails to load or throws takes its turn like one that runs,  *)
(* so failure is not told apart.  An element asks for its resource once.   *)
(***************************************************************************)
EXTENDS Naturals, Sequences, FiniteSets

CONSTANTS
  Markups,      \* bound: the documents there are, as the kinds of their elements
  MaxElements,  \* bound: elements of a document, the inserted ones included
  MaxDocuments, \* bound: documents ever loaded
  MaxSuspends   \* bound: how often the driver suspends the page

Sheets == {"sheet"}
Sync == {"inline", "blocking"}
AfterParse == {"defer", "module"}
Inserted == {"sheet", "image", "dynInline", "dynAsync", "dynOrdered"}
InsertedScripts == {"dynInline", "dynAsync", "dynOrdered"}
Parsed == {"sheet", "image", "async"} \union Sync \union AfterParse

ASSUME MarkupsAssumption == \A m \in Markups : m \in Seq(Parsed) /\ Len(m) <= MaxElements
ASSUME BoundsAssumption ==
  MaxElements \in Nat /\ MaxDocuments \in Nat /\ MaxSuspends \in Nat

VARIABLES
  doc,           \* documents loaded so far
  kind,          \* the elements of this one
  size,          \* how many of them its markup has
  parsed,        \* how many of those the parser has reached
  until,         \* what the load was asked to wait for
  at,            \* where `load_document_inner` stands
  wait,          \* the wait the event loop runs under, if it runs
  waited,        \* how the wait before this step ended
  phase,         \* where a pass of the event loop stands
  progressed,    \* the pass has done something it counts as progress
  styles,        \* sheets inserted and not yet asked for
  images,        \* images inserted and not yet asked for
  scripts,       \* scripts inserted and not yet looked at
  preparing,     \* the batch of them being prepared
  deferred,      \* scripts to run when parsing ends
  pending,       \* elements whose resource is awaited
  wire,          \* requests that may still be answered: <<document, element>>
  orders,        \* the scripts that drew a place in the insertion order
  nextToRun,     \* the place due to run next
  ready,         \* of those, the ones that have arrived
  inFlight, pendingSheets,  \* the counters the waits look at
  suspended, suspends,
  unseen,        \* history: what script inserted in this pass without its counting
  log            \* history: what has run in this document, and its milestones

parser == <<doc, kind, size, parsed, until>>
loop == <<wait, waited, phase, progressed>>
queues == <<styles, images, scripts>>
ordered == <<orders, nextToRun, ready>>
requests == <<pending, wire, inFlight, pendingSheets>>
driver == <<suspended, suspends>>
history == <<unseen, log>>
vars == <<parser, at, loop, queues, preparing, deferred, ordered, requests, driver, history>>

-----------------------------------------------------------------------------
(***************************************************************************)
(* Helpers.                                                                *)
(***************************************************************************)
DCL == 0
Load == MaxElements + 1

SheetsOf(es) == {e \in es : kind[e] \in Sheets}

\* `start_resource` for each of es, counted.
Start(es) ==
  /\ pending' = pending \union es
  /\ wire' = wire \union {<<doc, e>> : e \in es}
  /\ inFlight' = inFlight + Cardinality(es)
  /\ pendingSheets' = pendingSheets + Cardinality(SheetsOf(es))

\* A resource has come, or failed to: the counters stop at zero.
Settle(e) ==
  /\ pending' = pending \ {e}
  /\ inFlight' = IF inFlight > 0 THEN inFlight - 1 ELSE 0
  /\ pendingSheets' = IF kind[e] \in Sheets /\ pendingSheets > 0
                        THEN pendingSheets - 1 ELSE pendingSheets

\* What a script, or a listener, may do to the document: insert an element,
\* which queues it for the loop.
MayInsert ==
  \/ UNCHANGED <<kind, queues>>
  \/ /\ Len(kind) < MaxElements
     /\ \E k \in Inserted :
          LET e == Len(kind) + 1 IN
          /\ kind' = Append(kind, k)
          /\ styles' = IF k \in Sheets THEN styles \union {e} ELSE styles
          /\ images' = IF k = "image" THEN images \union {e} ELSE images
          /\ scripts' = IF k \in InsertedScripts THEN Append(scripts, e) ELSE scripts

Run(e) == log' = Append(log, e) /\ MayInsert /\ UNCHANGED unseen

\* The same in a part of a pass that does not count it as progress.
InsertUnseen == MayInsert /\ unseen' = unseen \union (DOMAIN kind' \ DOMAIN kind)

Straight == wait = "none" /\ preparing = <<>>
OrderedReady == nextToRun <= Len(orders) /\ orders[nextToRun] \in ready
Looping(p) == wait # "none" /\ phase = p /\ ~OrderedReady

\* The loop has nothing to do and parks (`wait_for_work`), or is at the start of
\* a pass: here the driver's jobs and queued navigations are served.
Stalled == Looping("net") /\ ~progressed
Served == Looping("top") \/ Stalled

\* Answers are taken at the end of a pass, and by a suspended page's park too.
Listening == Looping("net") \/ (Looping("top") /\ suspended /\ wait = "idle")

BeginWait(w) ==
  /\ wait' = w /\ phase' = "top"
  /\ waited' = "no" /\ progressed' = FALSE

GoOn == waited' = "no" /\ UNCHANGED <<wait, phase, progressed>>

-----------------------------------------------------------------------------
(***************************************************************************)
(* The parser and the scripts it stops for.                                *)
(***************************************************************************)

\* Mutant: what the old document awaits is neither forgotten nor aborted.
ResetKeepsPending(markup) ==
  /\ doc' = doc + 1
  /\ kind' = markup /\ size' = Len(markup) /\ parsed' = 0
  /\ styles' = {} /\ images' = {} /\ scripts' = <<>>
  /\ deferred' = <<>>
  /\ orders' = <<>> /\ nextToRun' = 1 /\ ready' = {}
  /\ inFlight' = 0 /\ pendingSheets' = 0
  /\ unseen' = {} /\ log' = <<>>
  /\ UNCHANGED <<pending, wire>>

\* Mutant: the place due to run next is left where the old document had it.
ResetKeepsPlace(markup) ==
  /\ doc' = doc + 1
  /\ kind' = markup /\ size' = Len(markup) /\ parsed' = 0
  /\ styles' = {} /\ images' = {} /\ scripts' = <<>>
  /\ deferred' = <<>>
  /\ orders' = <<>> /\ ready' = {}
  /\ pending' = {} /\ inFlight' = 0 /\ pendingSheets' = 0
  /\ unseen' = {} /\ log' = <<>>
  /\ UNCHANGED <<wire, nextToRun>>

\* `reset_document_state`: an aborted request's answer may be under way already.
Reset(markup) ==
  /\ doc' = doc + 1
  /\ kind' = markup /\ size' = Len(markup) /\ parsed' = 0
  /\ styles' = {} /\ images' = {} /\ scripts' = <<>>
  /\ deferred' = <<>>
  /\ orders' = <<>> /\ nextToRun' = 1 /\ ready' = {}
  /\ pending' = {} /\ inFlight' = 0 /\ pendingSheets' = 0
  /\ unseen' = {} /\ log' = <<>>
  /\ UNCHANGED wire

BeginLoad(markup, w) ==
  /\ doc < MaxDocuments
  /\ Reset(markup)
  /\ until' = w
  /\ at' = "parse"
  /\ wait' = "none" /\ waited' = "no" /\ UNCHANGED <<phase, progressed>>
  /\ UNCHANGED <<preparing, driver>>

\* `run_navigation` from an idle loop, by script or by the driver; a suspended page queues it.
Navigate(markup, w) == at = "idle" /\ Served /\ ~suspended /\ BeginLoad(markup, w)

\* The load is over, at DOMContentLoaded or after `load`, as it was asked to be.
LoadIsOver == Straight /\ waited # "no" /\ (at = "loaded" \/ (at = "dcl" /\ until = "dcl"))

\* `run_navigation_chain`: a navigation script asked for meanwhile follows at
\* once, and nobody looks whether the page was suspended.
Chain(markup) == LoadIsOver /\ BeginLoad(markup, until)

\* `Parser::run` up to the next element that matters, and `execute_parsed_script`.
ParseNext ==
  /\ Straight /\ at = "parse" /\ parsed < size
  /\ parsed' = parsed + 1
  /\ LET e == parsed + 1 IN
       /\ IF kind[e] \in Sheets \union {"async"} THEN Start({e}) ELSE UNCHANGED requests
       /\ images' = IF kind[e] = "image" THEN images \union {e} ELSE images
       /\ deferred' = IF kind[e] \in AfterParse THEN Append(deferred, e) ELSE deferred
       /\ at' = CASE kind[e] \in Sync                        -> "due"
                  [] kind[e] \in AfterParse \union {"async"} -> "after"
                  [] OTHER                                   -> "parse"
  /\ UNCHANGED <<doc, kind, size, until, loop, styles, scripts, preparing, ordered, driver, history>>

\* `await_pending_stylesheets`: before each parser script, before the deferred
\* ones and again before each that is not a module.
AwaitSheets ==
  /\ Straight /\ waited = "no"
  /\ \/ at \in {"due", "end"}
     \/ at = "deferred" /\ deferred # <<>> /\ kind[Head(deferred)] = "defer"
  /\ BeginWait("sheets")
  /\ UNCHANGED <<parser, at, queues, preparing, deferred, ordered, requests, driver, history>>

\* Mutant: the script runs without waiting for the sheets before it.
RunParserScriptAtOnce ==
  /\ Straight /\ at = "due"
  /\ Run(parsed)
  /\ at' = "after" /\ GoOn
  /\ UNCHANGED <<doc, size, parsed, until, preparing, deferred, ordered, requests, driver>>

\* `eval_classic` of the script the parser stopped for, fetched while blocking.
RunParserScript ==
  /\ Straight /\ at = "due" /\ waited # "no"
  /\ Run(parsed)
  /\ at' = "after" /\ GoOn
  /\ UNCHANGED <<doc, size, parsed, until, preparing, deferred, ordered, requests, driver>>

\* `while drain_script_updates` at the script's task boundary; the style updates
\* go with each batch, or with the parser's next signal.
AfterScript ==
  /\ Straight /\ at = "after"
  /\ Start(styles) /\ styles' = {}
  /\ preparing' = scripts /\ scripts' = <<>>
  /\ at' = IF scripts = <<>> THEN "parse" ELSE at
  /\ UNCHANGED <<parser, loop, images, deferred, ordered, driver, history>>

\* Input is exhausted: `interactive`, which listeners hear.
EndParse ==
  /\ Straight /\ at = "parse" /\ parsed = size
  /\ MayInsert
  /\ at' = "end"
  /\ UNCHANGED <<doc, size, parsed, until, loop, preparing, deferred, ordered, requests, driver, history>>

-----------------------------------------------------------------------------
(***************************************************************************)
(* After the parser: deferred scripts, DOMContentLoaded, load.             *)
(***************************************************************************)
BeginDeferred ==
  /\ Straight /\ at = "end" /\ waited # "no"
  /\ at' = "deferred" /\ GoOn
  /\ UNCHANGED <<parser, queues, preparing, deferred, ordered, requests, driver, history>>

\* One item of `run_deferred_scripts`.
RunDeferred ==
  /\ Straight /\ at = "deferred" /\ deferred # <<>>
  /\ kind[Head(deferred)] = "module" \/ waited # "no"
  /\ Run(Head(deferred))
  /\ deferred' = Tail(deferred) /\ GoOn
  /\ UNCHANGED <<doc, size, parsed, until, at, preparing, ordered, requests, driver>>

FireDCL ==
  /\ Straight /\ at = "deferred" /\ deferred = <<>>
  /\ Run(DCL)
  /\ at' = "dcl" /\ BeginWait("stall")
  /\ UNCHANGED <<doc, size, parsed, until, preparing, deferred, ordered, requests, driver>>

\* A load that was to wait for DOMContentLoaded only ends here, without `load`.
AfterDCL ==
  /\ Straight /\ at = "dcl" /\ waited # "no"
  /\ at' = IF until = "dcl" THEN "idle" ELSE "subs"
  /\ BeginWait(IF until = "dcl" THEN "idle" ELSE "subs")
  /\ UNCHANGED <<parser, queues, preparing, deferred, ordered, requests, driver, history>>

\* `await_subresources` is over: `complete`, `load`.
FireLoad ==
  /\ Straight /\ at = "subs" /\ waited # "no"
  /\ Run(Load)
  /\ at' = "loaded" /\ BeginWait("stall")
  /\ UNCHANGED <<doc, size, parsed, until, preparing, deferred, ordered, requests, driver>>

AfterLoad ==
  /\ Straight /\ at = "loaded" /\ waited # "no"
  /\ at' = "idle" /\ BeginWait("idle")
  /\ UNCHANGED <<parser, queues, preparing, deferred, ordered, requests, driver, history>>

-----------------------------------------------------------------------------
(***************************************************************************)
(* A pass of the event loop (`run_until_stalled_until`), inside a wait.    *)
(***************************************************************************)

\* `drain_style_updates`, and the batch `drain_script_updates` takes.
TopOfPass ==
  /\ Looping("top") /\ ~suspended
  /\ Start(styles) /\ styles' = {}
  /\ preparing' = scripts /\ scripts' = <<>>
  /\ progressed' = (scripts # <<>>)
  /\ phase' = "scripts"
  /\ unseen' = {}
  /\ UNCHANGED <<parser, at, wait, waited, images, deferred, ordered, driver, log>>

\* `prepare_dynamic_script`.
Prepare ==
  /\ preparing # <<>> /\ ~OrderedReady
  /\ preparing' = Tail(preparing)
  /\ LET e == Head(preparing) IN
       /\ IF kind[e] = "dynInline"
            THEN Run(e) /\ UNCHANGED requests
            ELSE Start({e}) /\ UNCHANGED <<kind, queues, history>>
       /\ orders' = IF kind[e] = "dynOrdered" THEN Append(orders, e) ELSE orders
  /\ UNCHANGED <<doc, size, parsed, until, at, loop, deferred, nextToRun, ready, driver>>

\* `drain_image_updates`: those that are `data:` images, or whose URL the page has
\* settled before, need no request ...
StartImages ==
  /\ Looping("scripts") /\ preparing = <<>>
  /\ \E now \in SUBSET images :
       /\ Start(images \ now)
       /\ phase' = IF now = {} THEN "fonts" ELSE "images"
  /\ images' = {}
  /\ UNCHANGED <<parser, at, wait, waited, progressed, styles, scripts, preparing, deferred,
                 ordered, driver, history>>

\* ... and tell their listeners at once.
TellImages ==
  /\ Looping("images")
  /\ InsertUnseen
  /\ phase' = "fonts"
  /\ UNCHANGED <<doc, size, parsed, until, at, wait, waited, progressed, preparing, deferred,
                 ordered, requests, driver, log>>

\* `settle_font_ready`: once the parser is done, callbacks of `fonts.ready` run.
SettleFonts ==
  /\ Looping("fonts")
  /\ IF doc > 0 /\ at \notin {"parse", "due", "after"}
       THEN InsertUnseen ELSE UNCHANGED <<kind, queues, unseen>>
  /\ phase' = "net"
  /\ UNCHANGED <<doc, size, parsed, until, at, wait, waited, progressed, preparing, deferred,
                 ordered, requests, driver, log>>

\* Mutant: an ordered script runs as it arrives.
ArriveAtOnce(e) ==
  IF kind[e] \in {"async", "dynAsync", "dynOrdered"}
    THEN Run(e) /\ UNCHANGED ready
    ELSE MayInsert /\ UNCHANGED <<history, ready>>

\* The handler's last part: an ordered script is put by for its turn, any other
\* runs, and a sheet or an image tells its listeners.
Arrive(e) ==
  IF kind[e] = "dynOrdered"
    THEN ready' = ready \union {e} /\ UNCHANGED <<kind, queues, history>>
    ELSE /\ IF kind[e] \in {"async", "dynAsync"} THEN Run(e) ELSE MayInsert /\ UNCHANGED history
         /\ UNCHANGED ready

\* `dispatch_net_event` of the last event of a request: nobody waits for one
\* the reset has forgotten.
Deliver(r) ==
  /\ Listening /\ r \in wire
  /\ wire' = wire \ {r}
  /\ progressed' = TRUE
  /\ IF r[1] = doc /\ r[2] \in pending
       THEN Settle(r[2]) /\ Arrive(r[2])
       ELSE UNCHANGED <<pending, inFlight, pendingSheets, ready, kind, queues, history>>
  /\ UNCHANGED <<doc, size, parsed, until, at, wait, waited, phase, preparing, deferred,
                 orders, nextToRun, driver>>

\* `drain_ordered_dynamic_scripts`, before the handler returns.
RunOrdered ==
  /\ wait # "none" /\ OrderedReady
  /\ Run(orders[nextToRun])
  /\ ready' = ready \ {orders[nextToRun]}
  /\ nextToRun' = nextToRun + 1
  /\ UNCHANGED <<doc, size, parsed, until, at, loop, preparing, deferred, orders, requests, driver>>

\* A timer, an animation frame or a message: script that inserts something. A
\* suspended page runs only what the driver put there.
RunTask ==
  /\ Looping("net") \/ (Looping("top") /\ suspended)
  /\ Len(kind) < MaxElements /\ doc > 0
  /\ MayInsert /\ kind' # kind
  /\ progressed' = TRUE
  /\ UNCHANGED <<doc, size, parsed, until, at, wait, waited, phase, preparing, deferred,
                 ordered, requests, driver, history>>

NextPass ==
  /\ Looping("net") /\ progressed
  /\ phase' = "top"
  /\ UNCHANGED <<parser, at, wait, waited, progressed, queues, preparing, deferred, ordered,
                 requests, driver, history>>

EndWait(how) ==
  /\ wait' = "none" /\ waited' = how
  /\ UNCHANGED <<parser, at, phase, progressed, queues, preparing, deferred, ordered, requests,
                 driver, history>>

\* Mutant: the wait for subresources looks at the sheets alone.
SatisfiedBySheets ==
  \/ wait \in {"sheets", "subs"} /\ pendingSheets = 0
  \/ wait = "stall"

\* What each wait is for.
Satisfied ==
  \/ wait = "sheets" /\ pendingSheets = 0
  \/ wait = "subs" /\ inFlight = 0
  \/ wait = "stall"

\* `wait_until` finds what it waited for, having nothing else to do.
WaitDone == Stalled /\ Satisfied /\ EndWait("done")

\* Mutant: the wait for subresources has no budget.
OutOfTimeForSheets ==
  Looping("net") /\ wait = "sheets" /\ EndWait("late")

\* Its budget has run out by the end of a pass, whatever the pass did.
OutOfTime == Looping("net") /\ wait # "idle" /\ EndWait("late")

\* `stop_waiting`: a suspended page waits for nothing.
StopWaiting == Looping("top") /\ suspended /\ wait # "idle" /\ EndWait("late")

-----------------------------------------------------------------------------
(***************************************************************************)
(* The driver: control jobs, served wherever the loop is served.           *)
(***************************************************************************)
Suspend ==
  /\ Served /\ ~suspended /\ suspends < MaxSuspends
  /\ suspended' = TRUE /\ suspends' = suspends + 1
  /\ phase' = "top"
  /\ UNCHANGED <<parser, at, wait, waited, progressed, queues, preparing, deferred, ordered,
                 requests, history>>

Resume ==
  /\ Looping("top") /\ suspended
  /\ suspended' = FALSE
  /\ UNCHANGED <<parser, at, loop, queues, preparing, deferred, ordered, requests, suspends, history>>

-----------------------------------------------------------------------------
Init ==
  /\ doc = 0 /\ kind = <<>> /\ size = 0 /\ parsed = 0 /\ until = "load"
  /\ at = "idle"
  /\ wait = "idle" /\ waited = "no" /\ phase = "top" /\ progressed = FALSE
  /\ styles = {} /\ images = {} /\ scripts = <<>> /\ preparing = <<>> /\ deferred = <<>>
  /\ orders = <<>> /\ nextToRun = 1 /\ ready = {}
  /\ pending = {} /\ wire = {} /\ inFlight = 0 /\ pendingSheets = 0
  /\ suspended = FALSE /\ suspends = 0
  /\ unseen = {} /\ log = <<>>

LoadNext ==
  \/ ParseNext \/ AwaitSheets \/ RunParserScript \/ AfterScript \/ EndParse
  \/ BeginDeferred \/ RunDeferred \/ FireDCL \/ AfterDCL \/ FireLoad \/ AfterLoad

LoopNext ==
  \/ TopOfPass \/ Prepare \/ StartImages \/ TellImages \/ SettleFonts \/ RunOrdered
  \/ NextPass \/ WaitDone \/ OutOfTime \/ StopWaiting

Next ==
  \/ LoadNext
  \/ LoopNext
  \/ \E m \in Markups : Chain(m) \/ \E w \in {"load", "dcl"} : Navigate(m, w)
  \/ \E r \in wire : Deliver(r)
  \/ RunTask
  \/ Suspend \/ Resume

Spec == Init /\ [][Next]_vars

(***************************************************************************)
(* The thread runs and its budgets pass.  Nothing is assumed of the        *)
(* network or of the driver.                                               *)
(***************************************************************************)
FairSpec == Spec /\ WF_vars(LoadNext) /\ WF_vars(LoopNext)

-----------------------------------------------------------------------------
(***************************************************************************)
(* Properties.                                                             *)
(***************************************************************************)
Elements == DOMAIN kind
ScriptsThatRan == {log[i] : i \in DOMAIN log}

TypeOK ==
  /\ doc \in 0 .. MaxDocuments
  /\ kind \in Seq(Parsed \union Inserted) /\ Len(kind) <= MaxElements
  /\ size \in 0 .. Len(kind) /\ parsed \in 0 .. size
  /\ until \in {"load", "dcl"}
  /\ at \in {"idle", "parse", "due", "after", "end", "deferred", "dcl", "subs", "loaded"}
  /\ wait \in {"none", "sheets", "stall", "subs", "idle"}
  /\ waited \in {"no", "done", "late"}
  /\ phase \in {"top", "scripts", "images", "fonts", "net"} /\ progressed \in BOOLEAN
  /\ styles \subseteq Elements /\ images \subseteq Elements
  /\ scripts \in Seq(Elements) /\ preparing \in Seq(Elements) /\ deferred \in Seq(Elements)
  /\ orders \in Seq(Elements) /\ nextToRun \in 1 .. Len(orders) + 1 /\ ready \subseteq Elements
  /\ pending \subseteq Elements
  /\ wire \subseteq (1 .. MaxDocuments) \X (1 .. MaxElements)
  /\ inFlight \in Nat /\ pendingSheets \in Nat
  /\ suspended \in BOOLEAN /\ suspends \in 0 .. MaxSuspends
  /\ unseen \subseteq Elements /\ log \in Seq(0 .. MaxElements + 1)

\* The counters the waits look at are exact, across aborts and documents, and
\* what they count is this document's and still on its way.
CountersExact ==
  /\ inFlight = Cardinality(pending)
  /\ pendingSheets = Cardinality(SheetsOf(pending))
  /\ \A e \in pending : <<doc, e>> \in wire

Is(i, kinds) == log[i] \in Elements /\ kind[log[i]] \in kinds

\* Each script runs once; those the parser stops for run in document order,
\* then those set aside, in document order and before DOMContentLoaded, and the
\* ordered ones script inserts run in insertion order, however they arrive.
ScriptsInOrder ==
  \A i, j \in DOMAIN log : i < j =>
    /\ log[i] # log[j]
    /\ \A kinds \in {Sync, AfterParse, {"dynOrdered"}} :
         Is(i, kinds) /\ Is(j, kinds) => log[i] < log[j]
    /\ ~(Is(i, AfterParse) /\ Is(j, Sync))
    /\ log[i] \in {DCL, Load} => ~Is(j, Sync \union AfterParse)
    /\ log[i] # Load \/ log[j] # DCL

\* Nothing is queued but what the last pass of the loop did not notice.
QueuedIsUnseen == styles \union images \union {scripts[i] : i \in DOMAIN scripts} \subseteq unseen

\* A script the parser, or the end of parsing, runs sees every sheet there is,
\* unless the wait was cut short: none is in flight, and none is waiting to be
\* asked for but what the listeners of an image settled at once, or a callback of
\* `fonts.ready`, inserted in the pass that ended the wait.
ScriptsSeeTheirSheets ==
  [][\A e \in Elements :
       /\ log' = Append(log, e) /\ kind[e] \in Sync \union {"defer"}
       /\ waited # "late"
       => SheetsOf(pending) = {} /\ styles \subseteq unseen]_vars

\* `load` is fired with nothing of the document outstanding, unless the wait was
\* cut short: nothing in flight, nothing queued and every script run, but for
\* what was inserted in those two places in the pass that ended the wait.
LoadWaitsForAll ==
  [][log' = Append(log, Load) /\ waited # "late" =>
       /\ pending = {} /\ ready = {} /\ QueuedIsUnseen
       /\ \A e \in Elements \ unseen :
            kind[e] \in {"sheet", "image"} \/ e \in ScriptsThatRan]_vars

\* A load ends, whatever the network and the driver do.
LoadingEnds == at # "idle" ~> at = "idle"

\* What the thread can do next inside a load: the guards of `LoadNext` ...
CanLoad ==
  /\ Straight
  /\ \/ at \in {"parse", "due", "after", "end"}
     \/ at = "deferred" /\ (deferred = <<>> \/ waited # "no" \/ kind[Head(deferred)] \in AfterParse)
     \/ at \in {"dcl", "subs", "loaded"} /\ waited # "no"

\* ... and of `LoopNext`, without those that depend on what arrives.
CanLoop ==
  \/ preparing # <<>> /\ ~OrderedReady
  \/ wait # "none" /\ OrderedReady
  \/ Looping("top") /\ (suspended => wait # "idle")
  \/ Looping("scripts") /\ preparing = <<>>
  \/ Looping("images") \/ Looping("fonts")
  \/ Looping("net") /\ (progressed \/ wait # "idle")

\* Theorem only: a load never waits for the network or the driver alone.  No step
\* of a load returns to straight code with a script still due in the loop, nor
\* comes to a wait it has not begun.
LoadIsNeverStuck == at # "idle" => CanLoad \/ CanLoop

(***************************************************************************)
(* What comments say, and the code does not do.                            *)
(***************************************************************************)

\* "no subresource load begins" while the page is suspended.
NothingBeginsSuspended == [][suspended => pending' \subseteq pending]_vars

\* Deferred scripts "must still see all stylesheets", and at `load` "the document
\* and its subresources are complete": what the pass that ended the wait did not
\* notice is in no queue either.
NothingGoesUnseen == [][log' # log /\ waited = "done" => unseen = {}]_vars
=============================================================================
