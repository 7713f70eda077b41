# OxidePage in TLA+

OxidePage is a headless browser engine in Rust. A driver (Puppeteer, Playwright)
speaks the Chrome DevTools Protocol to `crates/cdp`, which runs each command on
the lane of its session; `crates/engine` owns browsers, contexts and one thread
per page; `crates/page` is that thread's event loop; `crates/net` does the page's
requests on a tokio pool and lets a driver pause, answer or fail each of them.
Parsing, style, layout, script, paint and export run inside one page thread.

This directory models the part of that program whose correctness depends on the
order in which things happen: on threads that meet in a lock, a channel or a
bounded bus, and, inside the page's one thread, on the event loop that is run
again from within a load, a job or a script.

Each component has a module, its properties at the module's end, an `MC` module
with the constants of its TLC runs, and where theorems are proved a `Proofs`
module checked by TLAPS:

    tlc -config control_shared.cfg MCInterceptControl     # model-check a run
    tlapm InterceptControlProofs.tla                      # check the proofs

`PROJECT.json` lists the runs, the source lines each definition stands for, the
hazards the properties are aimed at, and for each property a mutant: a version
of one definition with a plausible bug, under which the property fails.
Operators whose comment starts with "Mutant:" are those versions and belong to
no specification.

## Inventory

Paths are below `src/crates/`.

| Component | State | Operations | Hard behaviour | What makes it correct | Modelled in |
|---|---|---|---|---|---|
| Interception configuration, `net/src/intercept.rs` | one mutex: switch, patterns, `handle_auth`, conditions, `paused`, `wanted_by`, `config_seq` | `enable`, `disable`, `release_sessions`, `claim`, `resolve`, `set_conditions`, glob matching | commands of one driver run out of order; several drivers share a page-wide switch; teardown races commands | a claim is never starved, a held request can be answered, the driver's order wins | `InterceptConfig`, `InterceptControl`, `PausePoint` |
| Request service, `net/src/service.rs` | open records, `paused`, `deferred`, permits, `cancels`, the decision channel | start, park, resume, abort, expire, dispatch, `fetch_blocking` | the page thread parks inside a blocking fetch while decisions for others arrive; abort races tasks, events and decisions; deadlines race answers | one terminal event per request, in order, and in the end one; a request is in one place | `NetService`, `RequestLifecycle`, `PausePoint` |
| Lanes and sessions, `cdp/src/session.rs` | `sessions`, `lanes`, `closed`, `auto_attach`, `announced`, `auto_attached`, the await book | `submit`, `attach`, `detach`, `auto_attach`, `defer_reply`, `resolve_await`, teardown | lanes run concurrently; signals race commands; promises settle before the lane knows it deferred | announced once and before the attach, attached once, each command answered once | `InterceptControl`, `TargetAttach`, `DeferredReplies` |
| Fetch and Network domains, `cdp/src/domains/` | the session's flags | enable, disable, continue, fulfil, fail, emulate | the enable blocks on the page between its checks and its claim | see the first row | `InterceptControl`, `NetService` |
| Target registry, `cdp/src/target.rs` | targets, subscribers, `navigations_ended` | `create_page`, `destroy`, the pump, `await_navigation_end` | the pump and a navigating lane race; signals lag | no signal and no wake-up is missed | `TargetAttach`, `Navigation` |
| Frames and loaders, `cdp/src/frame.rs` | the committed loader, the load in flight | begin, adopt, commit, abandon | milestones are dropped when the page's bus is full | a loader names one document | `Navigation` |
| Event fan-out, `cdp/src/pump.rs` | none of its own | turns page events into protocol events per session | labels are read when an event is handled | an event is not labelled with an older load | `Navigation`, `DeferredReplies` |
| Page and Runtime domains, `cdp/src/domains/{page,runtime}.rs` | none of their own | `Page.navigate`, evaluations that await promises | the answer depends on what the pump has folded in by then | the answer names the document, and comes once | `Navigation`, `DeferredReplies` |
| Page handle and dialogs, `engine/src/{page,dialog}.rs` | job channel, `closed`, `suspended`, `dialog_open`, join handle, crash message | call with a deadline, post, suspend, resume, dialogs, close | a deadline passes as the job runs; a close meets a job in a dialog; a crash is published in steps | an abandoned job never lands, `close` means closed | `PageThread` |
| Browser and contexts, `engine/src/{browser,context}.rs` | lists, flags, download path | new page, new context, popups, close, download behaviour | a flag and the list it guards are read and written at different moments | nothing outlives the close | `BrowserContexts` |
| Page loop, `page/src` | documents, `pending_jobs`, pending scripts, sheets and images, awaited promises | command loop, nested waits, loading, suspension | the loop is re-entered from jobs, loads and dialogs; a navigation aborts what is in flight | jobs in order, scripts in order, `load` after everything, loads end | `PageThread`, `DocumentLoad`, `DeferredReplies` |
| Transport, `cdp/src/{http,transport,message,...}.rs` | socket, writer queue | upgrade, read loop, teardown | the order of teardown | release before the session is dropped | `InterceptControl` (teardown only) |
| Forwarding domains, `cdp/src/domains/{dom,emulation,input,io,log,performance}.rs` | per-session flags | parse, call the page, format | none of their own | formats | no |
| Fetching, `net/src/{fetch,client,cache,cookies,...}.rs` | cookie jar, HTTP cache | redirects and CORS, cookies, caching, IP filtering | rules of the standards | input/output behaviour | no |
| DOM, bindings, script, style, layout, paint, raster, PDF, CLI, IDL | single-threaded trees and pure functions | parse, select, cascade, lay out, draw | size, not order | input/output behaviour | no |

How they interact: a socket's read loop stamps each command and queues it on a
lane (`InterceptControl`). A lane calls the page through its handle, which is a
job on the page's channel and a wait with a deadline (`PageThread`); while the
page is inside a load the job waits for one of the load's own waits
(`DocumentLoad`). What the page has to say goes the other way, on a bounded bus
to one pump thread per target, which folds it into the registry and publishes it
to every connection's event thread (`Navigation`, `TargetAttach`), where an
answer that was deferred meets the command that waits for it
(`DeferredReplies`). Requests leave the page through `NetService`, which asks
the shared configuration whether to pause.

## The models

### InterceptConfig and InterceptControl: who may pause a page's requests

`InterceptConfig` is the value behind `InterceptControl`'s mutex
(`net/src/intercept.rs`) and one operator per critical section, from the old
value to the new. `Forever` is `u64::MAX`, the stamp a teardown disables with.
A pattern list is the set of requests it matches. The emulated latency, which
only delays, is left out.

`InterceptControl` says who runs those critical sections and where the lock is
dropped in between.

| Model | Code |
|---|---|
| `nextSeq`, `ReceiveEnable`, `ReceiveDisable` | `Connection::submit`: the endpoint's receive counter, and the lane a command goes to |
| `lane[s]`, `StartEnable`, `RefuseEnable`, `RaiseFlag`, `ApplyEnable` | the session's lane running `fetch::enable`: its checks, the blocking question to the page, the refusal, or the flag and then the shared configuration |
| `priority[c]`, `StartDisable`, `ApplyDisable` | the connection's priority lane running `fetch::disable` |
| `Detach`, `Close`, `LowerFlag`, `DropClaim`, `DisableForGood` | `detach` and the socket's teardown, with `release_sessions`' two critical sections |
| `Resolve` | `claim` and `resolve` from any session |
| `CheckRequest`, `AnnouncePause`, `ApplyDecision`, `GiveUp` | the page thread: `intercepts` and `announce_pause` are two acquisitions of the lock |
| `decided` | ids drained or claimed whose decision the page has not applied |
| `word` | history: what each session's commands asked for, by stamp; refused ones are marked so |

A claim is sent after the lock is dropped; `decided` covers the time in between.
Only `release_all`, which the closing of the page runs, is left out: nothing
happens to the page after it.

### NetService and RequestLifecycle: one page's requests

`NetService` is `net/src/service.rs`. Actors are the page thread, the tokio task
of each asynchronous request, and the driver, whose decisions are claimed under
the lock (`sending`), sent (`decisions`) and drained.

| Model | Code |
|---|---|
| `StartAsync`, `Spawn`, `ParkAt` | `spawn_fetch`, `spawn_fetch_with` with its offline gate, `announce_pause` / `announce_auth` and `park` |
| `Apply`, `ApplyDeferred`, `ApplyDecision`, `Expire` | `apply_decision`, `drain_decisions`, `release_expired_pauses` |
| `Abort`, `Dispatch`, `NoteEvent` | `abort`, `dispatch_net_event`, `note_event` with `finish` |
| `TaskStart`, `TaskEnd` | the task's permit, its two looks at the cancel flag, `emit_outcome` |
| `park`, `Receive`, `ParkTimeout`, `PassGate`, `BlockingFetch`, `BlockingRetry`, `NoteOutcome` | `run_blocking`: the page thread inside `fetch_blocking`, at either of its two pauses |
| `open`, `seen`, `ends`, `pauses` | the open records; what the observer last heard; histories of terminal events and of pauses |

While `park` is not idle the page thread does nothing else (`PageFree`), which
is what makes decisions for other ids pile up in `deferred`. The whole body of a
response is one chunk, and the URL, the method and the headers decide nothing:
whether a request pauses is its membership in the pattern set. The response log,
blob URLs and timing records are left out.

`RequestLifecycle` is what an observer is promised: announced, answered at most
once, ended once, finished only after an answer, and ended in the end.
`NetService` is shown to implement it with `phase <- seen`: for safety by proof
(`ServiceFollowsLifecycle`) and with its fairness by model checking
(`ImplementsLifecycle`).

`PausePoint` is what the pause point itself promises: a request is paused,
claimed once, by name or with everything claimable, and let go. `InterceptControl`
has the drivers in detail and the page in outline, `NetService` the other way
round, and both are proved to implement it (`FollowsPausePoint`), with
`PauseState(r)` as the mapping:

| | `InterceptControl` | `NetService` |
|---|---|---|
| free | the page does not hold `r` | neither in `paused` of the configuration nor held by the page |
| claimable | held, and in `paused` of the configuration | in `paused` of the configuration |
| decided | held, and claimed or released | held by the page, no longer in the configuration |

`Release` takes all that is claimable, which is why a disable that lets some
pauses go and not others is no step of it. It does not say that a decision lets
go of the pause it was made for: `LetGo` is the deadline as well as the answer,
and a late answer can meet the next pause (see below).

### TargetAttach: discovery and auto-attach of one connection

`TargetAttach` is the part of `cdp/src/session.rs`, `cdp/src/domains/target.rs`
and `cdp/src/target.rs` that decides what a driver hears of targets. Threads are
the lanes and the event thread. `run[th]` holds a thread's local state: its job,
the step it is at, its target, the rest of a loop over a snapshot. Each step is
one critical section of `auto_attached`, `announced`, `sessions` or the registry.

| Model | Code |
|---|---|
| `ReceiveSwitch`, `Swap`, `Snapshot`, `Each`, `Forget`, `Reply` | `set_discover_targets`, `set_auto_attach` |
| `ReceiveCreate`, `CreateHere` | `create_target` |
| `ReceiveAttach`, `Detach` | `attach_to_target`, `detach_from_target` |
| `Check` ... `LeaveAttached` | `auto_attach`, `auto_attach_existing` |
| `AttachLook` ... `AttachEmit` | `attach` |
| `TakeSignal`, `LateAnnounce`, `Unclaim`, `Unannounce`, `DetachAll` | the event thread: `on_target_created`, `on_target_destroyed` |
| `CreateElsewhere`, `Destroy` | other connections, pages closing themselves, `closeTarget` |

`auto_attached` is the one lock that is held over other critical sections, from
the claim to the return: `holder`, and `LockDiscipline` in `TypeOK` says that
exactly those steps hold it. `registry.infos()` is one atomic read, as it is
under the registry's lock. The event thread may be any number of signals behind.

Left out: the session limit (256, beyond any instance), `InfoChanged` signals
(they decide nothing), the queues of the lanes (a lane takes the next command
when it is idle), commands refused before their handler runs, and other
connections except for the targets they create and destroy. The two switches are
browser-level commands and are sent on the browser lane only, so two
`setAutoAttach` of one connection never run at once.

### PageThread: a page's thread and the handle drivers hold on it

`PageThread` is `engine/src/page.rs` and `dialog.rs` with the command loop of
`page/src/lib.rs`. The page thread is a stack of frames: the command loop at the
bottom, above it the job, the queued navigation and the dialog it is inside of.
A frame is running script, taking a turn of the loop, or parked.

| Model | Code |
|---|---|
| `Raise`, `Call`, `GetReply`, `TimeOut`, `Abandon`, `LastLook`, `Disconnected`, `Gone` | `suspend`'s store, `call_within`, `abandon`, `gone`; `Return` has `resume`'s store |
| `Post`, `Close`, `TakeJoin`, `JoinExited`, `Detach` | `post`, `close`, `join_bounded` |
| `Offer`, `Withdraw`, `OpenDialog` ... `CloseDialog` | `answer_dialog` and the page's `run_dialog` |
| `ReceiveJob`, `Accept`, `Wake`, `CheckFlag`, `FinishJob` | `wait_for_work`, `accept_job`, `run_job` and the closure's look at its flag |
| `StartLoad`, `DrainCommand`, `Stall`, `Overrun`, `BeginWait`, `EndWait` | `run_until_stalled_until`, `drain_commands`, `wait_until` |
| `LeaveLoop`, `Panic`, `StoreCrash`, `MarkClosed`, `Exit` | the end of the loop, an unwind, and the thread's epilogue in its three steps |

A closure's body is its beginning, the waits inside it and its end. The typed
wrappers of `PageHandle` differ in the closure only and are one `Call`. The page
drops its port when it leaves the loop, and whoever waits for a reply finds the
channel disconnected. `CRASH_REPORT_GRACE` is taken to outlast the epilogue,
whose one wait, for room on the event channel, is bounded at 250 ms.

### BrowserContexts: what a browser owns

`BrowserContexts` is `engine/src/browser.rs` and `context.rs`: flags that are
atomics, lists behind mutexes, and who holds which when. Threads are drivers
and, for `window.open`, page threads.

| Model | Code |
|---|---|
| `Open`, `Build`, `Admit`, `Push`, `Refuse` | `new_page` and `open_window`: the first look at the flag, `spawn_page`, the second look under the lock, the cap on popups |
| `SpawnContext`, `PushContext` | `spawn_context` |
| `CloseContext` ... `ContextClosed` | `BrowserContext::close`: the flag, the list, each page |
| `CloseBrowser`, `ListContexts`, `NextContext` | `Browser::close` |
| `SetDownload`, `ListPages`, `TellPage` | the context's download behaviour and the pages it is passed to |

A page is its thread: running, asked to stop, exited. How it stops is
`PageThread`'s subject.

### DeferredReplies: answers that are promises

An evaluation that awaits a promise frees its lane and is answered by the event
thread. `DeferredReplies` has the whole way round, in `session.rs` (the await
book), `page/src/lib.rs` (the parked promises), `page.rs`' event sink, the pump
and `pump.rs`.

| Model | Code |
|---|---|
| `Send`, `Called`, `CallTimesOut`, `DeferReply` | the session's lane and `defer_reply` |
| `Begin`, `Finish`, `Settle`, `Emit` | the job, `settle_or_defer`, `drain_pending_awaits` / `fail_pending_awaits`, the bounded bus |
| `BeginClose`, `EndClose`, `Crash` | the page's end, with what it had parked |
| `Pump`, `LookAtSessions`, `ResolveAwait`, `HandleGone`, `Detach` | the pump, `dispatch_page_event`, `resolve_await` |

The sweep of answers a minute old takes any set of answers no lane is about to
claim (`Stale`), at either of the two calls that sweep. A token is named by its
command; each connection holds at most one session of the page.

### DocumentLoad: how a page loads a document

`DocumentLoad` is the part of `page/src/lib.rs` that runs scripts, asks for
sheets and images, and decides when `DOMContentLoaded` and `load` are due. It is
one thread, whose difficulty is that every wait of a load runs the event loop,
where script runs that inserts more scripts and sheets.

| Model | Code |
|---|---|
| `Navigate`, `Chain`, `Reset` | `run_navigation`, `run_navigation_chain`, `reset_document_state` |
| `ParseNext`, `AwaitSheets`, `RunParserScript`, `AfterScript`, `EndParse` | the parser's signals, `await_pending_stylesheets`, `execute_parsed_script`, the task boundary after a script |
| `RunDeferred`, `FireDCL`, `FireLoad` and the steps between | `run_deferred_scripts`, the two milestones, `await_subresources` |
| `TopOfPass` ... `NextPass` | one pass of `run_until_stalled_until`: style, script and image updates, fonts, net events, timers |
| `StartImages`, `TellImages`, `SettleFonts` | `drain_image_updates`, `begin_image_load` of an image settled at once, `settle_font_ready`: script the pass does not count |
| `Prepare`, `Deliver`, `RunOrdered` | `prepare_dynamic_script`, `dispatch_net_event`, `drain_ordered_dynamic_scripts` |
| `WaitDone`, `OutOfTime`, `StopWaiting`, `Suspend`, `Resume` | how a wait ends; the driver's control jobs |

Elements are numbers, the markup's first, then the inserted ones. A script that
fails takes its turn like one that runs. An answer to a request of an old
document may still be on the wire; `wire` keeps it with its document. Two
places of a pass run script without counting it as progress: the listeners of an
image that is settled at once (a `data:` URL, or one the page has fetched before)
and the callbacks of `fonts.ready`. A wait may end right after them, with what
they inserted still queued; the history variable `unseen` holds what they
inserted in the current pass. `MaxDocuments` bounds the navigations, chained ones
(`MAX_CHAINED_NAVIGATIONS`) included; lazy images, which nothing waits for, are
left out, as are two elements that share a URL. Fetching
a parser-blocking script is `NetService`'s blocking path and happens at once
here, as nothing else runs on the page while it does.

### Navigation: which loader a driver is told a document has

`Navigation` joins `domains/page.rs`' `navigate`, `frame.rs`' loaders, the pump
and `await_navigation_end` of `target.rs` and the labels of `pump.rs`. Four
threads take part: the page, the pump, the connection's event thread and the
lanes that navigate.

| Model | Code |
|---|---|
| `BeginNavigation`, `BeginDocumentLoad`, `CommitLoader`, `AbandonNavigation`, `LoadingLoader`, `DocumentLoader` | the methods of `FrameState` |
| `Link`, `NavigateFor`, `NavigateItself`, `Chain`, `MoveWithin`, `RequestDocument`, `Commit`, `Fail`, `FireLoad`, `FinishChain` | `run_navigation_chain` and the milestones it emits; a milestone that finds the bus full is dropped, a request's announcement after waiting for room (the step is then late) |
| `Receive`, `FoldEvent`, `FoldNothing`, `NoteNavigationEnded`, `Publish`, `Destroy` | the pump, one critical section after the other; `destroy` |
| `Dispatch`, `Label` | `dispatch_page_event` |
| `CountEnds`, `CallFails`, `EndWait`, `Sleep`, `WaitTimesOut`, `Answer` | `navigate`, `await_navigation_end` |

Left out: child frames' loaders, the target's description and URL, the limit on
chained navigations, and `javascript:` URLs, which replace the document without
any milestone.

## What the runs check

State counts are distinct states.

| Run | Shows | Bounds |
|---|---|---|
| `control_shared` | `ClaimsKeepItOn`, `PausesAgree`, `LastWordWins` of a lone session, some of whose enables are refused, `OthersKeepTheirPauses` | two sessions on two sockets, three commands, one request, everybody may leave; 3,784,368 states |
| `net_one` | `EndsOnce`, `OneHolder`, and the refinement of `RequestLifecycle` with its liveness | one request of either kind, every decision and answer, one stubbed redirect, one retry with credentials; 140,772 states |
| `net_mixed` | `PausesAgree`, `OneDecisionPerPause` with a blocking park in the way | one asynchronous and one blocking request, one kind of decision that the first pause takes as "continue" and the second as credentials, challenges only; 1,236,490 states |
| `attach_race` | `AutoAttachedOnce`, `NothingLeftOfTheGone`, `EventsInOrder`, `EveryTargetReported`, `EveryTargetAttached` | one target, two lanes and the event thread, four commands, any lag; 136,296 states |
| `page_thread` | `JobsRunInOrder`, `ClosedAfterClose`, `SuspendedIsReported`, `TimeoutIsFinal` | two callers who also suspend and resume, two closers, two jobs, one load, one overrun; 2,647,349 states up to symmetry |
| `page_close` | `CloseEndsThread` | one caller, closer and answerer, one job, one load, one dialog, one overrun, panics; 142,051 states |
| `contexts_close` | `NobodyLeftBehind` | two threads, two contexts, two pages, a cap of one; 543,460 states up to symmetry |
| `awaits` | `AnsweredOnce`, `WaitsForSomething`, `EveryEvaluationAnswered` | two connections, two commands, a bus of one, crashes; 252,407 states |
| `doc_load` | `CountersExact`, `ScriptsInOrder`, `ScriptsSeeTheirSheets`, `LoadWaitsForAll`, `LoadingEnds` | four markups, three elements a document, two documents, one suspension; 1,037,614 states |
| `navigate` | `LoadersNameDocuments`, `NavigateAnswersItsDocument`, `LabelsKeepUp`, `WaitEnds` | one lane, two navigations, a bus of two, any lag of the event thread; 850,781 states |

Every passing run but `net_mixed` and `page_close`, which are second instances
of a module, also checks the module's `TypeOK`.

Why the bounds are enough to be worth checking:

- A stale stamp needs two commands, a stale stamp under someone's claim needs
  two sessions and three commands; a fourth command of the same two sessions
  repeats a situation. The page's requests do not interact in the control, and
  one is enough.
- In `NetService` asynchronous requests share only the permits and the channel
  order; a decision for another id is what `net_mixed` adds. One followed redirect
  and one retry with credentials (`MaxHops`, `MaxAuth`) make both the attempt under
  the limit and the one over it reachable. Permits are never contended in these
  runs, which have one asynchronous request. Two that share one permit, with a
  blocking one and no pauses (2,544 states), were checked once for `EndsOnce`,
  `OneHolder` and `ImplementsLifecycle`; with every answer the instance is too large.
- A target is raced for by at most three parties: `createTarget` or
  `setAutoAttach` on the browser lane, a lane attaching or creating by hand, and
  the event thread. `attach_race` has all three; four commands are a switch on,
  off and on again and a use of it. It has one target to keep four commands on
  two lanes within reach; two targets, with one lane and three commands or two
  lanes and two commands (1.4 and 0.9 million states), were checked once and
  kept every property, and the theorems have no bounds.
- Order between jobs needs two jobs and a load they are deferred in; a suspend
  and a resume that meet need two callers and two jobs; a load, a job and a
  dialog nested in one another need one of each, which `page_close` has. A
  second closer is the one that finds the join handle gone or its lock held.
  Panics are in `page_close` only; what they do to `ClosedAfterClose` and the
  rest is for the proofs of `PageThread`, which have no bounds.
- A page left behind needs one thread opening and one closing; the second
  context and page are the ones the browser's close must not miss.
- An answer that overtakes its lane, one that is late and one the full bus
  refuses need a bus of one and a second command; the second connection is the
  one that is handed answers it did not ask for.
- A document of three elements has a sheet before a script and an inserted
  element between them, or two scripts whose order matters; the second document
  is there for the answers of the first.
- A label that is too new, a wait satisfied by another navigation's end and a
  loader a later commit would reuse need two navigations; a bus of two drops
  milestones and keeps some.

Deadlock checking is off: every instance stops once its commands, jobs or
requests are used up, as a server without clients does.

### Fairness

- `NetService`: the event loop drains decisions, sweeps deadlines and dispatches
  events on each of its passes, tokio polls every task, a blocking park returns
  at its deadline. Each is a loop of the code that does not depend on another
  party, so weak fairness of each. The driver is not assumed to decide, nor a
  lane that claimed to send: every request ends because of the give-up deadline.
- `TargetAttach`: lanes and the event thread run on, and a thread that waits for
  `auto_attached` while nobody holds it gets it. In an instance the others take
  the lock finitely often, so weak fairness is enough for that; the code's mutex
  promises no more. Nothing is assumed of the driver, other connections or pages.
- `PageThread`: time passes for every deadline, the dialog's among them; the
  loop takes its turns; waits are bounded. Strong fairness is used for three
  things that are interrupted for ever only by script that never ends its
  closure: finishing a job and a load, and receiving from the channel, which
  `select` picks while other events arrive. Nobody has to answer a dialog.
- `DeferredReplies`: the threads run on and a parked promise settles or outlives
  its budget. Nobody has to send, detach, close or crash.
- `DocumentLoad`: weak fairness of the load's own steps and of the loop's, which
  include its budgets. The network need not answer, the driver need not resume.
- `Navigation`: the page finishes what it begins, the pump reads on, a notified
  lane runs. `WaitEnds` does not lean on the lane's timeout.
- `InterceptControl` and `BrowserContexts` have no liveness property: what must
  happen there is a step a thread reaches by running on.

## What the code does not do

Two runs end in a counterexample, each against a sentence of the repository
(quoted in `PROJECT.json`):

| Run | Property | What happens |
|---|---|---|
| `control_newest_enable` | `NewestEnableTakesEffect` | `release_sessions` disables with `u64::MAX`, which stays in `config_seq`: a later driver's enable of that page is always "older" and ignored |
| `navigate_init` | `InitNamesNewLoader` | a navigation that fails fast is folded in before the connection handles its start: its `init` carries the outgoing loader, which the comment in the pump says hangs `page.goto()` |

Some properties stand in the modules although the code does not keep them, and
no passing run checks them. Their comments say so:

- `NoSleepOverJobs` (`PageThread`): a turn that meets its deadline parks over the
  jobs it had deferred, which are no longer in the channel and wake nobody
  (`page/src/lib.rs:4924`).
- `AnswersMeetTheirDialog` (`PageThread`): an answer is offered for up to its
  grace, and the next dialog of the same script takes it (`engine/src/page.rs:1035`).
- `DownloadsFollowContext` (`BrowserContexts`): a page that is being built was
  given the download behaviour before the change and joins the list after the
  pages were told (`context.rs:218`).
- `NoSilence` (`DeferredReplies`): an answer the full bus refuses, or a crashing
  page drops, is gone; the command it was for waits in the book for ever.
- `NothingBeginsSuspended` (`DocumentLoad`): a suspend inside a load is served,
  the load's waits return at once, and the load goes on to ask for resources,
  against the doc of `suspend`. The check at the head of `run_navigation` is for
  the first link alone: a navigation chained to a load goes on in a suspended page
  (`page/src/lib.rs:3027`, `3113`).
- `NothingGoesUnseen` (`DocumentLoad`): deferred scripts "must still see all
  stylesheets" (`page/src/lib.rs:3975`) and at `load` "the document and its
  subresources are complete" (`3800`). A sheet a `fonts.ready` callback links, or a
  script or an image the `load` listener of a `data:` image inserts, in the pass that
  ends the wait is neither asked for nor run by then: those listeners
  (`6131-6151`, `6364-6377`, `6630`) and callbacks (`6848-6857`) do not set
  `progressed`. `ScriptsSeeTheirSheets` and `LoadWaitsForAll` say what does hold.

Seen while modelling, in the models:

- Interception. Stamps of different sessions are compared, so a session's latest
  enable is dropped after a newer disable of another: `LastWordWins` is about a
  lone session. A request can pause after the disable that should have let it go
  (`intercept.rs:391-392`, `service.rs:981`), and waits for the give-up deadline.
  A stale disable still drops its session's newer claim (`intercept.rs:402`). A
  `Fetch.enable` past its `closed` check claims for a session that is gone
  (`session.rs:405`, `667-668`). A socket that drops leaves the page's emulated
  conditions, offline among them, as they were.
- Requests. A decision for a request's first pause that arrives after the
  deadline can meet the pause for credentials of the same request
  (`service.rs:1096`). `take_deferred` finds nothing: ids are never reused and
  blocking fetches do not nest.
- Targets. `setDiscoverTargets` can announce from a snapshot a target whose
  destruction was already handled, and never takes it back. One attach that
  fails ends `setAutoAttach` with the switch on, and a retry finds it on and
  attaches to nothing: the model's driver (`Swap`) does not count on a switch
  that a failed attempt of its own left on. An attach by hand that races a destruction inserts a
  session no signal will detach (`session.rs:590`), and one that precedes a late
  `Created` signal is joined by a second session that auto-attach makes.
- Suspension. `suspend` raises the handle's copy before it sends and `resume`
  lowers it after it returned (`engine/src/page.rs:933`, `948-949`), in the safe
  order for one caller. Clones share the copy: a resume lands, another clone
  raises it and suspends, and then the first lowers it, so a suspended page reads
  as running. `SuspendedIsReported` leaves out what follows such an overlap
  (`crossed`), up to the next `suspend` that meets no `resume`.
- Loading. A sheet whose `href` script changes while it is in flight is
  requested again under the same element; the model's elements ask once.
- Navigation. `load` and commit events are labelled with a later load's loader
  when the event thread lags (`LabelsKeepUp` is the half that holds: never with
  an older one). A document request loses its substituted id once its navigation
  failed or a later one began. A lane's wait is satisfied by the end of another
  navigation of the page, and the answer can then be another document's loader.
  `Page.navigate` on a suspended page is queued, and answers with the outgoing
  loader when the wait is over. `destroy` notifies nobody, so a lane whose target
  goes away sleeps until its timeout, though the doc says the wait ends
  (`target.rs:640-642`). A `Failed` milestone the full bus drops leaves its
  loader pending.

## What is proved

All theorems hold for every value of the constants under the named assumptions
beside their declarations, which say that sets and limits are sets and limits,
that each session has a connection, that requests are asynchronous or blocking,
and that the names of special values are none of the constants' elements.

**InterceptControl** (`InterceptControlProofs`).
`TypeCorrect` needs one fact beyond `TypeOK`: a priority lane in the middle of a
disable still has it at its head. `HeldExactly` proves both halves of
`PausesAgree` together, because each step that takes an id out of the shared
set must put it in `decided`, and strengthens them with `DecidedIsHeld`: a
decision on its way is for a request still held, or applying it would let go of
another. `ClaimsKeepInterceptionOn`, `StampNeverGoesBack` and
`OthersPausesKept` follow from a case split on what a step does to the
configuration (`ConfigMoves`). `LastWordStands` is about order: a lone driver's
enables and disables run on two lanes and overtake one another, so the
invariant says that everything due or applied carries a stamp given out already
(`Stamped`), that a command which was not refused is due still or no newer than
the stamp on the configuration, and that the switch is as the command with that
stamp left it (`Heeded`). A refused enable drops out of the account, because each
stamp is in line once (`Once`) and so is not the one applied. Nothing of another
session is in the way (`Alone`), since sessions that left do not come back
(`LeaversRelease`).
`ControlIsAPausePoint` maps each step to one of `PausePoint` or to none: what is
claimable is held (`Stands`), a step that touches the shared set takes out one
id, the page's, or all of it, and only the page puts one in (`PausesFollow`).

**NetService** (`NetServiceProofs`). `OneTerminalEvent`, `NeverStranded` and
`ServiceFollowsLifecycle` rest on one inductive invariant, `IInv`: the types of
the requests' own state, `AsyncOK` and `BlockingOK`. `OneHolder` is not
inductive by itself: that an event in the channel does not end a request twice
depends on which run of events is queued, and that must agree with what the
observer has heard (`Starts` before the headers, `Rests` after: `InTurn`); a
blocking request is open exactly while the page thread is inside its fetch. The
third theorem is the refinement: every step of `NetService` is a step of
`RequestLifecycle` or leaves `seen` alone. The pause point has an invariant of its
own, `PInv`: the channels' types, `PausesAgree`, and that decisions under way,
sending, in the channel or put aside, are each for a pause of its own (`OneEach`)
and no claim can take again (`Spent`). It is kept because every step of the service
does one of six things to the pause point (`Moves`): nothing, a pause
announced, one let go, one or all claimed, a decision put aside, or a step of
its way. From it come `DriverAndPageAgree` and `DecidedOncePerPause`, and with the
bounds on hops and attempts the full `TypeCorrect`. The same six moves give
`ServiceIsAPausePoint`: each is a step of `PausePoint` or none (`MovesFollow`),
since a pause is only announced of a request that is not held.

**TargetAttach** (`TargetAttachProofs`). `AtMostOneAutoSession` is that
auto-attach makes one session per target. `AutoAttachedOnce` is not inductive:
the insertion must know that there is none. `IInv` adds `StepsFit` (which job a
step belongs to), `GoneAreGone` (a target with a `Destroyed` signal under way is
destroyed, so a claim is only taken back when no more can be made), `Covered`
(an auto-attached session's target is claimed, or gone) and `NoRival` (what the
holder of the lock has made sure of, step by step, up to the insertion).
`NothingIsLeftBehind` needs `Swept`: a claim on a gone target has its `Destroyed`
signal before it or a look-up that will give it back, and a session of
auto-attach has that signal before it or being served. `DriverHearsInOrder` needs
to know, of every thread, what it has said so far and what the switches were
when it looked: `Discovery` (whoever is past the announcement has a target the
driver knows, once discovery counts) and `Attachment` (a claim is told of, gone, or
in the lock holder's hand, `Covers`), on top of where targets come from (`Births`)
and which lane runs what (`Turns`). `ReportsAreComing` and `AttachesAreComing`
are the safety halves of `EveryTargetReported` and `EveryTargetAttached`: a live
target that a driver has not heard of has someone who will speak of it, its own
signal, a thread that has yet to look at the switch, the holder of the lock, or
the loop that turned the switch on. `Awaited` follows a target from one of these
to the next, and `Met` says that a claim or a session is somebody's work.

**PageThread** (`PageThreadProofs`). Four invariants, each for its properties.
`CloseInv`: the flag is up before the thread exits, and whoever takes the join
handle keeps its lock until the thread has exited or he has raised the flag
himself (`CloseIsClosed`). `PageInv`: the types, the stack's `Shape` (only the
top frame checks a flag, is a control job, parks or asks, and there is one
ordinary job at most) and `QueueInv`, that the channel and `pending_jobs` are
each in the order of sending, with what is deferred older than what is in the
channel, and that a loop parked where it could run jobs has deferred none
(`TypeCorrect`, `JobsBeginInOrder`). `ReportInv`: control jobs land in
the order they were sent, those of calls given up on included. While no suspend
has met a resume, a resume that is out has no suspend sent or raised after it
(`ResumesAreLast`), so the page runs when it is answered (`LastResumeHolds`); and
while a `suspend` is still to come the handle's flag is up (`SuspensionIsReported`). `TimeoutInv`: a job nobody waits
for any more has its flag raised before it begins (`TimeoutsAreFinal`).
`ClosesAreComing` is the safety half of `CloseEndsThread`: the command loop is
the bottom frame and never parks with the flag up (`Running`), a request that
has not been heard is in the channel (`RequestStep`), and a batch is never longer
than what it takes jobs from, so from every frame the thread has a step of its
own to take (`LoopGoesOn`). `CanGoOn` lists the guards of those steps, since
ENABLED is out of the prover's reach.

**BrowserContexts** (`BrowserContextsProofs`). `NobodyIsLeftBehind` rests on an
account of every running page: it is in the hand of the thread that opens it, in
its context's list, or on a closer's list (`Accounted`). A closed context's list
is empty and unlocked unless a closer has yet to take it (`ClosedIsTaken`): a
thread let in before the flag keeps the lock, so the closer comes after it. For
contexts the argument is the same one storey up (`Listed`, `ClosedIsListed`).

**DeferredReplies** (`DeferredRepliesProofs`). `NeverAnsweredTwice`: until its
lane lets go a command has no reply and is in no book; a command in a book has
no reply and is in its issuer's book alone (`Unanswered`). So whoever replies is
the first to. `NothingWaitsInVain`: what a command in the book waits for is
parked on the page, in the bus or among its issuer's signals (`OwedIsComing`),
and no step takes it off that way without a reply, or without counting a loss.

**Navigation** (`NavigationProofs`). A navigation emits its milestones in a fixed
order and navigations are numbered, so every milestone has a place in one order,
its `Key`, which the bus, the pump's hand and the connection's queue keep
(`InOrder`): from there on the queues can be treated as sets. Loaders only go up
(`Upward`), which with what is known of the order of what is still to fold
(`DocsFolded`, `StartsFolded`) gives that no two documents share one and that no
label is older than its event (`LabelsAreNotStale`). `LoadersAreDocuments` needs
`Tracks`: while nothing was dropped, the frame is what the page shows but for
what is still to fold, and whether a load is in flight is decided by the latest
milestone that has yet to be folded. `AnswersItsDocument` is about counting: every
navigation ends once, so ends are counted by the navigation's number
(`ThreadFits`), the registry's count is below every end still to be noted
(`EndsNoted`), and a lane that saw the count go up past its own navigation finds
its document folded in (`CallsFit`). `WakeUpsAreComing` is the safety half of
`WaitEnds`, that no wake-up is missed: every end the page has reached and the
registry has not counted is still to be noted (`EndsCome`), and a lane goes to
sleep on a count no higher than the one it took, which was taken before its
navigation (`LanesWait`); so the end of its navigation is among those to come.

**DocumentLoad** (`DocumentLoadProofs`). The invariant follows an element from
place to place. Each queue holds elements of its own kinds (`PlacesFit`) in the
order they were inserted (`QueuesRise`: elements are numbered in that order, so
order is `<`); what awaits its answer or its turn is nowhere else (`Apart`), which
makes the counters exact, and has not run (`NotYetRun`), which gives
`ScriptsInOrder`; and every element the parser has reached or script has inserted
is somewhere (`Accounted`), which gives the last part of `LoadWaitsForAll`. That a
wait which ended by finding what it waited for really found the document at rest
is `LoopFits` and `WaitsFit`: a pass of the loop that counted nothing has emptied
every queue on its way, but for what was put there unseen (`QueuedIsUnseen`,
`QueuedStays`), and a script that is ready to run in order is run
before the wait can look. Steps in which script may insert anything are treated at
once (`Inserting`, `PlacesInsert`). `LoadGoesOn` is the safety half of
`LoadingEnds`: the load leaves a wait only when no script is due in the loop
(`LoopFits`), and comes to its last three places only by beginning their waits
(`WaitsBegun`), so whatever the network and the driver do the guard of a step of
its own holds (`CanLoad`, `CanLoop`).

Every safety invariant and every action property of a passing run is stated by a
theorem. Only model-checked: the liveness properties (`EveryEvaluationAnswered`,
`CloseEndsThread`, `LoadingEnds`, `WaitEnds`, `EveryTargetReported`,
`EveryTargetAttached`) and the fairness in `ImplementsLifecycle`. Of each of the six
the safety half is proved, that nothing it depends on is lost or stuck on the way:
`NothingWaitsInVain`, `ClosesAreComing`, `LoadGoesOn`, `WakeUpsAreComing`,
`ReportsAreComing`, `AttachesAreComing`.

Limits of the prover shape this list: it has no induction over data, so what a
recursive definition computes cannot be proved about, and neither can liveness
under fairness. Where the code filters a queue (`abort`'s `retain`), the model says
which positions it keeps instead of folding over it, which can be reasoned about.

## Not modelled

Coverage is narrow by lines: parsing, style, layout, painting, export, the
generated bindings and the fetching rules are most of the repository's 120,000
lines. They run on one thread, keep no protocol, and are functions of their
inputs described by the web's standards; tests against those standards say more
of them than a small model would. In particular:

- `glob_matches` (`intercept.rs:97`) is abstracted to the set of requests a
  pattern list matches. It is a backtracking loop, checkable as a recursive
  function against a declarative definition over short patterns and texts.
- HTTP caching, cookies, redirects and CORS inside one fetch. Their arithmetic
  could become pure modules.
- Workers, timers as such, animation frames, input and rendering in the page
  loop, child frames and their loaders, streams and the session limit of a
  connection, `InfoChanged` signals, the response log, the command-line client.
- The forwarding domains, which make one call on the page and format the answer.

## What remains

1. A pure module for `glob_matches`.
2. The composition of `PageThread` and `DocumentLoad`: a load's waits as the
   places where jobs are served.
3. A measure that the thread's own steps lower between two arrivals, which would
   leave fairness as all that `LoadingEnds` and `CloseEndsThread` add to the theorems.
