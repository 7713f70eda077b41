--------------------------- MODULE BrowserContexts ---------------------------
(***************************************************************************)
(* A browser, its contexts and their pages (engine/src/browser.rs,         *)
(* context.rs): contexts and pages are opened by drivers and, through      *)
(* `window.open`, by the pages' own threads while other threads close a    *)
(* context or the whole browser or change the download behaviour.          *)
(*                                                                         *)
(* Flags are atomics read and set outside the lock of the list they guard; *)
(* a thread holds a list's lock between its check and its push. A page is  *)
(* what its thread does: running, asked to stop, exited.                   *)
(***************************************************************************)
EXTENDS Integers, FiniteSets

CONSTANTS
  Threads,     \* driver and page threads that call into the engine
  Contexts,    \* contexts that may be created
  Default,     \* the context created with the browser
  Pages,       \* pages that may be built
  Paths,       \* download behaviours
  FirstPath,   \* the one contexts are created with
  MaxPages     \* max_pages_per_context

NoOne == "nobody"
NoPage == "none"

ASSUME BrowserAssumption ==
  /\ Default \in Contexts
  /\ FirstPath \in Paths
  /\ MaxPages \in Nat
  /\ NoOne \notin Threads

VARIABLES
  contexts,       \* the browser's list
  browserClosed,  \* the browser's flag
  contextsLock,   \* who holds the list's mutex
  born,           \* contexts that exist
  pages,          \* context -> its list
  closed,         \* context -> its flag
  lock,           \* context -> who holds its list's mutex
  path,           \* context -> its live download path
  state,          \* page -> "unbuilt", "running", "asked", "exited"
  home,           \* page -> the context it was built in
  saves,          \* page -> where it saves downloads
  unreached,      \* pages a setting of the behaviour was reported not to reach
  pc,             \* thread -> where it is
  ctx,            \* thread -> the context it works on
  script,         \* thread -> whether it is script that opens
  mine,           \* thread -> the page it has in hand
  want,           \* thread -> the download path it has read or sets
  todo,           \* thread -> pages it still has to close or tell
  rest            \* thread -> contexts it still has to close

listVars == <<contexts, browserClosed, contextsLock, born, pages, closed, lock, path>>
pageVars == <<state, home, saves, unreached>>
threadVars == <<pc, ctx, script, mine, want, todo, rest>>
vars == <<listVars, pageVars, threadVars>>

At(t, where) == pc[t] = where
Goto(t, where) == pc' = [pc EXCEPT ![t] = where]

(* The pages of a list whose threads have not finished. *)
Alive(list) == {p \in list : state[p] # "exited"}

-----------------------------------------------------------------------------
(***************************************************************************)
(* Opening a page: new_page and open_window.                               *)
(***************************************************************************)

(* The path is read first, then the flag: a closed context opens nothing. *)
Open(t, c, byScript) ==
  /\ At(t, "idle") /\ c \in born
  /\ ~closed[c]
  /\ ctx' = [ctx EXCEPT ![t] = c]
  /\ script' = [script EXCEPT ![t] = byScript]
  /\ want' = [want EXCEPT ![t] = path[c]]
  /\ Goto(t, "building")
  /\ UNCHANGED <<listVars, pageVars, mine, todo, rest>>

(* spawn_page: the page's thread runs, or it fails or takes too long. *)
Build(t, p) ==
  /\ At(t, "building")
  /\ \/ /\ state[p] = "unbuilt"
        /\ state' = [state EXCEPT ![p] = "running"]
        /\ home' = [home EXCEPT ![p] = ctx[t]]
        /\ saves' = [saves EXCEPT ![p] = want[t]]
        /\ UNCHANGED unreached
        /\ mine' = [mine EXCEPT ![t] = p]
        /\ Goto(t, "built")
     \/ /\ Goto(t, "idle")
        /\ UNCHANGED <<pageVars, mine>>
  /\ UNCHANGED <<listVars, ctx, script, want, todo, rest>>

\* Mutant: the flag is not looked at again once the page is built.
AdmitUnchecked(t) ==
  LET c == ctx[t] IN
  /\ At(t, "built") /\ lock[c] = NoOne
  /\ pages' = [pages EXCEPT ![c] = Alive(@)]
  /\ IF script[t] /\ Cardinality(Alive(pages[c])) >= MaxPages
       THEN Goto(t, "refusing") /\ UNCHANGED lock
       ELSE Goto(t, "pushing") /\ lock' = [lock EXCEPT ![c] = t]
  /\ UNCHANGED <<contexts, browserClosed, contextsLock, born, closed, path,
                 pageVars, ctx, script, mine, want, todo, rest>>

\* Mutant: the lock is let go after the check and taken again for the push.
AdmitLetsGo(t) ==
  LET c == ctx[t] IN
  /\ At(t, "built") /\ lock[c] = NoOne
  /\ pages' = [pages EXCEPT ![c] = Alive(@)]
  /\ Goto(t, IF closed[c] \/ (script[t] /\ Cardinality(Alive(pages[c])) >= MaxPages)
               THEN "refusing" ELSE "pushing")
  /\ UNCHANGED <<contexts, browserClosed, contextsLock, born, closed, lock, path,
                 pageVars, ctx, script, mine, want, todo, rest>>

(* Under the list's lock: finished pages are dropped from it, the flag is  *)
(* looked at again, and the cap holds for script alone. The lock is kept   *)
(* for the push, and dropped before a refused page is closed.              *)
Admit(t) ==
  LET c == ctx[t] IN
  /\ At(t, "built") /\ lock[c] = NoOne
  /\ pages' = [pages EXCEPT ![c] = Alive(@)]
  /\ IF closed[c] \/ (script[t] /\ Cardinality(Alive(pages[c])) >= MaxPages)
       THEN Goto(t, "refusing") /\ UNCHANGED lock
       ELSE Goto(t, "pushing") /\ lock' = [lock EXCEPT ![c] = t]
  /\ UNCHANGED <<contexts, browserClosed, contextsLock, born, closed, path,
                 pageVars, ctx, script, mine, want, todo, rest>>

Push(t) ==
  LET c == ctx[t] IN
  /\ At(t, "pushing")
  /\ pages' = [pages EXCEPT ![c] = @ \cup {mine[t]}]
  /\ lock' = [lock EXCEPT ![c] = NoOne]
  /\ mine' = [mine EXCEPT ![t] = NoPage]
  /\ Goto(t, "idle")
  /\ UNCHANGED <<contexts, browserClosed, contextsLock, born, closed, path,
                 pageVars, ctx, script, want, todo, rest>>

(* PageHandle::close: the page is asked to stop; the closer waits for it,  *)
(* but no longer than the close timeout.                                   *)
Asked(p) == IF state[p] = "running" THEN "asked" ELSE state[p]

Refuse(t) ==
  /\ At(t, "refusing")
  /\ state' = [state EXCEPT ![mine[t]] = Asked(mine[t])]
  /\ mine' = [mine EXCEPT ![t] = NoPage]
  /\ Goto(t, "idle")
  /\ UNCHANGED <<listVars, home, saves, unreached, ctx, script, want, todo, rest>>

-----------------------------------------------------------------------------
(***************************************************************************)
(* Creating a context.                                                     *)
(***************************************************************************)

\* Mutant: the flag is not looked at.
SpawnAnyway(t, c) ==
  /\ At(t, "idle") /\ c \notin born
  /\ contextsLock = NoOne
  /\ born' = born \cup {c}
  /\ ctx' = [ctx EXCEPT ![t] = c]
  /\ Goto(t, "listing") /\ contextsLock' = t
  /\ UNCHANGED <<contexts, browserClosed, pages, closed, lock, path, pageVars,
                 script, mine, want, todo, rest>>

(* spawn_context looks at the flag under the list's lock. Too late, and    *)
(* the context closes itself.                                              *)
SpawnContext(t, c) ==
  /\ At(t, "idle") /\ c \notin born
  /\ contextsLock = NoOne
  /\ born' = born \cup {c}
  /\ ctx' = [ctx EXCEPT ![t] = c]
  /\ IF browserClosed
       THEN Goto(t, "shutting") /\ UNCHANGED contextsLock
       ELSE Goto(t, "listing") /\ contextsLock' = t
  /\ UNCHANGED <<contexts, browserClosed, pages, closed, lock, path, pageVars,
                 script, mine, want, todo, rest>>

PushContext(t) ==
  /\ At(t, "listing")
  /\ contexts' = contexts \cup {ctx[t]}
  /\ contextsLock' = NoOne
  /\ Goto(t, "idle")
  /\ UNCHANGED <<browserClosed, born, pages, closed, lock, path, pageVars,
                 ctx, script, mine, want, todo, rest>>

-----------------------------------------------------------------------------
(***************************************************************************)
(* Closing.                                                                *)
(***************************************************************************)

CloseContext(t, c) ==
  /\ At(t, "idle") /\ c \in born
  /\ ctx' = [ctx EXCEPT ![t] = c]
  /\ Goto(t, "shutting")
  /\ UNCHANGED <<listVars, pageVars, script, mine, want, todo, rest>>

(* BrowserContext::close: the flag ... *)
ShutContext(t) ==
  /\ At(t, "shutting")
  /\ closed' = [closed EXCEPT ![ctx[t]] = TRUE]
  /\ Goto(t, "taking")
  /\ UNCHANGED <<contexts, browserClosed, contextsLock, born, pages, lock, path,
                 pageVars, ctx, script, mine, want, todo, rest>>

(* ... then the list, under its lock ... *)
TakePages(t) ==
  LET c == ctx[t] IN
  /\ At(t, "taking") /\ lock[c] = NoOne
  /\ todo' = [todo EXCEPT ![t] = pages[c]]
  /\ pages' = [pages EXCEPT ![c] = {}]
  /\ Goto(t, "closing")
  /\ UNCHANGED <<contexts, browserClosed, contextsLock, born, closed, lock, path,
                 pageVars, ctx, script, mine, want, rest>>

(* ... and each page of it in turn. *)
ClosePage(t, p) ==
  /\ At(t, "closing") /\ p \in todo[t]
  /\ state' = [state EXCEPT ![p] = Asked(p)]
  /\ todo' = [todo EXCEPT ![t] = @ \ {p}]
  /\ UNCHANGED <<listVars, home, saves, unreached, pc, ctx, script, mine, want, rest>>

(* The context is done with; a browser's close goes on to the next one. *)
ContextClosed(t) ==
  /\ At(t, "closing") /\ todo[t] = {}
  /\ Goto(t, IF rest[t] = {} THEN "idle" ELSE "next")
  /\ UNCHANGED <<listVars, pageVars, ctx, script, mine, want, todo, rest>>

(* Browser::close: the flag, then a copy of the list, then each context. *)
CloseBrowser(t) ==
  /\ At(t, "idle")
  /\ browserClosed' = TRUE
  /\ Goto(t, "browser")
  /\ UNCHANGED <<contexts, contextsLock, born, pages, closed, lock, path,
                 pageVars, ctx, script, mine, want, todo, rest>>

ListContexts(t) ==
  /\ At(t, "browser") /\ contextsLock = NoOne
  /\ rest' = [rest EXCEPT ![t] = contexts]
  /\ Goto(t, "next")
  /\ UNCHANGED <<listVars, pageVars, ctx, script, mine, want, todo>>

NextContext(t, c) ==
  /\ At(t, "next") /\ c \in rest[t]
  /\ rest' = [rest EXCEPT ![t] = @ \ {c}]
  /\ ctx' = [ctx EXCEPT ![t] = c]
  /\ Goto(t, "shutting")
  /\ UNCHANGED <<listVars, pageVars, script, mine, want, todo>>

-----------------------------------------------------------------------------
(***************************************************************************)
(* The download behaviour.                                                 *)
(***************************************************************************)

(* set_download_path: the context's value ... *)
SetDownload(t, c, where) ==
  /\ At(t, "idle") /\ c \in born
  /\ path' = [path EXCEPT ![c] = where]
  /\ ctx' = [ctx EXCEPT ![t] = c]
  /\ want' = [want EXCEPT ![t] = where]
  /\ Goto(t, "looking")
  /\ UNCHANGED <<contexts, browserClosed, contextsLock, born, pages, closed, lock,
                 pageVars, script, mine, todo, rest>>

(* ... then the pages there are, listed under the lock ... *)
ListPages(t) ==
  LET c == ctx[t] IN
  /\ At(t, "looking") /\ lock[c] = NoOne
  /\ pages' = [pages EXCEPT ![c] = Alive(@)]
  /\ todo' = [todo EXCEPT ![t] = Alive(pages[c])]
  /\ Goto(t, "telling")
  /\ UNCHANGED <<contexts, browserClosed, contextsLock, born, closed, lock, path,
                 pageVars, ctx, script, mine, want, rest>>

(* ... and told one by one. One that is gone needs no telling; one too     *)
(* busy to answer in time is an error to the caller.                       *)
TellPage(t, p) ==
  /\ At(t, "telling") /\ p \in todo[t]
  /\ todo' = [todo EXCEPT ![t] = @ \ {p}]
  /\ \/ /\ saves' = IF state[p] = "running" THEN [saves EXCEPT ![p] = want[t]] ELSE saves
        /\ UNCHANGED unreached
     \/ /\ state[p] = "running"
        /\ unreached' = unreached \cup {p}
        /\ UNCHANGED saves
  /\ UNCHANGED <<listVars, state, home, pc, ctx, script, mine, want, rest>>

Told(t) ==
  /\ At(t, "telling") /\ todo[t] = {}
  /\ Goto(t, "idle")
  /\ UNCHANGED <<listVars, pageVars, ctx, script, mine, want, todo, rest>>

-----------------------------------------------------------------------------

(* A page's thread ends: asked to, or by itself. *)
Exit(p) ==
  /\ state[p] \in {"running", "asked"}
  /\ state' = [state EXCEPT ![p] = "exited"]
  /\ UNCHANGED <<listVars, home, saves, unreached, threadVars>>

Init ==
  /\ contexts = {Default} /\ browserClosed = FALSE /\ contextsLock = NoOne
  /\ born = {Default}
  /\ pages = [c \in Contexts |-> {}]
  /\ closed = [c \in Contexts |-> FALSE]
  /\ lock = [c \in Contexts |-> NoOne]
  /\ path = [c \in Contexts |-> FirstPath]
  /\ state = [p \in Pages |-> "unbuilt"]
  /\ home = [p \in Pages |-> Default]
  /\ saves = [p \in Pages |-> FirstPath]
  /\ unreached = {}
  /\ pc = [t \in Threads |-> "idle"]
  /\ ctx = [t \in Threads |-> Default]
  /\ script = [t \in Threads |-> FALSE]
  /\ mine = [t \in Threads |-> NoPage]
  /\ want = [t \in Threads |-> FirstPath]
  /\ todo = [t \in Threads |-> {}]
  /\ rest = [t \in Threads |-> {}]

ThreadNext(t) ==
  \/ \E c \in Contexts :
       \/ \E byScript \in BOOLEAN : Open(t, c, byScript)
       \/ SpawnContext(t, c) \/ CloseContext(t, c) \/ NextContext(t, c)
       \/ \E where \in Paths : SetDownload(t, c, where)
  \/ \E p \in Pages : Build(t, p) \/ ClosePage(t, p) \/ TellPage(t, p)
  \/ Admit(t) \/ Push(t) \/ Refuse(t) \/ PushContext(t)
  \/ ShutContext(t) \/ TakePages(t) \/ ContextClosed(t)
  \/ CloseBrowser(t) \/ ListContexts(t)
  \/ ListPages(t) \/ Told(t)

Next == (\E t \in Threads : ThreadNext(t)) \/ (\E p \in Pages : Exit(p))

Spec == Init /\ [][Next]_vars

-----------------------------------------------------------------------------
(***************************************************************************)
(* Properties.                                                             *)
(***************************************************************************)

(* Each list's mutex is held by the thread between its check and its push, *)
(* and by nobody else (the other sections are one step each).              *)
LocksHeld ==
  /\ \A c \in Contexts, t \in Threads : lock[c] = t <=> pc[t] = "pushing" /\ ctx[t] = c
  /\ \A t \in Threads : contextsLock = t <=> pc[t] = "listing"

TypeOK ==
  /\ LocksHeld
  /\ contexts \subseteq Contexts /\ born \subseteq Contexts
  /\ browserClosed \in BOOLEAN
  /\ contextsLock \in Threads \cup {NoOne}
  /\ pages \in [Contexts -> SUBSET Pages]
  /\ closed \in [Contexts -> BOOLEAN]
  /\ lock \in [Contexts -> Threads \cup {NoOne}]
  /\ path \in [Contexts -> Paths]
  /\ state \in [Pages -> {"unbuilt", "running", "asked", "exited"}]
  /\ home \in [Pages -> Contexts]
  /\ saves \in [Pages -> Paths]
  /\ unreached \subseteq Pages
  /\ pc \in [Threads -> {"idle", "building", "built", "pushing", "refusing",
                         "listing", "shutting", "taking", "closing", "browser",
                         "next", "looking", "telling"}]
  /\ ctx \in [Threads -> Contexts]
  /\ script \in [Threads -> BOOLEAN]
  /\ mine \in [Threads -> Pages \cup {NoPage}]
  /\ want \in [Threads -> Paths]
  /\ todo \in [Threads -> SUBSET Pages]
  /\ rest \in [Threads -> SUBSET Contexts]

(* Nobody is opening into this context or closing it. *)
Settled(c) ==
  /\ \A t \in Threads : pc[t] \in {"idle", "looking", "telling", "listing"} \/ ctx[t] # c
  /\ \A t \in Threads : pc[t] \notin {"browser", "next"}

(* No page of a closed context that nobody has asked to stop.              *)
NoPageLeftBehind ==
  \A c \in Contexts : closed[c] /\ Settled(c) =>
    \A p \in Pages : home[p] = c => state[p] # "running"

(* A closed browser has closed every context there is, the one that was    *)
(* being created then included.                                            *)
NoContextLeftBehind ==
  browserClosed /\ (\A t \in Threads : pc[t] = "idle") =>
    \A c \in born : closed[c]

(* Once the calls in flight have returned, nothing that was closed has     *)
(* left a page or a context behind, however a window.open, the creation    *)
(* of a context, a second close and the browser's own close overlapped.    *)
NobodyLeftBehind == NoPageLeftBehind /\ NoContextLeftBehind

(* When nobody is opening a page or setting the behaviour, every page of a *)
(* context saves downloads where the context was last told to, the pages   *)
(* the setter was told it did not reach apart. The code does not keep      *)
(* this: a page that is being built was given the behaviour before.        *)
DownloadsFollowContext ==
  (\A t \in Threads : pc[t] = "idle") =>
    \A c \in Contexts : \A p \in pages[c] :
      state[p] = "running" /\ p \notin unreached => saves[p] = path[c]
=============================================================================
