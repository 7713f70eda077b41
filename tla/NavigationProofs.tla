--------------------------- MODULE NavigationProofs ---------------------------
(***************************************************************************)
(* Proofs about Navigation: type correctness, that loaders name documents, *)
(* that no event is labelled with a load older than its own, that          *)
(* `Page.navigate` does not answer with the loader of the document it      *)
(* replaced, and that a lane which waits for its navigation's end has that *)
(* end before it or has been passed by it (NoWakeUpMissed).                *)
(*                                                                         *)
(* A navigation emits its milestones in a fixed order and navigations are  *)
(* numbered, so every milestone has a place in one order, its Key, and the *)
(* queues between the page and a connection keep it (InOrder).  Because of *)
(* that the queues can be treated as sets from there on: what is still to  *)
(* fold is later than whatever has been folded, and the frame is what the  *)
(* page shows, but for what is still to fold (Tracks).                     *)
(***************************************************************************)
EXTENDS Navigation, SequenceTheorems, TLAPS

-----------------------------------------------------------------------------
(***************************************************************************)
(* The order of milestones.                                                *)
(***************************************************************************)
Rank(kind) ==
  CASE kind = "started" -> 1 [] kind = "requested" -> 2 [] kind = "load" -> 4 [] OTHER -> 3
Key(e) == 5 * e.nav + Rank(e.kind)

\* No milestone so far is later than where the page thread is.
Midway == {"moved", "started", "requested"}
Reached ==
  CASE page.at = "started" -> 1 [] page.at = "moved" \/ page.at = "requested" -> 2
    [] page.at = "loading" -> 3 [] OTHER -> 4
PageKey == 5 * navs + Reached

Elems(s) == {s[i] : i \in 1 .. Len(s)}
InHand(steps) == IF pump.at \in steps THEN {pump.event} ELSE {}
Held == InHand({"fold", "note", "publish"})
Ordered(s) == \A i, j \in 1 .. Len(s) : i < j => Key(s[i]) < Key(s[j])

ToFold == Elems(bus) \cup InHand({"fold"})
ToNote == Elems(bus) \cup InHand({"fold", "note"})
Folded == Elems(signals) \cup InHand({"note", "publish"})

InOrder ==
  /\ Ordered(bus)
  /\ pump.at # "recv" => \A e \in Elems(bus) : Key(pump.event) < Key(e)
  /\ \A e \in Elems(signals) : \A x \in Elems(bus) \cup Held : Key(e) < Key(x)
  /\ \A e \in Elems(signals) \cup Elems(bus) \cup Held : Key(e) <= PageKey

-----------------------------------------------------------------------------
(***************************************************************************)
(* The page thread and its milestones.                                     *)
(***************************************************************************)
MilestoneOK(e) ==
  /\ e.nav \in 0 .. navs
  /\ e.kind # "load" => e.nav > 0
  /\ e.kind \in Endings => e.nav <= ends
  /\ e.kind = "committed" => e.doc = e.nav /\ e.nav <= doc

\* Every navigation ends once, so ends are counted by the navigation's number.
ThreadFits ==
  /\ page.at # "idle" => page.nav = navs /\ navs > 0
  /\ page.at \in Midway => ends = navs - 1 /\ doc < navs
  /\ page.at \notin Midway => ends = navs
  /\ doc <= navs
  /\ page.at = "idle" => page = Idle

PageFits ==
  /\ ThreadFits
  /\ \A e \in Elems(bus) \cup Held : MilestoneOK(e)
  /\ pump.at = "note" => pump.event.kind \in Endings

EndsNoted ==
  /\ ended <= ends
  /\ \A e \in ToNote : e.kind \in Endings => ended < e.nav

-----------------------------------------------------------------------------
(***************************************************************************)
(* The frame and the loaders.                                              *)
(***************************************************************************)
FrameOK ==
  frame \in [loader : 1 .. minted, pending : [loader : 0 .. minted, request : Docs, adopted : BOOLEAN]]

\* Loaders only go up, so a commit's is no other document's.
Upward ==
  /\ InFlight(frame) => frame.pending.loader > frame.loader
  /\ \A d \in Docs : docLoader[d] <= frame.loader
  /\ OneLoaderPerDocument

\* What has been folded is earlier than what is to come.
DocsFolded ==
  /\ \A d \in Docs : docLoader[d] # NoLoader => d <= doc
  /\ \A d \in Docs : \A e \in ToFold : docLoader[d] # NoLoader /\ e.kind = "committed" => d < e.nav

StartsFolded ==
  /\ \A n \in Navs : startLoader[n] # NoLoader => n <= navs
  /\ \A n \in Navs : \A e \in ToFold : startLoader[n] # NoLoader => n <= e.nav
  /\ \A n \in Navs : startLoader[n] <= LoadingLoader(frame) \/ FailedSince(n)

\* The document request's label, from its folding on.
RequestHolds(e) ==
  \/ frame.pending.request = e.nav /\ frame.pending.loader = startLoader[e.nav]
  \/ FailedSince(e.nav)
  \/ minted > startLoader[e.nav] \/ frame.pending.request > e.nav

RequestsHold ==
  /\ alive => \A e \in Folded : e.kind = "requested" => RequestHolds(e)
  /\ \A e \in Folded : e.kind \in {"started", "requested"} => e.nav \in Navs

-----------------------------------------------------------------------------
(***************************************************************************)
(* The frame agrees with the page, but for what is still to fold.          *)
(***************************************************************************)
Relevant(e) == e.kind \in {"started", "requested", "committed", "failed"}
Opening(e) == e.kind \in {"started", "requested"}
Going == page.at \in {"started", "requested"}

FlightTracks ==
  /\ (\A e \in ToFold : ~Relevant(e)) => (InFlight(frame) <=> Going)
  /\ \A e \in ToFold :
       Relevant(e) /\ (\A x \in ToFold : Relevant(x) => Key(x) <= Key(e)) => (Opening(e) <=> Going)

Shows(d) == frame.loader = docLoader[d]
ToCommit(d) == \E e \in ToFold : e.kind = "committed" /\ e.nav = d

\* d is folded in, or replaced already, or still to be folded.
Known(d) == ToCommit(d) \/ \E x \in Docs : x >= d /\ Shows(x)

Tracks == alive /\ ~lost => FlightTracks /\ (Shows(doc) \/ ToCommit(doc))

-----------------------------------------------------------------------------
(***************************************************************************)
(* The lanes.                                                              *)
(***************************************************************************)
\* What is known of the navigation l asked for: its number follows from the
\* ends counted when it began, and its document is folded in or still to be.
CallKnown(l) ==
  /\ lane[l].nav # NoNav => lane[l].nav = lane[l].before + 1 /\ lane[l].doc <= lane[l].nav
  /\ alive => lane[l].seen <= ended
  /\ alive /\ ~lost /\ lane[l].nav # NoNav => Known(lane[l].doc)

\* Where the lane and the page thread are in it.
CallPlaced(l) ==
  /\ lane[l].at \in {"idle", "called"} => lane[l].nav = NoNav
  /\ page.by = l => lane[l].at = "running"
  /\ page.by = l /\ page.first /\ page.at \in Midway => page.nav = lane[l].before + 1
  /\ page.by = l /\ lane[l].nav # NoNav /\ page.outcome # "committed" => lane[l].doc <= lane[l].before
  /\ alive /\ lane[l].at = "read" /\ lane[l].nav # NoNav /\ lane[l].timely =>
       ended > lane[l].seen \/ lane[l].doc <= lane[l].before

CallFits(l) == CallKnown(l) /\ CallPlaced(l)

CallsFit == \A l \in Lanes : CallFits(l)

-----------------------------------------------------------------------------
(***************************************************************************)
(* The type invariant, in parts.                                           *)
(***************************************************************************)
PageRec ==
  [at : {"idle", "moved", "started", "requested", "loading", "ended"},
   kind : {"none", "document", "fragment", "replacement"}, nav : Docs,
   by : Lanes \cup {Nobody}, first : BOOLEAN,
   outcome : {"none", "committed", "failed"}]
LaneRec ==
  [at : {"idle", "called", "running", "wait", "asleep", "read"}, seen : Nat,
   nav : Docs, before : Nat, doc : Docs, timely : BOOLEAN]

PageType ==
  /\ navs \in Docs /\ doc \in Docs /\ ends \in Nat /\ page \in PageRec
  /\ suspended \in BOOLEAN /\ lost \in BOOLEAN /\ alive \in BOOLEAN
QueueType ==
  /\ bus \in Seq(Events) /\ Len(bus) <= Capacity /\ signals \in Seq(Events)
  /\ pump \in [at : {"recv", "fold", "note", "publish"}, event : Events]
RegistryType ==
  /\ minted \in Nat /\ ended \in Nat /\ FrameOK
  /\ startLoader \in [Navs -> 0 .. minted] /\ docLoader \in [Docs -> 0 .. minted]
  /\ failed \subseteq Navs
LaneType == lane \in [Lanes -> LaneRec]

Types == PageType /\ QueueType /\ RegistryType /\ LaneType

IInv ==
  /\ Types /\ InOrder /\ PageFits /\ EndsNoted
  /\ Upward /\ DocsFolded /\ StartsFolded /\ RequestsHold /\ Tracks /\ CallsFit

LEMMA TypesAreTypeOK == Types /\ EndsNoted => TypeOK
BY DEF Types, PageType, QueueType, RegistryType, LaneType, PageRec, LaneRec, FrameOK, EndsNoted, TypeOK

-----------------------------------------------------------------------------
(***************************************************************************)
(* Queues as sets.                                                         *)
(***************************************************************************)
LEMMA ElemsAppend ==
  ASSUME NEW S, NEW s \in Seq(S), NEW x \in S
  PROVE  Elems(Append(s, x)) = Elems(s) \cup {x}
<1>1. Len(Append(s, x)) = Len(s) + 1 /\ Len(s) \in Nat /\ Append(s, x)[Len(s) + 1] = x
  OBVIOUS
<1>2. \A i \in 1 .. Len(s) : Append(s, x)[i] = s[i]
  OBVIOUS
<1> QED BY <1>1, <1>2 DEF Elems

LEMMA ElemsTail ==
  ASSUME NEW S, NEW s \in Seq(S), s # <<>>
  PROVE  Elems(s) = Elems(Tail(s)) \cup {Head(s)} /\ Head(s) \in S /\ Tail(s) \in Seq(S)
<1>1. Len(s) \in Nat \ {0} /\ Len(Tail(s)) = Len(s) - 1 /\ Head(s) = s[1]
  OBVIOUS
<1>2. \A i \in 1 .. Len(s) - 1 : Tail(s)[i] = s[i + 1]
  OBVIOUS
<1>3. Elems(s) \subseteq Elems(Tail(s)) \cup {Head(s)}
  <2> SUFFICES ASSUME NEW i \in 1 .. Len(s) PROVE s[i] \in Elems(Tail(s)) \cup {Head(s)}
    BY DEF Elems
  <2>1. CASE i = 1
    BY <1>1, <2>1
  <2>2. CASE i # 1
    <3>1. i - 1 \in 1 .. Len(Tail(s)) /\ Tail(s)[i - 1] = s[i]
      BY <1>1, <1>2, <2>2
    <3> QED BY <3>1 DEF Elems
  <2> QED BY <2>1, <2>2
<1>4. Elems(Tail(s)) \cup {Head(s)} \subseteq Elems(s)
  <2>1. \A i \in 1 .. Len(Tail(s)) : i + 1 \in 1 .. Len(s) /\ Tail(s)[i] = s[i + 1]
    BY <1>1, <1>2
  <2> QED BY <1>1, <2>1 DEF Elems
<1> QED BY <1>3, <1>4

LEMMA ElemsType ==
  ASSUME NEW S, NEW s \in Seq(S)
  PROVE  Elems(s) \subseteq S
BY DEF Elems

LEMMA KeyType == \A e \in Events : Key(e) \in Nat /\ Rank(e.kind) \in 1 .. 4 /\ e.nav \in Docs
BY NavigationAssumption DEF Key, Rank, Events, Docs

LEMMA OrderedAppend ==
  ASSUME NEW s \in Seq(Events), NEW x \in Events, Ordered(s), \A e \in Elems(s) : Key(e) < Key(x)
  PROVE  Ordered(Append(s, x))
<1>1. Len(Append(s, x)) = Len(s) + 1 /\ Len(s) \in Nat /\ Append(s, x)[Len(s) + 1] = x
  OBVIOUS
<1>2. \A i \in 1 .. Len(s) : Append(s, x)[i] = s[i] /\ Key(s[i]) < Key(x)
  BY DEF Elems
<1> QED BY <1>1, <1>2 DEF Ordered

LEMMA OrderedTail ==
  ASSUME NEW s \in Seq(Events), s # <<>>, Ordered(s)
  PROVE  Ordered(Tail(s)) /\ \A e \in Elems(Tail(s)) : Key(Head(s)) < Key(e)
<1>1. Len(s) \in Nat \ {0} /\ Len(Tail(s)) = Len(s) - 1 /\ Head(s) = s[1]
  OBVIOUS
<1>2. \A i \in 1 .. Len(s) - 1 : Tail(s)[i] = s[i + 1]
  OBVIOUS
<1>3. \A i, j \in 1 .. Len(Tail(s)) : i + 1 \in 1 .. Len(s) /\ (i < j => i + 1 < j + 1)
  BY <1>1
<1>4. Ordered(Tail(s))
  BY <1>1, <1>2, <1>3 DEF Ordered
<1>5. \A i \in 1 .. Len(Tail(s)) : 1 < i + 1 /\ 1 \in 1 .. Len(s) /\ i + 1 \in 1 .. Len(s)
  BY <1>1
<1>6. \A i \in 1 .. Len(Tail(s)) : Key(Head(s)) < Key(Tail(s)[i])
  BY <1>1, <1>2, <1>5 DEF Ordered
<1> QED BY <1>4, <1>6 DEF Elems

-----------------------------------------------------------------------------
(***************************************************************************)
(* What the steps do to the queues: the page sends one milestone, or       *)
(* nothing happens to them, or it is a step of the pump or the connection. *)
(***************************************************************************)
Sends(e) ==
  /\ UNCHANGED <<registryVars, pump, signals>>
  /\ Emit(e)
  /\ PageKey < Key(e) /\ Key(e) <= PageKey'
  /\ e.nav = navs' /\ navs <= navs' /\ MilestoneOK(e)'
  /\ e.kind \in Endings => e.nav = ends + 1
  /\ IF e.kind = "committed" THEN doc' = e.nav /\ doc < e.nav ELSE doc' = doc
  /\ Opening(e) => Going'
  /\ Relevant(e) /\ ~Opening(e) => ~Going'
  /\ ~Relevant(e) => ~Going /\ ~Going'

Silent ==
  /\ UNCHANGED <<registryVars, pump, signals, bus, lost, ends, doc>>
  /\ navs <= navs' /\ PageKey <= PageKey' /\ (Going' <=> Going)

LEMMA LinkSends ==
  ASSUME PageType, ThreadFits, page.at \in {"idle", "ended"},
         NEW kind \in {"document", "fragment", "replacement"}, NEW by \in Lanes \cup {Nobody},
         NEW first \in BOOLEAN, Link(kind, by, first)
  PROVE  /\ (\E e \in Events : Sends(e)) \/ Silent
         /\ ThreadFits' /\ PageType'
<1>1. navs \in Nat /\ navs + 1 \in Docs /\ navs' = navs + 1 /\ ends = navs /\ doc' = doc /\ doc \in Nat /\ ends \in Nat
  BY NavigationAssumption DEF Link, PageType, Docs, ThreadFits, Midway
<1>2. /\ page'.at = (IF kind = "fragment" THEN "moved" ELSE "started") /\ page'.nav = navs + 1
      /\ page' \in PageRec
  BY <1>1 DEF Link, PageType, PageRec
<1>3. CASE kind = "fragment"
  <2>1. UNCHANGED <<registryVars, pump, signals, bus, lost, ends, doc>>
    BY <1>3 DEF Link, PageOnly
  <2>2. PageKey <= PageKey' /\ ~Going /\ ~Going'
    BY <1>1, <1>2, <1>3 DEF PageKey, Reached, Going
  <2>3. ThreadFits'
    BY <1>1, <1>2, <1>3, <2>1 DEF ThreadFits, Midway
  <2>4. PageType'
    BY <1>1, <1>2, <2>1 DEF PageType, Link, registryVars
  <2> QED BY <1>1, <2>1, <2>2, <2>3, <2>4 DEF Silent
<1>4. CASE kind # "fragment"
  <2>0. PICK e \in Events : e = Milestone("started", navs + 1, doc)
    BY <1>1 DEF Milestone, Events, PageType
  <2>1. e.kind = "started" /\ e.nav = navs + 1
    BY <2>0, <1>1 DEF Milestone
  <2>2. Emit(e) /\ UNCHANGED <<registryVars, pump, signals>>
    BY <2>0, <1>4 DEF Link, PageOnly
  <2>3. ends' = ends /\ lost' \in BOOLEAN
    BY <2>1, <2>2 DEF Emit, Endings
  <2>4. Sends(e)
    BY <1>1, <1>2, <1>4, <2>1, <2>2, <2>3
    DEF Sends, Key, Rank, PageKey, Reached, MilestoneOK, Endings, Relevant, Opening, Going
  <2>5. ThreadFits'
    BY <1>1, <1>2, <1>4, <2>3 DEF ThreadFits, Midway
  <2>6. PageType'
    BY <1>1, <1>2, <2>2, <2>3 DEF PageType, Link, registryVars
  <2> QED BY <2>1, <2>4, <2>5, <2>6
<1> QED BY <1>3, <1>4

\* The steps of the page thread within one navigation.
Within == MoveWithin \/ RequestDocument \/ Commit \/ Fail \/ FireLoad

LEMMA WithinSends ==
  ASSUME PageType, ThreadFits, Within
  PROVE  (\E e \in Events : Sends(e)) /\ ThreadFits' /\ PageType'
<1>1. /\ navs \in Nat /\ navs \in Docs /\ page.nav = navs /\ navs > 0 /\ doc \in Nat /\ ends \in Nat
      /\ page \in PageRec
  BY NavigationAssumption DEF Within, MoveWithin, RequestDocument, Commit, Fail, FireLoad, PageType, Docs, ThreadFits
<1>2. navs' = navs /\ suspended' = suspended /\ UNCHANGED <<registryVars, pump, signals>>
  BY DEF Within, MoveWithin, RequestDocument, Commit, Fail, FireLoad, PageOnly
<1>3. CASE MoveWithin
  <2>0. PICK e \in Events : e = Milestone("same", page.nav, doc)
    BY <1>1 DEF Milestone, Events, PageType
  <2>1. e.kind = "same" /\ e.nav = navs /\ Emit(e) /\ doc' = doc
    BY <2>0, <1>1, <1>3 DEF MoveWithin, Milestone
  <2>2. page.at = "moved" /\ page'.at = "ended" /\ page'.nav = page.nav /\ page' \in PageRec
    BY <1>1, <1>3 DEF MoveWithin, PageRec
  <2>3. ends' = ends + 1 /\ lost' \in BOOLEAN
    BY <2>1 DEF Emit, Endings
  <2>4. Sends(e)
    BY <1>1, <1>2, <2>1, <2>2, <2>3
    DEF Sends, Key, Rank, PageKey, Reached, MilestoneOK, Endings, Relevant, Opening, Going, ThreadFits, Midway
  <2> QED BY <1>1, <1>2, <2>1, <2>2, <2>3, <2>4 DEF ThreadFits, Midway, PageType, registryVars
<1>4. CASE RequestDocument
  <2>0. PICK e \in Events : e = Milestone("requested", page.nav, doc)
    BY <1>1 DEF Milestone, Events, PageType
  <2>1. e.kind = "requested" /\ e.nav = navs /\ Emit(e) /\ doc' = doc
    BY <2>0, <1>1, <1>4 DEF RequestDocument, Milestone
  <2>2. page.at = "started" /\ page'.at = "requested" /\ page'.nav = page.nav /\ page' \in PageRec
    BY <1>1, <1>4 DEF RequestDocument, PageRec
  <2>3. ends' = ends /\ lost' \in BOOLEAN
    BY <2>1 DEF Emit, Endings
  <2>4. Sends(e)
    BY <1>1, <1>2, <2>1, <2>2, <2>3
    DEF Sends, Key, Rank, PageKey, Reached, MilestoneOK, Endings, Relevant, Opening, Going, ThreadFits, Midway
  <2> QED BY <1>1, <1>2, <2>1, <2>2, <2>3, <2>4 DEF ThreadFits, Midway, PageType, registryVars
<1>5. CASE Commit
  <2>0. PICK e \in Events : e = Milestone("committed", page.nav, page.nav)
    BY <1>1 DEF Milestone, Events, PageType
  <2>1. e.kind = "committed" /\ e.nav = navs /\ e.doc = navs /\ Emit(e) /\ doc' = navs
    BY <2>0, <1>1, <1>5 DEF Commit, Milestone
  <2>2. page.at \in {"started", "requested"} /\ page'.at = "loading" /\ page'.nav = page.nav /\ page' \in PageRec
    BY <1>1, <1>5 DEF Commit, PageRec
  <2>3. ends' = ends + 1 /\ lost' \in BOOLEAN
    BY <2>1 DEF Emit, Endings
  <2>4. Sends(e)
    BY <1>1, <1>2, <2>1, <2>2, <2>3
    DEF Sends, Key, Rank, PageKey, Reached, MilestoneOK, Endings, Relevant, Opening, Going, ThreadFits, Midway
  <2> QED BY <1>1, <1>2, <2>1, <2>2, <2>3, <2>4 DEF ThreadFits, Midway, PageType, registryVars
<1>6. CASE Fail
  <2>0. PICK e \in Events : e = Milestone("failed", page.nav, doc)
    BY <1>1 DEF Milestone, Events, PageType
  <2>1. e.kind = "failed" /\ e.nav = navs /\ Emit(e) /\ doc' = doc
    BY <2>0, <1>1, <1>6 DEF Fail, Milestone
  <2>2. page.at \in {"started", "requested"} /\ page'.at = "ended" /\ page'.nav = page.nav /\ page' \in PageRec
    BY <1>1, <1>6 DEF Fail, PageRec
  <2>3. ends' = ends + 1 /\ lost' \in BOOLEAN
    BY <2>1 DEF Emit, Endings
  <2>4. Sends(e)
    BY <1>1, <1>2, <2>1, <2>2, <2>3
    DEF Sends, Key, Rank, PageKey, Reached, MilestoneOK, Endings, Relevant, Opening, Going, ThreadFits, Midway
  <2> QED BY <1>1, <1>2, <2>1, <2>2, <2>3, <2>4 DEF ThreadFits, Midway, PageType, registryVars
<1>7. CASE FireLoad
  <2>0. PICK e \in Events : e = Milestone("load", page.nav, doc)
    BY <1>1 DEF Milestone, Events, PageType
  <2>1. e.kind = "load" /\ e.nav = navs /\ Emit(e) /\ doc' = doc
    BY <2>0, <1>1, <1>7 DEF FireLoad, Milestone
  <2>2. page.at = "loading" /\ page'.at = "ended" /\ page'.nav = page.nav /\ page' \in PageRec
    BY <1>1, <1>7 DEF FireLoad, PageRec
  <2>3. ends' = ends /\ lost' \in BOOLEAN
    BY <2>1 DEF Emit, Endings
  <2>4. Sends(e)
    BY <1>1, <1>2, <2>1, <2>2, <2>3
    DEF Sends, Key, Rank, PageKey, Reached, MilestoneOK, Endings, Relevant, Opening, Going, ThreadFits, Midway
  <2> QED BY <1>1, <1>2, <2>1, <2>2, <2>3, <2>4 DEF ThreadFits, Midway, PageType, registryVars
<1> QED BY <1>3, <1>4, <1>5, <1>6, <1>7 DEF Within

\* A step that leaves the page thread where it is.
LEMMA PageStill ==
  ASSUME UNCHANGED <<navs, page, doc, ends>>
  PROVE  PageKey' = PageKey /\ (Going' <=> Going) /\ (ThreadFits => ThreadFits')
BY DEF PageKey, Reached, Going, ThreadFits, Midway

LaneStep(l) ==
  \/ QueueFor(l) \/ CountEnds(l) \/ CallFails(l) \/ EndWait(l) \/ Sleep(l)
  \/ OtherTargetNotifies(l) \/ WaitTimesOut(l) \/ Answer(l)

LEMMA LaneStepIsSilent ==
  ASSUME PageType, NEW l, LaneStep(l)
  PROVE  Silent /\ UNCHANGED <<navs, page, doc, ends, suspended>>
<1>1. UNCHANGED <<pageVars, bus, registryVars, pump, signals>>
  BY DEF LaneStep, QueueFor, CountEnds, CallFails, EndWait, Sleep, OtherTargetNotifies, WaitTimesOut, Answer, PageOnly, LaneOnly
<1>2. navs \in Nat
  BY NavigationAssumption DEF PageType, Docs
<1>3. PageKey \in Nat
  BY <1>2 DEF PageKey, Reached
<1> QED BY <1>1, <1>2, <1>3, PageStill DEF Silent, pageVars

PageMoves ==
  \/ \E e \in Events : Sends(e)
  \/ Silent

Elsewhere ==
  /\ Receive \/ FoldEvent \/ FoldNothing \/ NoteNavigationEnded \/ Publish \/ Destroy \/ Dispatch
  /\ UNCHANGED <<navs, page, doc, ends, suspended, lost>>

LEMMA StepKinds ==
  ASSUME PageType, ThreadFits, [Next]_vars
  PROVE  (PageMoves \/ Elsewhere) /\ ThreadFits' /\ PageType'
<1>0. PageKey \in Nat /\ navs \in Nat
  BY NavigationAssumption DEF PageKey, Reached, PageType, Docs
<1>1. CASE Within
  BY <1>1, WithinSends DEF PageMoves
<1>2. ASSUME NEW l \in Lanes, NavigateFor(l)
      PROVE  PageMoves /\ ThreadFits' /\ PageType'
  <2>1. PICK kind \in {"document", "fragment"} : Link(kind, l, TRUE)
    BY <1>2 DEF NavigateFor
  <2> QED BY <1>2, <2>1, LinkSends DEF NavigateFor, PageMoves
<1>3. CASE NavigateItself
  BY <1>3, LinkSends DEF NavigateItself, PageMoves
<1>4. CASE Chain
  <2>1. PICK kind \in {"document", "fragment", "replacement"} : Link(kind, page.by, FALSE)
    BY <1>4 DEF Chain
  <2>2. page.by \in Lanes \cup {Nobody}
    BY DEF PageType, PageRec
  <2> QED BY <1>4, <2>1, <2>2, LinkSends DEF Chain, PageMoves
<1>5. CASE FinishChain
  <2>1. /\ page.at = "ended" /\ page' = Idle /\ UNCHANGED <<navs, doc, ends, suspended, lost, bus>>
        /\ UNCHANGED <<registryVars, pump, signals>>
    BY <1>5 DEF FinishChain, PageOnly
  <2>2. Idle \in PageRec /\ Idle.at = "idle"
    BY NavigationAssumption DEF Idle, PageRec, Docs, NoNav
  <2>3. Silent
    BY <1>0, <2>1, <2>2 DEF Silent, PageKey, Reached, Going
  <2> QED BY <2>1, <2>2, <2>3 DEF PageMoves, ThreadFits, Midway, PageType, registryVars
<1>6. CASE Resume
  <2>1. UNCHANGED <<navs, page, doc, ends, lost, bus>> /\ UNCHANGED <<registryVars, pump, signals>> /\ suspended' = FALSE
    BY <1>6 DEF Resume, PageOnly
  <2>2. Silent
    BY <1>0, <2>1, PageStill DEF Silent
  <2> QED BY <2>1, <2>2, PageStill DEF PageMoves, PageType, registryVars
<1>7. ASSUME NEW l \in Lanes, LaneStep(l)
      PROVE  PageMoves /\ ThreadFits' /\ PageType'
  <2>1. Silent /\ UNCHANGED <<navs, page, doc, ends, suspended>>
    BY <1>7, LaneStepIsSilent
  <2> QED BY <2>1, PageStill DEF PageMoves, PageType, Silent, registryVars
<1>8. CASE Receive \/ FoldEvent \/ FoldNothing \/ NoteNavigationEnded \/ Publish \/ Destroy \/ Dispatch
  <2>1. UNCHANGED <<navs, page, doc, ends, suspended, lost>>
    BY <1>8 DEF Receive, FoldEvent, FoldNothing, NoteNavigationEnded, Publish, Destroy, Dispatch, PumpOnly, pageVars
  <2>2. alive' \in BOOLEAN
    BY <1>8 DEF Receive, FoldEvent, FoldNothing, NoteNavigationEnded, Publish, Destroy, Dispatch, PumpOnly, registryVars, PageType
  <2> QED BY <1>8, <2>1, <2>2, PageStill DEF Elsewhere, PageType
<1>9. CASE UNCHANGED vars
  <2>1. Silent /\ UNCHANGED <<navs, page, doc, ends, suspended>>
    BY <1>0, <1>9, PageStill DEF Silent, vars, pageVars
  <2> QED BY <2>1, PageStill DEF PageMoves, PageType, Silent, registryVars
<1> QED
  BY <1>1, <1>2, <1>3, <1>4, <1>5, <1>6, <1>7, <1>8, <1>9 DEF Next, PageStep, PumpStep, Within, LaneStep

-----------------------------------------------------------------------------
(***************************************************************************)
(* The queues keep their type and their order.                             *)
(***************************************************************************)
LEMMA EmitQueues ==
  ASSUME QueueType, lost \in BOOLEAN, NEW e \in Events, Emit(e)
  PROVE  /\ bus' \in Seq(Events) /\ Len(bus') <= Capacity /\ lost' \in BOOLEAN
         /\ \/ bus' = Append(bus, e) /\ Elems(bus') = Elems(bus) \cup {e} /\ lost' = lost
            \/ bus' = bus /\ lost'
<1>1. bus \in Seq(Events) /\ Len(bus) \in Nat /\ Len(bus) <= Capacity /\ Capacity \in Nat
  BY NavigationAssumption DEF QueueType
<1>2. CASE Len(bus) < Capacity
  <2>1. bus' = Append(bus, e) /\ lost' = lost
    BY <1>1, <1>2 DEF Emit
  <2>2. Append(bus, e) \in Seq(Events) /\ Len(Append(bus, e)) = Len(bus) + 1
    BY <1>1
  <2> QED BY <1>1, <1>2, <2>1, <2>2, ElemsAppend
<1>3. CASE ~(Len(bus) < Capacity)
  <2>1. Len(bus) >= Capacity /\ bus' = bus
    BY <1>1, <1>3 DEF Emit
  <2>2. lost' = TRUE
    BY <2>1 DEF Emit
  <2> QED BY <1>1, <2>1, <2>2
<1> QED BY <1>2, <1>3

LEMMA ReceiveQueues ==
  ASSUME QueueType, Receive
  PROVE  /\ bus \in Seq(Events) /\ bus # <<>> /\ bus' = Tail(bus) /\ bus' \in Seq(Events) /\ Len(bus') <= Capacity
         /\ pump.at = "recv" /\ pump' = [at |-> "fold", event |-> Head(bus)]
         /\ pump'.at = "fold" /\ pump'.event = Head(bus) /\ pump'.event \in Events
         /\ Elems(bus) = Elems(bus') \cup {pump'.event}
         /\ ToFold' = ToFold /\ ToNote' = ToNote /\ Folded' = Folded
<1>1. bus \in Seq(Events) /\ bus # <<>> /\ bus' = Tail(bus) /\ pump.at = "recv" /\ UNCHANGED signals
      /\ pump' = [at |-> "fold", event |-> Head(bus)]
  BY DEF Receive, QueueType
<1>2. Elems(bus) = Elems(Tail(bus)) \cup {Head(bus)} /\ Head(bus) \in Events /\ Tail(bus) \in Seq(Events)
  BY <1>1, ElemsTail
<1>3. Len(Tail(bus)) <= Capacity
  <2>1. Len(bus) \in Nat /\ Len(bus) <= Capacity /\ Len(Tail(bus)) = Len(bus) - 1 /\ Capacity \in Nat
    BY <1>1, NavigationAssumption DEF QueueType
  <2> QED BY <2>1
<1> QED BY <1>1, <1>2, <1>3 DEF ToFold, ToNote, Folded, InHand

LEMMA FoldQueues ==
  ASSUME QueueType, FoldEvent \/ FoldNothing
  PROVE  /\ pump.at = "fold" /\ pump'.event = pump.event /\ pump.event \in Events
         /\ pump' = [pump EXCEPT !.at = AfterFold(pump.event)]
         /\ pump'.at = (IF pump.event.kind \in Endings THEN "note" ELSE "publish")
         /\ UNCHANGED <<bus, signals>>
         /\ ToFold = ToFold' \cup {pump.event} /\ ToFold' = Elems(bus)
         /\ ToNote' \subseteq ToNote
         /\ Folded' = Folded \cup {pump.event}
<1>1. /\ pump.at = "fold" /\ pump' = [pump EXCEPT !.at = AfterFold(pump.event)]
      /\ pump \in [at : {"recv", "fold", "note", "publish"}, event : Events]
      /\ UNCHANGED <<bus, signals>>
  BY DEF FoldEvent, FoldNothing, QueueType
<1>2. pump'.event = pump.event /\ pump'.at = (IF pump.event.kind \in Endings THEN "note" ELSE "publish")
  BY <1>1 DEF AfterFold
<1> QED BY <1>1, <1>2 DEF ToFold, ToNote, Folded, InHand

LEMMA NoteQueues ==
  ASSUME QueueType, NoteNavigationEnded
  PROVE  /\ pump.at = "note" /\ pump'.at = "publish" /\ pump'.event = pump.event /\ pump.event \in Events
         /\ pump' = [pump EXCEPT !.at = "publish"]
         /\ UNCHANGED <<bus, signals>>
         /\ ToFold' = ToFold /\ ToNote = ToNote' \cup {pump.event} /\ Folded' = Folded
<1>1. /\ pump.at = "note" /\ pump' = [pump EXCEPT !.at = "publish"]
      /\ pump \in [at : {"recv", "fold", "note", "publish"}, event : Events]
      /\ UNCHANGED <<bus, signals>>
  BY DEF NoteNavigationEnded, QueueType
<1> QED BY <1>1 DEF ToFold, ToNote, Folded, InHand

LEMMA PublishQueues ==
  ASSUME QueueType, Publish
  PROVE  /\ pump.at = "publish" /\ pump' = Listening /\ pump'.at = "recv" /\ pump.event \in Events
         /\ bus' = bus /\ signals' = Append(signals, pump.event)
         /\ signals' \in Seq(Events) /\ Elems(signals') = Elems(signals) \cup {pump.event}
         /\ ToFold' = ToFold /\ ToNote' = ToNote /\ Folded' = Folded
<1>1. /\ pump.at = "publish" /\ pump' = Listening /\ pump'.at = "recv" /\ bus' = bus
      /\ signals' = Append(signals, pump.event) /\ signals \in Seq(Events)
      /\ pump \in [at : {"recv", "fold", "note", "publish"}, event : Events]
  BY DEF Publish, QueueType, Listening
<1>2. Elems(signals') = Elems(signals) \cup {pump.event} /\ pump.event \in Events /\ signals' \in Seq(Events)
  BY <1>1, ElemsAppend
<1> QED BY <1>1, <1>2 DEF ToFold, ToNote, Folded, InHand

LEMMA DispatchQueues ==
  ASSUME QueueType, Dispatch
  PROVE  /\ UNCHANGED <<bus, pump>> /\ signals' \in Seq(Events) /\ Elems(signals') \subseteq Elems(signals)
         /\ signals # <<>> /\ Head(signals) \in Elems(signals)
         /\ ToFold' = ToFold /\ ToNote' = ToNote /\ Folded' \subseteq Folded
<1>1. UNCHANGED <<bus, pump>> /\ signals # <<>> /\ signals \in Seq(Events) /\ signals' = Tail(signals)
  BY DEF Dispatch, QueueType
<1>2. Elems(signals) = Elems(signals') \cup {Head(signals)} /\ signals' \in Seq(Events)
  BY <1>1, ElemsTail
<1> QED BY <1>1, <1>2 DEF ToFold, ToNote, Folded, InHand

LEMMA DestroyQueues ==
  ASSUME Destroy
  PROVE  UNCHANGED <<bus, signals, pump>> /\ ToFold' = ToFold /\ ToNote' = ToNote /\ Folded' = Folded
<1>1. UNCHANGED <<bus, signals, pump>>
  BY DEF Destroy
<1> QED BY <1>1 DEF ToFold, ToNote, Folded, InHand

LEMMA SilentQueues ==
  ASSUME Silent
  PROVE  UNCHANGED <<bus, signals, pump>> /\ ToFold' = ToFold /\ ToNote' = ToNote /\ Folded' = Folded
<1>1. UNCHANGED <<bus, signals, pump>>
  BY DEF Silent
<1> QED BY <1>1 DEF ToFold, ToNote, Folded, InHand

LEMMA SendQueues ==
  ASSUME QueueType, lost \in BOOLEAN, NEW e \in Events, Sends(e)
  PROVE  /\ bus' \in Seq(Events) /\ Len(bus') <= Capacity /\ UNCHANGED <<signals, pump>>
         /\ \/ /\ bus' = Append(bus, e) /\ Elems(bus') = Elems(bus) \cup {e} /\ lost' = lost
               /\ ToFold' = ToFold \cup {e} /\ ToNote' = ToNote \cup {e}
            \/ bus' = bus /\ lost' /\ ToFold' = ToFold /\ ToNote' = ToNote
         /\ Folded' = Folded
<1>1. Emit(e) /\ UNCHANGED <<signals, pump>>
  BY DEF Sends
<1>2. /\ bus' \in Seq(Events) /\ Len(bus') <= Capacity
      /\ \/ bus' = Append(bus, e) /\ Elems(bus') = Elems(bus) \cup {e} /\ lost' = lost
         \/ bus' = bus /\ lost'
  BY <1>1, EmitQueues
<1> QED BY <1>1, <1>2 DEF ToFold, ToNote, Folded, InHand

LEMMA QueueKept ==
  ASSUME QueueType, PageType, PageMoves \/ Elsewhere
  PROVE  QueueType'
<1>0. PageType => lost \in BOOLEAN
  BY DEF PageType
<1>1. CASE \E e \in Events : Sends(e)
  BY <1>0, <1>1, SendQueues DEF QueueType
<1>2. CASE Silent
  BY <1>2, SilentQueues DEF QueueType
<1>3. CASE Receive
  BY <1>3, ReceiveQueues DEF QueueType, Receive
<1>4. CASE FoldEvent \/ FoldNothing
  <2>1. pump' = [pump EXCEPT !.at = AfterFold(pump.event)] /\ AfterFold(pump.event) \in {"note", "publish"}
        /\ UNCHANGED <<bus, signals>>
    BY <1>4, FoldQueues DEF AfterFold
  <2> QED BY <2>1 DEF QueueType
<1>5. CASE NoteNavigationEnded
  BY <1>5, NoteQueues DEF QueueType
<1>6. CASE Publish
  <2>1. Listening \in [at : {"recv", "fold", "note", "publish"}, event : Events]
    BY NavigationAssumption DEF Listening, Milestone, Events, Docs, NoNav
  <2> QED BY <1>6, <2>1, PublishQueues DEF QueueType
<1>7. CASE Dispatch
  BY <1>7, DispatchQueues DEF QueueType
<1>8. CASE Destroy
  BY <1>8, DestroyQueues DEF QueueType
<1> QED BY <1>1, <1>2, <1>3, <1>4, <1>5, <1>6, <1>7, <1>8 DEF PageMoves, Elsewhere

LEMMA OrderKept ==
  ASSUME QueueType, PageType, PageType', InOrder, PageMoves \/ Elsewhere
  PROVE  InOrder'
<1>0. /\ PageKey \in Nat /\ lost \in BOOLEAN /\ bus \in Seq(Events)
      /\ Elems(bus) \subseteq Events /\ Elems(signals) \subseteq Events /\ Held \subseteq Events
  BY NavigationAssumption, ElemsType DEF PageKey, Reached, PageType, QueueType, Docs, Held, InHand
<1>1. ASSUME NEW e \in Events, Sends(e)
      PROVE  InOrder'
  <2>1. Key(e) \in Nat /\ PageKey < Key(e) /\ Key(e) <= PageKey' /\ PageKey' \in Nat
    <3>1. Key(e) \in Nat /\ PageKey < Key(e) /\ Key(e) <= PageKey'
      BY <1>1, KeyType DEF Sends
    <3>2. navs' \in Nat
      BY <1>1, KeyType, NavigationAssumption DEF Sends, Docs
    <3> QED BY <3>1, <3>2 DEF PageKey, Reached
  <2>2. UNCHANGED <<signals, pump>> /\ Held' = Held
    BY <1>1 DEF Sends, Held, InHand
  <2>3. \A x \in Elems(signals) \cup Elems(bus) \cup Held : Key(x) \in Nat /\ Key(x) <= PageKey
    BY <1>0, KeyType DEF InOrder
  <2>4. CASE bus' = Append(bus, e) /\ Elems(bus') = Elems(bus) \cup {e}
    <3>1. \A x \in Elems(signals) \cup Elems(bus) \cup Held : Key(x) < Key(e) /\ Key(x) <= PageKey'
      BY <1>0, <2>1, <2>3
    <3>2. Ordered(bus')
      BY <1>0, <2>4, <3>1, OrderedAppend DEF InOrder
    <3>3. pump.at # "recv" => pump.event \in Held
      BY DEF QueueType, Held, InHand
    <3> QED BY <2>1, <2>2, <2>4, <3>1, <3>2, <3>3 DEF InOrder
  <2>5. CASE bus' = bus
    <3>1. \A x \in Elems(signals) \cup Elems(bus) \cup Held : Key(x) <= PageKey'
      BY <1>0, <2>1, <2>3
    <3> QED BY <2>2, <2>5, <3>1 DEF InOrder
  <2> QED BY <1>0, <1>1, <2>4, <2>5, SendQueues
<1>2. CASE Silent
  <2>1. UNCHANGED <<bus, signals, pump>> /\ PageKey <= PageKey' /\ Held' = Held
    BY <1>2 DEF Silent, Held, InHand
  <2>2. PageKey' \in Nat
    BY NavigationAssumption DEF PageKey, Reached, PageType, Docs
  <2>3. \A x \in Elems(signals) \cup Elems(bus) \cup Held : Key(x) <= PageKey'
    BY <1>0, <2>1, <2>2, KeyType DEF InOrder
  <2> QED BY <2>1, <2>3 DEF InOrder
<1>3. CASE Elsewhere
  <2>0. PageKey' = PageKey
    BY <1>3, PageStill DEF Elsewhere
  <2>1. CASE Receive
    <3>1. /\ pump.at = "recv" /\ bus # <<>> /\ bus' = Tail(bus) /\ pump'.at = "fold" /\ pump'.event = Head(bus)
          /\ Elems(bus) = Elems(bus') \cup {pump'.event} /\ UNCHANGED signals
      BY <2>1, ReceiveQueues DEF Receive
    <3>2. Ordered(bus') /\ \A e \in Elems(bus') : Key(pump'.event) < Key(e)
      BY <1>0, <3>1, OrderedTail DEF InOrder
    <3>3. Held' = {pump'.event}
      BY <3>1 DEF Held, InHand
    <3> QED BY <2>0, <3>1, <3>2, <3>3 DEF InOrder
  <2>2. CASE FoldEvent \/ FoldNothing \/ NoteNavigationEnded
    <3>1. pump'.event = pump.event /\ UNCHANGED <<bus, signals>> /\ pump.at # "recv"
          /\ pump.at \in {"fold", "note"} /\ pump'.at \in {"note", "publish"}
      BY <2>2, FoldQueues, NoteQueues
    <3>2. Held' = Held
      BY <3>1 DEF Held, InHand
    <3> QED BY <2>0, <3>1, <3>2 DEF InOrder
  <2>3. CASE Publish
    <3>1. /\ pump.at = "publish" /\ pump'.at = "recv" /\ bus' = bus
          /\ Elems(signals') = Elems(signals) \cup {pump.event} /\ Held = {pump.event} /\ Held' = {}
      BY <2>3, PublishQueues DEF Held, InHand
    <3> QED BY <2>0, <3>1 DEF InOrder
  <2>4. CASE Dispatch
    <3>1. UNCHANGED <<bus, pump>> /\ Elems(signals') \subseteq Elems(signals) /\ Held' = Held
      BY <2>4, DispatchQueues DEF Held, InHand
    <3> QED BY <2>0, <3>1 DEF InOrder
  <2>5. CASE Destroy
    BY <2>0, <2>5, DestroyQueues DEF InOrder, Held, InHand
  <2> QED BY <1>3, <2>1, <2>2, <2>3, <2>4, <2>5 DEF Elsewhere
<1> QED BY <1>1, <1>2, <1>3 DEF PageMoves

-----------------------------------------------------------------------------
(***************************************************************************)
(* The page thread's milestones, and the count of ends.                    *)
(***************************************************************************)
LEMMA PageFitsKept ==
  ASSUME QueueType, PageType, PageType', PageFits, ThreadFits', PageMoves \/ Elsewhere
  PROVE  PageFits'
<1>0. /\ navs \in Nat /\ navs' \in Nat /\ ends \in Nat /\ ends' \in Nat /\ doc \in Nat /\ doc' \in Nat /\ lost \in BOOLEAN
      /\ bus \in Seq(Events) /\ Elems(bus) \cup Held \subseteq Events
  BY NavigationAssumption, ElemsType DEF PageType, QueueType, Docs, Held, InHand
<1>1. ASSUME navs <= navs', ends <= ends', doc <= doc', NEW x \in Events, MilestoneOK(x)
      PROVE  MilestoneOK(x)'
  <2>1. x.nav \in Nat
    BY <1>1, KeyType, NavigationAssumption DEF Docs
  <2> QED BY <1>0, <1>1, <2>1 DEF MilestoneOK
<1>2. ASSUME NEW e \in Events, Sends(e)
      PROVE  PageFits'
  <2>1. navs <= navs' /\ doc <= doc' /\ MilestoneOK(e)' /\ UNCHANGED pump /\ Held' = Held
    <3>1. navs <= navs' /\ MilestoneOK(e)' /\ UNCHANGED pump
      BY <1>2 DEF Sends
    <3>2. doc <= doc'
      BY <1>0, <1>2 DEF Sends
    <3> QED BY <3>1, <3>2 DEF Held, InHand
  <2>2. ends <= ends'
    BY <1>0, <1>2 DEF Sends, Emit
  <2>3. Elems(bus') \subseteq Elems(bus) \cup {e}
    BY <1>0, <1>2, SendQueues
  <2>4. \A x \in Elems(bus) \cup Held : MilestoneOK(x)'
    BY <1>0, <1>1, <2>1, <2>2 DEF PageFits
  <2> QED BY <2>1, <2>3, <2>4 DEF PageFits
<1>3. CASE Silent
  <2>1. navs <= navs' /\ ends <= ends' /\ doc <= doc' /\ UNCHANGED <<bus, pump>> /\ Held' = Held
    BY <1>0, <1>3 DEF Silent, Held, InHand
  <2> QED BY <1>0, <1>1, <2>1 DEF PageFits
<1>4. CASE Elsewhere
  <2>0. UNCHANGED <<navs, ends, doc>>
    BY <1>4 DEF Elsewhere
  <2>1. \A x : MilestoneOK(x) => MilestoneOK(x)'
    BY <2>0 DEF MilestoneOK
  <2>2. CASE Receive
    <3>1. Elems(bus) = Elems(bus') \cup {pump'.event} /\ pump'.at = "fold" /\ Held' = {pump'.event}
      BY <2>2, ReceiveQueues DEF Held, InHand
    <3> QED BY <2>1, <3>1 DEF PageFits
  <2>3. CASE FoldEvent \/ FoldNothing
    <3>1. /\ pump'.event = pump.event /\ pump.at = "fold" /\ UNCHANGED bus
          /\ pump'.at = IF pump.event.kind \in Endings THEN "note" ELSE "publish"
      BY <2>3, FoldQueues
    <3>2. Held' = Held
      BY <3>1 DEF Held, InHand
    <3> QED BY <2>1, <3>1, <3>2 DEF PageFits
  <2>4. CASE NoteNavigationEnded
    <3>1. pump'.event = pump.event /\ pump.at = "note" /\ pump'.at = "publish" /\ UNCHANGED bus /\ Held' = Held
      BY <2>4, NoteQueues DEF Held, InHand
    <3> QED BY <2>1, <3>1 DEF PageFits
  <2>5. CASE Publish
    <3>1. bus' = bus /\ pump'.at = "recv" /\ Held' = {}
      BY <2>5, PublishQueues DEF Held, InHand
    <3> QED BY <2>1, <3>1 DEF PageFits
  <2>6. CASE Dispatch \/ Destroy
    <3>1. UNCHANGED <<bus, pump>> /\ Held' = Held
      BY <2>6 DEF Dispatch, Destroy, Held, InHand
    <3> QED BY <2>1, <3>1 DEF PageFits
  <2> QED BY <1>4, <2>2, <2>3, <2>4, <2>5, <2>6 DEF Elsewhere
<1> QED BY <1>2, <1>3, <1>4 DEF PageMoves

LEMMA EndsKept ==
  ASSUME QueueType, PageType, ended \in Nat, InOrder, PageFits, EndsNoted, PageMoves \/ Elsewhere
  PROVE  EndsNoted' /\ ended' \in Nat
<1>0. /\ ends \in Nat /\ lost \in BOOLEAN /\ bus \in Seq(Events)
      /\ \A e \in ToNote : e \in Events /\ e.nav \in Nat /\ (e.kind \in Endings => e.nav <= ends)
  <2>1. bus \in Seq(Events) /\ Elems(bus) \cup Held \subseteq Events /\ ToNote \subseteq Elems(bus) \cup Held
    BY ElemsType DEF QueueType, Held, InHand, ToNote
  <2> QED BY <2>1, KeyType, NavigationAssumption DEF PageType, Docs, PageFits, MilestoneOK
<1>1. ASSUME NEW e \in Events, Sends(e)
      PROVE  EndsNoted' /\ ended' \in Nat
  <2>1. ended' = ended /\ ends <= ends' /\ ends' \in Nat /\ (e.kind \in Endings => e.nav = ends + 1)
    BY <1>0, <1>1 DEF Sends, Emit, registryVars
  <2>2. ToNote' \subseteq ToNote \cup {e}
    BY <1>0, <1>1, SendQueues
  <2> QED BY <1>0, <2>1, <2>2 DEF EndsNoted
<1>2. CASE Silent
  BY <1>2, SilentQueues DEF Silent, registryVars, EndsNoted
<1>3. CASE Receive \/ FoldEvent \/ FoldNothing \/ Publish \/ Dispatch
  <2>1. ended' = ended /\ ends' = ends
    BY <1>3 DEF Receive, FoldEvent, FoldNothing, Publish, Dispatch, PumpOnly, pageVars, registryVars
  <2>2. ToNote' \subseteq ToNote
    BY <1>3, ReceiveQueues, FoldQueues, PublishQueues, DispatchQueues
  <2> QED BY <2>1, <2>2 DEF EndsNoted
<1>4. CASE NoteNavigationEnded
  <2> DEFINE e == pump.event
  <2>1. /\ ended' \in {ended, ended + 1} /\ ends' = ends
        /\ pump.at = "note" /\ ToNote = ToNote' \cup {e} /\ ToNote' = Elems(bus)
    BY <1>4, NoteQueues DEF NoteNavigationEnded, pageVars, ToNote, InHand
  <2>2. e.kind \in Endings /\ ended < e.nav /\ e.nav <= ends /\ e.nav \in Nat
    BY <1>0, <2>1 DEF EndsNoted, PageFits
  <2>3. ended' <= ends' /\ ended' <= e.nav /\ ended' \in Nat
    BY <1>0, <2>1, <2>2
  <2>4. \A x \in ToNote' : x.kind \in Endings => e.nav < x.nav
    <3> SUFFICES ASSUME NEW x \in Elems(bus), x.kind \in Endings
                 PROVE  e.nav < x.nav
      BY <2>1
    <3>1. x \in Events /\ x.nav \in Nat
      BY <1>0, <2>1
    <3>2. Key(e) < Key(x) /\ Rank(e.kind) = 3 /\ Rank(x.kind) = 3
      BY <2>1, <2>2 DEF InOrder, Rank, Endings
    <3> QED BY <2>2, <3>1, <3>2 DEF Key
  <2>5. \A x \in ToNote' : x.kind \in Endings => ended' < x.nav
    BY <1>0, <2>1, <2>2, <2>3, <2>4
  <2> QED BY <2>3, <2>5 DEF EndsNoted
<1>5. CASE Destroy
  <2>1. ended' = 0 /\ ends' = ends /\ ToNote' = ToNote
    BY <1>5, DestroyQueues DEF Destroy, PumpOnly, pageVars
  <2> QED BY <1>0, <2>1 DEF EndsNoted
<1> QED BY <1>1, <1>2, <1>3, <1>4, <1>5 DEF PageMoves, Elsewhere

-----------------------------------------------------------------------------
(***************************************************************************)
(* What the folding of a milestone does to the frame.                      *)
(***************************************************************************)
Started == frame'.loader = frame.loader /\ frame'.pending.loader = minted + 1 /\ InFlight(frame)' /\ minted' = minted + 1

Requested(nav) ==
  /\ frame'.loader = frame.loader /\ InFlight(frame)' /\ frame'.pending.request = nav
  /\ \/ InFlight(frame) /\ frame'.pending.loader = frame.pending.loader /\ minted' = minted
     \/ ~InFlight(frame) /\ frame'.pending.loader = minted + 1 /\ minted' = minted + 1

Committed ==
  /\ ~InFlight(frame)'
  /\ frame'.pending.loader = frame.pending.loader /\ frame'.pending.request = frame.pending.request
  /\ \/ InFlight(frame) /\ frame'.loader = frame.pending.loader /\ minted' = minted
     \/ ~InFlight(frame) /\ frame'.loader = minted + 1 /\ minted' = minted + 1

Failed == frame'.loader = frame.loader /\ ~InFlight(frame)' /\ minted' = minted

LEMMA FoldFrame ==
  ASSUME RegistryType, Upward, FoldEvent, pump.event \in Events
  PROVE  /\ FrameOK' /\ minted' \in Nat /\ minted <= minted'
         /\ pump.event.kind = "started" => Started
         /\ pump.event.kind = "requested" => Requested(pump.event.nav)
         /\ pump.event.kind = "committed" => Committed
         /\ pump.event.kind = "failed" => Failed
         /\ pump.event.kind \in {"same", "load"} => frame' = frame /\ minted' = minted
<1> DEFINE e == pump.event
<1>0. /\ minted \in Nat /\ frame.loader \in 1 .. minted /\ frame.pending.loader \in 0 .. minted
      /\ frame.pending.request \in Docs /\ frame.pending.adopted \in BOOLEAN
      /\ frame \in [loader : 1 .. minted, pending : [loader : 0 .. minted, request : Docs, adopted : BOOLEAN]]
      /\ e.nav \in Docs /\ NoNav \in Docs
      /\ e.kind \in {"started", "requested", "committed", "same", "failed", "load"}
  BY NavigationAssumption DEF RegistryType, FrameOK, Events, Docs, NoNav
<1>1. frame' = Fold(e) /\ minted' = IF minted + 1 \in {frame'.loader, frame'.pending.loader} THEN minted + 1 ELSE minted
  BY DEF FoldEvent
<1> HIDE DEF e
<1>2. CASE e.kind = "started"
  <2>1. frame' = [frame EXCEPT !.pending = [loader |-> minted + 1, request |-> NoNav, adopted |-> FALSE]]
    BY <1>1, <1>2 DEF Fold, BeginNavigation
  <2>2. frame'.loader = frame.loader /\ frame'.pending = [loader |-> minted + 1, request |-> NoNav, adopted |-> FALSE]
    BY <1>0, <2>1
  <2>3. minted' = minted + 1
    BY <1>1, <2>2
  <2>4. [loader |-> minted + 1, request |-> NoNav, adopted |-> FALSE] \in [loader : 0 .. minted', request : Docs, adopted : BOOLEAN]
    BY <1>0, <2>3
  <2>5. frame.loader \in 1 .. minted'
    BY <1>0, <2>3
  <2>6. FrameOK'
    BY <1>0, <2>1, <2>4, <2>5 DEF FrameOK
  <2> QED BY <1>0, <1>2, <2>2, <2>3, <2>6 DEF Started, InFlight, e
<1>3. CASE e.kind = "requested"
  <2>1. CASE InFlight(frame)
    <3>1. frame' = [frame EXCEPT !.pending.request = e.nav]
      BY <1>1, <1>3, <2>1 DEF Fold, BeginDocumentLoad
    <3>2. /\ frame'.loader = frame.loader /\ frame'.pending.loader = frame.pending.loader
          /\ frame'.pending.request = e.nav /\ frame'.pending.adopted = frame.pending.adopted
      BY <1>0, <3>1
    <3>3. minted' = minted
      BY <1>0, <1>1, <3>2
    <3>4. FrameOK'
      BY <1>0, <3>1, <3>3 DEF FrameOK
    <3> QED BY <1>0, <1>3, <2>1, <3>2, <3>3, <3>4 DEF Requested, InFlight, e
  <2>2. CASE ~InFlight(frame)
    <3>1. frame' = [frame EXCEPT !.pending = [loader |-> minted + 1, request |-> e.nav, adopted |-> FALSE]]
      BY <1>1, <1>3, <2>2 DEF Fold, BeginDocumentLoad
    <3>2. frame'.loader = frame.loader /\ frame'.pending = [loader |-> minted + 1, request |-> e.nav, adopted |-> FALSE]
      BY <1>0, <3>1
    <3>3. minted' = minted + 1
      BY <1>1, <3>2
    <3>4. [loader |-> minted + 1, request |-> e.nav, adopted |-> FALSE] \in [loader : 0 .. minted', request : Docs, adopted : BOOLEAN]
      BY <1>0, <3>3
    <3>5. frame.loader \in 1 .. minted'
      BY <1>0, <3>3
    <3>6. FrameOK'
      BY <1>0, <3>1, <3>4, <3>5 DEF FrameOK
    <3> QED BY <1>0, <1>3, <2>2, <3>2, <3>3, <3>6 DEF Requested, InFlight, e
  <2> QED BY <2>1, <2>2
<1>4. CASE e.kind = "committed"
  <2>1. CASE InFlight(frame)
    <3>1. frame' = [frame EXCEPT !.loader = frame.pending.loader, !.pending.adopted = TRUE]
      BY <1>1, <1>4, <2>1 DEF Fold, CommitLoader
    <3>2. /\ frame'.loader = frame.pending.loader /\ frame'.pending.loader = frame.pending.loader
          /\ frame'.pending.request = frame.pending.request /\ frame'.pending.adopted = TRUE
      BY <1>0, <3>1
    <3>3. minted' = minted
      BY <1>0, <1>1, <3>2
    <3>4. frame.pending.loader \in 1 .. minted
      BY <1>0, <2>1 DEF Upward
    <3>5. FrameOK'
      BY <1>0, <3>1, <3>3, <3>4 DEF FrameOK
    <3> QED BY <1>0, <1>4, <2>1, <3>2, <3>3, <3>5 DEF Committed, InFlight, e
  <2>2. CASE ~InFlight(frame)
    <3>1. frame' = [frame EXCEPT !.loader = minted + 1]
      BY <1>1, <1>4, <2>2 DEF Fold, CommitLoader
    <3>2. frame'.loader = minted + 1 /\ frame'.pending = frame.pending
      BY <1>0, <3>1
    <3>3. minted' = minted + 1
      BY <1>1, <3>2
    <3>4. FrameOK'
      BY <1>0, <3>1, <3>3 DEF FrameOK
    <3> QED BY <1>0, <1>4, <2>2, <3>2, <3>3, <3>4 DEF Committed, InFlight, e
  <2> QED BY <2>1, <2>2
<1>5. CASE e.kind = "failed"
  <2>1. CASE InFlight(frame)
    <3>1. frame' = [frame EXCEPT !.pending = NoLoad]
      BY <1>1, <1>5, <2>1 DEF Fold, AbandonNavigation
    <3>2. frame'.loader = frame.loader /\ frame'.pending = NoLoad
      BY <1>0, <3>1
    <3>3. NoLoad.adopted = TRUE /\ NoLoad \in [loader : 0 .. minted, request : Docs, adopted : BOOLEAN] /\ NoLoad.loader = 0
      BY <1>0 DEF NoLoad, NoLoader
    <3>4. minted' = minted
      BY <1>0, <1>1, <3>2, <3>3
    <3>5. FrameOK'
      BY <1>0, <3>1, <3>3, <3>4 DEF FrameOK
    <3> QED BY <1>0, <1>5, <3>2, <3>3, <3>4, <3>5 DEF Failed, InFlight, e
  <2>2. CASE ~InFlight(frame)
    <3>1. frame' = frame
      BY <1>1, <1>5, <2>2 DEF Fold, AbandonNavigation
    <3>2. minted' = minted
      BY <1>0, <1>1, <3>1
    <3> QED BY <1>0, <1>5, <2>2, <3>1, <3>2 DEF Failed, InFlight, FrameOK, e
  <2> QED BY <2>1, <2>2
<1>6. CASE e.kind \in {"same", "load"}
  <2>1. frame' = frame
    BY <1>1, <1>6 DEF Fold
  <2>2. minted' = minted
    BY <1>0, <1>1, <2>1
  <2> QED BY <1>0, <1>6, <2>1, <2>2 DEF FrameOK, e
<1> QED BY <1>0, <1>2, <1>3, <1>4, <1>5, <1>6

\* What it does to the history.
LEMMA FoldHistory ==
  ASSUME RegistryType, FoldEvent, pump.event \in Events, NEW e, e = pump.event
  PROVE  /\ alive /\ alive' = alive /\ ended' = ended
         /\ Opening(e) /\ e.nav \in Navs => startLoader'[e.nav] = frame'.pending.loader
         /\ \A n \in Navs : ~Opening(e) \/ n # e.nav => startLoader'[n] = startLoader[n]
         /\ e.kind = "committed" => docLoader'[e.nav] = frame'.loader
         /\ \A d \in Docs : e.kind # "committed" \/ d # e.nav => docLoader'[d] = docLoader[d]
         /\ failed' = IF e.kind = "failed" THEN failed \cup {e.nav} ELSE failed
<1>1. startLoader \in [Navs -> 0 .. minted] /\ docLoader \in [Docs -> 0 .. minted] /\ e.nav \in Docs
  BY DEF RegistryType, Events
<1>2. /\ alive /\ UNCHANGED <<alive, ended>>
      /\ startLoader' = IF Opening(e) THEN [startLoader EXCEPT ![e.nav] = frame'.pending.loader] ELSE startLoader
      /\ docLoader' = IF e.kind = "committed" THEN [docLoader EXCEPT ![e.nav] = frame'.loader] ELSE docLoader
      /\ failed' = IF e.kind = "failed" THEN failed \cup {e.nav} ELSE failed
  BY DEF FoldEvent, Opening
<1> QED BY <1>1, <1>2

LEMMA RegistryKept ==
  ASSUME QueueType, PageType, RegistryType, PageFits, Upward, EndsNoted', ended' \in Nat, PageMoves \/ Elsewhere
  PROVE  RegistryType'
<1>1. CASE PageMoves \/ Receive \/ FoldNothing \/ Publish \/ Dispatch
  <2>1. UNCHANGED <<minted, ended, frame, startLoader, docLoader, failed>>
    BY <1>1 DEF PageMoves, Sends, Silent, Receive, FoldNothing, Publish, Dispatch, registryVars
  <2> QED BY <2>1 DEF RegistryType, FrameOK
<1>2. CASE NoteNavigationEnded
  BY <1>2 DEF NoteNavigationEnded, RegistryType, FrameOK
<1>3. CASE FoldEvent
  <2>1. PICK e \in Events : e = pump.event
    BY <1>3, FoldQueues
  <2>2. FrameOK' /\ minted' \in Nat /\ minted <= minted' /\ minted \in Nat
    BY <1>3, <2>1, FoldFrame DEF RegistryType
  <2>3. frame'.pending.loader \in 0 .. minted' /\ frame'.loader \in 0 .. minted'
    BY <2>2 DEF FrameOK
  <2>4. startLoader \in [Navs -> 0 .. minted'] /\ docLoader \in [Docs -> 0 .. minted']
    BY <2>2 DEF RegistryType
  <2>5. startLoader' \in [Navs -> 0 .. minted'] /\ docLoader' \in [Docs -> 0 .. minted']
    BY <1>3, <2>3, <2>4 DEF FoldEvent
  <2>6. failed' \subseteq Navs
    <3>1. e.kind = "failed" => e.nav \in Navs
      <4>1. pump.at = "fold" /\ e \in Held
        BY <1>3, <2>1, FoldQueues DEF Held, InHand
      <4> QED BY <4>1, NavigationAssumption DEF PageFits, MilestoneOK, PageType, Docs, Navs
    <3> QED BY <1>3, <2>1, <3>1, FoldHistory DEF RegistryType
  <2> QED BY <2>2, <2>5, <2>6 DEF RegistryType
<1>4. CASE Destroy
  <2>1. NoLoad \in [loader : 0 .. minted, request : Docs, adopted : BOOLEAN] /\ minted \in Nat /\ 1 \in 1 .. minted
    <3>1. minted \in Nat /\ frame.loader \in 1 .. minted
      BY DEF RegistryType, FrameOK
    <3> QED BY <3>1, NavigationAssumption DEF NoLoad, NoLoader, NoNav, Docs
  <2> QED BY <1>4, <2>1 DEF Destroy, RegistryType, FrameOK, NoLoader
<1> QED BY <1>1, <1>2, <1>3, <1>4 DEF Elsewhere

-----------------------------------------------------------------------------
(***************************************************************************)
(* Loaders go up, and what has been folded is earlier than what is to come.*)
(***************************************************************************)
Loaders == Upward /\ DocsFolded /\ StartsFolded /\ RequestsHold

\* The registry stands still: only the queues have moved.
LEMMA LoadersStand ==
  ASSUME Loaders, UNCHANGED <<frame, minted, startLoader, docLoader, failed>>, navs <= navs', doc <= doc',
         PageType, PageType', alive' = alive, ToFold' \subseteq ToFold, Folded' \subseteq Folded
  PROVE  Loaders'
<1>0. navs \in Nat /\ navs' \in Nat /\ doc \in Nat /\ doc' \in Nat /\ \A d \in Docs \cup Navs : d \in Nat
  BY NavigationAssumption DEF PageType, Docs, Navs
<1>1. Upward'
  BY DEF Loaders, Upward, OneLoaderPerDocument, InFlight
<1>2. DocsFolded'
  BY <1>0 DEF Loaders, DocsFolded
<1>3. StartsFolded'
  BY <1>0 DEF Loaders, StartsFolded, LoadingLoader, InFlight, FailedSince
<1>4. RequestsHold'
  BY DEF Loaders, RequestsHold, RequestHolds, FailedSince
<1> QED BY <1>1, <1>2, <1>3, <1>4 DEF Loaders

LEMMA LoadersSend ==
  ASSUME Loaders, QueueType, PageType, PageType', NEW e \in Events, Sends(e)
  PROVE  Loaders'
<1>0. /\ navs \in Nat /\ navs' \in Nat /\ doc \in Nat /\ doc' \in Nat /\ \A d \in Docs \cup Navs : d \in Nat
      /\ e.nav = navs' /\ navs <= navs' /\ doc <= doc' /\ (e.kind = "committed" => doc < e.nav)
      /\ UNCHANGED <<alive, frame, minted, startLoader, docLoader, failed>>
  BY NavigationAssumption DEF PageType, Docs, Navs, Sends, registryVars
<1>1. ToFold' \subseteq ToFold \cup {e} /\ Folded' = Folded
  BY SendQueues DEF PageType
<1>2. Upward'
  BY <1>0 DEF Loaders, Upward, OneLoaderPerDocument, InFlight
<1>3. DocsFolded'
  BY <1>0, <1>1 DEF Loaders, DocsFolded
<1>4. StartsFolded'
  BY <1>0, <1>1 DEF Loaders, StartsFolded, LoadingLoader, InFlight, FailedSince
<1>5. RequestsHold'
  BY <1>0, <1>1 DEF Loaders, RequestsHold, RequestHolds, FailedSince
<1> QED BY <1>2, <1>3, <1>4, <1>5 DEF Loaders

\* The milestone in the pump's hand comes before all that is still to fold,
\* and after all that has been folded.
LEMMA FoldFirst ==
  ASSUME QueueType, PageType, PageFits, InOrder, FoldEvent, NEW e, e = pump.event
  PROVE  /\ e \in Events /\ e \in ToFold /\ MilestoneOK(e)
         /\ \A x \in ToFold' : x \in Events /\ x \in ToFold /\ Key(e) < Key(x)
         /\ \A x \in Folded : x \in Events /\ Key(x) < Key(e)
         /\ ToFold = ToFold' \cup {e} /\ Folded' = Folded \cup {e}
<1>1. /\ pump.at = "fold" /\ e \in Events /\ ToFold = ToFold' \cup {e} /\ ToFold' = Elems(bus)
      /\ Folded' = Folded \cup {e} /\ Folded = Elems(signals)
  BY FoldQueues DEF Folded, InHand
<1>2. Elems(bus) \subseteq Events /\ Elems(signals) \subseteq Events
  BY ElemsType DEF QueueType
<1>3. e \in Held
  BY <1>1 DEF Held, InHand
<1> QED BY <1>1, <1>2, <1>3 DEF InOrder, PageFits

LEMMA UpwardFolds ==
  ASSUME RegistryType, Upward, FoldEvent, pump.event \in Events
  PROVE  Upward'
<1>0. PICK e \in Events : e = pump.event
  OBVIOUS
<1>1. /\ minted \in Nat /\ frame.loader \in 1 .. minted /\ frame.pending.loader \in 0 .. minted
      /\ docLoader \in [Docs -> 0 .. minted] /\ e.nav \in Docs
  BY <1>0 DEF RegistryType, FrameOK, Events
<1>2. CASE e.kind = "started"
  <2>1. Started /\ \A d \in Docs : docLoader'[d] = docLoader[d]
    BY <1>0, <1>2, FoldFrame, FoldHistory
  <2> QED BY <1>1, <2>1 DEF Upward, OneLoaderPerDocument, Started
<1>3. CASE e.kind = "requested"
  <2>1. Requested(e.nav) /\ \A d \in Docs : docLoader'[d] = docLoader[d]
    BY <1>0, <1>3, FoldFrame, FoldHistory
  <2> QED BY <1>1, <2>1 DEF Upward, OneLoaderPerDocument, Requested
<1>4. CASE e.kind = "committed"
  <2>1. Committed /\ docLoader'[e.nav] = frame'.loader /\ \A d \in Docs \ {e.nav} : docLoader'[d] = docLoader[d]
    BY <1>0, <1>4, FoldFrame, FoldHistory
  <2>2. frame'.loader > frame.loader /\ frame'.loader \in Nat
    BY <1>1, <2>1 DEF Committed, Upward
  <2>3. \A d \in Docs : d # e.nav => docLoader'[d] \in Nat /\ docLoader'[d] < docLoader'[e.nav]
    BY <1>1, <2>1, <2>2 DEF Upward
  <2>4. OneLoaderPerDocument'
    BY <1>1, <2>1, <2>2, <2>3 DEF Upward, OneLoaderPerDocument
  <2> QED BY <1>1, <2>1, <2>2, <2>3, <2>4 DEF Upward, Committed
<1>5. CASE e.kind = "failed"
  <2>1. Failed /\ \A d \in Docs : docLoader'[d] = docLoader[d]
    BY <1>0, <1>5, FoldFrame, FoldHistory
  <2> QED BY <1>1, <2>1 DEF Upward, OneLoaderPerDocument, Failed
<1>6. CASE e.kind \in {"same", "load"}
  <2>1. frame' = frame /\ \A d \in Docs : docLoader'[d] = docLoader[d]
    BY <1>0, <1>6, FoldFrame, FoldHistory
  <2> QED BY <1>1, <2>1 DEF Upward, OneLoaderPerDocument, InFlight
<1> QED BY <1>2, <1>3, <1>4, <1>5, <1>6 DEF Events

LEMMA LoadersFold ==
  ASSUME Types, PageFits, InOrder, Loaders, FoldEvent
  PROVE  Loaders'
<1>0. PICK e \in Events : e = pump.event
  BY FoldQueues DEF Types
<1>1. /\ e \in ToFold /\ MilestoneOK(e) /\ ToFold = ToFold' \cup {e} /\ Folded' = Folded \cup {e}
      /\ \A x \in ToFold' : x \in Events /\ Key(e) < Key(x)
      /\ \A x \in Folded : x \in Events /\ Key(x) < Key(e)
  BY <1>0, FoldFirst DEF Types
<1>2. /\ minted \in Nat /\ frame.loader \in 1 .. minted /\ frame.pending.loader \in 0 .. minted
      /\ frame.pending.request \in Nat
      /\ docLoader \in [Docs -> 0 .. minted] /\ startLoader \in [Navs -> 0 .. minted] /\ e.nav \in Docs
      /\ \A d \in Docs \cup Navs : d \in Nat
      /\ navs \in Nat /\ doc \in Nat /\ UNCHANGED <<navs, doc>> /\ alive
      /\ failed \subseteq Navs
  <2>1. \A d \in Docs \cup Navs : d \in Nat
    BY NavigationAssumption DEF Docs, Navs
  <2>2. /\ minted \in Nat /\ frame.loader \in 1 .. minted /\ frame.pending.loader \in 0 .. minted
        /\ frame.pending.request \in Docs
        /\ docLoader \in [Docs -> 0 .. minted] /\ startLoader \in [Navs -> 0 .. minted] /\ failed \subseteq Navs
    BY DEF Types, RegistryType, FrameOK
  <2>3. e.nav \in Docs /\ navs \in Docs /\ doc \in Docs
    BY DEF Types, PageType, Events
  <2>4. UNCHANGED <<navs, doc>> /\ alive
    BY DEF FoldEvent, PumpOnly, pageVars
  <2> QED BY <2>1, <2>2, <2>3, <2>4
<1>3. Upward'
  BY <1>0, UpwardFolds DEF Types, Loaders
<1>4. /\ minted' \in Nat /\ minted <= minted'
      /\ e.kind = "started" => Started
      /\ e.kind = "requested" => Requested(e.nav)
      /\ e.kind = "committed" => Committed
      /\ e.kind = "failed" => Failed
      /\ e.kind \in {"same", "load"} => frame' = frame /\ minted' = minted
  BY <1>0, FoldFrame DEF Types, Loaders
<1>5. /\ Opening(e) /\ e.nav \in Navs => startLoader'[e.nav] = frame'.pending.loader
      /\ \A n \in Navs : ~Opening(e) \/ n # e.nav => startLoader'[n] = startLoader[n]
      /\ \A d \in Docs : e.kind # "committed" \/ d # e.nav => docLoader'[d] = docLoader[d]
      /\ failed' = IF e.kind = "failed" THEN failed \cup {e.nav} ELSE failed
  BY <1>0, FoldHistory DEF Types
<1>6. /\ e.kind # "load" => e.nav \in Navs
      /\ e.nav <= navs /\ e.nav \in Nat /\ (e.kind = "committed" => e.nav <= doc)
  BY <1>1, <1>2, NavigationAssumption DEF MilestoneOK, Docs, Navs
<1>7. \A x \in ToFold' :
        /\ x.nav \in Nat /\ e.nav <= x.nav
        /\ Rank(x.kind) <= Rank(e.kind) => e.nav < x.nav
  BY <1>1, <1>2, KeyType DEF Key
<1>8. DocsFolded'
  <2>1. \A d \in Docs : docLoader'[d] # NoLoader => docLoader[d] # NoLoader \/ (e.kind = "committed" /\ d = e.nav)
    BY <1>5
  <2>2. \A d \in Docs : docLoader'[d] # NoLoader => d <= doc'
    BY <1>2, <1>6, <2>1 DEF Loaders, DocsFolded
  <2>3. \A x \in ToFold' : x.kind = "committed" /\ e.kind = "committed" => e.nav < x.nav
    BY <1>7 DEF Rank
  <2>4. \A d \in Docs : \A x \in ToFold' : docLoader'[d] # NoLoader /\ x.kind = "committed" => d < x.nav
    BY <1>1, <2>1, <2>3 DEF Loaders, DocsFolded
  <2> QED BY <2>2, <2>4 DEF DocsFolded
<1>9. StartsFolded'
  <2>1. \A n \in Navs : startLoader'[n] # NoLoader => startLoader[n] # NoLoader \/ n = e.nav
    BY <1>5
  <2>2. \A n \in Navs : startLoader'[n] # NoLoader => n <= navs'
    BY <1>2, <1>6, <2>1 DEF Loaders, StartsFolded
  <2>3. \A n \in Navs : \A x \in ToFold' : startLoader'[n] # NoLoader => n <= x.nav
    BY <1>1, <1>7, <2>1 DEF Loaders, StartsFolded
  <2>4. \A n \in Navs : startLoader'[n] <= LoadingLoader(frame)' \/ FailedSince(n)'
    <3> SUFFICES ASSUME NEW n \in Navs PROVE startLoader'[n] <= LoadingLoader(frame)' \/ FailedSince(n)'
      OBVIOUS
    <3>0. /\ startLoader[n] \in 0 .. minted
          /\ startLoader[n] <= LoadingLoader(frame) \/ FailedSince(n)
          /\ FailedSince(n) => FailedSince(n)'
      BY <1>2, <1>5 DEF Loaders, StartsFolded, FailedSince
    <3>1. CASE Opening(e)
      <4>1. InFlight(frame)' /\ LoadingLoader(frame)' = frame'.pending.loader
        BY <1>4, <3>1 DEF Opening, Started, Requested, LoadingLoader
      <4>2. CASE n = e.nav
        <5>1. startLoader'[n] = frame'.pending.loader /\ frame'.pending.loader \in Nat
          BY <1>2, <1>4, <1>5, <3>1, <4>2 DEF Opening, Started, Requested
        <5> QED BY <4>1, <5>1
      <4>3. CASE n # e.nav
        <5>1. startLoader'[n] = startLoader[n]
          BY <1>5, <4>3
        <5>2. LoadingLoader(frame) <= LoadingLoader(frame)' /\ LoadingLoader(frame) \in Nat /\ LoadingLoader(frame)' \in Nat
          BY <1>2, <1>4, <3>1, <4>1 DEF Opening, Started, Requested, LoadingLoader
        <5> QED BY <3>0, <5>1, <5>2
      <4> QED BY <4>2, <4>3
    <3>2. CASE e.kind = "committed"
      <4>1. startLoader'[n] = startLoader[n]
        BY <1>5, <3>2 DEF Opening
      <4>2. LoadingLoader(frame)' = frame'.loader
        BY <1>4, <3>2 DEF Committed, LoadingLoader
      <4>3. LoadingLoader(frame) <= LoadingLoader(frame)' /\ LoadingLoader(frame) \in Nat /\ LoadingLoader(frame)' \in Nat
        BY <1>2, <1>4, <3>2, <4>2 DEF Committed, LoadingLoader
      <4> QED BY <3>0, <4>1, <4>3
    <3>3. CASE e.kind = "failed"
      <4>1. startLoader'[n] = startLoader[n] /\ e.nav \in failed'
        BY <1>5, <3>3 DEF Opening
      <4>2. CASE startLoader[n] = NoLoader
        <5>1. LoadingLoader(frame)' = frame.loader
          BY <1>4, <3>3 DEF Failed, LoadingLoader
        <5> QED BY <1>2, <4>1, <4>2, <5>1 DEF NoLoader
      <4>3. CASE startLoader[n] # NoLoader
        <5>1. n <= e.nav
          BY <1>1, <4>3 DEF Loaders, StartsFolded
        <5> QED BY <1>2, <1>6, <4>1, <5>1 DEF FailedSince
      <4> QED BY <4>2, <4>3
    <3>4. CASE e.kind \in {"same", "load"}
      BY <1>4, <1>5, <3>0, <3>4 DEF Opening, LoadingLoader, InFlight
    <3> QED BY <3>1, <3>2, <3>3, <3>4 DEF Events, Opening
  <2> QED BY <2>2, <2>3, <2>4 DEF StartsFolded
<1>10. RequestsHold'
  <2>1. \A x \in Folded' : x.kind \in {"started", "requested"} => x.nav \in Navs
    BY <1>1, <1>6 DEF Loaders, RequestsHold
  <2>2. e.kind = "requested" => RequestHolds(e)'
    BY <1>4, <1>5, <1>6 DEF RequestHolds, Requested, Opening
  <2>3. ASSUME NEW x \in Folded, x.kind = "requested"
        PROVE  RequestHolds(x)'
    <3>0. x \in Events /\ x.nav \in Navs /\ x.nav \in Nat /\ Key(x) < Key(e) /\ RequestHolds(x)
          /\ startLoader[x.nav] \in 0 .. minted
      BY <1>1, <1>2, <2>3 DEF Loaders, RequestsHold
    <3>1. x.nav <= e.nav /\ (Rank(e.kind) <= 2 => x.nav < e.nav)
      BY <1>6, <2>3, <3>0, KeyType DEF Key, Rank
    <3>2. FailedSince(x.nav) => FailedSince(x.nav)'
      BY <1>5 DEF FailedSince
    <3>3. CASE e.kind = "started"
      <4>1. startLoader'[x.nav] = startLoader[x.nav] /\ minted' = minted + 1
        BY <1>4, <1>5, <1>6, <3>0, <3>1, <3>3 DEF Rank, Started
      <4> QED BY <1>2, <3>0, <4>1 DEF RequestHolds
    <3>4. CASE e.kind = "requested"
      BY <1>4, <1>6, <3>0, <3>1, <3>4 DEF Rank, Requested, RequestHolds
    <3>5. CASE e.kind = "failed"
      BY <1>2, <1>5, <1>6, <3>0, <3>1, <3>5 DEF RequestHolds, FailedSince
    <3>6. CASE e.kind \in {"committed", "same", "load"}
      <4>1. startLoader'[x.nav] = startLoader[x.nav]
        BY <1>5, <3>0, <3>6 DEF Opening
      <4>2. frame'.pending.loader = frame.pending.loader /\ frame'.pending.request = frame.pending.request
        BY <1>4, <3>6 DEF Committed
      <4> QED BY <1>2, <1>4, <3>0, <3>2, <4>1, <4>2 DEF RequestHolds
    <3> QED BY <3>3, <3>4, <3>5, <3>6 DEF Events
  <2> QED BY <1>1, <2>1, <2>2, <2>3 DEF RequestsHold
<1> QED BY <1>3, <1>8, <1>9, <1>10 DEF Loaders

LEMMA LoadersDestroyed ==
  ASSUME Types, Loaders, Destroy
  PROVE  Loaders'
<1>1. /\ frame' = [loader |-> 1, pending |-> NoLoad]
      /\ \A n \in Navs : startLoader'[n] = 0
      /\ \A d \in Docs : docLoader'[d] = 0
      /\ UNCHANGED <<navs, doc, minted>> /\ ToFold' = ToFold /\ Folded' = Folded /\ ~alive'
  BY DestroyQueues DEF Destroy, NoLoader, PumpOnly, pageVars
<1>2. frame'.loader = 1 /\ ~InFlight(frame)' /\ LoadingLoader(frame)' = 1
  BY <1>1 DEF NoLoad, InFlight, LoadingLoader
<1>3. Upward'
  BY <1>1, <1>2 DEF Upward, OneLoaderPerDocument, NoLoader
<1>4. DocsFolded' /\ StartsFolded'
  BY <1>1, <1>2 DEF DocsFolded, StartsFolded, NoLoader
<1>5. RequestsHold'
  BY <1>1 DEF Loaders, RequestsHold
<1> QED BY <1>3, <1>4, <1>5 DEF Loaders

LEMMA LoadersKept ==
  ASSUME Types, PageType', PageFits, InOrder, Loaders, PageMoves \/ Elsewhere
  PROVE  Loaders'
<1>0. navs \in Nat /\ doc \in Nat
  BY NavigationAssumption DEF Types, PageType, Docs
<1>1. CASE \E e \in Events : Sends(e)
  BY <1>1, LoadersSend DEF Types
<1>2. CASE Silent
  BY <1>0, <1>2, SilentQueues, LoadersStand DEF Silent, registryVars, Types
<1>3. CASE Receive \/ FoldNothing \/ NoteNavigationEnded \/ Publish \/ Dispatch
  <2>1. UNCHANGED <<alive, frame, minted, startLoader, docLoader, failed, navs, doc>>
    BY <1>3 DEF Receive, FoldNothing, NoteNavigationEnded, Publish, Dispatch, PumpOnly, pageVars, registryVars
  <2>2. ToFold' \subseteq ToFold
    BY <1>3, ReceiveQueues, FoldQueues, NoteQueues, PublishQueues, DispatchQueues DEF Types
  <2>3. CASE ~FoldNothing
    <3>1. Folded' \subseteq Folded
      BY <1>3, <2>3, ReceiveQueues, NoteQueues, PublishQueues, DispatchQueues DEF Types
    <3> QED BY <1>0, <2>1, <2>2, <3>1, LoadersStand DEF Types
  <2>4. CASE FoldNothing
    <3>1. ~alive /\ Folded' = Folded \cup {pump.event} /\ pump.at = "fold"
      BY <2>4, FoldQueues DEF FoldNothing, Types
    <3>2. MilestoneOK(pump.event) /\ pump.event.nav \in Docs
      BY <3>1 DEF PageFits, Held, InHand, Types, QueueType, Events
    <3>3. pump.event.kind \in {"started", "requested"} => pump.event.nav \in Navs
      BY <3>2, NavigationAssumption DEF MilestoneOK, Docs, Navs
    <3>4. RequestsHold'
      BY <2>1, <3>1, <3>3 DEF Loaders, RequestsHold
    <3>5. DocsFolded'
      BY <2>1, <2>2 DEF Loaders, DocsFolded
    <3>6. StartsFolded'
      BY <2>1, <2>2 DEF Loaders, StartsFolded, LoadingLoader, InFlight, FailedSince
    <3>7. Upward'
      BY <2>1 DEF Loaders, Upward, OneLoaderPerDocument, InFlight
    <3> QED BY <3>4, <3>5, <3>6, <3>7 DEF Loaders
  <2> QED BY <2>3, <2>4
<1>4. CASE FoldEvent
  BY <1>4, LoadersFold
<1>5. CASE Destroy
  BY <1>5, LoadersDestroyed
<1> QED BY <1>1, <1>2, <1>3, <1>4, <1>5 DEF PageMoves, Elsewhere

-----------------------------------------------------------------------------
(***************************************************************************)
(* The frame keeps up with the page.                                       *)
(***************************************************************************)
LEMMA TracksKept ==
  ASSUME Types, PageType', PageFits, InOrder, Loaders, Tracks, PageMoves \/ Elsewhere
  PROVE  Tracks'
<1>0. /\ lost \in BOOLEAN /\ doc \in Docs /\ ToFold \subseteq Events
      /\ \A x \in ToFold : Key(x) \in Nat /\ Key(x) <= PageKey
      /\ PageKey \in Nat
  <2>1. ToFold \subseteq Elems(bus) \cup Held /\ Elems(bus) \subseteq Events /\ Held \subseteq Events
    BY ElemsType DEF ToFold, Held, InHand, Types, QueueType
  <2> QED BY <2>1, KeyType, NavigationAssumption DEF InOrder, PageKey, Reached, Types, PageType, Docs
<1>1. ASSUME NEW e \in Events, Sends(e)
      PROVE  Tracks'
  <2> SUFFICES ASSUME alive', ~lost' PROVE FlightTracks' /\ (Shows(doc) \/ ToCommit(doc))'
    BY DEF Tracks
  <2>1. /\ UNCHANGED <<frame, docLoader, alive>> /\ ToFold' = ToFold \cup {e} /\ lost' = lost
    BY <1>0, <1>1, SendQueues DEF Sends, registryVars, Types
  <2>2. FlightTracks /\ (Shows(doc) \/ ToCommit(doc))
    BY <1>0, <2>1 DEF Tracks
  <2>3. \A x \in ToFold : Key(x) < Key(e)
    BY <1>0, <1>1, KeyType DEF Sends
  <2>4. Key(e) \in Nat
    BY KeyType
  <2>5. FlightTracks'
    <3>1. ASSUME \A x \in ToFold' : ~Relevant(x)
          PROVE  (InFlight(frame) <=> Going)'
      BY <1>1, <2>1, <2>2, <3>1 DEF FlightTracks, Sends, InFlight
    <3>2. ASSUME NEW x \in ToFold', Relevant(x), \A y \in ToFold' : Relevant(y) => Key(y) <= Key(x)
          PROVE  Opening(x) <=> Going'
      <4>1. CASE x = e
        BY <1>1, <3>2, <4>1 DEF Sends
      <4>2. CASE x # e
        <5>1. x \in ToFold /\ Key(x) < Key(e) /\ Key(x) \in Nat
          BY <1>0, <2>1, <2>3, <4>2
        <5>2. ~Relevant(e)
          BY <2>1, <2>4, <3>2, <5>1
        <5>3. ~Going /\ ~Going'
          BY <1>1, <5>2 DEF Sends
        <5>4. \A y \in ToFold : Relevant(y) => Key(y) <= Key(x)
          BY <2>1, <3>2
        <5> QED BY <2>2, <3>2, <5>1, <5>3, <5>4 DEF FlightTracks
      <4> QED BY <4>1, <4>2
    <3> QED BY <3>1, <3>2 DEF FlightTracks, Relevant, Opening
  <2>6. (Shows(doc) \/ ToCommit(doc))'
    <3>1. CASE e.kind = "committed"
      BY <1>1, <2>1, <3>1 DEF Sends, ToCommit
    <3>2. CASE e.kind # "committed"
      BY <1>1, <2>1, <2>2, <3>2 DEF Sends, ToCommit, Shows
    <3> QED BY <3>1, <3>2
  <2> QED BY <2>5, <2>6
<1>2. ASSUME UNCHANGED <<frame, docLoader, alive, lost, doc>>, ToFold' = ToFold, Going' <=> Going
      PROVE  Tracks'
  BY <1>2 DEF Tracks, FlightTracks, Shows, ToCommit, InFlight
<1>3. CASE Silent
  BY <1>2, <1>3, SilentQueues DEF Silent, registryVars
<1>4. CASE Elsewhere /\ (Receive \/ NoteNavigationEnded \/ Publish \/ Dispatch)
  <2>1. UNCHANGED <<frame, docLoader, alive>>
    BY <1>4 DEF Receive, NoteNavigationEnded, Publish, Dispatch, registryVars
  <2>2. ToFold' = ToFold
    BY <1>4, ReceiveQueues, NoteQueues, PublishQueues, DispatchQueues DEF Types
  <2> QED BY <1>2, <1>4, <2>1, <2>2, PageStill DEF Elsewhere
<1>5. CASE FoldNothing \/ Destroy
  BY <1>5 DEF FoldNothing, Destroy, registryVars, Tracks
<1>6. CASE Elsewhere /\ FoldEvent
  <2> SUFFICES ASSUME alive', ~lost' PROVE FlightTracks' /\ (Shows(doc) \/ ToCommit(doc))'
    BY DEF Tracks
  <2>1. UNCHANGED <<doc, lost, alive>> /\ (Going' <=> Going)
    BY <1>6, PageStill DEF Elsewhere, FoldEvent
  <2>2. FlightTracks /\ (Shows(doc) \/ ToCommit(doc))
    BY <2>1 DEF Tracks
  <2>3. PICK e \in Events : e = pump.event
    BY <1>6, FoldQueues DEF Types
  <2>4. e \in ToFold /\ MilestoneOK(e) /\ ToFold = ToFold' \cup {e} /\ \A x \in ToFold' : x \in Events /\ Key(e) < Key(x)
    BY <1>6, <2>3, FoldFirst DEF Types
  <2>5. Relevant(e) => (InFlight(frame)' <=> Opening(e))
    BY <1>6, <2>3, FoldFrame DEF Types, Loaders, Relevant, Opening, Started, Requested, Committed, Failed
  <2>6. ~Relevant(e) => frame' = frame
    BY <1>6, <2>3, FoldFrame DEF Types, Loaders, Relevant, Events
  <2>7. FlightTracks'
    <3>1. ASSUME \A x \in ToFold' : ~Relevant(x)
          PROVE  InFlight(frame)' <=> Going'
      <4>1. CASE Relevant(e)
        <5>1. \A x \in ToFold : Relevant(x) => Key(x) <= Key(e)
          BY <1>0, <2>4, <3>1
        <5> QED BY <2>1, <2>2, <2>4, <2>5, <4>1, <5>1 DEF FlightTracks
      <4>2. CASE ~Relevant(e)
        BY <2>1, <2>2, <2>4, <2>6, <3>1, <4>2 DEF FlightTracks, InFlight
      <4> QED BY <4>1, <4>2
    <3>2. ASSUME NEW x \in ToFold', Relevant(x), \A y \in ToFold' : Relevant(y) => Key(y) <= Key(x)
          PROVE  Opening(x) <=> Going'
      <4>1. \A y \in ToFold : Relevant(y) => Key(y) <= Key(x)
        BY <1>0, <2>4, <3>2
      <4> QED BY <2>1, <2>2, <2>4, <3>2, <4>1 DEF FlightTracks
    <3> QED BY <3>1, <3>2 DEF FlightTracks, Relevant, Opening
  <2>8. (Shows(doc) \/ ToCommit(doc))'
    <3>0. /\ e.kind = "committed" => docLoader'[e.nav] = frame'.loader /\ e.nav <= doc /\ e.nav \in Docs
          /\ \A d \in Docs : e.kind # "committed" \/ d # e.nav => docLoader'[d] = docLoader[d]
          /\ e.kind # "committed" => frame'.loader = frame.loader
          /\ e.nav \in Nat /\ doc \in Nat
      <4>1. e.kind # "committed" => frame'.loader = frame.loader
        BY <1>6, <2>3, FoldFrame DEF Types, Loaders, Events, Started, Requested, Failed
      <4>2. e.nav \in Docs /\ e.nav \in Nat /\ doc \in Nat
        BY <1>0, KeyType, NavigationAssumption DEF Docs
      <4>3. e.kind = "committed" => e.nav <= doc
        BY <2>4 DEF MilestoneOK
      <4> QED BY <1>6, <2>3, <4>1, <4>2, <4>3, FoldHistory DEF Types
    <3>1. CASE e.kind # "committed"
      BY <1>0, <2>1, <2>2, <2>4, <3>0, <3>1 DEF Shows, ToCommit
    <3>2. CASE e.kind = "committed" /\ e.nav = doc
      BY <2>1, <3>0, <3>2 DEF Shows
    <3>3. CASE e.kind = "committed" /\ e.nav # doc
      <4>1. ~Shows(doc)
        <5> SUFFICES ASSUME Shows(doc) PROVE FALSE
          OBVIOUS
        <5>1. docLoader[doc] # NoLoader
          BY DEF Shows, Types, RegistryType, FrameOK, NoLoader
        <5>2. doc < e.nav
          BY <1>0, <2>4, <3>3, <5>1 DEF Loaders, DocsFolded
        <5> QED BY <3>0, <3>3, <5>2
      <4> QED BY <2>1, <2>2, <2>4, <3>3, <4>1 DEF ToCommit
    <3> QED BY <3>1, <3>2, <3>3
  <2> QED BY <2>7, <2>8
<1> QED BY <1>1, <1>3, <1>4, <1>5, <1>6 DEF PageMoves, Elsewhere

\* What is known of a document stays known.
LEMMA KnownKept ==
  ASSUME Types, PageFits, InOrder, Loaders, PageMoves \/ Elsewhere, alive', ~lost',
         NEW d \in Docs, Known(d)
  PROVE  Known(d)'
<1>0. lost \in BOOLEAN /\ d \in Nat /\ \A x \in Docs : x \in Nat
  BY NavigationAssumption DEF Types, PageType, Docs
<1>1. ASSUME UNCHANGED <<frame, docLoader>>, ToFold \subseteq ToFold'
      PROVE  Known(d)'
  BY <1>1 DEF Known, ToCommit, Shows
<1>2. CASE \E e \in Events : Sends(e)
  <2>1. ToFold \subseteq ToFold' /\ UNCHANGED <<frame, docLoader>>
    BY <1>0, <1>2, SendQueues DEF Types, Sends, registryVars
  <2> QED BY <1>1, <2>1
<1>3. CASE Silent
  BY <1>1, <1>3, SilentQueues DEF Silent, registryVars
<1>4. CASE Receive \/ NoteNavigationEnded \/ Publish \/ Dispatch
  <2>1. UNCHANGED <<frame, docLoader>>
    BY <1>4 DEF Receive, NoteNavigationEnded, Publish, Dispatch, registryVars
  <2>2. ToFold' = ToFold
    BY <1>4, ReceiveQueues, NoteQueues, PublishQueues, DispatchQueues DEF Types
  <2> QED BY <1>1, <2>1, <2>2
<1>5. CASE FoldNothing \/ Destroy
  BY <1>5 DEF FoldNothing, Destroy, registryVars
<1>6. CASE FoldEvent
  <2>3. PICK e \in Events : e = pump.event
    BY <1>6, FoldQueues DEF Types
  <2>4. e \in ToFold /\ ToFold = ToFold' \cup {e}
    BY <1>6, <2>3, FoldFirst DEF Types
  <2>5. /\ e.kind = "committed" => docLoader'[e.nav] = frame'.loader
        /\ \A x \in Docs : e.kind # "committed" \/ x # e.nav => docLoader'[x] = docLoader[x]
        /\ e.kind # "committed" => frame'.loader = frame.loader
        /\ e.nav \in Docs
    <3>1. e.kind # "committed" => frame'.loader = frame.loader
      BY <1>6, <2>3, FoldFrame DEF Types, Loaders, Events, Started, Requested, Failed
    <3> QED BY <1>6, <2>3, <3>1, FoldHistory, KeyType DEF Types
  <2>6. CASE e.kind # "committed"
    BY <2>4, <2>5, <2>6 DEF Known, ToCommit, Shows
  <2>7. CASE e.kind = "committed"
    <3>1. Shows(e.nav)'
      BY <2>5, <2>7 DEF Shows
    <3>2. CASE ToCommit(d)
      BY <1>0, <2>4, <2>5, <2>7, <3>1, <3>2 DEF Known, ToCommit, Shows
    <3>3. ASSUME NEW x \in Docs, x >= d, Shows(x)
          PROVE  Known(d)'
      <4>1. docLoader[x] # NoLoader
        BY <3>3 DEF Shows, Types, RegistryType, FrameOK, NoLoader
      <4>2. x < e.nav
        BY <2>4, <2>7, <4>1 DEF Loaders, DocsFolded
      <4>3. e.nav \in Nat /\ x \in Nat /\ d \in Nat /\ x >= d
        BY <1>0, <2>5, <3>3
      <4>4. e.nav >= d
        BY <4>2, <4>3
      <4> QED BY <2>5, <2>7, <4>4 DEF Known, Shows
    <3> QED BY <3>2, <3>3 DEF Known
  <2> QED BY <2>6, <2>7
<1> QED BY <1>2, <1>3, <1>4, <1>5, <1>6 DEF PageMoves, Elsewhere

-----------------------------------------------------------------------------
(***************************************************************************)
(* The lanes.                                                              *)
(***************************************************************************)
LEMMA LaneTypeKept ==
  ASSUME PageType, PageType', LaneType, RegistryType, [Next]_vars
  PROVE  LaneType'
<1>0. lane \in [Lanes -> LaneRec] /\ ends \in Nat /\ ended \in Nat /\ page \in PageRec /\ doc \in Docs
  BY DEF LaneType, PageType, RegistryType
<1>1. \A n \in Docs : \A d \in Docs : Settled(n, d) => LaneType'
  <2> SUFFICES ASSUME NEW n \in Docs, NEW d \in Docs, Settled(n, d) PROVE LaneType'
    OBVIOUS
  <2> QED BY <1>0 DEF Settled, LaneType, LaneRec, PageRec
<1>2. ASSUME NEW l \in Lanes, NavigateFor(l)
      PROVE  LaneType'
  BY <1>0, <1>2 DEF NavigateFor, LaneType, LaneRec
<1>3. CASE NavigateItself \/ Chain \/ RequestDocument \/ FireLoad \/ Resume
  BY <1>3 DEF NavigateItself, Chain, RequestDocument, FireLoad, Resume, LaneType
<1>4. CASE MoveWithin \/ Commit \/ Fail
  <2>1. page.nav \in Docs
    BY <1>0 DEF PageRec
  <2> QED BY <1>0, <1>1, <1>4, <2>1 DEF MoveWithin, Commit, Fail
<1>5. CASE FinishChain
  <2>1. CASE page.by = Nobody
    BY <1>5, <2>1 DEF FinishChain, LaneType
  <2>2. CASE page.by # Nobody
    BY <1>0, <1>5, <2>2 DEF FinishChain, LaneType, LaneRec, PageRec
  <2> QED BY <2>1, <2>2
<1>6. CASE Receive \/ FoldEvent \/ FoldNothing \/ Publish \/ Destroy \/ Dispatch
  BY <1>6 DEF Receive, FoldEvent, FoldNothing, Publish, Destroy, Dispatch, PumpOnly, LaneType
<1>7. lane' = Notified => LaneType'
  BY <1>0 DEF Notified, LaneType, LaneRec
<1>8. CASE NoteNavigationEnded
  BY <1>7, <1>8 DEF NoteNavigationEnded
<1>9. ASSUME NEW l \in Lanes, LaneStep(l)
      PROVE  LaneType'
  <2>1. NoCall \in LaneRec /\ \A n \in Nat : [NoCall EXCEPT !.at = "called", !.seen = n] \in LaneRec
    <3>1. 0 \in Docs /\ NoNav \in Docs
      BY NavigationAssumption DEF Docs, NoNav
    <3> QED BY <3>1 DEF NoCall, LaneRec
  <2>2. CASE CountEnds(l) \/ CallFails(l) \/ Answer(l)
    <3>1. (IF alive THEN ended ELSE 0) \in Nat
      BY <1>0
    <3> QED BY <1>0, <2>1, <2>2, <3>1 DEF CountEnds, CallFails, Answer, LaneType
  <2>3. CASE QueueFor(l) \/ EndWait(l) \/ Sleep(l) \/ WaitTimesOut(l)
    BY <1>0, <2>3 DEF QueueFor, EndWait, Sleep, WaitTimesOut, LaneType, LaneRec
  <2> QED BY <1>7, <1>9, <2>2, <2>3 DEF LaneStep, OtherTargetNotifies
<1>10. CASE UNCHANGED vars
  BY <1>10 DEF vars, LaneType
<1> QED
  BY <1>2, <1>3, <1>4, <1>5, <1>6, <1>8, <1>9, <1>10 DEF Next, PageStep, PumpStep, LaneStep

\* Counts go up, losses stay, and documents stay known.
Grows ==
  /\ alive' => alive /\ ended <= ended'
  /\ ~lost' => ~lost
  /\ ended \in Nat /\ ended' \in Nat
  /\ \A d \in Docs : alive' /\ ~lost' /\ Known(d) => Known(d)'

LEMMA StepGrows ==
  ASSUME Types, PageFits, InOrder, Loaders, ended' \in Nat, PageMoves \/ Elsewhere
  PROVE  Grows
<1>0. ended \in Nat /\ lost \in BOOLEAN
  BY DEF Types, RegistryType, PageType
<1>1. alive' => alive /\ ended <= ended'
  <2>0. ended <= ended
    BY <1>0
  <2>1. CASE PageMoves
    <3>1. alive' = alive /\ ended' = ended
      BY <2>1 DEF PageMoves, Sends, Silent, registryVars
    <3> QED BY <2>0, <3>1, Zenon
  <2>2. CASE Receive \/ Publish \/ Dispatch \/ FoldNothing \/ FoldEvent
    <3>1. alive' = alive /\ ended' = ended
      BY <2>2 DEF Receive, Publish, Dispatch, FoldNothing, FoldEvent, registryVars
    <3> QED BY <2>0, <3>1, Zenon
  <2>3. CASE NoteNavigationEnded
    BY <1>0, <2>3 DEF NoteNavigationEnded
  <2>4. CASE Destroy
    BY <2>4 DEF Destroy
  <2> QED BY <2>1, <2>2, <2>3, <2>4 DEF Elsewhere
<1>2. ~lost' => ~lost
  <2>1. CASE \E e \in Events : Sends(e)
    BY <1>0, <2>1, SendQueues DEF Types
  <2>2. CASE Silent \/ Elsewhere
    BY <2>2 DEF Silent, Elsewhere
  <2> QED BY <2>1, <2>2 DEF PageMoves
<1> QED BY <1>0, <1>1, <1>2, KnownKept DEF Grows

SameCall(l) ==
  /\ lane'[l].seen = lane[l].seen /\ lane'[l].nav = lane[l].nav /\ lane'[l].before = lane[l].before
  /\ lane'[l].doc = lane[l].doc /\ lane'[l].timely = lane[l].timely

LEMMA KnownStays ==
  ASSUME LaneType, NEW l \in Lanes, CallKnown(l), SameCall(l), Grows
  PROVE  CallKnown(l)'
<1>1. lane[l].seen \in Nat /\ lane[l].doc \in Docs
  BY DEF LaneType, LaneRec
<1>2. alive' => lane[l].seen <= ended'
  BY <1>1 DEF CallKnown, Grows
<1> QED BY <1>1, <1>2 DEF CallKnown, SameCall, Grows

\* The page thread is not at work for l, or no further in what l asked for.
PageKeeps(l) ==
  \/ page'.by # l
  \/ /\ page'.by = page.by /\ page'.outcome = page.outcome
     /\ page'.first /\ page'.at \in Midway => page.first /\ page.at \in Midway /\ page'.nav = page.nav

LEMMA CallStays ==
  ASSUME LaneType, NEW l \in Lanes, CallFits(l), lane'[l] = lane[l], PageKeeps(l), Grows
  PROVE  CallFits(l)'
<1>1. CallKnown(l)'
  BY KnownStays DEF CallFits, SameCall
<1>2. lane[l].seen \in Nat
  BY DEF LaneType, LaneRec
<1>3. alive' /\ ended > lane[l].seen => ended' > lane[l].seen
  BY <1>2 DEF Grows
<1>4. CallPlaced(l)'
  BY <1>3 DEF CallFits, CallPlaced, PageKeeps, Grows
<1> QED BY <1>1, <1>4 DEF CallFits

\* The first link of a chain settles what l asked for.
LEMMA SettledFits ==
  ASSUME Types, PageFits, CallsFit, Grows, PageType', Tracks', MoveWithin \/ Commit \/ Fail, NEW l \in Lanes
  PROVE  CallFits(l)'
<1>0. /\ lane \in [Lanes -> LaneRec] /\ page \in PageRec /\ page.nav = navs /\ navs \in Nat /\ doc \in Nat
      /\ page.at \in Midway /\ doc <= page.nav - 1 /\ page.nav \in Nat /\ ended \in Nat
      /\ page.nav # NoNav
      /\ lane[l].before \in Nat /\ lane[l].seen \in Nat
  <2>1. page.at \in Midway /\ page \in PageRec
    BY DEF MoveWithin, Commit, Fail, Midway, Types, PageType
  <2>2. page.nav = navs /\ navs > 0 /\ doc < navs
    BY <2>1 DEF PageFits, ThreadFits, Midway
  <2>3. navs \in Nat /\ doc \in Nat
    BY NavigationAssumption DEF Types, PageType, Docs
  <2>4. lane \in [Lanes -> LaneRec] /\ ended \in Nat
    BY DEF Types, LaneType, RegistryType
  <2>5. lane[l].before \in Nat /\ lane[l].seen \in Nat
    BY <2>4 DEF LaneRec
  <2> QED BY <2>1, <2>2, <2>3, <2>4, <2>5 DEF NoNav
<1>1. PICK d \in {doc, page.nav} : /\ Settled(page.nav, d) /\ d = doc'
                                   /\ (Commit /\ d = page.nav) \/ d = doc
  BY DEF MoveWithin, Commit, Fail
<1>2. /\ page'.by = page.by /\ page'.first = page.first
      /\ ~page.first => page'.outcome = page.outcome
      /\ Commit /\ page.first => page'.outcome = "committed"
      /\ page'.at \notin Midway
  <2>1. CASE Commit
    BY <1>0, <2>1 DEF Commit, PageRec, Midway
  <2>2. CASE MoveWithin \/ (Fail /\ ~Commit)
    BY <1>0, <2>2 DEF MoveWithin, Fail, PageRec, Midway
  <2> QED BY <2>1, <2>2
<1>3. CASE page.by # l \/ ~page.first
  <2>1. lane'[l] = lane[l]
    BY <1>0, <1>1, <1>3 DEF Settled
  <2>2. PageKeeps(l)
    BY <1>2, <1>3 DEF PageKeeps
  <2> QED BY <2>1, <2>2, CallStays DEF CallsFit, Types
<1>4. CASE page.by = l /\ page.first
  <2>0. lane' = [lane EXCEPT ![l].nav = page.nav, ![l].doc = d]
    BY <1>1, <1>4, LanesAssumption DEF Settled
  <2>1. /\ lane'[l].nav = page.nav /\ lane'[l].doc = d /\ lane'[l].at = lane[l].at
        /\ lane'[l].before = lane[l].before /\ lane'[l].seen = lane[l].seen /\ lane'[l].timely = lane[l].timely
    BY <1>0, <2>0 DEF LaneRec
  <2>2. lane[l].at = "running" /\ page.nav = lane[l].before + 1 /\ (alive => lane[l].seen <= ended)
    BY <1>0, <1>4 DEF CallsFit, CallFits, CallPlaced, CallKnown
  <2>3. alive' /\ ~lost' => Known(d)'
    <3>1. d = doc' /\ doc' \in Docs /\ \A x \in Docs : x >= x
      BY <1>1, NavigationAssumption DEF PageType, Docs
    <3>2. ASSUME alive', ~lost' PROVE Known(doc)'
      BY <3>1, <3>2 DEF Tracks, Known
    <3> QED BY <3>1, <3>2 DEF Known, ToCommit
  <2>4. d <= page.nav /\ d \in Nat /\ (Commit \/ d <= lane[l].before)
    BY <1>0, <1>1, <2>2
  <2>5. alive' => lane[l].seen <= ended'
    BY <1>0, <2>2 DEF Grows
  <2>6. CallKnown(l)'
    BY <2>1, <2>2, <2>3, <2>4, <2>5 DEF CallKnown
  <2>7. CallPlaced(l)'
    BY <1>2, <1>4, <2>1, <2>2, <2>4 DEF CallPlaced
  <2> QED BY <2>6, <2>7 DEF CallFits
<1> QED BY <1>3, <1>4

LEMMA CallsKept ==
  ASSUME Types, PageFits, CallsFit, Grows, PageType', Tracks', [Next]_vars
  PROVE  CallsFit'
<1>0. /\ lane \in [Lanes -> LaneRec] /\ page \in PageRec /\ LaneType /\ ended \in Nat
      /\ \A l \in Lanes : CallFits(l) /\ lane[l] \in LaneRec
  BY DEF Types, PageType, LaneType, RegistryType, CallsFit
<1>1. ASSUME NEW l \in Lanes, NavigateFor(l), NEW x \in Lanes
      PROVE  CallFits(x)'
  <2>1. PICK kind \in {"document", "fragment"} : Link(kind, l, TRUE)
    BY <1>1 DEF NavigateFor
  <2>2. /\ page'.by = l /\ page'.nav = navs + 1 /\ page.at = "idle" /\ page.by = Nobody
        /\ lane[l].at = "called"
    BY <1>1, <2>1 DEF NavigateFor, Link, PageFits, ThreadFits, Idle
  <2>3. ends = navs
    BY <2>2 DEF PageFits, ThreadFits, Midway
  <2>4. CASE x # l
    <3>1. lane'[x] = lane[x]
      BY <1>0, <1>1, <2>4 DEF NavigateFor
    <3> QED BY <1>0, <2>2, <2>4, <3>1, CallStays DEF PageKeeps
  <2>5. CASE x = l
    <3>1. /\ lane'[l].at = "running" /\ lane'[l].before = ends /\ lane'[l].nav = lane[l].nav
          /\ lane'[l].seen = lane[l].seen
      BY <1>0, <1>1 DEF NavigateFor, LaneRec
    <3>2. lane[l].nav = NoNav /\ lane[l].seen \in Nat /\ (alive => lane[l].seen <= ended)
      BY <1>0, <2>2 DEF CallFits, CallPlaced, CallKnown, LaneRec
    <3>3. alive' => lane[l].seen <= ended'
      BY <1>0, <3>2 DEF Grows
    <3> QED BY <2>2, <2>3, <2>5, <3>1, <3>2, <3>3 DEF CallFits, CallPlaced, CallKnown
  <2> QED BY <2>4, <2>5
<1>2. ASSUME NavigateItself \/ Chain \/ RequestDocument \/ FireLoad \/ Resume, NEW x \in Lanes
      PROVE  CallFits(x)'
  <2>1. lane' = lane
    BY <1>2 DEF NavigateItself, Chain, RequestDocument, FireLoad, Resume
  <2>2. PageKeeps(x)
    <3>1. CASE NavigateItself
      BY <3>1, LanesAssumption DEF NavigateItself, Link, PageKeeps
    <3>2. CASE Chain
      BY <3>2 DEF Chain, Link, PageKeeps
    <3>3. CASE RequestDocument
      BY <1>0, <3>3 DEF RequestDocument, PageKeeps, Midway, PageRec
    <3>4. CASE FireLoad
      BY <1>0, <3>4 DEF FireLoad, PageKeeps, Midway, PageRec
    <3>5. CASE Resume
      BY <3>5 DEF Resume, PageKeeps
    <3> QED BY <1>2, <3>1, <3>2, <3>3, <3>4, <3>5
  <2> QED BY <1>0, <2>1, <2>2, CallStays
<1>3. ASSUME MoveWithin \/ Commit \/ Fail, NEW x \in Lanes
      PROVE  CallFits(x)'
  BY <1>3, SettledFits
<1>4. ASSUME FinishChain, NEW x \in Lanes
      PROVE  CallFits(x)'
  <2>1. page'.by = Nobody /\ page.at = "ended" /\ Nobody # x
    BY <1>4, LanesAssumption DEF FinishChain, Idle
  <2>2. CASE page.by # x
    <3>1. lane'[x] = lane[x]
      BY <1>0, <1>4, <2>2 DEF FinishChain
    <3> QED BY <1>0, <2>1, <3>1, CallStays DEF PageKeeps
  <2>3. CASE page.by = x
    <3>1. lane' = [lane EXCEPT ![x].at = IF page.outcome = "committed" THEN "wait" ELSE "read"]
      BY <1>4, <2>1, <2>3 DEF FinishChain
    <3>2. SameCall(x) /\ lane'[x].at = (IF page.outcome = "committed" THEN "wait" ELSE "read")
      BY <1>0, <3>1 DEF SameCall, LaneRec
    <3>3. CallKnown(x)'
      BY <1>0, <3>2, KnownStays DEF CallFits
    <3>4. CallPlaced(x)'
      BY <1>0, <2>1, <2>3, <3>2 DEF CallFits, CallPlaced, SameCall
    <3> QED BY <3>3, <3>4 DEF CallFits
  <2> QED BY <2>2, <2>3
<1>5. ASSUME Receive \/ FoldEvent \/ FoldNothing \/ Publish \/ Destroy \/ Dispatch \/ UNCHANGED vars, NEW x \in Lanes
      PROVE  CallFits(x)'
  <2>1. lane' = lane /\ page' = page
    BY <1>5 DEF Receive, FoldEvent, FoldNothing, Publish, Destroy, Dispatch, PumpOnly, vars, pageVars
  <2> QED BY <1>0, <2>1, CallStays DEF PageKeeps
<1>6. ASSUME lane' = Notified, page' = page, NEW x \in Lanes
      PROVE  CallFits(x)'
  <2>1. CASE lane[x].at # "asleep"
    <3>1. lane'[x] = lane[x]
      BY <1>6, <2>1 DEF Notified
    <3> QED BY <1>0, <1>6, <3>1, CallStays DEF PageKeeps
  <2>2. CASE lane[x].at = "asleep"
    <3>1. SameCall(x) /\ lane'[x].at = "wait"
      BY <1>0, <1>6, <2>2 DEF Notified, SameCall, LaneRec
    <3>2. CallKnown(x)'
      BY <1>0, <3>1, KnownStays DEF CallFits
    <3>3. CallPlaced(x)'
      BY <1>0, <1>6, <2>2, <3>1 DEF CallFits, CallPlaced
    <3> QED BY <3>2, <3>3 DEF CallFits
  <2> QED BY <2>1, <2>2
<1>7. ASSUME NEW l \in Lanes, LaneStep(l), NEW x \in Lanes
      PROVE  CallFits(x)'
  <2>0. page' = page /\ UNCHANGED <<alive, ended, lost>>
    BY <1>7 DEF LaneStep, QueueFor, CountEnds, CallFails, EndWait, Sleep, OtherTargetNotifies, WaitTimesOut, Answer,
                PageOnly, LaneOnly, pageVars, registryVars
  <2>1. CASE OtherTargetNotifies(l)
    BY <1>6, <2>0, <2>1 DEF OtherTargetNotifies
  <2>2. CASE x # l /\ ~OtherTargetNotifies(l)
    <3>1. lane'[x] = lane[x]
      BY <1>0, <1>7, <2>2 DEF LaneStep, QueueFor, CountEnds, CallFails, EndWait, Sleep, WaitTimesOut, Answer
    <3> QED BY <1>0, <2>0, <3>1, CallStays DEF PageKeeps
  <2>3. CASE x = l /\ (CountEnds(l) \/ CallFails(l) \/ Answer(l))
    <3>1. /\ lane'[l].nav = NoNav /\ lane'[l].at \in {"idle", "called"}
          /\ alive => lane'[l].seen <= ended
          /\ lane[l].at # "running"
      <4>1. CASE CountEnds(l)
        <5>1. lane'[l] = [NoCall EXCEPT !.at = "called", !.seen = IF alive THEN ended ELSE 0]
          BY <1>0, <4>1 DEF CountEnds
        <5> QED BY <1>0, <4>1, <5>1 DEF CountEnds, NoCall
      <4>2. CASE CallFails(l) \/ Answer(l)
        <5>1. lane'[l] = NoCall /\ lane[l].at \in {"called", "read"}
          BY <1>0, <4>2 DEF CallFails, Answer
        <5> QED BY <1>0, <5>1 DEF NoCall
      <4> QED BY <2>3, <4>1, <4>2
    <3>2. page.by # l
      BY <1>0, <3>1 DEF CallFits, CallPlaced
    <3> QED BY <2>0, <2>3, <3>1, <3>2 DEF CallFits, CallKnown, CallPlaced
  <2>4. CASE x = l /\ (QueueFor(l) \/ EndWait(l) \/ Sleep(l))
    <3>1. /\ SameCall(l) /\ lane'[l].at \in {"wait", "asleep", "read"} /\ lane[l].at # "running"
          /\ lane'[l].at = "read" => ~alive \/ ended > lane[l].seen
      BY <1>0, <2>4 DEF QueueFor, EndWait, Sleep, SameCall, LaneRec
    <3>2. CallKnown(l)' /\ page.by # l
      BY <1>0, <3>1, KnownStays DEF CallFits, CallPlaced
    <3> QED BY <2>0, <2>4, <3>1, <3>2 DEF CallFits, CallPlaced, SameCall
  <2>5. CASE x = l /\ WaitTimesOut(l)
    <3>1. /\ lane'[l].seen = lane[l].seen /\ lane'[l].nav = lane[l].nav /\ lane'[l].before = lane[l].before
          /\ lane'[l].doc = lane[l].doc /\ lane'[l].timely = FALSE /\ lane'[l].at = "read" /\ lane[l].at = "asleep"
      BY <1>0, <2>5 DEF WaitTimesOut, LaneRec
    <3>2. page.by # l
      BY <1>0, <3>1 DEF CallFits, CallPlaced
    <3>3. alive' /\ ~lost' /\ Known(lane[l].doc) => Known(lane[l].doc)'
      <4>1. lane[l].doc \in Docs
        BY <1>0 DEF LaneRec
      <4>2. PICK d \in Docs : d = lane[l].doc
        BY <4>1
      <4>3. alive' /\ ~lost' /\ Known(d) => Known(d)'
        BY DEF Grows
      <4>4. d = lane'[l].doc
        BY <3>1, <4>2
      <4> QED BY <4>2, <4>3, <4>4
    <3>4. CallKnown(l)'
      BY <1>0, <2>0, <3>1, <3>3 DEF CallFits, CallKnown
    <3> QED BY <2>0, <2>5, <3>1, <3>2, <3>4 DEF CallFits, CallPlaced
  <2> QED BY <1>7, <2>1, <2>2, <2>3, <2>4, <2>5 DEF LaneStep
<1>8. ASSUME NoteNavigationEnded, NEW x \in Lanes
      PROVE  CallFits(x)'
  <2>1. lane' = Notified /\ page' = page
    BY <1>8 DEF NoteNavigationEnded, pageVars
  <2> QED BY <1>6, <2>1
<1>9. ASSUME NEW x \in Lanes
      PROVE  CallFits(x)'
  BY <1>1, <1>2, <1>3, <1>4, <1>5, <1>7, <1>8, <1>9 DEF Next, PageStep, PumpStep, LaneStep
<1> QED BY <1>9 DEF CallsFit

-----------------------------------------------------------------------------
(***************************************************************************)
(* The invariant.                                                          *)
(***************************************************************************)
LEMMA InitInv == Init => IInv
<1> SUFFICES ASSUME Init PROVE IInv
  OBVIOUS
<1>1. MaxNavs \in Nat /\ 0 \in Docs /\ Navs \subseteq Nat /\ Docs \subseteq Nat
  BY NavigationAssumption DEF Docs, Navs
<1>2. /\ Elems(<<>>) = {} /\ Elems(bus) = {} /\ Elems(signals) = {}
      /\ pump.at = "recv" /\ Held = {} /\ ToFold = {} /\ ToNote = {} /\ Folded = {}
  BY DEF Init, Elems, Listening, Held, InHand, ToFold, ToNote, Folded
<1>3. /\ page = Idle /\ page.at = "idle" /\ page.by = Nobody /\ navs = 0 /\ ends = 0 /\ doc = 0 /\ ended = 0
      /\ minted = 1 /\ frame.loader = 1 /\ frame.pending = NoLoad /\ ~InFlight(frame) /\ alive = TRUE /\ lost = FALSE
  BY DEF Init, Idle, InFlight, NoLoad
<1>4. PageType
  <2>1. Idle \in PageRec
    BY <1>1 DEF Idle, PageRec, NoNav
  <2>2. suspended \in BOOLEAN /\ lost \in BOOLEAN /\ alive \in BOOLEAN
    BY DEF Init
  <2> QED BY <1>1, <1>3, <2>1, <2>2 DEF PageType
<1>5. QueueType
  <2>1. Listening \in [at : {"recv", "fold", "note", "publish"}, event : Events]
    BY <1>1 DEF Listening, Milestone, Events, NoNav
  <2>2. <<>> \in Seq(Events) /\ Len(<<>>) = 0 /\ 0 <= Capacity
    BY NavigationAssumption
  <2> QED BY <2>1, <2>2 DEF Init, QueueType
<1>6. RegistryType
  <2>1. FrameOK
    BY <1>1 DEF Init, FrameOK, NoLoad, NoLoader, NoNav
  <2>2. startLoader \in [Navs -> 0 .. minted] /\ docLoader \in [Docs -> 0 .. minted] /\ failed \subseteq Navs
    BY DEF Init, NoLoader
  <2> QED BY <1>3, <2>1, <2>2 DEF RegistryType
<1>7. LaneType
  <2>1. NoCall \in LaneRec
    BY <1>1 DEF NoCall, LaneRec, NoNav
  <2> QED BY <2>1 DEF Init, LaneType
<1>8. InOrder
  BY <1>2 DEF Init, InOrder, Ordered
<1>9. PageFits
  BY <1>2, <1>3 DEF PageFits, ThreadFits, Midway
<1>10. EndsNoted
  BY <1>2, <1>3 DEF EndsNoted
<1>11. Upward
  <2>1. \A d \in Docs : docLoader[d] = IF d = 0 THEN 1 ELSE 0
    BY DEF Init, NoLoader
  <2> QED BY <1>3, <2>1 DEF Upward, OneLoaderPerDocument, NoLoader
<1>12. DocsFolded /\ StartsFolded /\ RequestsHold
  <2>1. \A n \in Navs : startLoader[n] = NoLoader
    BY DEF Init
  <2>2. \A d \in Docs : docLoader[d] # NoLoader => d = 0
    BY DEF Init, NoLoader
  <2> QED BY <1>2, <1>3, <2>1, <2>2 DEF DocsFolded, StartsFolded, RequestsHold, LoadingLoader, NoLoader
<1>13. Tracks
  <2>1. docLoader[doc] = 1
    BY <1>1, <1>3 DEF Init
  <2> QED BY <1>2, <1>3, <2>1 DEF Tracks, FlightTracks, Going, Shows
<1>14. CallsFit
  <2> SUFFICES ASSUME NEW l \in Lanes PROVE CallFits(l)
    BY DEF CallsFit
  <2>1. lane[l].at = "idle" /\ lane[l].nav = NoNav /\ lane[l].seen = 0 /\ page.by # l
    BY <1>3, LanesAssumption DEF Init, NoCall
  <2> QED BY <1>3, <2>1 DEF CallFits, CallKnown, CallPlaced
<1> QED
  BY <1>4, <1>5, <1>6, <1>7, <1>8, <1>9, <1>10, <1>11, <1>12, <1>13, <1>14 DEF IInv, Types

LEMMA InvKept == IInv /\ [Next]_vars => IInv'
<1> SUFFICES ASSUME IInv, [Next]_vars PROVE IInv'
  OBVIOUS
<1>0. /\ Types /\ PageType /\ QueueType /\ RegistryType /\ LaneType /\ ThreadFits /\ PageFits /\ InOrder
      /\ Loaders /\ Upward /\ Tracks /\ CallsFit /\ EndsNoted /\ ended \in Nat
  BY DEF IInv, Types, RegistryType, PageFits, Loaders
<1>1. (PageMoves \/ Elsewhere) /\ ThreadFits' /\ PageType'
  BY <1>0, StepKinds
<1>2. QueueType'
  BY <1>0, <1>1, QueueKept
<1>3. InOrder'
  BY <1>0, <1>1, OrderKept
<1>4. PageFits'
  BY <1>0, <1>1, PageFitsKept
<1>5. EndsNoted' /\ ended' \in Nat
  BY <1>0, <1>1, EndsKept
<1>6. RegistryType'
  BY <1>0, <1>1, <1>5, RegistryKept
<1>7. Loaders'
  BY <1>0, <1>1, LoadersKept
<1>8. Tracks'
  BY <1>0, <1>1, TracksKept
<1>9. LaneType'
  BY <1>0, <1>1, LaneTypeKept
<1>10. Grows
  BY <1>0, <1>1, <1>5, StepGrows
<1>11. CallsFit'
  BY <1>0, <1>1, <1>8, <1>10, CallsKept
<1> QED
  BY <1>1, <1>2, <1>3, <1>4, <1>5, <1>6, <1>7, <1>8, <1>9, <1>11 DEF IInv, Types, Loaders

LEMMA Invariance == Spec => []IInv
<1> QED BY InitInv, InvKept, PTL DEF Spec

-----------------------------------------------------------------------------
(* Every variable keeps its type, and the registry never counts an end the *)
(* page has not reached.                                                   *)
THEOREM TypeCorrect == Spec => []TypeOK
<1>1. IInv => TypeOK
  BY TypesAreTypeOK DEF IInv
<1> QED BY <1>1, Invariance, PTL

(* However many milestones the bus has dropped, no two documents share a   *)
(* loader; and when none was dropped and all are folded in, the registry's *)
(* loader is that of the document the page shows (`frame.rs`,              *)
(* `target.rs`).                                                           *)
THEOREM LoadersAreDocuments == Spec => []LoadersNameDocuments
<1>1. IInv => LoadersNameDocuments
  <2> SUFFICES ASSUME IInv PROVE LoadersNameDocuments
    OBVIOUS
  <2>1. OneLoaderPerDocument
    BY DEF IInv, Upward
  <2>2. ASSUME CaughtUp
        PROVE  LoadingLoader(frame) = frame.loader /\ frame.loader = docLoader[doc]
    <3>1. ToFold = {} /\ alive /\ ~lost /\ ~Going
      BY <2>2 DEF CaughtUp, ToFold, InHand, Elems, Going
    <3>2. ~InFlight(frame) /\ Shows(doc)
      BY <3>1 DEF IInv, Tracks, FlightTracks, ToCommit
    <3> QED BY <3>2 DEF Shows, LoadingLoader
  <2> QED BY <2>1, <2>2 DEF LoadersNameDocuments, NoPhantomLoader
<1> QED BY <1>1, Invariance, PTL

(* However far the event thread is behind the pump, the label it puts on   *)
(* an event is not of a load before the event's own (`pump.rs`).           *)
THEOREM LabelsAreNotStale == Spec => LabelsKeepUp
<1>1. ASSUME IInv, alive, NEW e \in Events, e \in Folded
      PROVE  LabelHolds(e)
  <2>2. e \in Events /\ e \in Folded
    BY <1>1
  <2>3. CASE e.kind = "started"
    <3>1. e.nav \in Navs
      BY <1>1, <2>2, <2>3 DEF IInv, RequestsHold
    <3>2. startLoader[e.nav] <= LoadingLoader(frame) \/ FailedSince(e.nav)
      BY <1>1, <3>1 DEF IInv, StartsFolded
    <3>3. startLoader[e.nav] \in Nat /\ LoadingLoader(frame) \in Nat
      BY <1>1, <3>1 DEF IInv, Types, RegistryType, FrameOK, LoadingLoader
    <3>4. Label(e) = LoadingLoader(frame)
      BY <2>3 DEF Label
    <3> QED BY <2>3, <3>2, <3>3, <3>4 DEF LabelHolds
  <2>4. CASE e.kind = "requested"
    <3>1. RequestHolds(e)
      BY <1>1, <2>2, <2>4 DEF IInv, RequestsHold
    <3>2. Label(e) = DocumentLoader(frame, e.nav)
      BY <2>4 DEF Label
    <3>3. \/ Label(e) = startLoader[e.nav] \/ FailedSince(e.nav)
          \/ minted > startLoader[e.nav] \/ frame.pending.request > e.nav
      BY <3>1, <3>2 DEF RequestHolds, DocumentLoader
    <3> QED BY <2>4, <3>3 DEF LabelHolds
  <2>5. CASE e.kind # "started" /\ e.kind # "requested"
    <3>1. docLoader[e.doc] <= frame.loader /\ docLoader[e.doc] \in Nat /\ frame.loader \in Nat /\ frame.pending.loader \in Nat
      BY <1>1, <2>2 DEF IInv, Upward, Events, Types, RegistryType, FrameOK
    <3>2. LoadingLoader(frame) >= docLoader[e.doc]
      BY <1>1, <3>1 DEF IInv, Upward, LoadingLoader
    <3>3. Label(e) = LoadingLoader(frame)
      BY <2>5 DEF Label
    <3> QED BY <2>5, <3>2, <3>3 DEF LabelHolds
  <2> QED BY <2>3, <2>4, <2>5
<1>2. IInv /\ signals # <<>> => Head(signals) \in Events /\ Head(signals) \in Folded
  BY ElemsTail DEF IInv, Types, QueueType, Folded
<1>3. IInv /\ [Next]_vars =>
        [alive /\ signals # <<>> /\ signals' = Tail(signals) => LabelHolds(Head(signals))]_vars
  BY <1>1, <1>2
<1> QED BY <1>3, Invariance, PTL DEF Spec, LabelsKeepUp

(* `Page.navigate` answers with the loader of its own document or of one   *)
(* that has come since, however its lane, the page thread and the pump     *)
(* interleave (`cdp/src/domains/page.rs`, `target.rs`).                    *)
THEOREM AnswersItsDocument == Spec => NavigateAnswersItsDocument
<1>1. ASSUME IInv, NEW l \in Lanes, lane[l].at = "read", alive, ~lost, lane[l].nav # NoNav, lane[l].timely, Alone(l)
      PROVE  \E d \in Docs : d >= lane[l].doc /\ frame.loader = docLoader[d]
  <2>0. /\ lane[l].seen \in Nat /\ lane[l].before \in Nat /\ lane[l].doc \in Nat /\ ended \in Nat
        /\ lane[l].before = lane[l].seen
    BY <1>1, NavigationAssumption DEF IInv, Types, LaneType, LaneRec, RegistryType, Docs, Alone
  <2>1. lane[l].nav = lane[l].before + 1 /\ lane[l].doc <= lane[l].nav /\ lane[l].seen <= ended /\ Known(lane[l].doc)
    BY <1>1 DEF IInv, CallsFit, CallFits, CallKnown
  <2>2. ended > lane[l].seen \/ lane[l].doc <= lane[l].before
    BY <1>1 DEF IInv, CallsFit, CallFits, CallPlaced
  <2>3. lane[l].doc <= ended
    BY <2>0, <2>1, <2>2
  <2>4. ~ToCommit(lane[l].doc)
    <3>1. \A e \in ToFold : e.kind = "committed" => ended < e.nav
      BY <1>1 DEF IInv, EndsNoted, ToFold, ToNote, InHand, Endings
    <3> QED BY <2>0, <2>3, <3>1 DEF ToCommit
  <2> QED BY <2>1, <2>4 DEF Known, Shows
<1>2. IInv /\ [Next]_vars =>
        [\A l \in Lanes :
           /\ lane[l].at = "read" /\ lane'[l].at = "idle"
           /\ alive /\ ~lost
           /\ lane[l].nav # NoNav /\ lane[l].timely /\ Alone(l)
           => \E d \in Docs : d >= lane[l].doc /\ frame.loader = docLoader[d]]_vars
  BY <1>1
<1> QED BY <1>2, Invariance, PTL DEF Spec, NavigateAnswersItsDocument

-----------------------------------------------------------------------------
(***************************************************************************)
(* No wake-up is missed.  That a wait ends needs fairness and is left to   *)
(* TLC; that there is always something that will end it does not.          *)
(***************************************************************************)
\* The end of navigation n has yet to be noted.
EndComing(n) == \E e \in ToNote : e.kind \in Endings /\ e.nav = n

(* While the target is there and nothing was dropped, a lane that sleeps   *)
(* on a navigation of its own has that navigation's end before it, and one *)
(* that is awake has it before it or will see that the count has moved.    *)
NoWakeUpMissed ==
  alive /\ ~lost =>
    \A l \in Lanes : lane[l].nav # NoNav =>
      /\ lane[l].at = "asleep" => EndComing(lane[l].nav)
      /\ lane[l].at = "wait" => EndComing(lane[l].nav) \/ ended > lane[l].seen

\* Every end the page has reached and the registry has not counted is coming.
EndsCome == alive /\ ~lost => \A n \in ended + 1 .. ends : EndComing(n)

\* What a lane knows of the count.
LaneWaits(l) ==
  /\ lane[l].seen <= ends
  /\ lane[l].at = "running" \/ lane[l].nav # NoNav => lane[l].seen <= lane[l].before
  /\ lane[l].nav # NoNav => lane[l].nav <= ends
  /\ alive /\ lane[l].at = "asleep" => ended <= lane[l].seen

LanesWait == \A l \in Lanes : LaneWaits(l)

WInv == EndsCome /\ LanesWait

LEMMA EndsComeKept ==
  ASSUME Types, ended' \in Nat, InOrder, PageFits, EndsNoted, EndsCome, PageMoves \/ Elsewhere
  PROVE  EndsCome'
<1>0. /\ ends \in Nat /\ ended \in Nat /\ lost \in BOOLEAN /\ QueueType
      /\ \A e \in ToNote : e \in Events /\ e.nav \in Nat /\ (e.kind \in Endings => e.nav <= ends)
  <2>1. bus \in Seq(Events) /\ Elems(bus) \cup Held \subseteq Events /\ ToNote \subseteq Elems(bus) \cup Held
    BY ElemsType DEF Types, QueueType, Held, InHand, ToNote
  <2> QED BY <2>1, KeyType, NavigationAssumption DEF Types, PageType, RegistryType, Docs, PageFits, MilestoneOK
<1>1. ASSUME NEW e \in Events, Sends(e)
      PROVE  EndsCome'
  <2>1. /\ alive' = alive /\ ended' = ended
        /\ e.kind \in Endings => ends' = ends + 1 /\ e.nav = ends + 1
        /\ e.kind \notin Endings => ends' = ends
    BY <1>1 DEF Sends, Emit, registryVars
  <2>2. ~lost' => ~lost /\ ToNote' = ToNote \cup {e}
    BY <1>0, <1>1, SendQueues
  <2> SUFFICES ASSUME alive', ~lost', NEW n \in ended' + 1 .. ends' PROVE EndComing(n)'
    BY DEF EndsCome
  <2>3. CASE n \in ended + 1 .. ends
    BY <2>1, <2>2, <2>3 DEF EndsCome, EndComing
  <2>4. CASE n \notin ended + 1 .. ends
    <3>1. e.kind \in Endings /\ n = e.nav
      BY <1>0, <2>1, <2>4
    <3> QED BY <2>2, <3>1 DEF EndComing
  <2> QED BY <2>3, <2>4
<1>2. CASE Silent
  BY <1>2, SilentQueues DEF Silent, registryVars, EndsCome, EndComing
<1>3. CASE Receive \/ FoldEvent \/ FoldNothing \/ Publish \/ Dispatch
  <2>1. ended' = ended /\ ends' = ends /\ alive' = alive /\ lost' = lost
    BY <1>3 DEF Receive, FoldEvent, FoldNothing, Publish, Dispatch, PumpOnly, pageVars, registryVars
  <2>2. \A x \in ToNote : x.kind \in Endings => x \in ToNote'
    <3>1. CASE Receive \/ Publish \/ Dispatch
      BY <1>0, <3>1, ReceiveQueues, PublishQueues, DispatchQueues
    <3>2. CASE FoldEvent \/ FoldNothing
      <4>1. /\ pump.at = "fold" /\ pump'.event = pump.event /\ bus' = bus
            /\ pump.event.kind \in Endings => pump'.at = "note"
        BY <1>0, <3>2, FoldQueues
      <4> QED BY <4>1 DEF ToNote, InHand
    <3> QED BY <1>3, <3>1, <3>2
  <2> QED BY <2>1, <2>2 DEF EndsCome, EndComing
<1>4. CASE NoteNavigationEnded
  <2> SUFFICES ASSUME alive', ~lost', NEW n \in ended' + 1 .. ends' PROVE EndComing(n)'
    BY DEF EndsCome
  <2> DEFINE e == pump.event
  <2>1. /\ alive /\ ~lost /\ ended' = ended + 1 /\ ends' = ends
        /\ pump.at = "note" /\ ToNote = ToNote' \cup {e} /\ ToNote = Elems(bus) \cup {e}
    BY <1>0, <1>4, NoteQueues DEF NoteNavigationEnded, pageVars, ToNote, InHand
  <2>2. e.kind \in Endings /\ ended < e.nav /\ e.nav <= ends /\ e.nav \in Nat
    BY <1>0, <2>1 DEF EndsNoted, PageFits
  <2>3. PICK x \in ToNote : x.kind \in Endings /\ x.nav = ended + 1
    BY <1>0, <2>1, <2>2 DEF EndsCome, EndComing
  <2>4. e.nav = ended + 1
    <3>1. CASE x = e
      BY <2>3, <3>1
    <3>2. CASE x \in Elems(bus)
      <4>1. Key(e) < Key(x) /\ Rank(e.kind) = 3 /\ Rank(x.kind) = 3
        BY <2>1, <2>2, <2>3, <3>2 DEF InOrder, Rank, Endings
      <4>2. e.nav < x.nav
        BY <2>2, <2>3, <1>0, <4>1 DEF Key
      <4> QED BY <1>0, <2>2, <2>3, <4>2
    <3> QED BY <2>1, <2>3, <3>1, <3>2
  <2>5. PICK y \in ToNote : y.kind \in Endings /\ y.nav = n
    BY <1>0, <2>1 DEF EndsCome, EndComing
  <2>6. y \in ToNote'
    BY <1>0, <2>1, <2>4, <2>5
  <2> QED BY <2>5, <2>6 DEF EndComing
<1>5. CASE Destroy
  BY <1>5 DEF Destroy, EndsCome
<1> QED BY <1>1, <1>2, <1>3, <1>4, <1>5 DEF PageMoves, Elsewhere

\* No step takes an end back, and the count moves at the step that wakes all.
LEMMA CountsMove ==
  ASSUME Types, PageMoves \/ Elsewhere
  PROVE  /\ ends \in Nat /\ ends' \in Nat /\ ends <= ends'
         /\ alive' => alive /\ (ended' = ended \/ NoteNavigationEnded)
<1>0. ends \in Nat
  BY DEF Types, PageType
<1>1. CASE PageMoves
  BY <1>0, <1>1 DEF PageMoves, Sends, Emit, Silent, registryVars
<1>2. CASE Elsewhere
  BY <1>0, <1>2 DEF Elsewhere, Receive, FoldEvent, FoldNothing, NoteNavigationEnded, Publish, Destroy, Dispatch, registryVars
<1> QED BY <1>1, <1>2

\* What l knows of the count stands while l stands still, or wakes.
LEMMA WaitStays ==
  ASSUME LaneType, NEW l \in Lanes, LaneWaits(l), SameCall(l),
         lane'[l].at = "running" => lane[l].at = "running",
         ends \in Nat, ends' \in Nat, ends <= ends',
         lane'[l].at = "asleep" => \/ ~alive'
                                   \/ lane[l].at = "asleep" /\ alive /\ ended' = ended
  PROVE  LaneWaits(l)'
<1>1. lane[l].seen \in Nat /\ lane[l].nav \in Nat
  BY NavigationAssumption DEF LaneType, LaneRec, Docs
<1>2. (lane[l].seen <= ends => lane[l].seen <= ends') /\ (lane[l].nav <= ends => lane[l].nav <= ends')
  BY <1>1
<1> QED BY <1>1, <1>2 DEF LaneWaits, SameCall

LEMMA LanesWaitKept ==
  ASSUME Types, PageFits, EndsNoted, CallsFit, LanesWait, PageMoves \/ Elsewhere, [Next]_vars
  PROVE  LanesWait'
<1>0. /\ lane \in [Lanes -> LaneRec] /\ page \in PageRec /\ LaneType /\ ended \in Nat /\ ended <= ends
      /\ ends \in Nat /\ ends' \in Nat /\ ends <= ends'
      /\ alive' => alive /\ (ended' = ended \/ NoteNavigationEnded)
      /\ \A l \in Lanes : LaneWaits(l) /\ CallPlaced(l) /\ lane[l] \in LaneRec
  BY CountsMove DEF Types, PageType, LaneType, RegistryType, EndsNoted, CallsFit, CallFits, LanesWait
<1>1. ASSUME NEW x \in Lanes, lane'[x] = lane[x], lane[x].at = "asleep" => ~NoteNavigationEnded
      PROVE  LaneWaits(x)'
  BY <1>0, <1>1, WaitStays DEF SameCall
<1>2. ASSUME lane' = Notified, NEW x \in Lanes
      PROVE  LaneWaits(x)'
  <2>1. CASE lane[x].at # "asleep"
    <3>1. lane'[x] = lane[x]
      BY <1>2, <2>1 DEF Notified
    <3> QED BY <1>1, <2>1, <3>1
  <2>2. CASE lane[x].at = "asleep"
    <3>1. SameCall(x) /\ lane'[x].at = "wait"
      BY <1>0, <1>2, <2>2 DEF Notified, SameCall, LaneRec
    <3> QED BY <1>0, <3>1, WaitStays
  <2> QED BY <2>1, <2>2
<1>3. ASSUME NEW l \in Lanes, NavigateFor(l), NEW x \in Lanes
      PROVE  LaneWaits(x)'
  <2>1. CASE x # l
    <3>1. lane'[x] = lane[x] /\ ~NoteNavigationEnded
      <4>1. lane'[x] = lane[x]
        BY <1>0, <1>3, <2>1 DEF NavigateFor
      <4>2. page.at = "idle" /\ page'.at # "idle"
        BY <1>3 DEF NavigateFor, Link
      <4> QED BY <4>1, <4>2 DEF NoteNavigationEnded, pageVars
    <3> QED BY <1>1, <3>1
  <2>2. CASE x = l
    <3>1. /\ lane'[l].at = "running" /\ lane'[l].before = ends /\ lane'[l].nav = lane[l].nav
          /\ lane'[l].seen = lane[l].seen /\ lane[l].at = "called" /\ lane[l].nav = NoNav
          /\ lane[l].seen \in Nat /\ lane[l].seen <= ends
      BY <1>0, <1>3 DEF NavigateFor, LaneRec, CallPlaced, LaneWaits
    <3> QED BY <1>0, <2>2, <3>1 DEF LaneWaits
  <2> QED BY <2>1, <2>2
<1>4. ASSUME NavigateItself \/ Chain \/ RequestDocument \/ FireLoad \/ Resume, NEW x \in Lanes
      PROVE  LaneWaits(x)'
  <2>1. lane' = lane
    BY <1>4 DEF NavigateItself, Chain, RequestDocument, FireLoad, Resume
  <2>2. ~NoteNavigationEnded \/ lane' = Notified
    BY DEF NoteNavigationEnded
  <2> QED BY <1>1, <1>2, <2>1, <2>2
<1>5. ASSUME MoveWithin \/ Commit \/ Fail, NEW x \in Lanes
      PROVE  LaneWaits(x)'
  <2>1. /\ page.at \in Midway /\ page.nav = navs /\ ends = navs - 1 /\ navs \in Nat
        /\ ends' = ends + 1 /\ ~NoteNavigationEnded
    <3>1. page.at \in Midway /\ ends' = ends + 1
      BY <1>5 DEF MoveWithin, Commit, Fail, Midway, Emit, Milestone, Endings
    <3>2. page.nav = navs /\ ends = navs - 1 /\ navs \in Nat
      BY <3>1, NavigationAssumption DEF PageFits, ThreadFits, Midway, Types, PageType, Docs
    <3>3. NoteNavigationEnded => ends' = ends
      BY DEF NoteNavigationEnded, pageVars
    <3> QED BY <1>0, <3>1, <3>2, <3>3
  <2>2. PICK d \in Docs : Settled(page.nav, d)
    BY <1>0, <1>5 DEF MoveWithin, Commit, Fail, Types, PageType, PageRec
  <2>3. CASE page.by # x \/ ~page.first
    <3>1. lane'[x] = lane[x]
      BY <1>0, <2>2, <2>3 DEF Settled
    <3> QED BY <1>1, <2>1, <3>1
  <2>4. CASE page.by = x /\ page.first
    <3>1. lane' = [lane EXCEPT ![x].nav = page.nav, ![x].doc = d]
      BY <2>2, <2>4, LanesAssumption DEF Settled
    <3>2. /\ lane'[x].nav = page.nav /\ lane'[x].at = lane[x].at /\ lane'[x].before = lane[x].before
          /\ lane'[x].seen = lane[x].seen /\ lane[x].seen \in Nat
      BY <1>0, <3>1 DEF LaneRec
    <3>3. lane[x].at = "running" /\ lane[x].seen <= lane[x].before /\ lane[x].seen <= ends
      BY <1>0, <2>4 DEF CallPlaced, LaneWaits
    <3> QED BY <1>0, <2>1, <3>2, <3>3 DEF LaneWaits
  <2> QED BY <2>3, <2>4
<1>6. ASSUME FinishChain, NEW x \in Lanes
      PROVE  LaneWaits(x)'
  <2>1. page.at = "ended" /\ ~NoteNavigationEnded
    BY <1>6 DEF FinishChain, Idle, NoteNavigationEnded, pageVars
  <2>2. CASE page.by # x
    <3>1. lane'[x] = lane[x]
      BY <1>0, <1>6, <2>2 DEF FinishChain
    <3> QED BY <1>1, <2>1, <3>1
  <2>3. CASE page.by = x
    <3>1. lane' = [lane EXCEPT ![x].at = IF page.outcome = "committed" THEN "wait" ELSE "read"]
      BY <1>6, <2>3, LanesAssumption DEF FinishChain
    <3>2. SameCall(x) /\ lane'[x].at \in {"wait", "read"}
      BY <1>0, <3>1 DEF SameCall, LaneRec
    <3> QED BY <1>0, <3>2, WaitStays
  <2> QED BY <2>2, <2>3
<1>7. ASSUME Receive \/ FoldEvent \/ FoldNothing \/ Publish \/ Destroy \/ Dispatch \/ UNCHANGED vars, NEW x \in Lanes
      PROVE  LaneWaits(x)'
  <2>1. lane' = lane
    BY <1>7 DEF Receive, FoldEvent, FoldNothing, Publish, Destroy, Dispatch, PumpOnly, vars
  <2>2. ~NoteNavigationEnded \/ lane' = Notified
    BY DEF NoteNavigationEnded
  <2> QED BY <1>1, <1>2, <2>1, <2>2
<1>8. ASSUME NEW l \in Lanes, LaneStep(l), NEW x \in Lanes
      PROVE  LaneWaits(x)'
  <2>0. UNCHANGED <<pump, alive, ended>>
    BY <1>8 DEF LaneStep, QueueFor, CountEnds, CallFails, EndWait, Sleep, OtherTargetNotifies, WaitTimesOut, Answer,
                PageOnly, LaneOnly, registryVars
  <2>1. CASE OtherTargetNotifies(l)
    BY <1>2, <2>1 DEF OtherTargetNotifies
  <2>2. CASE x # l /\ ~OtherTargetNotifies(l)
    <3>1. lane'[x] = lane[x]
      BY <1>0, <1>8, <2>2 DEF LaneStep, QueueFor, CountEnds, CallFails, EndWait, Sleep, WaitTimesOut, Answer
    <3>2. ~NoteNavigationEnded \/ lane' = Notified
      BY DEF NoteNavigationEnded
    <3> QED BY <1>1, <1>2, <3>1, <3>2
  <2>3. CASE x = l /\ (CountEnds(l) \/ CallFails(l) \/ Answer(l))
    <3>1. lane'[l].nav = NoNav /\ lane'[l].at \in {"idle", "called"} /\ lane'[l].seen \in {0, ended}
      <4>1. CASE CountEnds(l)
        <5>1. lane'[l] = [NoCall EXCEPT !.at = "called", !.seen = IF alive THEN ended ELSE 0]
          BY <1>0, <4>1 DEF CountEnds
        <5> QED BY <5>1 DEF NoCall
      <4>2. CASE CallFails(l) \/ Answer(l)
        <5>1. lane'[l] = NoCall
          BY <1>0, <4>2 DEF CallFails, Answer
        <5> QED BY <5>1 DEF NoCall
      <4> QED BY <2>3, <4>1, <4>2
    <3> QED BY <1>0, <2>3, <3>1 DEF LaneWaits
  <2>4. CASE x = l /\ (QueueFor(l) \/ EndWait(l))
    <3>1. SameCall(l) /\ lane'[l].at \in {"wait", "read"}
      BY <1>0, <2>4 DEF QueueFor, EndWait, SameCall, LaneRec
    <3> QED BY <1>0, <2>4, <3>1, WaitStays
  <2>5. CASE x = l /\ Sleep(l)
    <3>1. SameCall(l) /\ lane'[l].at = "asleep" /\ ended <= lane[l].seen
      BY <1>0, <2>5 DEF Sleep, SameCall, LaneRec
    <3>2. lane[l].seen \in Nat /\ lane[l].nav \in Nat
      BY <1>0, NavigationAssumption DEF LaneRec, Docs
    <3>3. (lane[l].seen <= ends => lane[l].seen <= ends') /\ (lane[l].nav <= ends => lane[l].nav <= ends')
      BY <1>0, <3>2
    <3> QED BY <1>0, <2>0, <2>5, <3>1, <3>3 DEF LaneWaits, SameCall
  <2>6. CASE x = l /\ WaitTimesOut(l)
    <3>1. /\ lane'[l].seen = lane[l].seen /\ lane'[l].nav = lane[l].nav /\ lane'[l].before = lane[l].before
          /\ lane'[l].at = "read"
      BY <1>0, <2>6 DEF WaitTimesOut, LaneRec
    <3>2. lane[l].seen \in Nat /\ lane[l].nav \in Nat
      BY <1>0, NavigationAssumption DEF LaneRec, Docs
    <3>3. (lane[l].seen <= ends => lane[l].seen <= ends') /\ (lane[l].nav <= ends => lane[l].nav <= ends')
      BY <1>0, <3>2
    <3> QED BY <1>0, <2>6, <3>1, <3>3 DEF LaneWaits
  <2> QED BY <1>8, <2>1, <2>2, <2>3, <2>4, <2>5, <2>6 DEF LaneStep
<1>9. ASSUME NoteNavigationEnded, NEW x \in Lanes
      PROVE  LaneWaits(x)'
  BY <1>2, <1>9 DEF NoteNavigationEnded
<1>10. ASSUME NEW x \in Lanes
       PROVE  LaneWaits(x)'
  BY <1>3, <1>4, <1>5, <1>6, <1>7, <1>8, <1>9, <1>10 DEF Next, PageStep, PumpStep, LaneStep
<1> QED BY <1>10 DEF LanesWait

LEMMA InitWaits == Init => WInv
<1> SUFFICES ASSUME Init PROVE WInv
  OBVIOUS
<1>1. ends = 0 /\ ended = 0 /\ \A l \in Lanes : lane[l].at = "idle" /\ lane[l].nav = NoNav /\ lane[l].seen = 0
  BY DEF Init, NoCall
<1> QED BY <1>1 DEF WInv, EndsCome, LanesWait, LaneWaits

LEMMA WaitsKept == IInv /\ WInv /\ [Next]_vars => WInv'
<1> SUFFICES ASSUME IInv, WInv, [Next]_vars PROVE WInv'
  OBVIOUS
<1>0. Types /\ PageFits /\ InOrder /\ EndsNoted /\ CallsFit /\ PageType /\ ThreadFits /\ EndsCome /\ LanesWait
  BY DEF IInv, WInv, Types, PageFits
<1>1. PageMoves \/ Elsewhere
  BY <1>0, StepKinds
<1>2. ended' \in Nat
  BY InvKept DEF IInv, Types, RegistryType
<1>3. EndsCome'
  BY <1>0, <1>1, <1>2, EndsComeKept
<1>4. LanesWait'
  BY <1>0, <1>1, LanesWaitKept
<1> QED BY <1>3, <1>4 DEF WInv

LEMMA WaitsAreFor == IInv /\ WInv => NoWakeUpMissed
<1> SUFFICES ASSUME IInv, WInv, alive, ~lost, NEW l \in Lanes, lane[l].nav # NoNav, ended <= lane[l].seen
             PROVE  EndComing(lane[l].nav)
  <2>1. IInv => \A l \in Lanes : lane[l].seen \in Nat /\ ended \in Nat
    BY DEF IInv, Types, RegistryType, LaneType, LaneRec
  <2> QED BY <2>1 DEF WInv, LanesWait, LaneWaits, NoWakeUpMissed
<1>1. /\ lane[l].seen \in Nat /\ lane[l].before \in Nat /\ lane[l].nav \in Nat /\ ended \in Nat /\ ends \in Nat
  BY NavigationAssumption DEF IInv, Types, PageType, RegistryType, LaneType, LaneRec, Docs
<1>2. lane[l].seen <= lane[l].before /\ lane[l].nav <= ends
  BY DEF WInv, LanesWait, LaneWaits
<1>3. lane[l].nav = lane[l].before + 1
  BY DEF IInv, CallsFit, CallFits, CallKnown
<1>4. lane[l].nav \in ended + 1 .. ends
  BY <1>1, <1>2, <1>3
<1> QED BY <1>4 DEF WInv, EndsCome

(* A lane that sleeps on its navigation is one the pump has yet to wake:   *)
(* whatever other navigations end meanwhile, and whichever targets notify  *)
(* the one condition variable, no end slips by between the count           *)
(* `Page.navigate` takes and its sleep in `await_navigation_end`.          *)
THEOREM WakeUpsAreComing == Spec => []NoWakeUpMissed
<1>1. Spec => [](IInv /\ WInv)
  <2>1. Init => IInv /\ WInv
    BY InitInv, InitWaits
  <2>2. IInv /\ WInv /\ [Next]_vars => (IInv /\ WInv)'
    BY InvKept, WaitsKept
  <2> QED BY <2>1, <2>2, PTL DEF Spec
<1> QED BY <1>1, WaitsAreFor, PTL
===============================================================================
