--------------------------- MODULE DocumentLoadProofs ---------------------------
(***************************************************************************)
(* Proofs about DocumentLoad: type correctness, that the counters are      *)
(* exact, that scripts run once and in order, that a script which waited   *)
(* sees its sheets and `load` waits for everything, but for what the last  *)
(* pass did not notice, and that a load is never stuck.                    *)
(*                                                                         *)
(* The invariant follows an element from one place to the next.  Places    *)
(* hold elements of their own kinds (PlacesFit), the queues are in the     *)
(* order of insertion (QueuesRise), what awaits its answer or its turn is  *)
(* nowhere else and has not run (Apart, NotYetRun), and no script is lost  *)
(* on the way (Accounted).  How the waits inside the load relate to what   *)
(* a pass of the loop has done is LoopFits and WaitsFit.                   *)
(***************************************************************************)
EXTENDS DocumentLoad, FiniteSetTheorems, TLAPS

-----------------------------------------------------------------------------
(***************************************************************************)
(* Places.                                                                 *)
(***************************************************************************)
Elems(s) == {s[i] : i \in 1 .. Len(s)}
Rising(s) == \A i, j \in 1 .. Len(s) : i < j => s[i] < s[j]

\* The elements of the document so far, and the scripts inserted but not prepared.
Reached == {e \in Elements : e <= parsed \/ e > size}
Unprepared == Elems(preparing) \cup Elems(scripts)

\* The ordered scripts whose turn is to come.
Due == {orders[i] : i \in nextToRun .. Len(orders)}

Ran == ScriptsThatRan
Fetched == {"sheet", "image", "async", "dynAsync", "dynOrdered"}

KindsFit == \A e \in Elements : kind[e] \in (IF e <= size THEN Parsed ELSE Inserted)

PlacesFit ==
  /\ styles \cup images \cup Unprepared \cup Elems(orders) \cup Elems(deferred) \cup pending \subseteq Reached
  /\ \A e \in styles : kind[e] \in Sheets
  /\ \A e \in images : kind[e] = "image"
  /\ \A e \in Unprepared : kind[e] \in InsertedScripts
  /\ \A e \in Elems(orders) : kind[e] = "dynOrdered"
  /\ \A e \in Elems(deferred) : kind[e] \in AfterParse
  /\ \A e \in pending : kind[e] \in Fetched

QueuesRise ==
  /\ Rising(preparing) /\ Rising(scripts) /\ Rising(orders) /\ Rising(deferred)
  /\ \A a \in Elems(preparing) : \A b \in Elems(scripts) : a < b
  /\ \A a \in Elems(orders) : \A b \in Unprepared : a < b

Apart ==
  /\ pending \cap (styles \cup images \cup Unprepared \cup ready) = {}
  /\ ready \subseteq Due /\ Due \subseteq pending \cup ready
  /\ \A e \in pending : kind[e] = "dynOrdered" => e \in Due

\* What is in Ran ran; it is in no place from which it could run again, and
\* what runs in order is before what is yet to run.
NotYetRun ==
  /\ Ran \subseteq Reached \cup {DCL, Load}
  /\ Ran \cap (pending \cup Unprepared \cup Elems(deferred) \cup Due) = {}
  /\ \A e \in Ran \cap Elements :
       /\ kind[e] \notin {"sheet", "image"}
       /\ kind[e] = "dynOrdered" => \A d \in Due \cup Unprepared : e < d
       /\ kind[e] \in AfterParse => \A d \in Elems(deferred) : e < d

\* No script is lost.
Accounted ==
  \A e \in Reached : \/ kind[e] \in {"sheet", "image"}
                     \/ e \in Ran \cup pending \cup ready \cup Unprepared \cup Elems(deferred)
                     \/ at = "due" /\ e = parsed

Places == KindsFit /\ PlacesFit /\ QueuesRise /\ Apart /\ NotYetRun /\ Accounted

-----------------------------------------------------------------------------
(***************************************************************************)
(* The load and the loop.                                                  *)
(***************************************************************************)
Ended == {"dcl", "subs", "loaded", "idle"}

LoadFits ==
  /\ doc = 0 => kind = <<>> /\ at = "idle" /\ wire = {} /\ phase # "images"
  /\ at \notin {"parse", "due", "after"} => parsed = size
  /\ at = "due" => parsed > 0 /\ kind[parsed] \in Sync /\ parsed \notin Ran
  /\ at \in Ended => deferred = <<>>
  /\ DCL \in Ran => at \in Ended
  /\ Load \in Ran => at \in {"loaded", "idle"}
  /\ \A e \in Ran \cap Elements : kind[e] \in AfterParse => at \in {"deferred"} \cup Ended

LoopFits ==
  /\ preparing # <<>> => (phase = "scripts" /\ wait # "none") \/ (at = "after" /\ wait = "none")
  /\ OrderedReady => wait # "none" /\ progressed /\ phase \in {"top", "net"}
  /\ wait # "none" /\ phase = "scripts" /\ ~progressed => styles = {} /\ scripts = <<>> /\ preparing = <<>>
  /\ wait # "none" /\ phase \in {"images", "fonts", "net"} /\ ~progressed => QueuedIsUnseen

WaitsFit ==
  /\ wait # "none" => waited = "no"
  /\ at \in {"parse", "after"} => wait = "none" /\ waited = "no"
  /\ wait = "sheets" => at \in {"due", "end", "deferred"}
  /\ wait = "stall" => at \in {"dcl", "loaded"}
  /\ wait = "subs" => at = "subs"
  /\ at = "idle" <=> wait = "idle"
  /\ waited = "done" => QueuedIsUnseen
  /\ waited = "done" /\ at \in {"due", "end", "deferred"} => SheetsOf(pending) = {}
  /\ waited = "done" /\ at = "subs" => pending = {}

IInv ==
  TypeOK /\ CountersExact /\ Places /\ LoadFits /\ LoopFits /\ WaitsFit /\ ScriptsInOrder

-----------------------------------------------------------------------------
(***************************************************************************)
(* Queues as sets.                                                         *)
(***************************************************************************)
LEMMA ElemsAppend ==
  ASSUME NEW S, NEW s \in Seq(S), NEW x \in S
  PROVE  Elems(Append(s, x)) = Elems(s) \cup {x}
<1>1. Len(Append(s, x)) = Len(s) + 1 /\ Len(s) \in Nat /\ Append(s, x)[Len(s) + 1] = x
  OBVIOUS
<1>2. \A i \in 1 .. Len(s) : Append(s, x)[i] = s[i]
  OBVIOUS
<1> QED BY <1>1, <1>2 DEF Elems

LEMMA RisingAppend ==
  ASSUME NEW s \in Seq(Nat), NEW x \in Nat, Rising(s), \A e \in Elems(s) : e < x
  PROVE  Rising(Append(s, x))
<1>1. Len(Append(s, x)) = Len(s) + 1 /\ Len(s) \in Nat /\ Append(s, x)[Len(s) + 1] = x
  OBVIOUS
<1>2. \A i \in 1 .. Len(s) : Append(s, x)[i] = s[i] /\ s[i] < x
  BY DEF Elems
<1> QED BY <1>1, <1>2 DEF Rising

\* The head of a rising sequence is before the rest of it, and not among it.
LEMMA TailParts ==
  ASSUME NEW S, NEW s \in Seq(S), s # <<>>
  PROVE  /\ Head(s) \in S /\ Tail(s) \in Seq(S) /\ Elems(s) = Elems(Tail(s)) \cup {Head(s)}
         /\ Rising(s) => Rising(Tail(s)) /\ \A e \in Elems(Tail(s)) : Head(s) < e
<1>1. Len(s) \in Nat \ {0} /\ Len(Tail(s)) = Len(s) - 1 /\ Head(s) = s[1] /\ s[1] \in S /\ Tail(s) \in Seq(S)
  OBVIOUS
<1>2. \A i \in 1 .. Len(s) - 1 : Tail(s)[i] = s[i + 1] /\ i + 1 \in 1 .. Len(s) /\ 1 < i + 1
  BY <1>1
<1>3. Elems(s) \subseteq Elems(Tail(s)) \cup {Head(s)}
  <2> SUFFICES ASSUME NEW i \in 1 .. Len(s) PROVE s[i] \in Elems(Tail(s)) \cup {Head(s)}
    BY DEF Elems
  <2>1. CASE i = 1
    BY <1>1, <2>1
  <2>2. CASE i # 1
    <3>1. i - 1 \in 1 .. Len(Tail(s)) /\ Tail(s)[i - 1] = s[i]
      BY <1>1, <1>2, <2>2
    <3> QED BY <3>1 DEF Elems
  <2> QED BY <2>1, <2>2
<1>4. Elems(Tail(s)) \cup {Head(s)} \subseteq Elems(s)
  BY <1>1, <1>2 DEF Elems
<1>5. ASSUME Rising(s) PROVE Rising(Tail(s)) /\ \A e \in Elems(Tail(s)) : Head(s) < e
  <2>1. \A i, j \in 1 .. Len(Tail(s)) : i < j => i + 1 < j + 1
    BY <1>1
  <2>2. Rising(Tail(s))
    BY <1>1, <1>2, <1>5, <2>1 DEF Rising
  <2>3. \A i \in 1 .. Len(Tail(s)) : s[1] < s[i + 1]
    BY <1>1, <1>2, <1>5 DEF Rising
  <2> QED BY <1>1, <1>2, <2>2, <2>3 DEF Elems
<1> QED BY <1>1, <1>3, <1>4, <1>5

LEMMA ElemsEmpty == Elems(<<>>) = {} /\ Rising(<<>>)
BY DEF Elems, Rising

LEMMA ElemsType ==
  ASSUME NEW S, NEW s \in Seq(S)
  PROVE  Elems(s) \subseteq S
BY DEF Elems

LEMMA ElemsNone ==
  ASSUME NEW S, NEW s \in Seq(S), Elems(s) = {}
  PROVE  s = <<>>
<1>1. Len(s) \in Nat /\ (Len(s) # 0 => 1 \in 1 .. Len(s))
  OBVIOUS
<1>2. Len(s) = 0
  BY <1>1 DEF Elems
<1> QED BY <1>2

LEMMA ElementsAre ==
  ASSUME TypeOK
  PROVE  /\ Elements = 1 .. Len(kind) /\ Len(kind) \in Nat /\ Len(kind) <= MaxElements /\ MaxElements \in Nat
         /\ \A e \in Elements : e \in Nat /\ kind[e] \in Parsed \cup Inserted /\ e # DCL /\ e # Load
         /\ size \in Nat /\ parsed \in Nat /\ parsed <= size /\ size <= Len(kind)
BY BoundsAssumption DEF TypeOK, Elements, DCL, Load

-----------------------------------------------------------------------------
(***************************************************************************)
(* What script may insert, in terms of sets.                               *)
(***************************************************************************)
New == Elements' \ Elements

Inserts ==
  /\ kind' \in Seq(Parsed \cup Inserted) /\ Len(kind') <= MaxElements /\ Len(kind) <= Len(kind')
  /\ \A e \in Elements : e \in Elements' /\ kind'[e] = kind[e]
  /\ \A e \in New : e > Len(kind) /\ kind'[e] \in Inserted
  /\ styles' = styles \cup {e \in New : kind'[e] \in Sheets}
  /\ images' = images \cup {e \in New : kind'[e] = "image"}
  /\ scripts' \in Seq(Elements')
  /\ Elems(scripts') = Elems(scripts) \cup {e \in New : kind'[e] \in InsertedScripts}
  /\ Rising(scripts) => Rising(scripts')

LEMMA Inserting ==
  ASSUME TypeOK, MayInsert
  PROVE  Inserts
<1>0. /\ Elements = 1 .. Len(kind) /\ Len(kind) \in Nat /\ Len(kind) <= MaxElements /\ MaxElements \in Nat
      /\ kind \in Seq(Parsed \cup Inserted) /\ scripts \in Seq(Elements)
  BY ElementsAre DEF TypeOK
<1>1. CASE UNCHANGED <<kind, queues>>
  <2>1. Elements' = Elements /\ New = {} /\ UNCHANGED <<styles, images, scripts, kind>>
    BY <1>1 DEF Elements, New, queues
  <2> QED BY <1>0, <2>1 DEF Inserts
<1>2. CASE ~UNCHANGED <<kind, queues>>
  <2>1. PICK k \in Inserted, e \in Nat :
          /\ e = Len(kind) + 1 /\ kind' = Append(kind, k) /\ Len(kind) < MaxElements
          /\ styles' = IF k \in Sheets THEN styles \cup {e} ELSE styles
          /\ images' = IF k = "image" THEN images \cup {e} ELSE images
          /\ scripts' = IF k \in InsertedScripts THEN Append(scripts, e) ELSE scripts
    BY <1>0, <1>2 DEF MayInsert
  <2>2. /\ kind' \in Seq(Parsed \cup Inserted) /\ Len(kind') = e /\ kind'[e] = k
        /\ \A x \in 1 .. Len(kind) : kind'[x] = kind[x]
    BY <1>0, <2>1
  <2>3. Elements' = 1 .. e
    BY <1>0, <2>1, <2>2 DEF Elements
  <2>4. New = {e}
    BY <1>0, <2>1, <2>3 DEF New
  <2>5. \A x \in Elements : x \in Elements' /\ kind'[x] = kind[x]
    BY <1>0, <2>1, <2>2, <2>3
  <2>6. scripts \in Seq(Elements') /\ scripts \in Seq(Nat)
    BY <1>0, <2>5
  <2>7. /\ scripts' \in Seq(Elements')
        /\ Elems(scripts') = Elems(scripts) \cup {x \in New : kind'[x] \in InsertedScripts}
        /\ Rising(scripts) => Rising(scripts')
    <3>1. CASE k \in InsertedScripts
      <4>1. scripts' = Append(scripts, e) /\ e \in Elements'
        BY <2>1, <2>3, <3>1
      <4>2. Elems(scripts') = Elems(scripts) \cup {e}
        BY <2>1, <2>6, <4>1, ElemsAppend
      <4>3. \A x \in Elems(scripts) : x < e
        BY <1>0, <2>1, ElemsType
      <4>4. Rising(scripts) => Rising(scripts')
        BY <2>1, <2>6, <4>1, <4>3, RisingAppend
      <4> QED BY <2>2, <2>4, <2>6, <3>1, <4>1, <4>2, <4>4
    <3>2. CASE k \notin InsertedScripts
      BY <2>1, <2>2, <2>4, <2>6, <3>2
    <3> QED BY <3>1, <3>2
  <2>8. /\ styles' = styles \cup {x \in New : kind'[x] \in Sheets}
        /\ images' = images \cup {x \in New : kind'[x] = "image"}
    BY <2>1, <2>2, <2>4
  <2>9. e > Len(kind) /\ Len(kind) <= Len(kind') /\ Len(kind') <= MaxElements
    BY <1>0, <2>1, <2>2
  <2> QED BY <2>1, <2>2, <2>4, <2>5, <2>7, <2>8, <2>9 DEF Inserts
<1> QED BY <1>1, <1>2

-----------------------------------------------------------------------------
(***************************************************************************)
(* Types.                                                                  *)
(***************************************************************************)
ControlOK ==
  /\ until \in {"load", "dcl"}
  /\ at \in {"idle", "parse", "due", "after", "end", "deferred", "dcl", "subs", "loaded"}
  /\ wait \in {"none", "sheets", "stall", "subs", "idle"}
  /\ waited \in {"no", "done", "late"}
  /\ phase \in {"top", "scripts", "images", "fonts", "net"} /\ progressed \in BOOLEAN
  /\ suspended \in BOOLEAN /\ suspends \in 0 .. MaxSuspends

\* Steps that move no element.
Pause ==
  \/ AwaitSheets \/ BeginDeferred \/ AfterDCL \/ AfterLoad
  \/ NextPass \/ WaitDone \/ OutOfTime \/ StopWaiting \/ Suspend \/ Resume \/ UNCHANGED vars
Still == UNCHANGED <<doc, kind, size, parsed, queues, preparing, deferred, ordered, requests, history>>

LEMMA PauseIsStill == Pause => Still
<1>1. CASE AwaitSheets \/ BeginDeferred \/ AfterDCL \/ AfterLoad
  BY <1>1 DEF AwaitSheets, BeginDeferred, AfterDCL, AfterLoad, Still, parser
<1>2. CASE NextPass \/ WaitDone \/ OutOfTime \/ StopWaiting
  BY <1>2 DEF NextPass, WaitDone, OutOfTime, StopWaiting, EndWait, Still, parser
<1>3. CASE Suspend \/ Resume \/ UNCHANGED vars
  BY <1>3 DEF Suspend, Resume, vars, Still, parser
<1> QED BY <1>1, <1>2, <1>3 DEF Pause

\* The load runs a script or tells listeners of a milestone, or only listeners hear.
Runs == RunParserScript \/ RunDeferred \/ FireDCL \/ FireLoad
Tells == EndParse \/ RunTask \/ TellImages \/ SettleFonts
TakesBatch == AfterScript \/ TopOfPass
Navigates == \E m \in Markups : Chain(m) \/ \E w \in {"load", "dcl"} : Navigate(m, w)
Delivers == \E r \in wire : Deliver(r)

LEMMA Steps ==
  [Next]_vars <=>
    \/ Pause \/ Runs \/ Tells \/ TakesBatch \/ Navigates \/ Delivers
    \/ ParseNext \/ Prepare \/ StartImages \/ RunOrdered
BY DEF Next, LoadNext, LoopNext, Pause, Runs, Tells, TakesBatch, Navigates, Delivers

\* A navigation begins a load, wherever it was asked for.
LEMMA Navigating ==
  ASSUME Navigates
  PROVE  \E m \in Markups, w \in {"load", "dcl", until} : BeginLoad(m, w)
BY DEF Navigates, Navigate, Chain

LEMMA NavigatesApart ==
  ASSUME LoopFits, Navigates
  PROVE  preparing = <<>>
BY DEF LoopFits, Navigates, Navigate, Chain, LoadIsOver, Straight, Served, Stalled, Looping

LEMMA TellsInserts ==
  ASSUME Tells
  PROVE  /\ MayInsert /\ UNCHANGED <<doc, size, parsed, preparing, deferred, ordered, requests, log>>
         /\ at' = at \/ (at = "parse" /\ parsed = size /\ at' = "end")
BY DEF Tells, EndParse, RunTask, TellImages, SettleFonts, InsertUnseen, MayInsert, history

LEMMA ControlKept ==
  ASSUME TypeOK, [Next]_vars
  PROVE  ControlOK'
<1>0. ControlOK
  BY DEF TypeOK, ControlOK
<1>1. CASE AwaitSheets \/ BeginDeferred \/ AfterDCL \/ AfterLoad
  BY <1>0, <1>1 DEF AwaitSheets, BeginDeferred, AfterDCL, AfterLoad, ControlOK, BeginWait, GoOn, driver, parser
<1>2. CASE NextPass \/ WaitDone \/ OutOfTime \/ StopWaiting
  BY <1>0, <1>2 DEF NextPass, WaitDone, OutOfTime, StopWaiting, EndWait, ControlOK, driver, parser
<1>3. CASE Resume \/ UNCHANGED vars
  BY <1>0, <1>3 DEF Resume, vars, ControlOK, driver, parser, loop
<1>4. CASE Suspend
  BY <1>0, <1>4, BoundsAssumption DEF Suspend, ControlOK, parser
<1>5. CASE Runs
  BY <1>0, <1>5 DEF Runs, RunParserScript, RunDeferred, FireDCL, FireLoad, ControlOK, BeginWait, GoOn, driver
<1>6. CASE Tells \/ StartImages \/ RunOrdered
  BY <1>0, <1>6 DEF Tells, EndParse, RunTask, TellImages, SettleFonts, StartImages, RunOrdered, ControlOK,
     driver, parser, loop
<1>7. CASE TakesBatch
  BY <1>0, <1>7 DEF TakesBatch, AfterScript, TopOfPass, ControlOK, driver, parser, loop
<1>8. CASE Navigates
  BY <1>0, <1>8, Navigating DEF BeginLoad, ControlOK, driver
<1>9. CASE Delivers
  BY <1>0, <1>9 DEF Delivers, Deliver, ControlOK, driver
<1>10. CASE ParseNext
  BY <1>0, <1>10 DEF ParseNext, ControlOK, driver, loop
<1>11. CASE Prepare
  BY <1>0, <1>11 DEF Prepare, ControlOK, driver, loop
<1> QED BY <1>1, <1>2, <1>3, <1>4, <1>5, <1>6, <1>7, <1>8, <1>9, <1>10, <1>11, Steps DEF Pause

DataOK ==
  /\ doc \in 0 .. MaxDocuments
  /\ kind \in Seq(Parsed \union Inserted) /\ Len(kind) <= MaxElements
  /\ size \in 0 .. Len(kind) /\ parsed \in 0 .. size
  /\ styles \subseteq Elements /\ images \subseteq Elements
  /\ scripts \in Seq(Elements) /\ preparing \in Seq(Elements) /\ deferred \in Seq(Elements)
  /\ orders \in Seq(Elements) /\ nextToRun \in 1 .. Len(orders) + 1 /\ ready \subseteq Elements
  /\ pending \subseteq Elements
  /\ wire \subseteq (1 .. MaxDocuments) \X (1 .. MaxElements)
  /\ inFlight \in Nat /\ pendingSheets \in Nat
  /\ log \in Seq(0 .. MaxElements + 1)

UnseenOK == unseen \subseteq Elements

LEMMA TypesAre == TypeOK <=> ControlOK /\ DataOK /\ UnseenOK
BY DEF TypeOK, ControlOK, DataOK, UnseenOK

LEMMA FiniteElements ==
  ASSUME TypeOK, NEW es \in SUBSET Elements
  PROVE  IsFiniteSet(es) /\ Cardinality(es) \in Nat /\ IsFiniteSet(SheetsOf(es)) /\ Cardinality(SheetsOf(es)) \in Nat
<1>1. IsFiniteSet(Elements)
  BY ElementsAre, FS_Interval
<1>2. IsFiniteSet(es) /\ IsFiniteSet(SheetsOf(es))
  <2>1. SheetsOf(es) \in SUBSET Elements
    BY DEF SheetsOf
  <2> QED BY <1>1, <2>1, FS_Subset
<1> QED BY <1>2, FS_CardinalityType

LEMMA StartTypes ==
  ASSUME TypeOK, LoadFits, NEW es \in SUBSET Elements, Start(es)
  PROVE  /\ pending' = pending \cup es /\ wire' \subseteq (1 .. MaxDocuments) \X (1 .. MaxElements)
         /\ inFlight' \in Nat /\ pendingSheets' \in Nat
<1>1. inFlight' \in Nat /\ pendingSheets' \in Nat
  <2>1. Cardinality(es) \in Nat /\ Cardinality(SheetsOf(es)) \in Nat
    BY FiniteElements
  <2>2. inFlight \in Nat /\ pendingSheets \in Nat
    BY DEF TypeOK
  <2> QED BY <2>1, <2>2 DEF Start
<1>2. ASSUME NEW e \in es PROVE <<doc, e>> \in (1 .. MaxDocuments) \X (1 .. MaxElements)
  <2>1. e \in 1 .. Len(kind)
    BY ElementsAre
  <2>2. kind # <<>>
    BY <2>1
  <2>3. doc \in 1 .. MaxDocuments
    BY <2>2, BoundsAssumption DEF LoadFits, TypeOK
  <2> QED BY <2>1, <2>3, ElementsAre
<1> QED BY <1>1, <1>2 DEF Start, TypeOK

\* What script may have done to the places it can reach.
LEMMA InsertTypes ==
  ASSUME TypeOK, Inserts
  PROVE  /\ kind' \in Seq(Parsed \union Inserted) /\ Len(kind') <= MaxElements /\ size \in 0 .. Len(kind')
         /\ Elements \subseteq Elements' /\ styles' \subseteq Elements' /\ images' \subseteq Elements'
         /\ scripts' \in Seq(Elements') /\ preparing \in Seq(Elements') /\ deferred \in Seq(Elements')
         /\ orders \in Seq(Elements')
         /\ \A s \in Seq(Elements) : s \in Seq(Elements')
<1>1. Elements \subseteq Elements' /\ New \subseteq Elements'
  BY DEF Inserts, New
<1>2. \A s \in Seq(Elements) : s \in Seq(Elements')
  BY <1>1
<1>3. Len(kind) \in Nat /\ Len(kind') \in Nat /\ size \in 0 .. Len(kind')
  BY DEF TypeOK, Inserts
<1> QED BY <1>1, <1>2, <1>3 DEF TypeOK, Inserts

LEMMA LogType ==
  ASSUME TypeOK, NEW e \in Elements \cup {DCL, Load}
  PROVE  Append(log, e) \in Seq(0 .. MaxElements + 1)
<1>1. e \in 0 .. MaxElements + 1
  BY ElementsAre, BoundsAssumption DEF DCL, Load
<1> QED BY <1>1 DEF TypeOK

LEMMA DataKept ==
  ASSUME TypeOK, LoadFits, LoopFits, PlacesFit, [Next]_vars
  PROVE  DataOK'
<1>0. /\ DataOK /\ TypeOK
      /\ Elements = 1 .. Len(kind) /\ \A e \in Elements : e \in Elements \cup {DCL, Load}
  BY TypesAre, ElementsAre
<1>1. CASE Pause
  <2>1. Still /\ Elements' = Elements
    BY <1>1, PauseIsStill DEF Still, Elements
  <2> QED BY <1>0, <2>1 DEF Still, DataOK, queues, ordered, requests, history
<1>2. CASE Runs
  <2>1. PICK e \in Elements \cup {DCL, Load} : Run(e)
    <3>1. CASE RunParserScript
      <4>1. parsed \in Elements
        BY <1>0, <3>1, ElementsAre DEF RunParserScript, LoadFits
      <4> QED BY <3>1, <4>1 DEF RunParserScript
    <3>2. CASE RunDeferred
      <4>1. Head(deferred) \in Elements
        BY <1>0, <3>2 DEF RunDeferred, DataOK
      <4> QED BY <3>2, <4>1 DEF RunDeferred
    <3> QED BY <1>2, <3>1, <3>2 DEF Runs, FireDCL, FireLoad
  <2>2. UNCHANGED <<doc, size, parsed, preparing, ordered, requests>> /\ deferred' \in Seq(Elements)
    <3>1. CASE RunDeferred
      <4>1. deferred \in Seq(Elements) /\ deferred # <<>> /\ deferred' = Tail(deferred)
        BY <1>0, <3>1 DEF RunDeferred, DataOK
      <4>2. deferred' \in Seq(Elements)
        BY <4>1
      <4> QED BY <3>1, <4>2 DEF RunDeferred
    <3>2. CASE RunParserScript \/ FireDCL \/ FireLoad
      BY <1>0, <3>2 DEF RunParserScript, FireDCL, FireLoad, DataOK
    <3> QED BY <1>2, <3>1, <3>2 DEF Runs
  <2>3. Inserts /\ log' = Append(log, e)
    BY <1>0, <2>1, Inserting DEF Run
  <2>4. log' \in Seq(0 .. MaxElements + 1)
    BY <1>0, <2>3, LogType
  <2>5. ready \subseteq Elements' /\ pending \subseteq Elements' /\ deferred' \in Seq(Elements')
    BY <1>0, <2>2, <2>3, InsertTypes DEF DataOK
  <2> QED BY <1>0, <2>2, <2>3, <2>4, <2>5, InsertTypes DEF DataOK, ordered, requests
<1>3. CASE Tells
  <2>1. UNCHANGED <<doc, size, parsed, preparing, deferred, ordered, requests, log>> /\ Inserts
    BY <1>0, <1>3, Inserting, TellsInserts
  <2>2. ready \subseteq Elements' /\ pending \subseteq Elements'
    BY <1>0, <2>1, InsertTypes DEF DataOK
  <2> QED BY <1>0, <2>1, <2>2, InsertTypes DEF DataOK, ordered, requests
<1>4. CASE TakesBatch
  <2>1. PICK es \in SUBSET Elements : es = styles /\ Start(es)
    BY <1>0, <1>4 DEF TakesBatch, AfterScript, TopOfPass, DataOK
  <2>2. /\ UNCHANGED <<doc, kind, size, parsed, images, deferred, ordered, log>>
        /\ styles' = {} /\ preparing' = scripts /\ scripts' = <<>>
    BY <1>4 DEF TakesBatch, AfterScript, TopOfPass, parser, history
  <2>3. Elements' = Elements
    BY <2>2 DEF Elements
  <2>4. /\ pending' \subseteq Elements /\ wire' \subseteq (1 .. MaxDocuments) \X (1 .. MaxElements)
        /\ inFlight' \in Nat /\ pendingSheets' \in Nat
    BY <1>0, <2>1, StartTypes DEF DataOK
  <2>5. scripts' \in Seq(Elements) /\ preparing' \in Seq(Elements) /\ styles' \subseteq Elements
    BY <1>0, <2>2 DEF DataOK
  <2> QED BY <1>0, <2>2, <2>3, <2>4, <2>5 DEF DataOK, ordered
<1>5. CASE StartImages
  <2>1. PICK es \in SUBSET Elements : Start(es)
    BY <1>0, <1>5 DEF StartImages, DataOK
  <2>2. /\ UNCHANGED <<doc, kind, size, parsed, styles, scripts, preparing, deferred, ordered, log>>
        /\ images' = {}
    BY <1>5 DEF StartImages, parser, history
  <2>3. Elements' = Elements
    BY <2>2 DEF Elements
  <2> QED BY <1>0, <2>1, <2>2, <2>3, StartTypes DEF DataOK, ordered
<1>6. CASE ParseNext
  <2>1. PICK e \in Elements : e = parsed + 1
    BY <1>0, <1>6, ElementsAre DEF ParseNext
  <2>2. /\ UNCHANGED <<doc, kind, size, styles, scripts, preparing, ordered, log>> /\ parsed' = e
        /\ IF kind[e] \in Sheets \union {"async"} THEN Start({e}) ELSE UNCHANGED requests
        /\ images' \subseteq images \cup {e}
        /\ deferred' \in {deferred, Append(deferred, e)}
    BY <1>6, <2>1 DEF ParseNext, history
  <2>3. Elements' = Elements /\ {e} \in SUBSET Elements /\ parsed' \in 0 .. size
    BY <1>6, <2>1, <2>2, ElementsAre DEF Elements, ParseNext
  <2>4. /\ pending' \subseteq Elements /\ wire' \subseteq (1 .. MaxDocuments) \X (1 .. MaxElements)
        /\ inFlight' \in Nat /\ pendingSheets' \in Nat
    <3>1. CASE Start({e})
      BY <1>0, <2>3, <3>1, StartTypes DEF DataOK
    <3>2. CASE UNCHANGED requests
      BY <1>0, <3>2 DEF DataOK, requests
    <3> QED BY <2>2, <3>1, <3>2
  <2>5. deferred' \in Seq(Elements) /\ images' \subseteq Elements
    <3>1. deferred \in Seq(Elements) /\ images \subseteq Elements
      BY <1>0 DEF DataOK
    <3>2. Append(deferred, e) \in Seq(Elements)
      BY <3>1
    <3> QED BY <2>1, <2>2, <3>1, <3>2
  <2> QED BY <1>0, <2>2, <2>3, <2>4, <2>5 DEF DataOK, ordered
<1>7. CASE Prepare
  <2>1. PICK e \in Elements : e = Head(preparing)
    BY <1>0, <1>7 DEF Prepare, DataOK
  <2>2. /\ UNCHANGED <<doc, size, parsed, deferred, nextToRun, ready>>
        /\ preparing' = Tail(preparing) /\ preparing # <<>>
        /\ orders' \in {orders, Append(orders, e)}
    BY <1>7, <2>1 DEF Prepare
  <2>3. preparing' \in Seq(Elements) /\ orders' \in Seq(Elements) /\ nextToRun \in 1 .. Len(orders') + 1
    <3>1. /\ preparing \in Seq(Elements) /\ orders \in Seq(Elements) /\ Len(orders) \in Nat
          /\ nextToRun \in 1 .. Len(orders) + 1
      BY <1>0 DEF DataOK
    <3>2. Append(orders, e) \in Seq(Elements) /\ Len(Append(orders, e)) = Len(orders) + 1
      BY <3>1
    <3>3. Tail(preparing) \in Seq(Elements)
      BY <2>2, <3>1
    <3>4. CASE orders' = orders
      BY <2>2, <3>1, <3>3, <3>4
    <3>5. CASE orders' = Append(orders, e)
      <4>1. orders' \in Seq(Elements) /\ Len(orders') = Len(orders) + 1
        BY <3>2, <3>5
      <4>2. nextToRun \in 1 .. Len(orders') + 1
        BY <3>1, <4>1
      <4> QED BY <2>2, <3>3, <4>1, <4>2
    <3> QED BY <2>2, <3>4, <3>5
  <2>4. CASE kind[e] = "dynInline"
    <3>1. Run(e) /\ UNCHANGED requests
      BY <1>7, <2>1, <2>4 DEF Prepare
    <3>2. Inserts /\ log' \in Seq(0 .. MaxElements + 1)
      BY <1>0, <3>1, Inserting, LogType DEF Run
    <3>3. ready \subseteq Elements' /\ pending \subseteq Elements' /\ preparing' \in Seq(Elements') /\ orders' \in Seq(Elements')
      BY <1>0, <2>3, <3>2, InsertTypes DEF DataOK
    <3> QED BY <1>0, <2>2, <2>3, <3>1, <3>2, <3>3, InsertTypes DEF DataOK, requests
  <2>5. CASE kind[e] # "dynInline"
    <3>1. Start({e}) /\ UNCHANGED <<kind, queues, log>> /\ {e} \in SUBSET Elements
      BY <1>7, <2>1, <2>5 DEF Prepare, history
    <3>2. Elements' = Elements
      BY <3>1 DEF Elements
    <3> QED BY <1>0, <2>1, <2>2, <2>3, <3>1, <3>2, StartTypes DEF DataOK, queues
  <2> QED BY <2>4, <2>5
<1>8. CASE RunOrdered
  <2>1. PICK e \in Elements : e = orders[nextToRun] /\ nextToRun <= Len(orders)
    BY <1>0, <1>8 DEF RunOrdered, OrderedReady, DataOK
  <2>2. /\ Run(e) /\ ready' \subseteq ready /\ nextToRun' = nextToRun + 1
        /\ UNCHANGED <<doc, size, parsed, preparing, deferred, orders, requests>>
    BY <1>8, <2>1 DEF RunOrdered
  <2>3. Inserts /\ log' \in Seq(0 .. MaxElements + 1)
    BY <1>0, <2>2, Inserting, LogType DEF Run
  <2>4. ready' \subseteq Elements' /\ pending \subseteq Elements'
    BY <1>0, <2>2, <2>3, InsertTypes DEF DataOK
  <2>5. nextToRun' \in 1 .. Len(orders) + 1
    BY <1>0, <2>1, <2>2 DEF DataOK
  <2> QED BY <1>0, <2>2, <2>3, <2>4, <2>5, InsertTypes DEF DataOK, requests
<1>9. CASE Delivers
  <2>1. PICK r \in wire : Deliver(r)
    BY <1>9 DEF Delivers
  <2>2. UNCHANGED <<doc, size, parsed, preparing, deferred, orders, nextToRun>> /\ wire' \subseteq wire
    BY <2>1 DEF Deliver
  <2>3. CASE r[1] = doc /\ r[2] \in pending
    <3>1. PICK e \in Elements : e = r[2] /\ Settle(e) /\ Arrive(e)
      BY <1>0, <2>1, <2>3 DEF Deliver, DataOK
    <3>2. pending' \subseteq pending /\ inFlight' \in Nat /\ pendingSheets' \in Nat
      BY <1>0, <3>1 DEF Settle, DataOK
    <3>3. CASE kind[e] = "dynOrdered"
      <4>1. ready' = ready \cup {e} /\ UNCHANGED <<kind, queues, log>>
        BY <3>1, <3>3 DEF Arrive, history
      <4>2. Elements' = Elements
        BY <4>1 DEF Elements
      <4> QED BY <1>0, <2>2, <3>1, <3>2, <4>1, <4>2 DEF DataOK, queues
    <3>4. CASE kind[e] # "dynOrdered"
      <4>1. ready' = ready /\ log' \in {log, Append(log, e)} /\ MayInsert
        BY <3>1, <3>4 DEF Arrive, Run, history
      <4>2. Inserts /\ log' \in Seq(0 .. MaxElements + 1)
        BY <1>0, <4>1, Inserting, LogType DEF DataOK
      <4>3. ready' \subseteq Elements' /\ pending' \subseteq Elements'
        BY <1>0, <3>2, <4>1, <4>2, InsertTypes DEF DataOK
      <4> QED BY <1>0, <2>2, <3>2, <4>2, <4>3, InsertTypes DEF DataOK
    <3> QED BY <3>3, <3>4
  <2>4. CASE ~(r[1] = doc /\ r[2] \in pending)
    <3>1. UNCHANGED <<pending, inFlight, pendingSheets, ready, kind, queues, log>>
      BY <2>1, <2>4 DEF Deliver, history
    <3>2. Elements' = Elements
      BY <3>1 DEF Elements
    <3> QED BY <1>0, <2>2, <3>1, <3>2 DEF DataOK, queues
  <2> QED BY <2>3, <2>4
<1>10. CASE Navigates
  <2>1. PICK m \in Markups : Reset(m) /\ doc < MaxDocuments /\ preparing' = preparing
    BY <1>10, Navigating DEF BeginLoad
  <2>2. m \in Seq(Parsed) /\ Len(m) <= MaxElements
    BY MarkupsAssumption
  <2>3. m \in Seq(Parsed \union Inserted) /\ Len(m) \in Nat
    BY <2>2
  <2>4. preparing = <<>>
    BY <1>10, NavigatesApart
  <2>5. doc' \in 0 .. MaxDocuments
    BY <1>0, <2>1, BoundsAssumption DEF Reset, DataOK
  <2> QED BY <1>0, <2>1, <2>2, <2>3, <2>4, <2>5 DEF Reset, DataOK
<1> QED BY <1>1, <1>2, <1>3, <1>4, <1>5, <1>6, <1>7, <1>8, <1>9, <1>10, Steps


-----------------------------------------------------------------------------
(***************************************************************************)
(* The counters.                                                           *)
(***************************************************************************)
KindsStay == \A e \in Elements : e \in Elements' /\ kind'[e] = kind[e]

LEMMA RequestsStay ==
  ASSUME TypeOK, CountersExact, KindsStay, UNCHANGED <<doc, requests>>
  PROVE  CountersExact'
<1>1. pending \subseteq Elements
  BY DEF TypeOK
<1>2. SheetsOf(pending)' = SheetsOf(pending)
  BY <1>1 DEF SheetsOf, KindsStay, requests
<1> QED BY <1>2 DEF CountersExact, requests

LEMMA StartCounts ==
  ASSUME TypeOK, CountersExact, KindsStay, doc' = doc,
         NEW es \in SUBSET Elements, Start(es), pending \cap es = {}
  PROVE  CountersExact'
<1>1. /\ IsFiniteSet(pending) /\ IsFiniteSet(SheetsOf(pending)) /\ IsFiniteSet(es) /\ IsFiniteSet(SheetsOf(es))
      /\ pending \subseteq Elements
  BY FiniteElements DEF TypeOK
<1>2. SheetsOf(pending)' = SheetsOf(pending) \cup SheetsOf(es)
  BY <1>1 DEF SheetsOf, KindsStay, Start
<1>3. SheetsOf(pending) \cap SheetsOf(es) = {}
  BY DEF SheetsOf
<1>4. /\ Cardinality(pending) \in Nat /\ Cardinality(es) \in Nat
      /\ Cardinality(SheetsOf(pending)) \in Nat /\ Cardinality(SheetsOf(es)) \in Nat
  BY <1>1, FS_CardinalityType
<1>5. Cardinality(pending \cup es) = Cardinality(pending) + Cardinality(es)
  <2>1. Cardinality(pending \cup es) = Cardinality(pending) + Cardinality(es) - Cardinality(pending \cap es)
    BY <1>1, FS_Union
  <2>2. Cardinality(pending \cap es) = 0
    BY FS_EmptySet
  <2> QED BY <1>4, <2>1, <2>2
<1>6. Cardinality(SheetsOf(pending) \cup SheetsOf(es)) = Cardinality(SheetsOf(pending)) + Cardinality(SheetsOf(es))
  BY <1>1, <1>3, <1>4, FS_Union, FS_EmptySet
<1>7. \A e \in pending' : <<doc', e>> \in wire'
  BY DEF Start, CountersExact
<1> QED BY <1>2, <1>5, <1>6, <1>7 DEF Start, CountersExact

LEMMA SettleCounts ==
  ASSUME TypeOK, CountersExact, KindsStay, doc' = doc,
         NEW e \in Elements, e \in pending, Settle(e), wire' = wire \ {<<doc, e>>}
  PROVE  CountersExact'
<1>1. /\ IsFiniteSet(pending) /\ IsFiniteSet(SheetsOf(pending)) /\ pending \subseteq Elements
  BY FiniteElements DEF TypeOK
<1>2. SheetsOf(pending)' = SheetsOf(pending) \ {e}
  BY <1>1 DEF SheetsOf, KindsStay, Settle
<1>3. e \in SheetsOf(pending) <=> kind[e] \in Sheets
  BY DEF SheetsOf
<1>4. Cardinality(pending) \in Nat /\ Cardinality(SheetsOf(pending)) \in Nat
  BY <1>1, FS_CardinalityType
<1>5. Cardinality(pending \ {e}) = Cardinality(pending) - 1 /\ Cardinality(pending) # 0
  BY <1>1, FS_RemoveElement, FS_EmptySet
<1>6. Cardinality(SheetsOf(pending) \ {e}) =
        IF e \in SheetsOf(pending) THEN Cardinality(SheetsOf(pending)) - 1 ELSE Cardinality(SheetsOf(pending))
  BY <1>1, FS_RemoveElement
<1>7. e \in SheetsOf(pending) => Cardinality(SheetsOf(pending)) # 0
  BY <1>1, FS_EmptySet
<1>8. inFlight' = Cardinality(pending')
  BY <1>4, <1>5 DEF Settle, CountersExact
<1>9. pendingSheets' = Cardinality(SheetsOf(pending)')
  <2>1. pendingSheets = Cardinality(SheetsOf(pending))
    BY DEF CountersExact
  <2>2. pendingSheets' = IF kind[e] \in Sheets /\ pendingSheets > 0 THEN pendingSheets - 1 ELSE pendingSheets
    BY DEF Settle
  <2>3. CASE kind[e] \in Sheets
    BY <1>2, <1>3, <1>4, <1>6, <1>7, <2>1, <2>2, <2>3
  <2>4. CASE kind[e] \notin Sheets
    BY <1>2, <1>3, <1>4, <1>6, <2>1, <2>2, <2>4
  <2> QED BY <2>3, <2>4
<1>10. \A x \in pending' : <<doc', x>> \in wire'
  BY DEF Settle, CountersExact
<1> QED BY <1>8, <1>9, <1>10 DEF CountersExact

LEMMA KindsKept ==
  ASSUME TypeOK, [Next]_vars, ~Navigates
  PROVE  KindsStay /\ UNCHANGED <<doc, size>>
<1>1. MayInsert => KindsStay
  BY Inserting DEF Inserts, KindsStay
<1>2. kind' = kind => KindsStay
  BY DEF KindsStay, Elements
<1>3. CASE Pause
  BY <1>2, <1>3, PauseIsStill DEF Still
<1>4. CASE Runs \/ Tells \/ RunOrdered
  BY <1>1, <1>4, TellsInserts DEF Runs, RunParserScript, RunDeferred, FireDCL, FireLoad, RunOrdered, Run
<1>5. CASE TakesBatch \/ StartImages \/ ParseNext
  BY <1>2, <1>5 DEF TakesBatch, AfterScript, TopOfPass, StartImages, ParseNext, parser
<1>6. CASE Prepare
  BY <1>1, <1>2, <1>6 DEF Prepare, Run
<1>7. CASE Delivers
  BY <1>1, <1>2, <1>7 DEF Delivers, Deliver, Arrive, Run
<1> QED BY <1>3, <1>4, <1>5, <1>6, <1>7, Steps

\* Only the two places that do not count what script inserts add to `unseen`.
LEMMA UnseenKept ==
  ASSUME TypeOK, [Next]_vars
  PROVE  UnseenOK'
<1> SUFFICES unseen' \subseteq Elements'
  BY DEF UnseenOK
<1>0. unseen \subseteq Elements /\ (kind' = kind => Elements' = Elements)
  BY DEF TypeOK, Elements
<1>1. CASE Navigates
  <2>1. unseen' = {}
    BY <1>1, Navigating DEF BeginLoad, Reset
  <2> QED BY <2>1
<1>2. CASE ~Navigates
  <2>0. Elements \subseteq Elements'
    BY <1>2, KindsKept DEF KindsStay
  <2>1. CASE unseen' \subseteq unseen
    BY <1>0, <2>0, <2>1
  <2>2. CASE Pause
    BY <2>1, <2>2, PauseIsStill DEF Still, history
  <2>3. CASE Runs \/ RunOrdered
    BY <2>1, <2>3 DEF Runs, RunParserScript, RunDeferred, FireDCL, FireLoad, RunOrdered, Run
  <2>4. CASE EndParse \/ RunTask \/ TakesBatch \/ StartImages \/ ParseNext
    BY <2>1, <2>4 DEF EndParse, RunTask, TakesBatch, AfterScript, TopOfPass, StartImages, ParseNext, history
  <2>5. CASE TellImages \/ SettleFonts
    <3>1. unseen' \subseteq unseen \cup Elements'
      BY <2>5 DEF TellImages, SettleFonts, InsertUnseen, Elements
    <3> QED BY <1>0, <2>0, <3>1
  <2>6. CASE Prepare
    BY <2>1, <2>6 DEF Prepare, Run, history
  <2>7. CASE Delivers
    BY <2>1, <2>7 DEF Delivers, Deliver, Arrive, Run, history
  <2> QED BY <1>2, <2>2, <2>3, <2>4, <2>5, <2>6, <2>7, Steps DEF Tells
<1> QED BY <1>1, <1>2

LEMMA TypesKept ==
  ASSUME TypeOK, LoadFits, LoopFits, PlacesFit, [Next]_vars
  PROVE  TypeOK'
<1>1. ControlOK' /\ DataOK' /\ UnseenOK'
  BY ControlKept, DataKept, UnseenKept
<1> QED BY <1>1, TypesAre, PTL

LEMMA CountersKept ==
  ASSUME TypeOK, CountersExact, PlacesFit, Apart, [Next]_vars
  PROVE  CountersExact'
<1>1. CASE Navigates
  <2>1. pending' = {} /\ inFlight' = 0 /\ pendingSheets' = 0
    BY <1>1, Navigating DEF BeginLoad, Reset
  <2>2. SheetsOf(pending)' = {}
    BY <2>1 DEF SheetsOf
  <2> QED BY <2>1, <2>2, FS_EmptySet DEF CountersExact
<1>2. CASE ~Navigates
  <2>0. KindsStay /\ doc' = doc
    BY <1>2, KindsKept
  <2>1. CASE Pause \/ Runs \/ Tells \/ RunOrdered
    <3>1. requests' = requests
      <4>1. Pause => requests' = requests
        BY PauseIsStill DEF Still
      <4> QED BY <2>1, <4>1, TellsInserts DEF Runs, RunParserScript, RunDeferred, FireDCL, FireLoad, RunOrdered
    <3> QED BY <2>0, <3>1, RequestsStay
  <2>2. CASE TakesBatch
    <3>1. PICK es \in SUBSET Elements : es = styles /\ Start(es)
      BY <2>2 DEF TakesBatch, AfterScript, TopOfPass, TypeOK
    <3> QED BY <2>0, <3>1, StartCounts DEF Apart
  <2>3. CASE StartImages
    <3>1. PICK es \in SUBSET Elements : es \subseteq images /\ Start(es)
      BY <2>3 DEF StartImages, TypeOK
    <3>2. pending \cap es = {}
      BY <3>1 DEF Apart
    <3> QED BY <2>0, <3>1, <3>2, StartCounts
  <2>4. CASE ParseNext
    <3>1. PICK e \in Elements : e = parsed + 1
      BY <2>4, ElementsAre DEF ParseNext
    <3>2. e \notin Reached
      BY <2>4, <3>1, ElementsAre DEF ParseNext, Reached
    <3>3. Start({e}) \/ UNCHANGED requests
      BY <2>4, <3>1 DEF ParseNext
    <3>4. pending \cap {e} = {} /\ {e} \in SUBSET Elements
      BY <3>2 DEF PlacesFit
    <3> QED BY <2>0, <3>3, <3>4, StartCounts, RequestsStay
  <2>5. CASE Prepare
    <3>1. PICK e \in Elements : e = Head(preparing) /\ preparing # <<>>
      BY <2>5 DEF Prepare, TypeOK
    <3>2. e \in Elems(preparing)
      BY <3>1, TailParts DEF TypeOK
    <3>3. Start({e}) \/ UNCHANGED requests
      BY <2>5, <3>1 DEF Prepare
    <3>4. pending \cap {e} = {} /\ {e} \in SUBSET Elements
      BY <3>2 DEF Apart, Unprepared
    <3> QED BY <2>0, <3>3, <3>4, StartCounts, RequestsStay
  <2>6. CASE Delivers
    <3>1. PICK r \in wire : Deliver(r)
      BY <2>6 DEF Delivers
    <3>2. r = <<r[1], r[2]>>
      BY DEF TypeOK
    <3>3. CASE r[1] = doc /\ r[2] \in pending
      <4>1. PICK e \in Elements : e = r[2]
        BY <3>3 DEF TypeOK
      <4>2. e \in pending /\ Settle(e) /\ wire' = wire \ {<<doc, e>>}
        BY <3>1, <3>2, <3>3, <4>1 DEF Deliver
      <4> QED BY <2>0, <4>2, SettleCounts
    <3>4. CASE ~(r[1] = doc /\ r[2] \in pending)
      <4>1. UNCHANGED <<pending, inFlight, pendingSheets>> /\ wire' = wire \ {r}
        BY <3>1, <3>4 DEF Deliver
      <4>2. SheetsOf(pending)' = SheetsOf(pending)
        BY <2>0, <4>1 DEF SheetsOf, KindsStay, TypeOK
      <4>3. \A e \in pending : <<doc, e>> \in wire /\ <<doc, e>> # r
        BY <3>4 DEF CountersExact
      <4> QED BY <2>0, <4>1, <4>2, <4>3 DEF CountersExact
    <3> QED BY <3>3, <3>4
  <2> QED BY <1>2, <2>1, <2>2, <2>3, <2>4, <2>5, <2>6, Steps
<1> QED BY <1>1, <1>2

-----------------------------------------------------------------------------
(***************************************************************************)
(* Where elements are: steps in which script may insert.                   *)
(***************************************************************************)
\* One element at most leaves its place, and it has run or needs no running.
Leaves(e) ==
  /\ Elems(preparing') \subseteq Elems(preparing) /\ Rising(preparing')
  /\ Elems(deferred') \subseteq Elems(deferred) /\ Rising(deferred')
  /\ orders' = orders /\ Due' \subseteq Due /\ pending' \subseteq pending /\ ready' \subseteq ready
  /\ Due \ Due' \subseteq {e} \ pending' /\ ready' \subseteq Due' /\ Due' \subseteq pending' \cup ready'
  /\ Ran \subseteq Ran' /\ Ran' \subseteq Ran \cup {e}
  /\ \A x \in pending \cup ready \cup Elems(preparing) \cup Elems(deferred) :
       \/ kind[x] \in {"sheet", "image"}
       \/ x \in Ran' \cup pending' \cup ready' \cup Elems(preparing') \cup Elems(deferred')
  /\ at = "due" => at' = "due" \/ parsed \in Ran'

\* What has run does not run again, nor before what is before it.
Spent(e) ==
  /\ e \in Reached \cup {DCL, Load} /\ (e \in Elements => kind[e] \notin {"sheet", "image"})
  /\ e \notin pending' \cup Elems(preparing') \cup Elems(scripts) \cup Elems(deferred') \cup Due'
  /\ e \in Elements /\ kind[e] = "dynOrdered" => \A d \in Due' \cup Elems(preparing') \cup Elems(scripts) : e < d
  /\ e \in Elements /\ kind[e] \in AfterParse => \A d \in Elems(deferred') : e < d

LEMMA ReachedGrows ==
  ASSUME TypeOK, Inserts, UNCHANGED <<size, parsed>>
  PROVE  /\ Reached' = Reached \cup New /\ Reached \subseteq Elements
         /\ \A e \in New : /\ e \notin Elements /\ e # DCL /\ e # Load /\ e \in Elements'
                           /\ kind'[e] \in Inserted /\ ~(e <= size)
                           /\ \A x \in Elements : x < e
<1>1. /\ Elements = 1 .. Len(kind) /\ Len(kind) \in Nat /\ size \in Nat /\ size <= Len(kind)
      /\ Elements' = 1 .. Len(kind') /\ Len(kind') \in Nat /\ MaxElements \in Nat /\ Len(kind') <= MaxElements
  BY ElementsAre DEF Inserts, Elements
<1>2. \A e \in New : /\ e \in Nat /\ e > Len(kind) /\ e > size /\ e # DCL /\ e # Load /\ ~(e <= size)
                     /\ kind'[e] \in Inserted /\ e \in Elements'
  BY <1>1 DEF New, Inserts, DCL, Load
<1>3. Elements' = Elements \cup New
  BY DEF New, Inserts
<1>4. \A e \in New : \A x \in Elements : x < e
  BY <1>1, <1>2
<1> QED BY <1>2, <1>3, <1>4 DEF Reached, New

\* The place due to run next, and what appending does to those to come.
LEMMA DueParts ==
  ASSUME TypeOK
  PROVE  /\ Due \subseteq Elems(orders) /\ Elems(orders) \subseteq Elements
         /\ OrderedReady => orders[nextToRun] \in Due /\ orders[nextToRun] \in ready
         /\ nextToRun <= Len(orders) /\ Rising(orders) /\ orders' = orders /\ nextToRun' = nextToRun + 1 =>
              /\ Due = Due' \cup {orders[nextToRun]} /\ \A d \in Due' : orders[nextToRun] < d
<1>1. Len(orders) \in Nat /\ nextToRun \in 1 .. Len(orders) + 1 /\ orders \in Seq(Elements)
  BY DEF TypeOK
<1>2. nextToRun .. Len(orders) \subseteq 1 .. Len(orders)
  BY <1>1
<1>3. OrderedReady => orders[nextToRun] \in Due /\ orders[nextToRun] \in ready
  BY <1>1 DEF OrderedReady, Due
<1>4. ASSUME nextToRun <= Len(orders), Rising(orders), orders' = orders, nextToRun' = nextToRun + 1
      PROVE  Due = Due' \cup {orders[nextToRun]} /\ \A d \in Due' : orders[nextToRun] < d
  <2>1. nextToRun .. Len(orders) = (nextToRun + 1 .. Len(orders)) \cup {nextToRun}
    BY <1>1, <1>4
  <2>2. Due' = {orders[i] : i \in nextToRun + 1 .. Len(orders)}
    BY <1>4 DEF Due
  <2>3. \A i \in nextToRun + 1 .. Len(orders) : orders[nextToRun] < orders[i]
    BY <1>1, <1>4 DEF Rising
  <2> QED BY <2>1, <2>2, <2>3 DEF Due
<1> QED BY <1>1, <1>2, <1>3, <1>4, ElemsType DEF Due, Elems

LEMMA DueAppends ==
  ASSUME TypeOK, NEW e \in Elements, orders' = Append(orders, e), nextToRun' = nextToRun
  PROVE  Due' = Due \cup {e} /\ Elems(orders') = Elems(orders) \cup {e}
<1>1. Len(orders) \in Nat /\ nextToRun \in 1 .. Len(orders) + 1 /\ orders \in Seq(Elements)
  BY DEF TypeOK
<1>2. Len(orders') = Len(orders) + 1 /\ orders'[Len(orders) + 1] = e /\ \A i \in 1 .. Len(orders) : orders'[i] = orders[i]
  BY <1>1
<1>3. nextToRun .. Len(orders') = (nextToRun .. Len(orders)) \cup {Len(orders) + 1}
  BY <1>1, <1>2
<1>4. \A i \in nextToRun .. Len(orders) : i \in 1 .. Len(orders)
  BY <1>1
<1>5. Due' = {orders'[i] : i \in nextToRun .. Len(orders')}
  BY DEF Due
<1> QED BY <1>1, <1>2, <1>3, <1>4, <1>5, ElemsAppend DEF Due

LEMMA PlacesInsert ==
  ASSUME TypeOK, TypeOK', Places, Inserts, UNCHANGED <<size, parsed>>,
         NEW e, Leaves(e), e \in Ran' => Spent(e)
  PROVE  Places'
<1>1. /\ Reached' = Reached \cup New /\ Reached \subseteq Elements
      /\ \A x \in New : /\ x \notin Elements /\ x # DCL /\ x # Load /\ x \in Elements'
                        /\ kind'[x] \in Inserted /\ ~(x <= size)
                        /\ \A y \in Elements : y < x
      /\ \A x \in Elements : x \in Elements' /\ kind'[x] = kind[x] /\ x # DCL /\ x # Load
  BY ReachedGrows, ElementsAre DEF Inserts
<1>2. /\ styles' = styles \cup {x \in New : kind'[x] \in Sheets}
      /\ images' = images \cup {x \in New : kind'[x] = "image"}
      /\ Unprepared' = Elems(preparing') \cup Elems(scripts) \cup {x \in New : kind'[x] \in InsertedScripts}
  BY DEF Inserts, Unprepared
<1>3. KindsFit'
  <2> QED BY <1>1 DEF Places, KindsFit, New
<1>4. PlacesFit'
  <2>1. /\ pending' \subseteq Reached /\ Elems(orders') \subseteq Reached /\ Elems(deferred') \subseteq Reached
        /\ Unprepared \subseteq Reached /\ styles \subseteq Reached /\ images \subseteq Reached
    BY DEF Places, PlacesFit, Leaves
  <2>2. styles' \cup images' \cup Unprepared' \cup Elems(orders') \cup Elems(deferred') \cup pending' \subseteq Reached'
    BY <1>1, <1>2, <2>1 DEF Leaves, Unprepared
  <2>3. (\A x \in styles' : kind'[x] \in Sheets) /\ (\A x \in images' : kind'[x] = "image")
    BY <1>1, <1>2, <2>1 DEF Places, PlacesFit
  <2>4. \A x \in Unprepared' : kind'[x] \in InsertedScripts
    BY <1>1, <1>2, <2>1 DEF Places, PlacesFit, Leaves, Unprepared
  <2>5. /\ \A x \in Elems(orders') : kind'[x] = "dynOrdered"
        /\ \A x \in Elems(deferred') : kind'[x] \in AfterParse
        /\ \A x \in pending' : kind'[x] \in Fetched
    BY <1>1, <2>1 DEF Places, PlacesFit, Leaves
  <2> QED BY <2>2, <2>3, <2>4, <2>5 DEF PlacesFit
<1>5. /\ Elems(scripts) \subseteq Elements /\ Elems(preparing) \subseteq Elements /\ Elems(orders) \subseteq Elements
      /\ pending \subseteq Elements /\ Due \subseteq Elements /\ Elems(deferred) \subseteq Elements
      /\ Due \subseteq Elems(orders)
  <2>1. Due \subseteq Elems(orders)
    BY DueParts
  <2> QED BY <1>1, <2>1 DEF Places, PlacesFit, Unprepared
<1>6. QueuesRise'
  <2>1. Rising(scripts')
    BY DEF Places, QueuesRise, Inserts
  <2>2. Rising(preparing') /\ Rising(orders') /\ Rising(deferred')
    BY DEF Places, QueuesRise, Leaves
  <2>3. \A a \in Elems(preparing') : \A b \in Elems(scripts') : a < b
    BY <1>1, <1>5 DEF Places, QueuesRise, Leaves, Inserts
  <2>4. \A a \in Elems(orders') : \A b \in Unprepared' : a < b
    BY <1>1, <1>2, <1>5 DEF Places, QueuesRise, Leaves, Unprepared
  <2> QED BY <2>1, <2>2, <2>3, <2>4 DEF QueuesRise
<1>7. Apart'
  <2>1. pending' \cap (styles' \cup images' \cup Unprepared' \cup ready') = {}
    BY <1>1, <1>2, <1>5 DEF Places, Apart, Leaves, Unprepared
  <2>2. \A x \in pending' : kind'[x] = "dynOrdered" => x \in Due'
    BY <1>1, <1>5 DEF Places, Apart, Leaves
  <2> QED BY <2>1, <2>2 DEF Apart, Leaves
<1>8. NotYetRun'
  <2>1. Ran' \subseteq Reached' \cup {DCL, Load}
    BY <1>1 DEF Places, NotYetRun, Leaves, Spent
  <2>2. \A x \in New : x \notin Ran'
    BY <1>1 DEF Places, NotYetRun, Leaves, Spent
  <2>3. Ran' \cap (pending' \cup Unprepared' \cup Elems(deferred') \cup Due') = {}
    BY <1>2, <2>2 DEF Places, NotYetRun, Leaves, Spent, Unprepared
  <2>4. ASSUME NEW x \in Ran' \cap Elements'
        PROVE  /\ kind'[x] \notin {"sheet", "image"}
               /\ kind'[x] = "dynOrdered" => \A d \in Due' \cup Unprepared' : x < d
               /\ kind'[x] \in AfterParse => \A d \in Elems(deferred') : x < d
    <3>1. x \in Elements /\ kind'[x] = kind[x] /\ (x \in Ran \/ (x = e /\ Spent(e)))
      BY <1>1, <2>2, <2>4 DEF New, Leaves
    <3>2. \A d \in New : x < d
      BY <1>1, <3>1
    <3> QED BY <1>2, <3>1, <3>2 DEF Places, NotYetRun, Leaves, Spent, Unprepared
  <2> QED BY <2>1, <2>3, <2>4 DEF NotYetRun
<1>9. Accounted'
  <2> SUFFICES ASSUME NEW x \in Reached'
               PROVE  \/ kind'[x] \in {"sheet", "image"}
                      \/ x \in Ran' \cup pending' \cup ready' \cup Unprepared' \cup Elems(deferred')
                      \/ at' = "due" /\ x = parsed'
    BY DEF Accounted
  <2>1. CASE x \in New
    BY <1>1, <1>2, <2>1 DEF Inserted, InsertedScripts
  <2>2. CASE x \in Reached
    <3>1. kind'[x] = kind[x]
      BY <1>1, <2>2
    <3>2. \/ kind[x] \in {"sheet", "image"}
          \/ x \in Ran \cup pending \cup ready \cup Unprepared \cup Elems(deferred)
          \/ at = "due" /\ x = parsed
      BY <2>2 DEF Places, Accounted
    <3> QED BY <1>2, <3>1, <3>2 DEF Leaves, Unprepared
  <2> QED BY <1>1, <2>1, <2>2
<1> QED BY <1>3, <1>4, <1>6, <1>7, <1>8, <1>9 DEF Places

LEMMA RanAppends ==
  ASSUME TypeOK, NEW e \in Elements \cup {DCL, Load}, log' = Append(log, e)
  PROVE  Ran' = Ran \cup {e}
<1>1. log \in Seq(0 .. MaxElements + 1) /\ e \in 0 .. MaxElements + 1
  <2>1. log \in Seq(0 .. MaxElements + 1)
    BY DEF TypeOK, Load, DCL
  <2>2. e \in 0 .. MaxElements + 1
    BY ElementsAre, BoundsAssumption DEF DCL, Load
  <2> QED BY <2>1, <2>2
<1>2. DOMAIN log = 1 .. Len(log) /\ DOMAIN log' = 1 .. Len(log')
  BY <1>1
<1>3. Elems(log') = Elems(log) \cup {e}
  <2>1. PICK S : log \in Seq(S) /\ e \in S
    BY <1>1
  <2>2. Elems(Append(log, e)) = Elems(log) \cup {e}
    BY <2>1, ElemsAppend
  <2> QED BY <2>2
<1> QED BY <1>2, <1>3 DEF Ran, ScriptsThatRan, Elems

LEMMA RanStays == log' = log => Ran' = Ran
BY DEF Ran, ScriptsThatRan

\* Places hold elements, and of their own kinds: what every case below uses.
LEMMA PlacesAre ==
  ASSUME TypeOK, Places
  PROVE  /\ Reached \subseteq Elements
         /\ \A x \in pending : x \in Reached /\ kind[x] \in Fetched
         /\ \A x \in Elems(preparing) \cup Elems(scripts) : x \in Reached /\ kind[x] \in InsertedScripts
         /\ \A x \in Elems(deferred) : x \in Reached /\ kind[x] \in AfterParse
         /\ \A x \in Due : x \in Reached /\ kind[x] = "dynOrdered" /\ x \in Elems(orders)
         /\ \A x \in Elements : x \in Nat /\ x # DCL /\ x # Load
<1>1. Reached \subseteq Elements
  BY DEF Reached
<1> QED BY <1>1, ElementsAre, DueParts DEF Places, PlacesFit, Unprepared

LEMMA PlacesRun ==
  ASSUME TypeOK, TypeOK', Places, LoadFits, Runs
  PROVE  Places'
<1>0. UNCHANGED <<size, parsed, preparing, ordered, requests>> /\ Inserts
  BY Inserting DEF Runs, RunParserScript, RunDeferred, FireDCL, FireLoad, Run
<1>1. /\ Due' = Due /\ ready' = ready /\ orders' = orders /\ pending' = pending /\ preparing' = preparing
      /\ Rising(preparing) /\ Rising(deferred) /\ ready \subseteq Due /\ Due \subseteq pending \cup ready
  BY <1>0 DEF Due, ordered, requests, Places, QueuesRise, Apart
<1>2. CASE RunParserScript
  <2>1. PICK e \in Elements : e = parsed /\ kind[e] \in Sync /\ e \in Reached
    BY <1>2, ElementsAre DEF RunParserScript, LoadFits, Reached
  <2>2. Ran' = Ran \cup {e} /\ deferred' = deferred /\ parsed \in Ran'
    BY <1>2, <2>1, RanAppends DEF RunParserScript, Run
  <2>3. Leaves(e)
    BY <1>1, <2>2 DEF Leaves
  <2>4. Spent(e)
    BY <1>1, <2>1, <2>2, PlacesAre DEF Spent, Sync, AfterParse, InsertedScripts, Fetched
  <2> QED BY <1>0, <2>3, <2>4, PlacesInsert
<1>3. CASE RunDeferred
  <2>0. deferred \in Seq(Elements) /\ deferred # <<>>
    BY <1>3 DEF RunDeferred, TypeOK
  <2>1. PICK e \in Elements : e = Head(deferred) /\ deferred # <<>> /\ deferred' = Tail(deferred) /\ log' = Append(log, e)
    BY <1>3, <2>0, TailParts DEF RunDeferred, Run
  <2>2. /\ Elems(deferred) = Elems(deferred') \cup {e} /\ Rising(deferred')
        /\ \A d \in Elems(deferred') : e < d
    BY <1>1, <2>1, TailParts DEF TypeOK
  <2>3. Ran' = Ran \cup {e} /\ at # "due"
    BY <1>3, <2>1, RanAppends DEF RunDeferred
  <2>4. Leaves(e)
    BY <1>1, <2>2, <2>3 DEF Leaves
  <2>5. kind[e] \in AfterParse /\ e \in Reached /\ e \in Nat /\ \A d \in Elems(deferred') : d \in Nat
    BY <2>2, PlacesAre
  <2>6. e \notin Elems(deferred')
    BY <2>2, <2>5
  <2>7. Spent(e)
    BY <1>1, <2>2, <2>5, <2>6, PlacesAre DEF Spent, AfterParse, InsertedScripts, Fetched
  <2> QED BY <1>0, <2>4, <2>7, PlacesInsert
<1>4. CASE FireDCL \/ FireLoad
  <2>1. PICK e \in {DCL, Load} : log' = Append(log, e)
    BY <1>4 DEF FireDCL, FireLoad, Run
  <2>2. Ran' = Ran \cup {e} /\ deferred' = deferred /\ at # "due"
    BY <1>4, <2>1, RanAppends DEF FireDCL, FireLoad
  <2>3. Leaves(e)
    BY <1>1, <2>2 DEF Leaves
  <2>4. Spent(e)
    BY <1>1, <2>1, <2>2, PlacesAre DEF Spent
  <2> QED BY <1>0, <2>3, <2>4, PlacesInsert
<1> QED BY <1>2, <1>3, <1>4 DEF Runs

LEMMA PlacesTell ==
  ASSUME TypeOK, TypeOK', Places, Tells
  PROVE  Places'
<1>0. UNCHANGED <<size, parsed, preparing, deferred, ordered, requests, log>> /\ Inserts
  BY Inserting, TellsInserts
<1>1. /\ Due' = Due /\ ready' = ready /\ orders' = orders /\ pending' = pending /\ preparing' = preparing
      /\ deferred' = deferred /\ Ran' = Ran /\ (at = "due" => at' = "due")
      /\ Rising(preparing) /\ Rising(deferred) /\ ready \subseteq Due /\ Due \subseteq pending \cup ready
  BY <1>0, RanStays, TellsInserts DEF Due, ordered, requests, Places, QueuesRise, Apart
<1>2. Leaves(DCL)
  BY <1>1 DEF Leaves
<1>3. Spent(DCL)
  BY <1>1, PlacesAre DEF Spent
<1> QED BY <1>0, <1>2, <1>3, PlacesInsert

LEMMA PlacesPrepareInline ==
  ASSUME TypeOK, TypeOK', Places, Prepare, kind[Head(preparing)] = "dynInline"
  PROVE  Places'
<1>0. preparing \in Seq(Elements) /\ preparing # <<>>
  BY DEF Prepare, TypeOK
<1>1. PICK e \in Elements : e = Head(preparing) /\ preparing # <<>>
  BY <1>0, TailParts
<1>2. /\ UNCHANGED <<size, parsed, deferred, nextToRun, ready, orders, requests, at>> /\ Inserts
      /\ log' = Append(log, e) /\ preparing' = Tail(preparing) /\ kind[e] = "dynInline"
  BY <1>1, Inserting DEF Prepare, Run
<1>3. /\ Due' = Due /\ ready' = ready /\ pending' = pending /\ deferred' = deferred
      /\ Rising(preparing) /\ Rising(deferred) /\ ready \subseteq Due /\ Due \subseteq pending \cup ready
  BY <1>2 DEF Due, requests, Places, QueuesRise, Apart
<1>4. /\ Elems(preparing) = Elems(preparing') \cup {e} /\ Rising(preparing')
      /\ \A d \in Elems(preparing') : e < d
  BY <1>1, <1>2, <1>3, TailParts DEF TypeOK
<1>5. Ran' = Ran \cup {e}
  BY <1>2, RanAppends
<1>6. Leaves(e)
  BY <1>2, <1>3, <1>4, <1>5 DEF Leaves
<1>7. \A d \in Elems(scripts) : e < d
  BY <1>4 DEF Places, QueuesRise
<1>8. e \in Nat /\ e \in Reached /\ (\A d \in Elems(preparing') \cup Elems(scripts) : d \in Nat)
  BY <1>4, PlacesAre
<1>9. e \notin Elems(preparing') \cup Elems(scripts)
  BY <1>4, <1>7, <1>8
<1>10. e \notin pending
  BY <1>4 DEF Places, Apart, Unprepared
<1>11. Spent(e)
  BY <1>2, <1>3, <1>8, <1>9, <1>10, PlacesAre DEF Spent, AfterParse
<1> QED BY <1>2, <1>6, <1>11, PlacesInsert

LEMMA PlacesRunOrdered ==
  ASSUME TypeOK, TypeOK', Places, RunOrdered
  PROVE  Places'
<1>1. PICK e \in Elements : e = orders[nextToRun] /\ e \in Due /\ e \in ready /\ nextToRun <= Len(orders)
  BY DueParts DEF RunOrdered, OrderedReady
<1>2. /\ UNCHANGED <<size, parsed, preparing, deferred, orders, requests, at>> /\ Inserts
      /\ log' = Append(log, e) /\ ready' = ready \ {e} /\ nextToRun' = nextToRun + 1
  BY <1>1, Inserting DEF RunOrdered, Run
<1>3. Rising(orders) /\ Rising(preparing) /\ Rising(deferred) /\ ready \subseteq Due /\ Due \subseteq pending \cup ready
  BY DEF Places, QueuesRise, Apart
<1>4. Due = Due' \cup {e} /\ \A d \in Due' : e < d
  BY <1>1, <1>2, <1>3, DueParts
<1>5. e \in Nat /\ e \in Reached /\ kind[e] = "dynOrdered" /\ (\A d \in Due' : d \in Nat)
      /\ \A d \in Elems(preparing) \cup Elems(scripts) : d \in Nat /\ e < d
  BY <1>1, <1>4, PlacesAre DEF Places, QueuesRise, Unprepared
<1>6. e \notin Due' \cup Elems(preparing) \cup Elems(scripts)
  BY <1>4, <1>5
<1>7. e \notin pending /\ pending' = pending /\ Ran' = Ran \cup {e}
  BY <1>1, <1>2, RanAppends DEF Places, Apart, requests
<1>8. Leaves(e)
  BY <1>2, <1>3, <1>4, <1>6, <1>7 DEF Leaves
<1>9. Spent(e)
  BY <1>2, <1>4, <1>5, <1>6, <1>7, PlacesAre DEF Spent, AfterParse
<1> QED BY <1>2, <1>8, <1>9, PlacesInsert

LEMMA PlacesArrive ==
  ASSUME TypeOK, TypeOK', Places, NEW e \in Elements, e \in pending, Settle(e), Arrive(e), kind[e] # "dynOrdered",
         UNCHANGED <<size, parsed, preparing, deferred, orders, nextToRun, at>>
  PROVE  Places'
<1>1. /\ Inserts /\ ready' = ready /\ pending' = pending \ {e}
      /\ log' = IF kind[e] \in {"async", "dynAsync"} THEN Append(log, e) ELSE log
  BY Inserting DEF Arrive, Run, Settle, history
<1>2. Due' = Due /\ Rising(preparing) /\ Rising(deferred) /\ ready \subseteq Due /\ Due \subseteq pending \cup ready
  BY DEF Due, Places, QueuesRise, Apart
<1>3. e \notin Due /\ e \in Reached /\ kind[e] \in Fetched /\ e \notin Ran
      /\ e \notin Elems(preparing) \cup Elems(scripts) \cup Elems(deferred)
  BY PlacesAre DEF Places, NotYetRun, Apart, Unprepared, AfterParse, Fetched
<1>4. CASE kind[e] \in {"async", "dynAsync"}
  <2>1. Ran' = Ran \cup {e}
    BY <1>1, <1>4, RanAppends
  <2>2. Leaves(e)
    BY <1>1, <1>2, <1>3, <2>1 DEF Leaves
  <2>3. Spent(e)
    BY <1>1, <1>2, <1>3, <1>4 DEF Spent, AfterParse
  <2> QED BY <1>1, <2>2, <2>3, PlacesInsert
<1>5. CASE kind[e] \in {"sheet", "image"}
  <2>1. Ran' = Ran
    BY <1>1, <1>5, RanStays
  <2>2. Leaves(e)
    BY <1>1, <1>2, <1>3, <1>5, <2>1 DEF Leaves
  <2> QED BY <1>1, <1>3, <2>1, <2>2, PlacesInsert
<1> QED BY <1>3, <1>4, <1>5 DEF Fetched

-----------------------------------------------------------------------------
(***************************************************************************)
(* Where elements are: steps in which no script runs.                      *)
(***************************************************************************)
LEMMA PlacesStay ==
  ASSUME Places, UNCHANGED <<kind, size, parsed, queues, preparing, deferred, ordered, pending, log>>,
         at = "due" => at' = "due"
  PROVE  Places'
<1>1. UNCHANGED <<Elements, Reached, Unprepared, Due, Ran>>
  BY DEF Elements, Reached, Unprepared, Due, Ran, ScriptsThatRan, queues, ordered
<1>2. KindsFit' /\ PlacesFit' /\ QueuesRise'
  BY <1>1 DEF Places, KindsFit, PlacesFit, QueuesRise, queues, ordered
<1>3. Apart' /\ NotYetRun'
  BY <1>1 DEF Places, Apart, NotYetRun, queues, ordered
<1>4. Accounted'
  BY <1>1 DEF Places, Accounted, ordered
<1> QED BY <1>2, <1>3, <1>4 DEF Places

LEMMA PlacesBatch ==
  ASSUME TypeOK, Places, LoopFits, TakesBatch
  PROVE  Places'
<1>1. preparing = <<>> /\ Elems(<<>>) = {} /\ Rising(<<>>)
  BY ElemsEmpty DEF TakesBatch, AfterScript, TopOfPass, Straight, Looping, LoopFits
<1>2. /\ UNCHANGED <<kind, size, parsed, images, deferred, ordered, log>> /\ pending' = pending \cup styles
      /\ styles' = {} /\ preparing' = scripts /\ scripts' = <<>> /\ (at = "due" => at' = "due")
  BY DEF TakesBatch, AfterScript, TopOfPass, parser, Start, history
<1>3. UNCHANGED <<Elements, Reached, Due, Ran, orders, ready>>
  BY <1>2 DEF Elements, Reached, Due, Ran, ScriptsThatRan, ordered
<1>4. Unprepared' = Unprepared /\ Elems(preparing') = Elems(scripts) /\ Elems(scripts') = {}
  BY <1>1, <1>2 DEF Unprepared
<1>5. KindsFit' /\ PlacesFit'
  BY <1>2, <1>3, <1>4 DEF Places, KindsFit, PlacesFit, Sheets, Fetched
<1>6. QueuesRise'
  BY <1>1, <1>2, <1>3, <1>4 DEF Places, QueuesRise
<1>7. \A x \in styles : kind[x] = "sheet" /\ x \notin images /\ x \notin Unprepared /\ x \notin Due /\ x \notin Ran
                         /\ x \notin Elems(deferred)
  BY PlacesAre DEF Places, PlacesFit, NotYetRun, Sheets, InsertedScripts, AfterParse, Unprepared
<1>8. Apart'
  BY <1>2, <1>3, <1>4, <1>7 DEF Places, Apart
<1>9. NotYetRun'
  BY <1>2, <1>3, <1>4, <1>7 DEF Places, NotYetRun
<1>10. Accounted'
  BY <1>2, <1>3, <1>4 DEF Places, Accounted
<1> QED BY <1>5, <1>6, <1>8, <1>9, <1>10 DEF Places

LEMMA PlacesImages ==
  ASSUME TypeOK, Places, StartImages
  PROVE  Places'
<1>2. /\ UNCHANGED <<kind, size, parsed, at, styles, scripts, preparing, deferred, ordered, log>>
      /\ pending \subseteq pending' /\ pending' \subseteq pending \cup images /\ images' = {}
  BY DEF StartImages, parser, Start, history
<1>3. UNCHANGED <<Elements, Reached, Due, Ran, Unprepared, orders, ready>>
  BY <1>2 DEF Elements, Reached, Due, Ran, ScriptsThatRan, Unprepared, ordered
<1>5. KindsFit' /\ PlacesFit'
  BY <1>2, <1>3 DEF Places, KindsFit, PlacesFit, Fetched
<1>6. QueuesRise'
  BY <1>2, <1>3 DEF Places, QueuesRise
<1>7. \A x \in images : kind[x] = "image" /\ x \notin styles /\ x \notin Unprepared /\ x \notin Due /\ x \notin Ran
                         /\ x \notin Elems(deferred)
  BY PlacesAre DEF Places, PlacesFit, NotYetRun, Sheets, InsertedScripts, AfterParse, Unprepared
<1>8. Apart'
  BY <1>2, <1>3, <1>7 DEF Places, Apart
<1>9. NotYetRun'
  BY <1>2, <1>3, <1>7 DEF Places, NotYetRun
<1>10. Accounted'
  BY <1>2, <1>3 DEF Places, Accounted
<1> QED BY <1>5, <1>6, <1>8, <1>9, <1>10 DEF Places

LEMMA PlacesParse ==
  ASSUME TypeOK, Places, ParseNext
  PROVE  Places'
<1>1. PICK e \in Elements : e = parsed + 1
  BY ElementsAre DEF ParseNext
<1>2. /\ UNCHANGED <<kind, size, styles, scripts, preparing, ordered, log>> /\ parsed' = e
      /\ pending' = IF kind[e] \in Sheets \cup {"async"} THEN pending \cup {e} ELSE pending
      /\ images' = IF kind[e] = "image" THEN images \cup {e} ELSE images
      /\ deferred' = IF kind[e] \in AfterParse THEN Append(deferred, e) ELSE deferred
      /\ kind[e] \in Sync => at' = "due"
      /\ at = "parse"
  <2>1. pending' = IF kind[e] \in Sheets \cup {"async"} THEN pending \cup {e} ELSE pending
    BY <1>1 DEF ParseNext, Start, requests
  <2>2. /\ UNCHANGED <<kind, size, styles, scripts, preparing, ordered, log>> /\ parsed' = e
        /\ images' = IF kind[e] = "image" THEN images \cup {e} ELSE images
        /\ deferred' = IF kind[e] \in AfterParse THEN Append(deferred, e) ELSE deferred
    BY <1>1 DEF ParseNext, history
  <2>3. at = "parse" /\ (kind[e] \in Sync => at' = "due")
    <3>1. at = "parse" /\ at' = CASE kind[e] \in Sync -> "due"
                                 [] kind[e] \in AfterParse \union {"async"} -> "after"
                                 [] OTHER -> "parse"
      BY <1>1, Zenon DEF ParseNext
    <3>2. kind[e] \in Sync => kind[e] \notin AfterParse \cup {"async"}
      BY DEF Sync, AfterParse
    <3> QED BY <3>1, <3>2
  <2> QED BY <2>1, <2>2, <2>3
<1>3. /\ e <= size /\ kind[e] \in Parsed /\ e \notin Reached
      /\ Reached' = Reached \cup {e}
      /\ \A x \in Reached : kind[x] \in AfterParse => x < e
  <2>1. e \in Nat /\ parsed \in Nat /\ size \in Nat /\ e <= size /\ (\A x \in Elements : x \in Nat)
    BY <1>1, ElementsAre DEF ParseNext
  <2>2. e \notin Reached /\ Reached' = Reached \cup {e}
    BY <1>1, <1>2, <2>1 DEF Reached, Elements
  <2>3. \A x \in Elements : kind[x] \in AfterParse => x <= size
    BY DEF Places, KindsFit, AfterParse, Inserted
  <2>4. \A x \in Reached : kind[x] \in AfterParse => x < e
    BY <1>1, <2>1, <2>3 DEF Reached
  <2> QED BY <2>1, <2>2, <2>4 DEF Places, KindsFit
<1>4. UNCHANGED <<Elements, Unprepared, Due, Ran, orders, ready>>
  BY <1>2 DEF Elements, Due, Ran, ScriptsThatRan, Unprepared, ordered
<1>5. /\ Elems(deferred') = IF kind[e] \in AfterParse THEN Elems(deferred) \cup {e} ELSE Elems(deferred)
      /\ Rising(deferred')
  <2>1. CASE kind[e] \in AfterParse
    <3>0. deferred \in Seq(Elements) /\ deferred' = Append(deferred, e) /\ \A x \in Elements : x \in Nat
      BY <1>2, <2>1, ElementsAre DEF TypeOK
    <3>1. deferred \in Seq(Nat) /\ e \in Nat
      BY <3>0
    <3>2. \A x \in Elems(deferred) : x < e
      BY <1>3, PlacesAre
    <3>3. Elems(deferred') = Elems(deferred) \cup {e}
      BY <3>0, <3>1, ElemsAppend
    <3>4. Rising(deferred')
      BY <3>0, <3>1, <3>2, RisingAppend DEF Places, QueuesRise
    <3> QED BY <2>1, <3>3, <3>4
  <2>2. CASE kind[e] \notin AfterParse
    BY <1>2, <2>2 DEF Places, QueuesRise
  <2> QED BY <2>1, <2>2
<1>6. /\ e \notin pending \cup styles \cup images \cup Unprepared \cup ready \cup Due \cup Elems(deferred)
      /\ e \notin Ran
  BY <1>3, PlacesAre, ElementsAre DEF Places, PlacesFit, Apart, NotYetRun
<1>7. KindsFit' /\ PlacesFit'
  BY <1>2, <1>3, <1>4, <1>5 DEF Places, KindsFit, PlacesFit, Sheets, Fetched
<1>8. QueuesRise'
  BY <1>2, <1>4, <1>5 DEF Places, QueuesRise
<1>9. Apart'
  BY <1>2, <1>3, <1>4, <1>6 DEF Places, Apart, Sheets
<1>10. NotYetRun'
  <2>1. \A x \in Ran \cap Elements : kind[x] \in AfterParse => x < e
    BY <1>3, ElementsAre DEF Places, NotYetRun
  <2> QED BY <1>2, <1>3, <1>4, <1>5, <1>6, <2>1 DEF Places, NotYetRun
<1>11. Accounted'
  <2> SUFFICES ASSUME NEW x \in Reached'
               PROVE  \/ kind'[x] \in {"sheet", "image"}
                      \/ x \in Ran' \cup pending' \cup ready' \cup Unprepared' \cup Elems(deferred')
                      \/ at' = "due" /\ x = parsed'
    BY DEF Accounted
  <2>1. CASE x = e
    BY <1>2, <1>3, <1>5, <2>1 DEF Parsed, Sync, AfterParse, Sheets
  <2>2. CASE x # e
    BY <1>2, <1>3, <1>4, <1>5, <2>2 DEF Places, Accounted
  <2> QED BY <2>1, <2>2
<1> QED BY <1>7, <1>8, <1>9, <1>10, <1>11 DEF Places

LEMMA PlacesPrepare ==
  ASSUME TypeOK, Places, Prepare, kind[Head(preparing)] # "dynInline"
  PROVE  Places'
<1>0. preparing \in Seq(Elements) /\ preparing # <<>>
  BY DEF Prepare, TypeOK
<1>1. PICK e \in Elements : e = Head(preparing)
  BY <1>0, TailParts
<1>2. /\ UNCHANGED <<kind, size, parsed, at, queues, deferred, nextToRun, ready, log>>
      /\ pending' = pending \cup {e} /\ preparing' = Tail(preparing)
      /\ orders' = IF kind[e] = "dynOrdered" THEN Append(orders, e) ELSE orders
  BY <1>1 DEF Prepare, Start, history
<1>3. UNCHANGED <<Elements, Reached, Ran>>
  BY <1>2 DEF Elements, Reached, Ran, ScriptsThatRan
<1>4. /\ Elems(preparing) = Elems(preparing') \cup {e} /\ Rising(preparing')
      /\ \A d \in Elems(preparing') \cup Elems(scripts) : e < d
  BY <1>0, <1>1, <1>2, TailParts DEF Places, QueuesRise
<1>5. /\ e \in Nat /\ kind[e] \in {"dynAsync", "dynOrdered"} /\ e \in Reached
      /\ Unprepared = Unprepared' \cup {e} /\ e \notin Unprepared' /\ scripts' = scripts
  <2>1. e \in Nat /\ (\A x \in Elems(preparing') \cup Elems(scripts) : x \in Nat) /\ e \in Reached
    BY <1>4, PlacesAre
  <2>2. kind[e] \in InsertedScripts /\ kind[e] # "dynInline"
    BY <1>1, <1>4, PlacesAre
  <2> QED BY <1>2, <1>4, <2>1, <2>2 DEF Unprepared, InsertedScripts, queues
<1>6. /\ Due' = IF kind[e] = "dynOrdered" THEN Due \cup {e} ELSE Due
      /\ Elems(orders') = IF kind[e] = "dynOrdered" THEN Elems(orders) \cup {e} ELSE Elems(orders)
  <2>1. CASE kind[e] = "dynOrdered"
    BY <1>2, <2>1, DueAppends
  <2>2. CASE kind[e] # "dynOrdered"
    BY <1>2, <2>2 DEF Due
  <2> QED BY <2>1, <2>2
<1>7. (\A x \in Elems(orders) : x < e /\ x \in Nat) /\ e \notin Elems(orders) /\ e \notin Due /\ e \notin ready
  <2>1. \A x \in Elems(orders) : x < e /\ x \in Nat
    BY <1>5, DueParts, ElementsAre DEF Places, QueuesRise
  <2> QED BY <1>5, <2>1, DueParts DEF Places, Apart
<1>8. Rising(orders')
  <2>1. CASE kind[e] = "dynOrdered"
    <3>1. orders \in Seq(Nat) /\ orders' = Append(orders, e)
      BY <1>2, <2>1, ElementsAre DEF TypeOK
    <3> QED BY <1>5, <1>7, <3>1, RisingAppend DEF Places, QueuesRise
  <2>2. CASE kind[e] # "dynOrdered"
    BY <1>2, <2>2 DEF Places, QueuesRise
  <2> QED BY <2>1, <2>2
<1>9. /\ e \notin pending \cup styles \cup images \cup Elems(deferred) /\ e \notin Ran
  BY <1>5, PlacesAre DEF Places, PlacesFit, Apart, NotYetRun, Sheets, AfterParse
<1>10. KindsFit' /\ PlacesFit'
  BY <1>2, <1>3, <1>5, <1>6 DEF Places, KindsFit, PlacesFit, Fetched, queues
<1>11. QueuesRise'
  BY <1>2, <1>4, <1>5, <1>6, <1>8 DEF Places, QueuesRise, Unprepared
<1>12. Apart'
  BY <1>2, <1>5, <1>6, <1>7, <1>9 DEF Places, Apart, queues
<1>13. NotYetRun'
  BY <1>2, <1>3, <1>5, <1>6, <1>9 DEF Places, NotYetRun
<1>14. Accounted'
  BY <1>2, <1>3, <1>5 DEF Places, Accounted
<1> QED BY <1>10, <1>11, <1>12, <1>13, <1>14 DEF Places

LEMMA PlacesPutBy ==
  ASSUME TypeOK, Places, NEW e \in Elements, e \in pending, Settle(e), Arrive(e), kind[e] = "dynOrdered",
         UNCHANGED <<size, parsed, preparing, deferred, orders, nextToRun, at>>
  PROVE  Places'
<1>1. pending' = pending \ {e} /\ ready' = ready \cup {e} /\ UNCHANGED <<kind, queues, log>>
  BY DEF Settle, Arrive, history
<1>2. UNCHANGED <<Elements, Reached, Unprepared, Due, Ran>>
  BY <1>1 DEF Elements, Reached, Unprepared, Due, Ran, ScriptsThatRan, queues
<1>3. KindsFit' /\ PlacesFit' /\ QueuesRise'
  BY <1>1, <1>2 DEF Places, KindsFit, PlacesFit, QueuesRise, queues
<1>4. Apart' /\ NotYetRun'
  BY <1>1, <1>2 DEF Places, Apart, NotYetRun, queues
<1>5. Accounted'
  BY <1>1, <1>2 DEF Places, Accounted
<1> QED BY <1>3, <1>4, <1>5 DEF Places

\* A document of which nothing is loaded yet.
Fresh ==
  /\ styles = {} /\ images = {} /\ scripts = <<>> /\ preparing = <<>> /\ deferred = <<>>
  /\ orders = <<>> /\ nextToRun = 1 /\ ready = {} /\ pending = {} /\ log = <<>>
  /\ parsed = 0 /\ size = Len(kind) /\ kind \in Seq(Parsed)

LEMMA PlacesEmpty == Fresh => Places
<1> SUFFICES ASSUME Fresh PROVE Places
  OBVIOUS
<1> USE DEF Fresh
<1>1. Elems(<<>>) = {} /\ Rising(<<>>)
  BY ElemsEmpty
<1>2. Elements = 1 .. Len(kind) /\ Len(kind) \in Nat
  BY DEF Elements
<1>3. Reached = {} /\ Due = {} /\ Ran = {} /\ Unprepared = {}
  BY <1>1, <1>2 DEF Reached, Due, Ran, ScriptsThatRan, Unprepared
<1>4. KindsFit
  BY <1>2 DEF KindsFit
<1> QED BY <1>1, <1>3, <1>4 DEF Places, PlacesFit, QueuesRise, Apart, NotYetRun, Accounted

LEMMA PlacesKept ==
  ASSUME TypeOK, TypeOK', Places, LoadFits, LoopFits, [Next]_vars
  PROVE  Places'
<1>1. CASE Pause
  <2>1. at = "due" => at' = "due"
    BY <1>1 DEF Pause, AwaitSheets, BeginDeferred, AfterDCL, AfterLoad, NextPass, WaitDone, OutOfTime, StopWaiting,
                EndWait, Suspend, Resume, vars
  <2> QED BY <1>1, <2>1, PauseIsStill, PlacesStay DEF Still, requests, history
<1>2. CASE Prepare
  BY <1>2, PlacesPrepare, PlacesPrepareInline
<1>3. CASE Delivers
  <2>1. PICK r \in wire : Deliver(r)
    BY <1>3 DEF Delivers
  <2>2. CASE r[1] = doc /\ r[2] \in pending
    <3>1. PICK e \in Elements : e = r[2]
      BY <2>2 DEF TypeOK
    <3> QED BY <2>1, <2>2, <3>1, PlacesArrive, PlacesPutBy DEF Deliver
  <2>3. CASE ~(r[1] = doc /\ r[2] \in pending)
    BY <2>1, <2>3, PlacesStay DEF Deliver, ordered, history
  <2> QED BY <2>2, <2>3
<1>4. CASE Navigates
  <2>1. PICK m \in Markups : Reset(m) /\ preparing' = preparing
    BY <1>4, Navigating DEF BeginLoad
  <2>2. preparing = <<>> /\ m \in Seq(Parsed)
    BY <1>4, MarkupsAssumption, NavigatesApart
  <2>3. Fresh'
    BY <2>1, <2>2 DEF Reset, Fresh
  <2> QED BY <2>3, PlacesEmpty, PTL
<1> QED BY <1>1, <1>2, <1>3, <1>4, PlacesRun, PlacesTell, PlacesBatch, PlacesImages, PlacesParse, PlacesRunOrdered, Steps

-----------------------------------------------------------------------------
(***************************************************************************)
(* Where the load stands.                                                  *)
(***************************************************************************)
LEMMA NothingYet ==
  ASSUME TypeOK, LoadFits, [Next]_vars, doc' = 0
  PROVE  kind' = <<>> /\ at' = "idle" /\ wire' = {} /\ phase' # "images"
<1>0. doc \in Nat /\ ~Navigates
  <2>1. doc \in Nat
    BY BoundsAssumption DEF TypeOK
  <2> QED BY <2>1, Navigating DEF BeginLoad, Reset
<1>1. doc = 0 /\ kind = <<>> /\ at = "idle" /\ wire = {} /\ phase # "images"
  BY <1>0, KindsKept DEF LoadFits
<1>2. Elements = {}
  BY <1>1 DEF Elements
<1>3. styles = {} /\ images = {} /\ preparing = <<>> /\ orders = <<>> /\ Len(orders) = 0
  <2>1. preparing \in Seq({}) /\ orders \in Seq({}) /\ styles = {} /\ images = {}
    BY <1>2 DEF TypeOK
  <2>2. \A s \in Seq({}) : s = <<>>
    BY ElemsNone, ElemsType
  <2> QED BY <2>1, <2>2
<1>4. ~OrderedReady
  BY <1>3 DEF OrderedReady, TypeOK
<1>5. CASE Pause
  BY <1>1, <1>5, PauseIsStill DEF Still, requests, Pause, AwaitSheets, BeginDeferred, AfterDCL, AfterLoad, NextPass,
     WaitDone, OutOfTime, StopWaiting, EndWait, Suspend, Resume, BeginWait, GoOn, vars, loop
<1>6. CASE TopOfPass \/ StartImages \/ SettleFonts
  BY <1>1, <1>3, <1>6 DEF TopOfPass, StartImages, SettleFonts, Start, parser, requests
<1>7. ~Delivers /\ ~Prepare /\ ~RunOrdered /\ ~RunTask /\ ~TellImages
  BY <1>1, <1>3, <1>4 DEF Delivers, Prepare, RunOrdered, RunTask, TellImages, Looping
<1>8. ~Runs /\ ~EndParse /\ ~AfterScript /\ ~ParseNext
  BY <1>1 DEF Runs, RunParserScript, RunDeferred, FireDCL, FireLoad, EndParse, AfterScript, ParseNext
<1> QED BY <1>0, <1>5, <1>6, <1>7, <1>8, Steps DEF Tells, TakesBatch

\* What runs outside the parser's order, in the loop.
LateScripts == {"async", "dynAsync", "dynInline", "dynOrdered"}

LEMMA LateRuns ==
  ASSUME TypeOK, Places, Prepare \/ Delivers \/ RunOrdered
  PROVE  /\ UNCHANGED <<doc, size, parsed, at, deferred>>
         /\ log' = log \/ \E e \in Elements :
              /\ log' = Append(log, e) /\ kind[e] \in LateScripts /\ e \notin Ran
              /\ kind[e] = "dynOrdered" => \A x \in Ran \cap Elements : kind[x] = "dynOrdered" => x < e
<1>1. CASE Prepare
  <2>0. preparing \in Seq(Elements) /\ preparing # <<>>
    BY <1>1 DEF Prepare, TypeOK
  <2>1. PICK e \in Elements : e = Head(preparing) /\ e \in Elems(preparing)
    BY <2>0, TailParts
  <2>2. e \notin Ran
    BY <2>1 DEF Places, NotYetRun, Unprepared
  <2> QED BY <1>1, <2>1, <2>2 DEF Prepare, Run, LateScripts, history
<1>2. CASE RunOrdered
  <2>1. PICK e \in Elements : e = orders[nextToRun] /\ e \in Due
    BY <1>2, DueParts DEF RunOrdered
  <2>2. e \notin Ran /\ kind[e] = "dynOrdered" /\ \A x \in Ran \cap Elements : kind[x] = "dynOrdered" => x < e
    BY <2>1, PlacesAre DEF Places, NotYetRun
  <2> QED BY <1>2, <2>1, <2>2 DEF RunOrdered, Run, LateScripts
<1>3. CASE Delivers
  <2>1. PICK r \in wire : Deliver(r)
    BY <1>3 DEF Delivers
  <2>2. UNCHANGED <<doc, size, parsed, at, deferred>>
    BY <2>1 DEF Deliver
  <2>3. CASE r[1] = doc /\ r[2] \in pending
    <3>1. PICK e \in Elements : e = r[2] /\ e \in pending
      BY <2>3 DEF TypeOK
    <3>2. Arrive(e) /\ e \notin Ran
      BY <2>1, <2>3, <3>1 DEF Deliver, Places, NotYetRun
    <3> QED BY <2>2, <3>2 DEF Arrive, Run, LateScripts, history
  <2>4. CASE ~(r[1] = doc /\ r[2] \in pending)
    BY <2>1, <2>2, <2>4 DEF Deliver, history
  <2> QED BY <2>3, <2>4
<1> QED BY <1>1, <1>2, <1>3

\* The part of LoadFits that is about what has run.
RanFits ==
  /\ at = "due" => parsed > 0 /\ kind[parsed] \in Sync /\ parsed \notin Ran
  /\ DCL \in Ran => at \in Ended
  /\ Load \in Ran => at \in {"loaded", "idle"}
  /\ \A e \in Ran \cap Elements : kind[e] \in AfterParse => at \in {"deferred"} \cup Ended

Onward ==
  \/ at' = at
  \/ at = "end" /\ at' = "deferred"
  \/ at = "dcl" /\ at' \in {"idle", "subs"}
  \/ at = "loaded" /\ at' = "idle"

LEMMA PauseGoesOn == Pause => Onward
BY DEF Pause, Onward, AwaitSheets, BeginDeferred, AfterDCL, AfterLoad, NextPass, WaitDone, OutOfTime, StopWaiting,
       EndWait, Suspend, Resume, vars

\* No script that was to run after parsing runs, and no milestone is passed.
LEMMA RanFitsLater ==
  ASSUME TypeOK, TypeOK', Places, LoadFits, KindsStay, UNCHANGED <<size, parsed>>, Onward,
         \A e \in Ran' \ Ran : e \in Elements /\ kind[e] \in LateScripts
  PROVE  RanFits'
<1>1. /\ Ran \subseteq Elements \cup {DCL, Load} /\ \A x \in Elements : x # DCL /\ x # Load /\ x \in Nat
  BY PlacesAre DEF Places, NotYetRun
<1>2. \A x \in Elements' : x # DCL /\ x # Load
  <2>1. Elements' \subseteq 1 .. MaxElements
    <3>1. kind' \in Seq(Parsed \cup Inserted) /\ Len(kind') <= MaxElements
      BY DEF TypeOK
    <3>2. Elements' = 1 .. Len(kind') /\ Len(kind') \in Nat
      BY <3>1 DEF Elements
    <3> QED BY <3>1, <3>2, BoundsAssumption
  <2> QED BY <2>1, BoundsAssumption DEF DCL, Load
<1>3. \A x \in Ran' \cap Elements' : x \in Elements /\ kind'[x] = kind[x] /\ (x \in Ran \/ kind[x] \in LateScripts)
  BY <1>1, <1>2 DEF KindsStay
<1>4. at' = "due" => parsed \in Elements /\ at = "due"
  BY ElementsAre DEF Onward, LoadFits
<1>5. at' = "due" => parsed' > 0 /\ kind'[parsed'] \in Sync /\ parsed' \notin Ran'
  BY <1>4 DEF LoadFits, KindsStay, LateScripts, Sync
<1>6. DCL \in Ran' => at' \in Ended
  BY <1>1 DEF LoadFits, Onward, Ended
<1>7. Load \in Ran' => at' \in {"loaded", "idle"}
  BY <1>1 DEF LoadFits, Onward
<1>8. \A x \in Ran' \cap Elements' : kind'[x] \in AfterParse => at' \in {"deferred"} \cup Ended
  BY <1>3 DEF LoadFits, Onward, Ended, LateScripts, AfterParse
<1>9. DCL' = DCL /\ Load' = Load
  BY DEF DCL, Load
<1> QED BY <1>5, <1>6, <1>7, <1>8, <1>9 DEF RanFits

LEMMA RanFitsKept ==
  ASSUME TypeOK, TypeOK', Places, LoadFits, [Next]_vars
  PROVE  RanFits'
<1>0. DCL' = DCL /\ Load' = Load
  BY DEF DCL, Load
<1>1. CASE Navigates
  <2>1. at' = "parse" /\ log' = <<>>
    BY <1>1, Navigating DEF BeginLoad, Reset
  <2>2. Ran' = {}
    BY <2>1 DEF Ran, ScriptsThatRan
  <2> QED BY <2>1, <2>2 DEF RanFits
<1>2. ASSUME ~Navigates PROVE KindsStay /\ UNCHANGED <<doc, size>>
  BY <1>2, KindsKept
<1>3. /\ Ran \subseteq Elements \cup {DCL, Load}
      /\ \A x \in Ran : x \in Elements' => x \in Elements
      /\ \A x \in Elements : x # DCL /\ x # Load /\ x \in Nat
  <2>1. Elements' = 1 .. Len(kind') /\ Len(kind') \in Nat /\ Len(kind') <= MaxElements
    <3>1. kind' \in Seq(Parsed \cup Inserted) /\ Len(kind') <= MaxElements
      BY DEF TypeOK
    <3> QED BY <3>1 DEF Elements
  <2>2. \A x \in Elements' : x # DCL /\ x # Load
    BY <2>1, BoundsAssumption DEF DCL, Load
  <2> QED BY <2>2, PlacesAre DEF Places, NotYetRun
<1>4. CASE Pause
  <2>1. UNCHANGED <<kind, size, parsed, log>> /\ Onward /\ KindsStay
    BY <1>4, PauseIsStill, PauseGoesOn DEF Still, KindsStay, Elements, history
  <2>2. Ran' = Ran
    BY <2>1, RanStays
  <2> QED BY <2>1, <2>2, RanFitsLater
<1>5. CASE Tells \/ TakesBatch \/ StartImages
  <2>1. UNCHANGED <<size, parsed, log>> /\ KindsStay
    BY <1>5, TellsInserts, Inserting DEF TakesBatch, AfterScript, TopOfPass, StartImages, parser, history,
       Inserts, KindsStay, Elements
  <2>2. Ran' = Ran
    BY <2>1, RanStays
  <2>3. Onward \/ (at \notin {"due", "deferred"} \cup Ended /\ at' \notin {"due", "deferred"} \cup Ended)
    BY <1>5, TellsInserts DEF TakesBatch, AfterScript, TopOfPass, StartImages, Onward, Ended
  <2>4. CASE Onward
    BY <2>1, <2>2, <2>4, RanFitsLater
  <2>5. CASE at \notin {"due", "deferred"} \cup Ended /\ at' \notin {"due", "deferred"} \cup Ended
    BY <1>0, <1>3, <2>1, <2>2, <2>5 DEF LoadFits, RanFits, Ended, KindsStay
  <2> QED BY <2>3, <2>4, <2>5
<1>6. CASE Prepare \/ Delivers \/ RunOrdered
  <2>1. UNCHANGED <<doc, size, parsed, at, deferred>>
    BY <1>6, LateRuns
  <2>2. ~Navigates
    BY <2>1, BoundsAssumption, Navigating DEF BeginLoad, Reset, TypeOK
  <2>3. \A e \in Ran' \ Ran : e \in Elements /\ kind[e] \in LateScripts
    <3>1. CASE log' = log
      BY <3>1, RanStays
    <3>2. CASE log' # log
      <4>1. PICK e \in Elements : log' = Append(log, e) /\ kind[e] \in LateScripts
        BY <1>6, <3>2, LateRuns
      <4>2. Ran' = Ran \cup {e}
        BY <4>1, RanAppends
      <4> QED BY <4>1, <4>2
    <3> QED BY <3>1, <3>2
  <2> QED BY <1>2, <2>1, <2>2, <2>3, RanFitsLater DEF Onward
<1>7. CASE ParseNext
  <2>1. PICK e \in Elements : e = parsed + 1
    BY <1>7, ElementsAre DEF ParseNext
  <2>2. e \notin Ran /\ e > 0
    <3>1. e \notin Reached
      BY <1>7, <2>1, ElementsAre DEF ParseNext, Reached
    <3> QED BY <1>3, <2>1, <3>1, ElementsAre DEF Places, NotYetRun
  <2>3. UNCHANGED <<kind, log>> /\ at = "parse" /\ parsed' = e
    BY <1>7, <2>1 DEF ParseNext, history
  <2>4. at' \in {"due", "after", "parse"} /\ (at' = "due" => kind[e] \in Sync)
    BY <1>7, <2>1, Zenon DEF ParseNext
  <2>5. Ran' = Ran /\ Elements' = Elements
    BY <2>3, RanStays DEF Elements
  <2> QED BY <1>0, <2>2, <2>3, <2>4, <2>5 DEF LoadFits, RanFits, Ended
<1>8. CASE Runs
  <2>0. ~Navigates /\ UNCHANGED parsed
    BY <1>8, BoundsAssumption, Navigating DEF Runs, RunParserScript, RunDeferred, FireDCL, FireLoad, BeginLoad, Reset, TypeOK
  <2>1. KindsStay
    BY <1>2, <2>0
  <2>2. CASE RunParserScript
    <3>1. parsed \in Elements /\ kind[parsed] \in Sync /\ at = "due" /\ at' = "after" /\ log' = Append(log, parsed)
      BY <2>2, ElementsAre DEF RunParserScript, Run, LoadFits
    <3>2. Ran' = Ran \cup {parsed}
      BY <3>1, RanAppends
    <3>3. DCL \notin Ran' /\ Load \notin Ran'
      BY <1>3, <3>1, <3>2 DEF LoadFits, Ended
    <3>4. \A x \in Ran' \cap Elements' : kind'[x] \notin AfterParse
      BY <1>3, <2>1, <3>1, <3>2 DEF LoadFits, Ended, KindsStay, Sync, AfterParse
    <3> QED BY <1>0, <3>1, <3>3, <3>4 DEF RanFits
  <2>3. CASE RunDeferred
    <3>0. deferred \in Seq(Elements) /\ deferred # <<>>
      BY <2>3 DEF RunDeferred, TypeOK
    <3>1. PICK e \in Elements : log' = Append(log, e)
      BY <2>3, <3>0, TailParts DEF RunDeferred, Run
    <3>2. Ran' = Ran \cup {e} /\ at = "deferred" /\ at' = "deferred"
      BY <2>3, <3>1, RanAppends DEF RunDeferred
    <3>3. DCL \notin Ran' /\ Load \notin Ran'
      BY <1>3, <3>1, <3>2 DEF LoadFits, Ended
    <3> QED BY <1>0, <3>2, <3>3 DEF RanFits
  <2>4. CASE FireDCL
    <3>1. log' = Append(log, DCL) /\ at = "deferred" /\ at' = "dcl"
      BY <2>4 DEF FireDCL, Run
    <3>2. Ran' = Ran \cup {DCL} /\ Load # DCL
      BY <3>1, RanAppends, BoundsAssumption DEF DCL, Load
    <3> QED BY <1>0, <3>1, <3>2 DEF RanFits, LoadFits, Ended
  <2>5. CASE FireLoad
    <3>1. at = "subs" /\ at' = "loaded"
      BY <2>5 DEF FireLoad, Run
    <3> QED BY <1>0, <3>1 DEF RanFits, LoadFits, Ended
  <2> QED BY <1>8, <2>2, <2>3, <2>4, <2>5 DEF Runs
<1> QED BY <1>1, <1>4, <1>5, <1>6, <1>7, <1>8, Steps

LEMMA LoadFitsKept ==
  ASSUME TypeOK, TypeOK', Places, LoadFits, [Next]_vars
  PROVE  LoadFits'
<1>1. RanFits' /\ (doc' = 0 => kind' = <<>> /\ at' = "idle" /\ wire' = {} /\ phase' # "images")
  BY RanFitsKept, NothingYet
<1>2. (at' \notin {"parse", "due", "after"} => parsed' = size') /\ (at' \in Ended => deferred' = <<>>)
  <2>1. CASE Pause
    <3>1. Onward /\ Still
      BY <2>1, PauseIsStill, PauseGoesOn
    <3>2. at = "end" => at' # at \/ at' \notin Ended
      BY DEF Ended
    <3> QED BY <3>1, <3>2 DEF Still, Onward, LoadFits, Ended
  <2>2. CASE Runs
    BY <2>2 DEF Runs, RunParserScript, RunDeferred, FireDCL, FireLoad, LoadFits, Ended
  <2>3. CASE Tells \/ TakesBatch \/ StartImages
    BY <2>3, TellsInserts DEF TakesBatch, AfterScript, TopOfPass, StartImages, parser, LoadFits, Ended
  <2>4. CASE Prepare \/ Delivers \/ RunOrdered
    BY <2>4, LateRuns DEF LoadFits
  <2>5. CASE ParseNext
    <3>1. at' \in {"due", "after", "parse"}
      BY <2>5, Zenon DEF ParseNext
    <3> QED BY <3>1 DEF Ended
  <2>6. CASE Navigates
    <3>1. at' = "parse"
      BY <2>6, Navigating DEF BeginLoad
    <3> QED BY <3>1 DEF Ended
  <2> QED BY <2>1, <2>2, <2>3, <2>4, <2>5, <2>6, Steps
<1> QED BY <1>1, <1>2 DEF LoadFits, RanFits

-----------------------------------------------------------------------------
(***************************************************************************)
(* The loop, and how its waits end.                                        *)
(***************************************************************************)
\* A script put in the order by Prepare cannot be ready, nor be due in its stead.
LEMMA OrderStaysUnready ==
  ASSUME TypeOK, Places, Prepare
  PROVE  ~OrderedReady'
<1>0. preparing \in Seq(Elements) /\ preparing # <<>>
  BY DEF Prepare, TypeOK
<1>1. PICK e \in Elements : e = Head(preparing) /\ e \in Elems(preparing)
  BY <1>0, TailParts
<1>2. ~OrderedReady /\ UNCHANGED <<nextToRun, ready>>
  BY DEF Prepare
<1>3. e \notin ready
  <2>1. \A x \in ready : x \in Elems(orders)
    BY DueParts DEF Places, Apart
  <2>2. \A x \in Elems(orders) : x < e /\ x \in Nat
    BY <1>1, DueParts, ElementsAre DEF Places, QueuesRise, Unprepared
  <2> QED BY <2>1, <2>2
<1>4. /\ orders \in Seq(Elements) /\ Len(orders) \in Nat /\ nextToRun \in 1 .. Len(orders) + 1
  BY DEF TypeOK
<1>5. CASE orders' = orders
  BY <1>2, <1>5 DEF OrderedReady
<1>6. CASE orders' = Append(orders, e)
  <2>1. Len(orders') = Len(orders) + 1 /\ orders'[Len(orders) + 1] = e /\ \A i \in 1 .. Len(orders) : orders'[i] = orders[i]
    BY <1>4, <1>6
  <2>2. CASE nextToRun <= Len(orders)
    BY <1>2, <1>4, <2>1, <2>2 DEF OrderedReady
  <2>3. CASE nextToRun = Len(orders) + 1
    BY <1>2, <1>3, <2>1, <2>3 DEF OrderedReady
  <2> QED BY <1>4, <2>2, <2>3
<1> QED BY <1>1, <1>5, <1>6 DEF Prepare

LEMMA QueuedAre ==
  ASSUME TypeOK
  PROVE  QueuedIsUnseen <=> styles \cup images \cup Elems(scripts) \subseteq unseen
<1>1. DOMAIN scripts = 1 .. Len(scripts)
  BY DEF TypeOK
<1> QED BY <1>1 DEF QueuedIsUnseen, Elems

\* What such script inserts is queued, and noted.
LEMMA QueuedStays ==
  ASSUME TypeOK, QueuedIsUnseen, InsertUnseen
  PROVE  QueuedIsUnseen'
<1>1. Inserts /\ unseen' = unseen \cup New
  BY Inserting DEF InsertUnseen, New, Elements
<1>2. styles' \cup images' \cup Elems(scripts') \subseteq unseen'
  BY <1>1, QueuedAre DEF Inserts
<1>3. DOMAIN scripts' = 1 .. Len(scripts')
  BY <1>1 DEF Inserts
<1> QED BY <1>2, <1>3 DEF QueuedIsUnseen, Elems

LEMMA LoopFitsKept ==
  ASSUME TypeOK, Places, LoopFits, [Next]_vars
  PROVE  LoopFits'
<1>1. UNCHANGED <<queues, unseen>> /\ QueuedIsUnseen => QueuedIsUnseen'
  BY DEF QueuedIsUnseen, queues
<1>2. ordered' = ordered => OrderedReady' = OrderedReady
  BY DEF ordered, OrderedReady
<1>3. CASE AwaitSheets \/ BeginDeferred \/ AfterDCL \/ AfterLoad
  <2>1. /\ Straight /\ ordered' = ordered /\ preparing' = preparing
        /\ wait' = "none" \/ phase' = "top"
    BY <1>3 DEF AwaitSheets, BeginDeferred, AfterDCL, AfterLoad, BeginWait, GoOn, Straight
  <2> QED BY <1>2, <2>1 DEF LoopFits, Straight
<1>4. CASE NextPass \/ WaitDone \/ OutOfTime \/ StopWaiting \/ Suspend \/ Resume
  <2>1. /\ Looping("net") \/ Looping("top")
        /\ ordered' = ordered /\ preparing' = preparing
        /\ wait' = "none" \/ phase' = "top"
    BY <1>4 DEF NextPass, WaitDone, OutOfTime, StopWaiting, Suspend, Resume, EndWait, Served, Stalled, Looping, loop
  <2> QED BY <1>2, <2>1 DEF LoopFits, Looping
<1>5. CASE UNCHANGED vars
  <2>1. UNCHANGED <<preparing, wait, phase, progressed, at, queues, unseen, ordered>>
    BY <1>5 DEF vars, loop, history
  <2>2. OrderedReady' => OrderedReady
    BY <2>1 DEF ordered, OrderedReady
  <2>3. (QueuedIsUnseen => QueuedIsUnseen') /\ (progressed' <=> progressed)
    BY <1>1, <2>1
  <2>4. UNCHANGED <<preparing, wait, phase, at, styles, scripts>>
    BY <2>1 DEF queues
  <2> QED BY <2>2, <2>3, <2>4 DEF LoopFits
<1>6. CASE Runs
  <2>1. /\ Straight /\ ordered' = ordered /\ preparing' = preparing
        /\ wait' = "none" \/ phase' = "top"
    BY <1>6 DEF Runs, RunParserScript, RunDeferred, FireDCL, FireLoad, BeginWait, GoOn, Straight
  <2> QED BY <1>2, <2>1 DEF LoopFits, Straight
<1>7. CASE EndParse \/ ParseNext \/ AfterScript
  <2>1. /\ Straight /\ ordered' = ordered /\ wait' = wait
        /\ preparing' = preparing \/ (at = "after" /\ (preparing' # <<>> => at' = "after"))
    BY <1>7 DEF EndParse, ParseNext, AfterScript, loop
  <2> QED BY <1>2, <2>1 DEF LoopFits, Straight
<1>8. CASE RunTask \/ Delivers
  <2>1. /\ Looping("net") \/ Looping("top")
        /\ UNCHANGED <<preparing, wait, phase>> /\ progressed'
    BY <1>8 DEF RunTask, Delivers, Deliver, Listening
  <2> QED BY <2>1 DEF LoopFits, Looping
<1>9. CASE TopOfPass
  <2>1. /\ Looping("top") /\ ordered' = ordered /\ wait' = wait /\ phase' = "scripts"
        /\ styles' = {} /\ scripts' = <<>> /\ preparing' = scripts
    BY <1>9 DEF TopOfPass
  <2>2. ~progressed' => preparing' = <<>>
    BY <1>9, Zenon DEF TopOfPass
  <2>3. ~OrderedReady'
    BY <1>2, <2>1 DEF Looping
  <2> QED BY <2>1, <2>2, <2>3 DEF LoopFits, Looping
<1>10. CASE StartImages
  <2>1. /\ Looping("scripts") /\ ordered' = ordered /\ wait' = wait /\ phase' \in {"images", "fonts"}
        /\ images' = {} /\ preparing = <<>> /\ UNCHANGED <<styles, scripts, preparing, progressed>>
    BY <1>10 DEF StartImages
  <2>2. ~progressed => QueuedIsUnseen'
    <3>1. ~progressed => styles' = {} /\ images' = {} /\ scripts' = <<>>
      BY <2>1 DEF LoopFits, Looping
    <3> QED BY <3>1 DEF QueuedIsUnseen
  <2> QED BY <1>2, <2>1, <2>2 DEF LoopFits, Looping
<1>11. CASE Prepare
  <2>1. preparing # <<>> /\ UNCHANGED <<loop, at>>
    BY <1>11 DEF Prepare
  <2> QED BY <1>11, <2>1, OrderStaysUnready DEF LoopFits, loop
<1>12. CASE RunOrdered
  <2>1. OrderedReady /\ UNCHANGED <<loop, preparing>>
    BY <1>12 DEF RunOrdered
  <2> QED BY <2>1 DEF LoopFits, loop
<1>13. CASE Navigates
  <2>1. orders' = <<>> /\ nextToRun' = 1 /\ preparing = <<>> /\ preparing' = preparing /\ wait' = "none"
    BY <1>13, Navigating, NavigatesApart DEF BeginLoad, Reset
  <2>2. ~OrderedReady'
    BY <2>1 DEF OrderedReady
  <2> QED BY <2>1, <2>2 DEF LoopFits
<1>14. CASE TellImages \/ SettleFonts
  <2>1. /\ Looping("images") \/ Looping("fonts")
        /\ UNCHANGED <<ordered, wait, preparing, progressed>> /\ phase' \in {"fonts", "net"}
        /\ InsertUnseen \/ UNCHANGED <<queues, unseen>>
    BY <1>14 DEF TellImages, SettleFonts
  <2>2. ~progressed => QueuedIsUnseen'
    BY <1>1, <2>1, QueuedStays DEF LoopFits, Looping
  <2> QED BY <1>2, <2>1, <2>2 DEF LoopFits, Looping
<1> QED BY <1>3, <1>4, <1>5, <1>6, <1>7, <1>8, <1>9, <1>10, <1>11, <1>12, <1>13, <1>14, Steps DEF Pause, Tells, TakesBatch

\* A wait is over, having found what it waited for, only just after it ended so.
LEMMA DoneOnlyByWaiting ==
  ASSUME LoopFits, WaitsFit, [Next]_vars, waited' = "done"
  PROVE  WaitDone \/ UNCHANGED vars
<1>1. \A p : Looping(p) => waited = "no"
  BY DEF Looping, WaitsFit
<1>2. ~AwaitSheets /\ ~BeginDeferred /\ ~AfterDCL /\ ~AfterLoad /\ ~OutOfTime /\ ~StopWaiting /\ ~Runs /\ ~Navigates
  BY Navigating DEF AwaitSheets, BeginDeferred, AfterDCL, AfterLoad, OutOfTime, StopWaiting, EndWait, BeginWait, GoOn,
     Runs, RunParserScript, RunDeferred, FireDCL, FireLoad, BeginLoad
<1>3. ~NextPass /\ ~Suspend /\ ~Resume
  BY <1>1 DEF NextPass, Suspend, Resume, Served, Stalled, loop
<1>4. ~RunTask /\ ~TopOfPass /\ ~StartImages /\ ~TellImages /\ ~SettleFonts /\ ~Delivers
  BY <1>1 DEF RunTask, TopOfPass, StartImages, TellImages, SettleFonts, Delivers, Deliver, Listening
<1>5. ~EndParse /\ ~AfterScript /\ ~ParseNext
  BY DEF EndParse, AfterScript, ParseNext, WaitsFit, loop
<1>6. ~Prepare /\ ~RunOrdered
  BY DEF Prepare, RunOrdered, LoopFits, WaitsFit, loop
<1> QED BY <1>2, <1>3, <1>4, <1>5, <1>6, Steps DEF Pause, Tells, TakesBatch

LEMMA NothingCounted ==
  ASSUME TypeOK, CountersExact
  PROVE  /\ inFlight = 0 => pending = {}
         /\ pendingSheets = 0 => SheetsOf(pending) = {}
<1>1. IsFiniteSet(pending) /\ IsFiniteSet(SheetsOf(pending))
  BY FiniteElements DEF TypeOK
<1> QED BY <1>1, FS_EmptySet DEF CountersExact

WaitsApart ==
  /\ wait # "none" => waited = "no"
  /\ at \in {"parse", "after"} => wait = "none" /\ waited = "no"
  /\ wait = "sheets" => at \in {"due", "end", "deferred"}
  /\ wait = "stall" => at \in {"dcl", "loaded"}
  /\ wait = "subs" => at = "subs"
  /\ at = "idle" <=> wait = "idle"

LEMMA WaitsApartKept ==
  ASSUME TypeOK, Places, LoopFits, WaitsFit, [Next]_vars
  PROVE  WaitsApart'
<1>0. WaitsApart
  BY DEF WaitsFit, WaitsApart
<1>1. CASE UNCHANGED <<wait, waited, at>>
  BY <1>0, <1>1 DEF WaitsApart
<1>2. CASE AwaitSheets \/ BeginDeferred \/ AfterDCL \/ AfterLoad
  BY <1>0, <1>2 DEF AwaitSheets, BeginDeferred, AfterDCL, AfterLoad, BeginWait, GoOn, Straight, WaitsApart
<1>3. CASE WaitDone \/ OutOfTime \/ StopWaiting
  BY <1>0, <1>3 DEF WaitDone, Satisfied, Stalled, OutOfTime, StopWaiting, EndWait, Looping, WaitsApart
<1>4. CASE NextPass \/ Suspend \/ Resume \/ UNCHANGED vars
  BY <1>1, <1>4 DEF NextPass, Suspend, Resume, vars, loop
<1>5. CASE Runs
  BY <1>0, <1>5 DEF Runs, RunParserScript, RunDeferred, FireDCL, FireLoad, BeginWait, GoOn, Straight, WaitsApart
<1>6. CASE EndParse \/ AfterScript
  BY <1>0, <1>6 DEF EndParse, AfterScript, Straight, loop, WaitsApart
<1>7. CASE RunTask \/ TopOfPass \/ StartImages \/ TellImages \/ SettleFonts \/ Prepare \/ RunOrdered \/ Delivers
  BY <1>1, <1>7 DEF RunTask, TopOfPass, StartImages, TellImages, SettleFonts, Prepare, RunOrdered, Delivers, Deliver, loop
<1>8. CASE ParseNext
  <2>1. at = "parse" /\ Straight /\ UNCHANGED loop
    BY <1>8 DEF ParseNext
  <2>2. at' \in {"due", "after", "parse"}
    BY <1>8, Zenon DEF ParseNext
  <2> QED BY <1>0, <2>1, <2>2 DEF WaitsApart, Straight, loop
<1>9. CASE Navigates
  BY <1>9, Navigating DEF BeginLoad, WaitsApart
<1> QED BY <1>2, <1>3, <1>4, <1>5, <1>6, <1>7, <1>8, <1>9, Steps DEF Pause, Tells, TakesBatch

LEMMA WaitsFitKept ==
  ASSUME TypeOK, CountersExact, Places, LoopFits, WaitsFit, [Next]_vars
  PROVE  WaitsFit'
<1>1. WaitsApart'
  BY WaitsApartKept
<1>2. ASSUME waited' = "done"
      PROVE  /\ QueuedIsUnseen' /\ (at' \in {"due", "end", "deferred"} => SheetsOf(pending)' = {})
             /\ at' = "subs" => pending' = {}
  <2>1. CASE UNCHANGED vars
    <3>1. UNCHANGED <<waited, at, queues, pending, kind, unseen>>
      BY <2>1 DEF vars, loop, requests, parser, history
    <3>2. SheetsOf(pending)' = SheetsOf(pending) /\ QueuedIsUnseen' = QueuedIsUnseen
      BY <3>1 DEF SheetsOf, QueuedIsUnseen, queues
    <3> QED BY <1>2, <3>1, <3>2 DEF WaitsFit
  <2>2. CASE WaitDone
    <3>1. UNCHANGED <<at, queues, pending, kind, unseen>> /\ QueuedIsUnseen
      BY <2>2 DEF WaitDone, EndWait, Stalled, Looping, LoopFits, requests, parser, history
    <3>2. SheetsOf(pending)' = SheetsOf(pending) /\ QueuedIsUnseen'
      BY <3>1 DEF SheetsOf, QueuedIsUnseen, queues
    <3>3. (at \in {"due", "end", "deferred"} => SheetsOf(pending) = {}) /\ (at = "subs" => pending = {})
      BY <2>2, NothingCounted DEF WaitDone, Satisfied, WaitsFit
    <3> QED BY <3>1, <3>2, <3>3
  <2> QED BY <1>2, <2>1, <2>2, DoneOnlyByWaiting
<1> QED BY <1>1, <1>2 DEF WaitsFit, WaitsApart

-----------------------------------------------------------------------------
(***************************************************************************)
(* The order in which scripts run.                                         *)
(***************************************************************************)
\* y may run after x: what ScriptsInOrder asks of two entries of the log.
Precedes(x, y) ==
  /\ x # y
  /\ \A kinds \in {Sync, AfterParse, {"dynOrdered"}} :
       (x \in Elements /\ kind[x] \in kinds) /\ (y \in Elements /\ kind[y] \in kinds) => x < y
  /\ ~((x \in Elements /\ kind[x] \in AfterParse) /\ (y \in Elements /\ kind[y] \in Sync))
  /\ x \in {DCL, Load} => ~(y \in Elements /\ kind[y] \in Sync \cup AfterParse)
  /\ x # Load \/ y # DCL

LEMMA OrderIsPrecedence ==
  ScriptsInOrder <=> \A i, j \in DOMAIN log : i < j => Precedes(log[i], log[j])
BY DEF ScriptsInOrder, Precedes, Is

LEMMA RanAreOld ==
  ASSUME TypeOK, TypeOK', Places
  PROVE  /\ Ran \subseteq Elements \cup {DCL, Load} /\ \A x \in Elements' : x # DCL /\ x # Load
         /\ DCL' = DCL /\ Load' = Load
<1>1. Elements' = 1 .. Len(kind') /\ Len(kind') \in Nat /\ Len(kind') <= MaxElements
  <2>1. kind' \in Seq(Parsed \cup Inserted) /\ Len(kind') <= MaxElements
    BY DEF TypeOK
  <2> QED BY <2>1 DEF Elements
<1>2. \A x \in Elements' : x # DCL /\ x # Load
  BY <1>1, BoundsAssumption DEF DCL, Load
<1> QED BY <1>2, PlacesAre DEF Places, NotYetRun, DCL, Load

LEMMA PrecedesStays ==
  ASSUME TypeOK, TypeOK', Places, KindsStay, NEW x \in Elements \cup {DCL, Load}, NEW y \in Elements \cup {DCL, Load},
         Precedes(x, y)
  PROVE  Precedes(x, y)'
<1>1. x \in Elements' => x \in Elements /\ kind'[x] = kind[x]
  BY RanAreOld DEF KindsStay
<1>2. y \in Elements' => y \in Elements /\ kind'[y] = kind[y]
  BY RanAreOld DEF KindsStay
<1>3. DCL' = DCL /\ Load' = Load
  BY DEF DCL, Load
<1> QED BY <1>1, <1>2, <1>3 DEF Precedes

LEMMA OrderExtends ==
  ASSUME TypeOK, TypeOK', Places, KindsStay, ScriptsInOrder,
         NEW e \in Elements \cup {DCL, Load}, log' = Append(log, e), \A x \in Ran : Precedes(x, e)
  PROVE  ScriptsInOrder'
<1>1. log \in Seq(0 .. MaxElements + 1) /\ e \in 0 .. MaxElements + 1 /\ Len(log) \in Nat
  BY ElementsAre, BoundsAssumption DEF TypeOK, DCL, Load
<1>2. /\ DOMAIN log = 1 .. Len(log) /\ DOMAIN log' = 1 .. Len(log) + 1
      /\ log'[Len(log) + 1] = e /\ \A i \in 1 .. Len(log) : log'[i] = log[i]
  BY <1>1
<1>3. \A i \in 1 .. Len(log) : log[i] \in Ran /\ log[i] \in Elements \cup {DCL, Load}
  BY <1>2, RanAreOld DEF Ran, ScriptsThatRan
<1>4. ASSUME NEW i \in DOMAIN log', NEW j \in DOMAIN log', i < j
      PROVE  \E x, y \in Elements \cup {DCL, Load} : x = log'[i] /\ y = log'[j] /\ Precedes(x, y)'
  <2>1. i \in 1 .. Len(log) /\ log'[i] = log[i]
    BY <1>1, <1>2, <1>4
  <2>2. PICK x \in Elements \cup {DCL, Load}, y \in Elements \cup {DCL, Load} :
          x = log'[i] /\ y = log'[j] /\ Precedes(x, y)
    <3>1. CASE j = Len(log) + 1
      BY <1>2, <1>3, <2>1, <3>1
    <3>2. CASE j # Len(log) + 1
      <4>1. j \in 1 .. Len(log) /\ log'[j] = log[j]
        BY <1>1, <1>2, <1>4, <3>2
      <4>2. Precedes(log[i], log[j])
        BY <1>2, <1>4, <2>1, <4>1, OrderIsPrecedence
      <4> QED BY <1>3, <2>1, <4>1, <4>2
    <3> QED BY <3>1, <3>2
  <2>3. Precedes(x, y)'
    BY <2>2, PrecedesStays
  <2> QED BY <2>2, <2>3
<1> QED BY <1>4 DEF ScriptsInOrder, Precedes, Is

LEMMA OrderStays ==
  ASSUME TypeOK, TypeOK', Places, KindsStay, ScriptsInOrder, log' = log
  PROVE  ScriptsInOrder'
<1>1. \A i \in DOMAIN log : log[i] \in Elements \cup {DCL, Load}
  BY RanAreOld DEF Ran, ScriptsThatRan
<1>2. ASSUME NEW i \in DOMAIN log', NEW j \in DOMAIN log', i < j
      PROVE  \E x, y \in Elements \cup {DCL, Load} : x = log'[i] /\ y = log'[j] /\ Precedes(x, y)'
  <2>1. PICK x \in Elements \cup {DCL, Load}, y \in Elements \cup {DCL, Load} :
          x = log'[i] /\ y = log'[j] /\ Precedes(x, y)
    BY <1>1, <1>2, OrderIsPrecedence
  <2>2. Precedes(x, y)'
    BY <2>1, PrecedesStays
  <2> QED BY <2>1, <2>2
<1> QED BY <1>2 DEF ScriptsInOrder, Precedes, Is

LEMMA OrderKept ==
  ASSUME TypeOK, TypeOK', Places, LoadFits, ScriptsInOrder, [Next]_vars
  PROVE  ScriptsInOrder'
<1>1. CASE Navigates
  <2>1. log' = <<>>
    BY <1>1, Navigating DEF BeginLoad, Reset
  <2> QED BY <2>1 DEF ScriptsInOrder
<1>2. ASSUME doc' = doc PROVE KindsStay
  <2>1. ~Navigates
    BY <1>2, BoundsAssumption, Navigating DEF BeginLoad, Reset, TypeOK
  <2> QED BY <2>1, KindsKept
<1>3. /\ Ran \subseteq Elements \cup {DCL, Load} /\ \A x \in Elements : x # DCL /\ x # Load /\ x \in Nat
      /\ \A x \in Ran \cap Elements : x \in Reached
  BY RanAreOld, PlacesAre DEF Places, NotYetRun
<1>4. CASE Pause \/ Tells \/ TakesBatch \/ StartImages \/ ParseNext
  <2>1. log' = log /\ doc' = doc
    BY <1>4, PauseIsStill, TellsInserts DEF Still, TakesBatch, AfterScript, TopOfPass, StartImages, ParseNext, parser, history
  <2> QED BY <1>2, <2>1, OrderStays
<1>5. CASE Prepare \/ Delivers \/ RunOrdered
  <2>1. doc' = doc
    BY <1>5, LateRuns
  <2>2. CASE log' = log
    BY <1>2, <2>1, <2>2, OrderStays
  <2>3. CASE log' # log
    <3>1. PICK e \in Elements :
            /\ log' = Append(log, e) /\ kind[e] \in LateScripts /\ e \notin Ran
            /\ kind[e] = "dynOrdered" => \A x \in Ran \cap Elements : kind[x] = "dynOrdered" => x < e
      BY <1>5, <2>3, LateRuns
    <3>2. \A x \in Ran : Precedes(x, e)
      BY <1>3, <3>1 DEF Precedes, LateScripts, Sync, AfterParse
    <3> QED BY <1>2, <2>1, <3>1, <3>2, OrderExtends
  <2> QED BY <2>2, <2>3
<1>6. CASE Runs
  <2>0. KindsStay
    BY <1>2, <1>6 DEF Runs, RunParserScript, RunDeferred, FireDCL, FireLoad
  <2>1. CASE RunParserScript
    <3>1. PICK e \in Elements : e = parsed /\ log' = Append(log, e)
      BY <2>1, ElementsAre DEF RunParserScript, Run, LoadFits
    <3>2. /\ kind[e] \in Sync /\ e \notin Ran /\ DCL \notin Ran /\ Load \notin Ran
          /\ \A x \in Ran \cap Elements : kind[x] \notin AfterParse
      BY <2>1, <3>1 DEF RunParserScript, LoadFits, Ended
    <3>3. \A x \in Ran \cap Elements : kind[x] \in Sync => x < e
      <4>1. \A x \in Elements : kind[x] \in Sync => x <= size
        BY DEF Places, KindsFit, Sync, Inserted
      <4>2. \A x \in Ran \cap Elements : kind[x] \in Sync => x <= parsed
        BY <1>3, <4>1, ElementsAre DEF Reached
      <4> QED BY <1>3, <3>1, <3>2, <4>2
    <3>4. \A x \in Ran : Precedes(x, e)
      BY <1>3, <3>2, <3>3 DEF Precedes, Sync, AfterParse
    <3> QED BY <2>0, <3>1, <3>4, OrderExtends
  <2>2. CASE RunDeferred
    <3>0. deferred \in Seq(Elements) /\ deferred # <<>>
      BY <2>2 DEF RunDeferred, TypeOK
    <3>1. PICK e \in Elements : e = Head(deferred) /\ log' = Append(log, e) /\ e \in Elems(deferred)
      BY <2>2, <3>0, TailParts DEF RunDeferred, Run
    <3>2. kind[e] \in AfterParse /\ e \notin Ran /\ DCL \notin Ran /\ Load \notin Ran
      BY <2>2, <3>1, PlacesAre DEF RunDeferred, LoadFits, Ended, Places, NotYetRun
    <3>3. \A x \in Ran \cap Elements : kind[x] \in AfterParse => x < e
      BY <3>1 DEF Places, NotYetRun
    <3>4. \A x \in Ran : Precedes(x, e)
      BY <1>3, <3>2, <3>3 DEF Precedes, Sync, AfterParse
    <3> QED BY <2>0, <3>1, <3>4, OrderExtends
  <2>3. CASE FireDCL
    <3>1. log' = Append(log, DCL) /\ DCL \notin Ran /\ Load \notin Ran /\ DCL \notin Elements
      BY <1>3, <2>3 DEF FireDCL, Run, LoadFits, Ended
    <3>2. \A x \in Ran : Precedes(x, DCL)
      BY <1>3, <3>1 DEF Precedes
    <3> QED BY <2>0, <3>1, <3>2, OrderExtends
  <2>4. CASE FireLoad
    <3>1. log' = Append(log, Load) /\ Load \notin Ran /\ Load \notin Elements /\ Load # DCL
      BY <1>3, <2>4, BoundsAssumption DEF FireLoad, Run, LoadFits, Load, DCL
    <3>2. \A x \in Ran : Precedes(x, Load)
      BY <1>3, <3>1 DEF Precedes
    <3> QED BY <2>0, <3>1, <3>2, OrderExtends
  <2> QED BY <1>6, <2>1, <2>2, <2>3, <2>4 DEF Runs
<1> QED BY <1>1, <1>4, <1>5, <1>6, Steps

-----------------------------------------------------------------------------
(***************************************************************************)
(* The invariant, and the theorems.                                        *)
(***************************************************************************)
LEMMA InitInv == Init => IInv
<1> SUFFICES ASSUME Init PROVE IInv
  OBVIOUS
<1>1. Elements = {} /\ Ran = {}
  BY DEF Init, Elements, Ran, ScriptsThatRan
<1>2. TypeOK
  <2>1. ControlOK
    <3>1. 0 \in 0 .. MaxSuspends
      BY BoundsAssumption
    <3> QED BY <3>1 DEF Init, ControlOK
  <2>2. <<>> \in Seq(Elements) /\ <<>> \in Seq(Parsed \cup Inserted) /\ <<>> \in Seq(0 .. MaxElements + 1) /\ Len(<<>>) = 0
    OBVIOUS
  <2>3. DataOK
    BY <2>2, BoundsAssumption DEF Init, DataOK
  <2>4. UnseenOK
    BY DEF Init, UnseenOK
  <2> QED BY <2>1, <2>3, <2>4, TypesAre
<1>3. CountersExact
  BY FS_EmptySet DEF Init, CountersExact, SheetsOf
<1>4. Places
  <2>1. Fresh
    BY DEF Init, Fresh
  <2> QED BY <2>1, PlacesEmpty
<1>5. LoadFits
  BY <1>1 DEF Init, LoadFits, Ended
<1>6. LoopFits /\ WaitsFit
  BY DEF Init, LoopFits, WaitsFit, OrderedReady
<1>7. ScriptsInOrder
  BY DEF Init, ScriptsInOrder
<1> QED BY <1>2, <1>3, <1>4, <1>5, <1>6, <1>7 DEF IInv

LEMMA InvKept == IInv /\ [Next]_vars => IInv'
<1> SUFFICES ASSUME IInv, [Next]_vars PROVE IInv'
  OBVIOUS
<1>1. TypeOK /\ CountersExact /\ Places /\ LoadFits /\ LoopFits /\ WaitsFit /\ ScriptsInOrder /\ PlacesFit /\ Apart
  BY DEF IInv, Places
<1>2. TypeOK'
  BY <1>1, TypesKept
<1>3. CountersExact'
  BY <1>1, CountersKept
<1>4. Places' /\ LoadFits'
  BY <1>1, <1>2, PlacesKept, LoadFitsKept
<1>5. LoopFits' /\ WaitsFit'
  BY <1>1, LoopFitsKept, WaitsFitKept
<1>6. ScriptsInOrder'
  BY <1>1, <1>2, OrderKept
<1> QED BY <1>2, <1>3, <1>4, <1>5, <1>6 DEF IInv

LEMMA Invariance == Spec => []IInv
BY InitInv, InvKept, PTL DEF Spec

\* The load's and the loop's state is of the types the code declares.
THEOREM TypeCorrect == Spec => []TypeOK
<1>1. IInv => TypeOK
  BY DEF IInv
<1> QED BY <1>1, Invariance, PTL

\* The counters the waits look at (`net_in_flight`, `pending_sheets`) say how many
\* resources of this document are on their way, across resets and late answers.
THEOREM CountersAreExact == Spec => []CountersExact
<1>1. IInv => CountersExact
  BY DEF IInv
<1> QED BY <1>1, Invariance, PTL

\* However answers arrive and whatever script inserts meanwhile, no script runs
\* twice, and each kind of script keeps its order and its place among milestones.
THEOREM ScriptsRunInOrder == Spec => []ScriptsInOrder
<1>1. IInv => ScriptsInOrder
  BY DEF IInv
<1> QED BY <1>1, Invariance, PTL

-----------------------------------------------------------------------------
(***************************************************************************)
(* What a script, and `load`, may count on.                                *)
(***************************************************************************)
LEMMA AppendOnce ==
  ASSUME NEW S, NEW s \in Seq(S), NEW x \in S, NEW y \in S, Append(s, x) = Append(s, y)
  PROVE  x = y
<1>1. Len(s) \in Nat /\ Append(s, x)[Len(s) + 1] = x /\ Append(s, y)[Len(s) + 1] = y
  OBVIOUS
<1> QED BY <1>1

\* The steps that append x to the log, by what x is.
LEMMA WhatRan ==
  ASSUME IInv, [Next]_vars, NEW x \in Elements \cup {DCL, Load}, log' = Append(log, x)
  PROVE  \/ RunParserScript /\ x = parsed
         \/ RunDeferred /\ x = Head(deferred) /\ kind[x] \in AfterParse
         \/ FireDCL /\ x = DCL
         \/ FireLoad /\ x = Load
         \/ x \in Elements /\ kind[x] \in LateScripts
<1>1. TypeOK /\ Places /\ LoadFits
  BY DEF IInv
<1>2. /\ log \in Seq(0 .. MaxElements + 1)
      /\ \A y \in Elements \cup {DCL, Load} : y \in 0 .. MaxElements + 1
  <2>1. log \in Seq(0 .. MaxElements + 1)
    BY <1>1 DEF TypeOK
  <2>2. \A y \in Elements \cup {DCL, Load} : y \in 0 .. MaxElements + 1
    BY <1>1, ElementsAre, BoundsAssumption DEF DCL, Load
  <2> QED BY <2>1, <2>2
<1>3. log' # log /\ log' # <<>>
  <2>1. Len(log) \in Nat /\ Len(log') = Len(log) + 1 /\ Len(<<>>) = 0
    BY <1>2
  <2>2. Len(log) + 1 # Len(log) /\ Len(log) + 1 # 0
    BY <2>1
  <2> QED BY <2>1, <2>2
<1>4. \A y \in Elements \cup {DCL, Load} : log' = Append(log, y) => x = y
  <2> SUFFICES ASSUME NEW y \in Elements \cup {DCL, Load}, log' = Append(log, y) PROVE x = y
    OBVIOUS
  <2> QED BY <1>2, AppendOnce
<1>5. ~Pause /\ ~Tells /\ ~TakesBatch /\ ~StartImages /\ ~ParseNext /\ ~Navigates
  BY <1>3, PauseIsStill, TellsInserts, Navigating DEF Still, TakesBatch, AfterScript, TopOfPass, StartImages, ParseNext,
     BeginLoad, Reset, history
<1>6. CASE Prepare \/ Delivers \/ RunOrdered
  BY <1>1, <1>3, <1>4, <1>6, LateRuns
<1>7. CASE Runs
  <2>1. RunParserScript => parsed \in Elements /\ log' = Append(log, parsed)
    BY <1>1, ElementsAre DEF RunParserScript, Run, LoadFits
  <2>2. RunDeferred => Head(deferred) \in Elements /\ kind[Head(deferred)] \in AfterParse /\ log' = Append(log, Head(deferred))
    <3> SUFFICES ASSUME RunDeferred
                 PROVE  Head(deferred) \in Elements /\ kind[Head(deferred)] \in AfterParse /\ log' = Append(log, Head(deferred))
      OBVIOUS
    <3>1. deferred \in Seq(Elements) /\ deferred # <<>>
      BY <1>1 DEF RunDeferred, TypeOK
    <3>2. Head(deferred) \in Elements /\ Head(deferred) \in Elems(deferred)
      BY <3>1, TailParts
    <3> QED BY <1>1, <3>2, PlacesAre DEF RunDeferred, Run
  <2>3. (FireDCL => log' = Append(log, DCL)) /\ (FireLoad => log' = Append(log, Load))
    BY DEF FireDCL, FireLoad, Run
  <2> QED BY <1>4, <1>7, <2>1, <2>2, <2>3 DEF Runs
<1> QED BY <1>5, <1>6, <1>7, Steps

\* A script the parser stops for, or one set aside for its end, runs when no sheet
\* is on its way, unless the wait for them was cut short
\* (`await_pending_stylesheets` before each); nor is one waiting to be asked for,
\* but what the pass that ended the wait let script insert without counting it.
THEOREM SheetsComeFirst == Spec => ScriptsSeeTheirSheets
<1>1. IInv /\ [Next]_vars =>
        [\A e \in Elements :
           /\ log' = Append(log, e) /\ kind[e] \in Sync \union {"defer"}
           /\ waited # "late"
           => SheetsOf(pending) = {} /\ styles \subseteq unseen]_vars
  <2> SUFFICES ASSUME IInv, [Next]_vars, NEW e \in Elements, log' = Append(log, e),
                      kind[e] \in Sync \union {"defer"}, waited # "late"
               PROVE  SheetsOf(pending) = {} /\ styles \subseteq unseen
    OBVIOUS
  <2>1. TypeOK /\ WaitsFit /\ e # DCL /\ e # Load
    BY ElementsAre DEF IInv
  <2>2. kind[e] \notin LateScripts /\ kind[e] # "module" /\ (kind[e] \in AfterParse => kind[e] = "defer")
    BY DEF LateScripts, Sync, AfterParse
  <2>3. waited # "no" /\ at \in {"due", "deferred"}
    BY <2>1, <2>2, WhatRan DEF RunParserScript, RunDeferred
  <2>4. waited = "done"
    BY <2>1, <2>3 DEF TypeOK
  <2> QED BY <2>1, <2>3, <2>4 DEF WaitsFit, QueuedIsUnseen
<1> QED BY <1>1, Invariance, PTL DEF Spec, ScriptsSeeTheirSheets

\* `load` is fired when nothing of the document is outstanding and every script of
\* it has run, unless `await_subresources` was cut short, and but for what the pass
\* that ended the wait let script insert without counting it.
THEOREM LoadComesLast == Spec => LoadWaitsForAll
<1>1. IInv /\ [Next]_vars =>
        [log' = Append(log, Load) /\ waited # "late" =>
           /\ pending = {} /\ ready = {} /\ QueuedIsUnseen
           /\ \A e \in Elements \ unseen :
                kind[e] \in {"sheet", "image"} \/ e \in ScriptsThatRan]_vars
  <2> SUFFICES ASSUME IInv, [Next]_vars, log' = Append(log, Load), waited # "late"
               PROVE  /\ pending = {} /\ ready = {} /\ QueuedIsUnseen
                      /\ \A e \in Elements \ unseen : kind[e] \in {"sheet", "image"} \/ e \in ScriptsThatRan
    OBVIOUS
  <2>1. TypeOK /\ Places /\ LoadFits /\ LoopFits /\ WaitsFit
    BY DEF IInv
  <2>2. Load \notin Elements /\ Load # DCL
    BY <2>1, ElementsAre, BoundsAssumption DEF Load, DCL
  <2>3. FireLoad
    <3>1. parsed \in Elements \/ ~RunParserScript
      BY <2>1, ElementsAre DEF RunParserScript, LoadFits
    <3>2. Head(deferred) \in Elements \/ ~RunDeferred
      <4>1. ASSUME RunDeferred PROVE Head(deferred) \in Elements
        <5>1. deferred \in Seq(Elements) /\ deferred # <<>>
          BY <2>1, <4>1 DEF RunDeferred, TypeOK
        <5> QED BY <5>1, TailParts
      <4> QED BY <4>1
    <3> QED BY <2>2, <3>1, <3>2, WhatRan
  <2>4. wait = "none" /\ preparing = <<>> /\ at = "subs" /\ waited = "done"
    BY <2>1, <2>3 DEF FireLoad, Straight, TypeOK
  <2>5. pending = {} /\ QueuedIsUnseen /\ deferred = <<>> /\ parsed = size
    BY <2>1, <2>4 DEF WaitsFit, LoadFits, Ended
  <2>6. ready = Due
    BY <2>1, <2>5 DEF Places, Apart
  <2>7. ready = {}
    <3>1. orders \in Seq(Elements) /\ Len(orders) \in Nat /\ nextToRun \in 1 .. Len(orders) + 1
      BY <2>1 DEF TypeOK
    <3>2. nextToRun <= Len(orders) => orders[nextToRun] \in ready
      BY <2>6, <3>1 DEF Due
    <3>3. ~(nextToRun <= Len(orders))
      BY <2>1, <2>4, <3>2 DEF OrderedReady, LoopFits
    <3>4. nextToRun .. Len(orders) = {}
      BY <3>1, <3>3
    <3> QED BY <2>6, <3>4 DEF Due
  <2>8. Elems(deferred) = {} /\ Unprepared \subseteq unseen
    BY <2>1, <2>4, <2>5, ElemsEmpty, QueuedAre DEF Unprepared
  <2>9. \A e \in Elements : e \in Reached
    BY <2>1, <2>5, ElementsAre DEF Reached
  <2>10. \A e \in Elements \ unseen : kind[e] \in {"sheet", "image"} \/ e \in ScriptsThatRan
    BY <2>1, <2>4, <2>5, <2>7, <2>8, <2>9 DEF Places, Accounted, Ran
  <2> QED BY <2>5, <2>7, <2>10
<1> QED BY <1>1, Invariance, PTL DEF Spec, LoadWaitsForAll

-----------------------------------------------------------------------------
(***************************************************************************)
(* A load is never stuck.  Beyond the invariant it needs that the last     *)
(* three places of a load are only come to by beginning their wait.        *)
(***************************************************************************)
WaitsBegun == wait = "none" /\ at \in {"dcl", "subs", "loaded"} => waited # "no"

LEMMA WaitsBegunKept ==
  ASSUME TypeOK, WaitsFit, WaitsBegun, [Next]_vars
  PROVE  WaitsBegun'
<1>1. CASE UNCHANGED <<wait, waited, at>>
  BY <1>1 DEF WaitsBegun
<1>2. CASE AwaitSheets \/ BeginDeferred \/ AfterDCL \/ AfterLoad
  BY <1>2 DEF AwaitSheets, BeginDeferred, AfterDCL, AfterLoad, BeginWait, WaitsBegun
<1>3. CASE WaitDone \/ OutOfTime \/ StopWaiting
  BY <1>3 DEF WaitDone, OutOfTime, StopWaiting, EndWait, WaitsBegun
<1>4. CASE NextPass \/ Suspend \/ Resume \/ UNCHANGED vars
  BY <1>1, <1>4 DEF NextPass, Suspend, Resume, vars, loop
<1>5. CASE Runs
  BY <1>5 DEF Runs, RunParserScript, RunDeferred, FireDCL, FireLoad, BeginWait, WaitsBegun
<1>6. CASE EndParse \/ AfterScript
  BY <1>6 DEF EndParse, AfterScript, loop, WaitsBegun
<1>7. CASE RunTask \/ TopOfPass \/ StartImages \/ TellImages \/ SettleFonts \/ Prepare \/ RunOrdered \/ Delivers
  BY <1>1, <1>7 DEF RunTask, TopOfPass, StartImages, TellImages, SettleFonts, Prepare, RunOrdered, Delivers, Deliver, loop
<1>8. CASE ParseNext
  <2>1. at' \in {"due", "after", "parse"}
    BY <1>8, Zenon DEF ParseNext
  <2> QED BY <2>1 DEF WaitsBegun
<1>9. CASE Navigates
  BY <1>9, Navigating DEF BeginLoad, WaitsBegun
<1> QED BY <1>2, <1>3, <1>4, <1>5, <1>6, <1>7, <1>8, <1>9, Steps DEF Pause, Tells, TakesBatch

\* Outside the waits the load goes on: nothing is due in the loop, what it prepares
\* is prepared there, and each of its places has its next step.
LEMMA StraightGoesOn ==
  ASSUME TypeOK, PlacesFit, LoopFits, WaitsFit, WaitsBegun, wait = "none"
  PROVE  CanLoad \/ CanLoop
<1>1. ~OrderedReady
  BY DEF LoopFits
<1>2. CASE preparing # <<>>
  BY <1>1, <1>2 DEF CanLoop
<1>3. CASE preparing = <<>>
  <2>1. Straight
    BY <1>3 DEF Straight
  <2>2. CASE at = "deferred" /\ deferred # <<>>
    <3>1. deferred \in Seq(Elements)
      BY DEF TypeOK
    <3>2. Head(deferred) \in Elems(deferred)
      BY <2>2, <3>1, TailParts
    <3>3. kind[Head(deferred)] \in AfterParse
      BY <3>2 DEF PlacesFit
    <3> QED BY <2>1, <2>2, <3>3 DEF CanLoad
  <2>3. CASE ~(at = "deferred" /\ deferred # <<>>)
    <3>1. at # "idle"
      BY DEF WaitsFit
    <3> QED BY <2>1, <2>3, <3>1 DEF CanLoad, TypeOK, WaitsBegun
  <2> QED BY <2>2, <2>3
<1> QED BY <1>2, <1>3

\* A load never waits for the network or the driver alone: whatever the documents,
\* the answers and the suspensions, the page thread has a step of its own to take.
THEOREM LoadGoesOn == Spec => []LoadIsNeverStuck
<1>1. Init => WaitsBegun
  BY DEF Init, WaitsBegun
<1>2. IInv /\ WaitsBegun /\ [Next]_vars => WaitsBegun'
  BY WaitsBegunKept DEF IInv
<1>3. IInv /\ WaitsBegun => LoadIsNeverStuck
  <2> SUFFICES ASSUME IInv, WaitsBegun, at # "idle" PROVE CanLoad \/ CanLoop
    BY DEF LoadIsNeverStuck
  <2>1. TypeOK /\ PlacesFit /\ LoopFits /\ WaitsFit
    BY DEF IInv, Places
  <2>2. CASE wait = "none"
    BY <2>1, <2>2, StraightGoesOn
  <2>3. CASE wait # "none"
    <3>1. wait # "idle" /\ phase \in {"top", "scripts", "images", "fonts", "net"}
      BY <2>1 DEF WaitsFit, TypeOK
    <3> QED BY <2>3, <3>1 DEF CanLoop, Looping
  <2> QED BY <2>2, <2>3
<1> QED BY <1>1, <1>2, <1>3, Invariance, PTL DEF Spec
===============================================================================
