------------------------ MODULE DeferredRepliesProofs ------------------------
(***************************************************************************)
(* Proofs about DeferredReplies: type correctness, that no command is      *)
(* answered twice, and that none waits in the book for nothing.            *)
(*                                                                         *)
(* Until its lane lets go a command has no reply and is in no book; a      *)
(* command in a book has no reply, has been let go by its lane and is in   *)
(* its issuer's book alone (Unanswered). So whoever sends the reply is the *)
(* first to: the lane lets go in the same step, or the book forgets it.    *)
(* A command left in the book is owed an answer, and what is owed is still *)
(* to come: parked on the page, in the bus or among its issuer's signals   *)
(* (OwedIsComing). No step takes it off that way but one that replies, or  *)
(* one that is counted a loss.                                             *)
(***************************************************************************)
EXTENDS DeferredReplies, SequenceTheorems, TLAPS

-----------------------------------------------------------------------------
\* The type invariant, one part for each group of variables.
LanesOK ==
  /\ lane \in [Commands -> {"unsent", "calling", "holding", "released"}]
  /\ issuer \in [Commands -> Connections]
  /\ replies \in [Commands -> Nat]

PageOK ==
  /\ job \in [Commands -> {"none", "queued", "running", "answered", "deferred", "skipped"}]
  /\ page \in {"running", "closing", "gone"}
  /\ parked \subseteq Commands /\ lost \subseteq Commands

Sent == Commands \cup {Gone}
BusOK == bus \in Seq(Sent) /\ Len(bus) <= Capacity

EventsOK ==
  /\ signals \in [Connections -> Seq(Sent)]
  /\ ours \in [Connections -> {"unknown", "yes", "no"}]
  /\ session \in [Connections -> BOOLEAN]
  /\ declined \subseteq Commands

\* The event thread that has looked at its sessions has an answer in hand.
HandsFull ==
  \A k \in Connections : ours[k] # "unknown" =>
    signals[k] # <<>> /\ Head(signals[k]) \in Commands

BooksOK ==
  /\ waiting \in [Connections -> SUBSET Commands]
  /\ settled \in [Connections -> SUBSET Commands]

Parts == LanesOK /\ PageOK /\ BusOK /\ EventsOK /\ HandsFull /\ BooksOK

LEMMA PartsAreTypes == Parts => TypeOK
BY DEF Parts, LanesOK, PageOK, BusOK, Sent, EventsOK, BooksOK, TypeOK

Unanswered ==
  /\ \A c \in Commands : lane[c] # "released" =>
       replies[c] = 0 /\ \A k \in Connections : c \notin waiting[k]
  /\ \A k \in Connections : \A c \in waiting[k] :
       replies[c] = 0 /\ issuer[c] = k

Replies == Unanswered /\ AnsweredOnce

IInv == Parts /\ Replies

-----------------------------------------------------------------------------
(* What a reply adds, and what the two sides of the book may do.           *)
LEMMA ReplyAdds ==
  ASSUME LanesOK, NEW c \in Commands, Reply(c)
  PROVE  /\ replies' \in [Commands -> Nat] /\ replies[c] \in Nat
         /\ replies'[c] = replies[c] + 1
         /\ \A d \in Commands \ {c} : replies'[d] = replies[d]
<1> DEFINE n == replies[c] + 1
<1>0. replies \in [Commands -> Nat]
  BY DEF LanesOK
<1>1. n \in Nat
  BY <1>0
<1>2. replies' = [replies EXCEPT ![c] = n]
  BY DEF Reply
<1> HIDE DEF n
<1>3. /\ replies' \in [Commands -> Nat]
      /\ replies'[c] = n
      /\ \A d \in Commands \ {c} : replies'[d] = replies[d]
  BY <1>0, <1>1, <1>2
<1> QED BY <1>0, <1>3 DEF n

LEMMA DeferSteps ==
  ASSUME Parts, NEW c \in Commands, DeferReply(c)
  PROVE  /\ issuer[c] \in Connections
         /\ lane[c] = "holding" /\ lane' = [lane EXCEPT ![c] = "released"]
         /\ settled' \in [Connections -> SUBSET Commands]
         /\ \/ Reply(c) /\ UNCHANGED waiting
            \/ /\ waiting' = [waiting EXCEPT ![issuer[c]] = @ \cup {c}]
               /\ UNCHANGED replies
         /\ UNCHANGED <<issuer, pageVars, busVars, eventVars, session>>
<1>1. issuer[c] \in Connections
  BY DEF Parts, LanesOK
<1>2. PICK old \in SUBSET Stale(issuer[c]) :
        IF c \in settled[issuer[c]] \ old
        THEN /\ Reply(c)
             /\ settled' = [settled EXCEPT ![issuer[c]] = @ \ (old \cup {c})]
             /\ UNCHANGED waiting
        ELSE /\ settled' = [settled EXCEPT ![issuer[c]] = @ \ old]
             /\ waiting' = [waiting EXCEPT ![issuer[c]] = @ \cup {c}]
             /\ UNCHANGED replies
  BY DEF DeferReply
<1>3. settled' \in [Connections -> SUBSET Commands]
  BY <1>1, <1>2 DEF Parts, BooksOK
<1> QED BY <1>1, <1>2, <1>3 DEF DeferReply, Step

LEMMA ResolveSteps ==
  ASSUME Parts, NEW k \in Connections, ResolveAwait(k)
  PROVE  LET c == Head(signals[k]) IN
         /\ c \in Commands
         /\ waiting' = [waiting EXCEPT ![k] = @ \ {c}]
         /\ settled' \in [Connections -> SUBSET Commands]
         /\ IF c \in waiting[k] THEN Reply(c) ELSE UNCHANGED replies
         /\ declined' \subseteq Commands
         /\ signals[k] # <<>> /\ signals' = [signals EXCEPT ![k] = Tail(@)]
         /\ ours' = [ours EXCEPT ![k] = "unknown"]
         /\ UNCHANGED <<laneVars, pageVars, busVars, session>>
<1> DEFINE c == Head(signals[k])
<1>1. c \in Commands /\ signals[k] # <<>>
  BY DEF Parts, HandsFull, ResolveAwait
<1>2. PICK old \in SUBSET Stale(k) :
        settled' = [settled EXCEPT ![k] =
          (@ \ old) \cup (IF c \notin waiting[k] /\ ours[k] = "yes" THEN {c} ELSE {})]
  BY DEF ResolveAwait
<1>3. settled' \in [Connections -> SUBSET Commands]
  BY <1>1, <1>2 DEF Parts, BooksOK
<1>4. declined' \subseteq Commands
  BY <1>1 DEF ResolveAwait, Parts, EventsOK
<1> QED BY <1>1, <1>3, <1>4 DEF ResolveAwait

(* Every step keeps the types.                                             *)
LEMMA TypeStep == ASSUME Parts, [Next]_vars PROVE Parts'
<1> USE DeferredAssumption, GoneAssumption DEF laneVars, pageVars, busVars, bookVars, eventVars, Step, Emit, Parts
<1>1. ASSUME NEW k \in Connections, NEW c \in Commands, Send(k, c)
      PROVE  Parts'
  <2>1. LanesOK'
    BY <1>1 DEF Send, LanesOK, EventsOK, HandsFull
  <2>2. PageOK'
    BY <1>1 DEF Send, PageOK, EventsOK, HandsFull
  <2>3. BusOK'
    BY <1>1 DEF Send, BusOK, Sent
  <2>4. EventsOK'
    BY <1>1 DEF Send, EventsOK, Sent, BusOK
  <2>5. HandsFull'
    BY <1>1 DEF Send, HandsFull, EventsOK, Sent, BusOK
  <2>6. BooksOK'
    BY <1>1 DEF Send, BooksOK, EventsOK, HandsFull
  <2> QED BY <2>1, <2>2, <2>3, <2>4, <2>5, <2>6 DEF Parts
<1>2. ASSUME NEW c \in Commands, Called(c)
      PROVE  Parts'
  <2>1. LanesOK'
    BY <1>2, ReplyAdds DEF Called, LanesOK
  <2>2. PageOK'
    BY <1>2 DEF Called, PageOK, EventsOK, HandsFull
  <2>3. BusOK'
    BY <1>2 DEF Called, BusOK, Sent
  <2>4. EventsOK'
    BY <1>2 DEF Called, EventsOK, Sent, BusOK
  <2>5. HandsFull'
    BY <1>2 DEF Called, HandsFull, EventsOK, Sent, BusOK
  <2>6. BooksOK'
    BY <1>2 DEF Called, BooksOK, EventsOK, HandsFull
  <2> QED BY <2>1, <2>2, <2>3, <2>4, <2>5, <2>6 DEF Parts
<1>3. ASSUME NEW c \in Commands, CallTimesOut(c)
      PROVE  Parts'
  <2>1. LanesOK'
    BY <1>3, ReplyAdds DEF CallTimesOut, LanesOK
  <2>2. PageOK'
    BY <1>3 DEF CallTimesOut, PageOK, EventsOK, HandsFull
  <2>3. BusOK'
    BY <1>3 DEF CallTimesOut, BusOK, Sent
  <2>4. EventsOK'
    BY <1>3 DEF CallTimesOut, EventsOK, Sent, BusOK
  <2>5. HandsFull'
    BY <1>3 DEF CallTimesOut, HandsFull, EventsOK, Sent, BusOK
  <2>6. BooksOK'
    BY <1>3 DEF CallTimesOut, BooksOK, EventsOK, HandsFull
  <2> QED BY <2>1, <2>2, <2>3, <2>4, <2>5, <2>6 DEF Parts
<1>4. ASSUME NEW c \in Commands, DeferReply(c)
      PROVE  Parts'
  <2>1. LanesOK'
    BY <1>4, DeferSteps, ReplyAdds DEF LanesOK
  <2>2. PageOK'
    BY <1>4 DEF DeferReply, PageOK, EventsOK, HandsFull
  <2>3. BusOK'
    BY <1>4 DEF DeferReply, BusOK, Sent
  <2>4. EventsOK'
    BY <1>4 DEF DeferReply, EventsOK, Sent, BusOK
  <2>5. HandsFull'
    BY <1>4 DEF DeferReply, HandsFull, EventsOK, Sent, BusOK
  <2>6. BooksOK'
    <3>1. waiting' \in [Connections -> SUBSET Commands]
      <4>1. CASE UNCHANGED waiting
        BY <4>1 DEF BooksOK
      <4>2. CASE waiting' = [waiting EXCEPT ![issuer[c]] = @ \cup {c}]
        <5>1. issuer[c] \in Connections
          BY <1>4, DeferSteps
        <5> QED BY <4>2, <5>1 DEF BooksOK
      <4> QED BY <1>4, <4>1, <4>2, DeferSteps
    <3> QED BY <1>4, <3>1, DeferSteps DEF BooksOK
  <2> QED BY <2>1, <2>2, <2>3, <2>4, <2>5, <2>6 DEF Parts
<1>5. ASSUME NEW c \in Commands, Begin(c)
      PROVE  Parts'
  <2>1. LanesOK'
    BY <1>5 DEF Begin, LanesOK, EventsOK, HandsFull
  <2>2. PageOK'
    BY <1>5 DEF Begin, PageOK, EventsOK, HandsFull
  <2>3. BusOK'
    BY <1>5 DEF Begin, BusOK, Sent
  <2>4. EventsOK'
    BY <1>5 DEF Begin, EventsOK, Sent, BusOK
  <2>5. HandsFull'
    BY <1>5 DEF Begin, HandsFull, EventsOK, Sent, BusOK
  <2>6. BooksOK'
    BY <1>5 DEF Begin, BooksOK, EventsOK, HandsFull
  <2> QED BY <2>1, <2>2, <2>3, <2>4, <2>5, <2>6 DEF Parts
<1>6. ASSUME NEW c \in Commands, Finish(c)
      PROVE  Parts'
  <2>1. LanesOK'
    BY <1>6 DEF Finish, LanesOK, EventsOK, HandsFull
  <2>2. PageOK'
    BY <1>6 DEF Finish, PageOK, EventsOK, HandsFull
  <2>3. BusOK'
    BY <1>6 DEF Finish, BusOK, Sent
  <2>4. EventsOK'
    BY <1>6 DEF Finish, EventsOK, Sent, BusOK
  <2>5. HandsFull'
    BY <1>6 DEF Finish, HandsFull, EventsOK, Sent, BusOK
  <2>6. BooksOK'
    BY <1>6 DEF Finish, BooksOK, EventsOK, HandsFull
  <2> QED BY <2>1, <2>2, <2>3, <2>4, <2>5, <2>6 DEF Parts
<1>7. ASSUME NEW c \in Commands, Settle(c)
      PROVE  Parts'
  <2>1. LanesOK'
    BY <1>7 DEF Settle, LanesOK, EventsOK, HandsFull
  <2>2. PageOK'
    BY <1>7 DEF Settle, PageOK, EventsOK, HandsFull
  <2>3. BusOK'
    BY <1>7 DEF Settle, BusOK, Sent
  <2>4. EventsOK'
    BY <1>7 DEF Settle, EventsOK, Sent, BusOK
  <2>5. HandsFull'
    BY <1>7 DEF Settle, HandsFull, EventsOK, Sent, BusOK
  <2>6. BooksOK'
    BY <1>7 DEF Settle, BooksOK, EventsOK, HandsFull
  <2> QED BY <2>1, <2>2, <2>3, <2>4, <2>5, <2>6 DEF Parts
<1>8. CASE BeginClose
  <2>1. LanesOK'
    BY <1>8 DEF BeginClose, LanesOK, EventsOK, HandsFull
  <2>2. PageOK'
    BY <1>8 DEF BeginClose, PageOK, EventsOK, HandsFull
  <2>3. BusOK'
    BY <1>8 DEF BeginClose, BusOK, Sent
  <2>4. EventsOK'
    BY <1>8 DEF BeginClose, EventsOK, Sent, BusOK
  <2>5. HandsFull'
    BY <1>8 DEF BeginClose, HandsFull, EventsOK, Sent, BusOK
  <2>6. BooksOK'
    BY <1>8 DEF BeginClose, BooksOK, EventsOK, HandsFull
  <2> QED BY <2>1, <2>2, <2>3, <2>4, <2>5, <2>6 DEF Parts
<1>9. CASE EndClose
  <2>1. LanesOK'
    BY <1>9 DEF EndClose, LanesOK, EventsOK, HandsFull
  <2>2. PageOK'
    BY <1>9 DEF EndClose, PageOK, EventsOK, HandsFull
  <2>3. BusOK'
    BY <1>9 DEF EndClose, BusOK, Sent
  <2>4. EventsOK'
    BY <1>9 DEF EndClose, EventsOK, Sent, BusOK
  <2>5. HandsFull'
    BY <1>9 DEF EndClose, HandsFull, EventsOK, Sent, BusOK
  <2>6. BooksOK'
    BY <1>9 DEF EndClose, BooksOK, EventsOK, HandsFull
  <2> QED BY <2>1, <2>2, <2>3, <2>4, <2>5, <2>6 DEF Parts
<1>10. CASE Crash
  <2>1. LanesOK'
    BY <1>10 DEF Crash, LanesOK, EventsOK, HandsFull
  <2>2. PageOK'
    BY <1>10 DEF Crash, PageOK, EventsOK, HandsFull
  <2>3. BusOK'
    BY <1>10 DEF Crash, BusOK, Sent
  <2>4. EventsOK'
    BY <1>10 DEF Crash, EventsOK, Sent, BusOK
  <2>5. HandsFull'
    BY <1>10 DEF Crash, HandsFull, EventsOK, Sent, BusOK
  <2>6. BooksOK'
    BY <1>10 DEF Crash, BooksOK, EventsOK, HandsFull
  <2> QED BY <2>1, <2>2, <2>3, <2>4, <2>5, <2>6 DEF Parts
<1>11. CASE Pump
  <2>1. LanesOK'
    BY <1>11 DEF Pump, LanesOK, EventsOK, HandsFull
  <2>2. PageOK'
    BY <1>11 DEF Pump, PageOK, EventsOK, HandsFull
  <2>3. BusOK'
    BY <1>11 DEF Pump, BusOK, Sent
  <2>4. EventsOK'
    BY <1>11 DEF Pump, EventsOK, Sent, BusOK
  <2>5. HandsFull'
    <3> SUFFICES ASSUME NEW k \in Connections, ours[k] # "unknown"
                 PROVE  signals'[k] # <<>> /\ Head(signals'[k]) \in Commands
      BY <1>11 DEF Pump, HandsFull
    <3>1. signals'[k] = Append(signals[k], Head(bus)) /\ Head(bus) \in Sent /\ signals[k] \in Seq(Sent)
      BY <1>11 DEF Pump, BusOK, EventsOK
    <3>2. signals[k] # <<>> /\ Head(signals[k]) \in Commands
      BY DEF HandsFull
    <3> QED BY <3>1, <3>2
  <2>6. BooksOK'
    BY <1>11 DEF Pump, BooksOK, EventsOK, HandsFull
  <2> QED BY <2>1, <2>2, <2>3, <2>4, <2>5, <2>6 DEF Parts
<1>12. ASSUME NEW k \in Connections, LookAtSessions(k)
      PROVE  Parts'
  <2>1. LanesOK'
    BY <1>12 DEF LookAtSessions, LanesOK, EventsOK, HandsFull
  <2>2. PageOK'
    BY <1>12 DEF LookAtSessions, PageOK, EventsOK, HandsFull
  <2>3. BusOK'
    BY <1>12 DEF LookAtSessions, BusOK, Sent
  <2>4. EventsOK'
    BY <1>12 DEF LookAtSessions, EventsOK, Sent, BusOK
  <2>5. HandsFull'
    BY <1>12 DEF LookAtSessions, HandsFull, EventsOK, Sent, BusOK
  <2>6. BooksOK'
    BY <1>12 DEF LookAtSessions, BooksOK, EventsOK, HandsFull
  <2> QED BY <2>1, <2>2, <2>3, <2>4, <2>5, <2>6 DEF Parts
<1>13. ASSUME NEW k \in Connections, ResolveAwait(k)
      PROVE  Parts'
  <2>1. LanesOK'
    BY <1>13, ResolveSteps, ReplyAdds DEF LanesOK
  <2>2. PageOK'
    BY <1>13 DEF ResolveAwait, PageOK, EventsOK, HandsFull
  <2>3. BusOK'
    BY <1>13 DEF ResolveAwait, BusOK, Sent
  <2>4. EventsOK'
    <3>1. signals[k] \in Seq(Sent) /\ signals[k] # <<>>
      BY <1>13, ResolveSteps DEF EventsOK
    <3>2. Tail(signals[k]) \in Seq(Sent)
      BY <3>1
    <3>3. signals' = [signals EXCEPT ![k] = Tail(signals[k])]
      BY <1>13, ResolveSteps
    <3>4. signals' \in [Connections -> Seq(Sent)]
      BY <3>2, <3>3 DEF EventsOK
    <3>5. ours' \in [Connections -> {"unknown", "yes", "no"}]
      BY <1>13, ResolveSteps DEF EventsOK
    <3> QED BY <1>13, <3>4, <3>5, ResolveSteps DEF EventsOK
  <2>5. HandsFull'
    BY <1>13 DEF ResolveAwait, HandsFull, EventsOK, Sent, BusOK
  <2>6. BooksOK'
    BY <1>13, ResolveSteps DEF BooksOK
  <2> QED BY <2>1, <2>2, <2>3, <2>4, <2>5, <2>6 DEF Parts
<1>14. ASSUME NEW k \in Connections, HandleGone(k)
      PROVE  Parts'
  <2>1. LanesOK'
    BY <1>14 DEF HandleGone, LanesOK, EventsOK, HandsFull
  <2>2. PageOK'
    BY <1>14 DEF HandleGone, PageOK, EventsOK, HandsFull
  <2>3. BusOK'
    BY <1>14 DEF HandleGone, BusOK, Sent
  <2>4. EventsOK'
    BY <1>14 DEF HandleGone, EventsOK, Sent, BusOK
  <2>5. HandsFull'
    BY <1>14 DEF HandleGone, HandsFull, EventsOK, Sent, BusOK
  <2>6. BooksOK'
    BY <1>14 DEF HandleGone, BooksOK, EventsOK, HandsFull
  <2> QED BY <2>1, <2>2, <2>3, <2>4, <2>5, <2>6 DEF Parts
<1>15. ASSUME NEW k \in Connections, Detach(k)
      PROVE  Parts'
  <2>1. LanesOK'
    BY <1>15 DEF Detach, LanesOK, EventsOK, HandsFull
  <2>2. PageOK'
    BY <1>15 DEF Detach, PageOK, EventsOK, HandsFull
  <2>3. BusOK'
    BY <1>15 DEF Detach, BusOK, Sent
  <2>4. EventsOK'
    BY <1>15 DEF Detach, EventsOK, Sent, BusOK
  <2>5. HandsFull'
    BY <1>15 DEF Detach, HandsFull, EventsOK, Sent, BusOK
  <2>6. BooksOK'
    BY <1>15 DEF Detach, BooksOK, EventsOK, HandsFull
  <2> QED BY <2>1, <2>2, <2>3, <2>4, <2>5, <2>6 DEF Parts
<1>16. CASE UNCHANGED vars
  BY <1>16 DEF LanesOK, PageOK, BusOK, EventsOK, HandsFull, BooksOK, Sent, vars
<1> HIDE DEF laneVars, pageVars, busVars, bookVars, eventVars, Step, Emit, Parts
<1> QED
  BY <1>1, <1>2, <1>3, <1>4, <1>5, <1>6, <1>7, <1>8, <1>9, <1>10, <1>11, <1>12, <1>13, <1>14, <1>15, <1>16 DEF Next, LaneStep, PageStep, EventStep

(* The two ways a step keeps Replies: a first reply to c, or none.         *)
LEMMA FirstReply ==
  ASSUME LanesOK, BooksOK, Replies, NEW c \in Commands, Reply(c), UNCHANGED issuer,
         lane[c] # "released" \/ \E k \in Connections : c \in waiting[k],
         lane'[c] = "released", \A d \in Commands \ {c} : lane'[d] = lane[d],
         \A k \in Connections : waiting'[k] \subseteq waiting[k],
         lane[c] # "released" \/ \A k \in Connections : c \notin waiting'[k]
  PROVE  Replies'
<1>1. replies[c] = 0
  BY DEF Replies, Unanswered
<1>2. replies'[c] = 1 /\ \A d \in Commands \ {c} : replies'[d] = replies[d]
  <2>1. replies'[c] = replies[c] + 1 /\ \A d \in Commands \ {c} : replies'[d] = replies[d]
    BY ReplyAdds
  <2> QED BY <1>1, <2>1
<1>3. \A k \in Connections : waiting'[k] \subseteq waiting[k] /\ c \notin waiting'[k]
  BY DEF Replies, Unanswered
<1>4. Unanswered'
  <2>1. \A d \in Commands : lane'[d] # "released" =>
          replies'[d] = 0 /\ \A k \in Connections : d \notin waiting'[k]
    BY <1>2, <1>3 DEF Replies, Unanswered
  <2>2. \A k \in Connections : \A d \in waiting'[k] : d # c /\ d \in waiting[k]
    BY <1>3
  <2>3. \A k \in Connections : \A d \in waiting'[k] : replies'[d] = 0 /\ issuer'[d] = k
    BY <1>2, <2>2 DEF Replies, Unanswered, BooksOK
  <2> QED BY <2>1, <2>3 DEF Unanswered
<1>5. AnsweredOnce'
  <2> SUFFICES ASSUME NEW d \in Commands PROVE replies'[d] <= 1
    BY DEF AnsweredOnce
  <2>1. CASE d = c
    BY <1>2, <2>1
  <2>2. CASE d # c
    BY <1>2, <2>2 DEF Replies, AnsweredOnce
  <2> QED BY <2>1, <2>2
<1> QED BY <1>4, <1>5 DEF Replies

LEMMA NoReply ==
  ASSUME Replies, UNCHANGED <<issuer, replies>>,
         \A d \in Commands : lane'[d] = lane[d] \/ lane[d] # "released",
         \A k \in Connections : \A d \in waiting'[k] :
           d \in waiting[k] \/ (d \in Commands /\ lane[d] # "released" /\ lane'[d] = "released" /\ k = issuer[d])
  PROVE  Replies'
BY DEF Replies, Unanswered, AnsweredOnce

(* Every step sends a first reply or none.                                 *)
LEMMA ReplyStep == ASSUME Parts, Replies, [Next]_vars PROVE Replies'
<1> USE  DEF laneVars, pageVars, busVars, bookVars, eventVars, Step, Emit, Replies, Parts
<1>1. ASSUME NEW k \in Connections, NEW c \in Commands, Send(k, c)
      PROVE  Replies'
  <2>1. Unanswered'
    BY <1>1 DEF Send, Unanswered, HandsFull, LanesOK, BooksOK
  <2>2. AnsweredOnce'
    BY <1>1 DEF Send, AnsweredOnce, Unanswered, HandsFull, LanesOK, BooksOK
  <2> QED BY <2>1, <2>2 DEF Replies
<1>2. ASSUME NEW c \in Commands, Called(c)
      PROVE  Replies'
  <2>1. CASE lane' = [lane EXCEPT ![c] = "released"] /\ Reply(c)
    <3>1. lane'[c] = "released" /\ \A d \in Commands \ {c} : lane'[d] = lane[d]
      BY <2>1 DEF LanesOK
    <3> QED BY <1>2, <2>1, <3>1, FirstReply DEF Called
  <2>2. CASE lane' = [lane EXCEPT ![c] = "holding"] /\ UNCHANGED replies
    <3>1. lane[c] # "released" /\ \A d \in Commands \ {c} : lane'[d] = lane[d]
      BY <1>2, <2>2 DEF LanesOK, Called
    <3>2. waiting' = waiting /\ issuer' = issuer
      BY <1>2 DEF Called
    <3>3. \A d \in Commands : lane'[d] = lane[d] \/ lane[d] # "released"
      BY <3>1
    <3> QED BY <2>2, <3>2, <3>3, NoReply
  <2> QED BY <1>2, <2>1, <2>2 DEF Called
<1>3. ASSUME NEW c \in Commands, CallTimesOut(c)
      PROVE  Replies'
  <2>1. lane'[c] = "released" /\ \A d \in Commands \ {c} : lane'[d] = lane[d]
    BY <1>3 DEF CallTimesOut, LanesOK
  <2> QED BY <1>3, <2>1, FirstReply DEF CallTimesOut
<1>4. ASSUME NEW c \in Commands, DeferReply(c)
      PROVE  Replies'
  <2>1. /\ lane[c] = "holding" /\ lane'[c] = "released"
        /\ \A d \in Commands \ {c} : lane'[d] = lane[d]
        /\ issuer' = issuer
    BY <1>4, DeferSteps DEF LanesOK
  <2>2. CASE Reply(c) /\ UNCHANGED waiting
    BY <2>1, <2>2, FirstReply
  <2>3. CASE UNCHANGED replies /\ waiting' = [waiting EXCEPT ![issuer[c]] = @ \cup {c}]
    <3>1. \A k \in Connections : \A d \in waiting'[k] : d \in waiting[k] \/ (d = c /\ k = issuer[c])
      BY <2>3 DEF BooksOK
    <3>2. \A d \in Commands : lane'[d] = lane[d] \/ lane[d] # "released"
      BY <2>1
    <3>3. \A k \in Connections : \A d \in waiting'[k] :
            d \in waiting[k] \/ (d \in Commands /\ lane[d] # "released" /\ lane'[d] = "released" /\ k = issuer[d])
      BY <2>1, <3>1
    <3> QED BY <2>1, <2>3, <3>2, <3>3, NoReply
  <2> QED BY <1>4, <2>2, <2>3, DeferSteps
<1>5. ASSUME NEW c \in Commands, Begin(c)
      PROVE  Replies'
  <2>1. Unanswered'
    BY <1>5 DEF Begin, Unanswered, HandsFull, LanesOK, BooksOK
  <2>2. AnsweredOnce'
    BY <1>5 DEF Begin, AnsweredOnce, Unanswered, HandsFull, LanesOK, BooksOK
  <2> QED BY <2>1, <2>2 DEF Replies
<1>6. ASSUME NEW c \in Commands, Finish(c)
      PROVE  Replies'
  <2>1. Unanswered'
    BY <1>6 DEF Finish, Unanswered, HandsFull, LanesOK, BooksOK
  <2>2. AnsweredOnce'
    BY <1>6 DEF Finish, AnsweredOnce, Unanswered, HandsFull, LanesOK, BooksOK
  <2> QED BY <2>1, <2>2 DEF Replies
<1>7. ASSUME NEW c \in Commands, Settle(c)
      PROVE  Replies'
  <2>1. Unanswered'
    BY <1>7 DEF Settle, Unanswered, HandsFull, LanesOK, BooksOK
  <2>2. AnsweredOnce'
    BY <1>7 DEF Settle, AnsweredOnce, Unanswered, HandsFull, LanesOK, BooksOK
  <2> QED BY <2>1, <2>2 DEF Replies
<1>8. CASE BeginClose
  <2>1. Unanswered'
    BY <1>8 DEF BeginClose, Unanswered, HandsFull, LanesOK, BooksOK
  <2>2. AnsweredOnce'
    BY <1>8 DEF BeginClose, AnsweredOnce, Unanswered, HandsFull, LanesOK, BooksOK
  <2> QED BY <2>1, <2>2 DEF Replies
<1>9. CASE EndClose
  <2>1. Unanswered'
    BY <1>9 DEF EndClose, Unanswered, HandsFull, LanesOK, BooksOK
  <2>2. AnsweredOnce'
    BY <1>9 DEF EndClose, AnsweredOnce, Unanswered, HandsFull, LanesOK, BooksOK
  <2> QED BY <2>1, <2>2 DEF Replies
<1>10. CASE Crash
  <2>1. Unanswered'
    BY <1>10 DEF Crash, Unanswered, HandsFull, LanesOK, BooksOK
  <2>2. AnsweredOnce'
    BY <1>10 DEF Crash, AnsweredOnce, Unanswered, HandsFull, LanesOK, BooksOK
  <2> QED BY <2>1, <2>2 DEF Replies
<1>11. CASE Pump
  <2>1. Unanswered'
    BY <1>11 DEF Pump, Unanswered, HandsFull, LanesOK, BooksOK
  <2>2. AnsweredOnce'
    BY <1>11 DEF Pump, AnsweredOnce, Unanswered, HandsFull, LanesOK, BooksOK
  <2> QED BY <2>1, <2>2 DEF Replies
<1>12. ASSUME NEW k \in Connections, LookAtSessions(k)
      PROVE  Replies'
  <2>1. Unanswered'
    BY <1>12 DEF LookAtSessions, Unanswered, HandsFull, LanesOK, BooksOK
  <2>2. AnsweredOnce'
    BY <1>12 DEF LookAtSessions, AnsweredOnce, Unanswered, HandsFull, LanesOK, BooksOK
  <2> QED BY <2>1, <2>2 DEF Replies
<1>13. ASSUME NEW k \in Connections, ResolveAwait(k)
      PROVE  Replies'
  <2> DEFINE c == Head(signals[k])
  <2>1. /\ c \in Commands /\ lane' = lane /\ issuer' = issuer
        /\ IF c \in waiting[k] THEN Reply(c) ELSE UNCHANGED replies
    BY <1>13, ResolveSteps
  <2>2. \A x \in Connections : waiting'[x] = IF x = k THEN waiting[k] \ {c} ELSE waiting[x]
    BY <1>13, ResolveSteps DEF BooksOK
  <2> HIDE DEF c
  <2>3. CASE c \in waiting[k]
    <3>1. lane'[c] = "released" /\ issuer[c] = k
      BY <2>1, <2>3 DEF Unanswered
    <3>2. \A x \in Connections : c \notin waiting'[x]
      BY <2>2, <3>1 DEF Unanswered
    <3>3. \A x \in Connections : waiting'[x] \subseteq waiting[x]
      BY <2>2
    <3> QED BY <2>1, <2>3, <3>1, <3>2, <3>3, FirstReply
  <2>4. CASE c \notin waiting[k]
    <3>1. \A x \in Connections : \A d \in waiting'[x] : d \in waiting[x]
      BY <2>2
    <3> QED BY <2>1, <2>4, <3>1, NoReply
  <2> QED BY <2>3, <2>4
<1>14. ASSUME NEW k \in Connections, HandleGone(k)
      PROVE  Replies'
  <2>1. Unanswered'
    BY <1>14 DEF HandleGone, Unanswered, HandsFull, LanesOK, BooksOK
  <2>2. AnsweredOnce'
    BY <1>14 DEF HandleGone, AnsweredOnce, Unanswered, HandsFull, LanesOK, BooksOK
  <2> QED BY <2>1, <2>2 DEF Replies
<1>15. ASSUME NEW k \in Connections, Detach(k)
      PROVE  Replies'
  <2>1. Unanswered'
    BY <1>15 DEF Detach, Unanswered, HandsFull, LanesOK, BooksOK
  <2>2. AnsweredOnce'
    BY <1>15 DEF Detach, AnsweredOnce, Unanswered, HandsFull, LanesOK, BooksOK
  <2> QED BY <2>1, <2>2 DEF Replies
<1>16. CASE UNCHANGED vars
  BY <1>16 DEF Unanswered, AnsweredOnce, HandsFull, LanesOK, BooksOK, vars
<1> HIDE DEF laneVars, pageVars, busVars, bookVars, eventVars, Step, Emit, Replies, Parts
<1> QED
  BY <1>1, <1>2, <1>3, <1>4, <1>5, <1>6, <1>7, <1>8, <1>9, <1>10, <1>11, <1>12, <1>13, <1>14, <1>15, <1>16 DEF Next, LaneStep, PageStep, EventStep

-----------------------------------------------------------------------------
LEMMA InitIInv == Init => IInv
BY DeferredAssumption
   DEF Init, IInv, Parts, LanesOK, PageOK, BusOK, Sent, EventsOK, BooksOK, HandsFull, Replies,
       Unanswered, AnsweredOnce

LEMMA IInvStep == IInv /\ [Next]_vars => IInv'
BY TypeStep, ReplyStep DEF IInv

LEMMA IInvAlways == Spec => []IInv
BY InitIInv, IInvStep, PTL DEF Spec

(* Every variable keeps its type for any number of connections and         *)
(* commands and any room on the bus.                                       *)
THEOREM TypeCorrect == Spec => []TypeOK
<1>1. IInv => TypeOK
  BY PartsAreTypes DEF IInv
<1> QED BY <1>1, IInvAlways, PTL

(* Whoever comes first of the lane (`defer_reply`), its deadline and the   *)
(* event thread (`resolve_await`), no command gets two replies.            *)
THEOREM NeverAnsweredTwice == Spec => []AnsweredOnce
<1>1. IInv => AnsweredOnce
  BY DEF IInv, Replies
<1> QED BY <1>1, IInvAlways, PTL

-----------------------------------------------------------------------------
(***************************************************************************)
(* What waits is waited for. A command that was deferred, whether its lane *)
(* still has it or the book has, has its answer under way, in its book, or *)
(* accounted for as lost or turned away.                                   *)
(***************************************************************************)
Owed(c) == lane[c] = "holding" \/ (lane[c] = "calling" /\ job[c] = "deferred")
Coming(c) == UnderWay(c) \/ c \in lost \cup declined

OwedIsComing == \A c \in Commands : Owed(c) => Coming(c) \/ c \in settled[issuer[c]]

Waits == OwedIsComing /\ WaitsForSomething

LEMMA RangeAppend ==
  ASSUME NEW S, NEW s \in Seq(S), NEW x \in S
  PROVE  Range(s) \subseteq Range(Append(s, x)) /\ x \in Range(Append(s, x))
<1>1. DOMAIN s = 1..Len(s) /\ Len(s) \in Nat
  OBVIOUS
<1>2. DOMAIN Append(s, x) = 1..Len(s) + 1 /\ Append(s, x)[Len(s) + 1] = x
  OBVIOUS
<1>3. \A i \in 1..Len(s) : Append(s, x)[i] = s[i]
  OBVIOUS
<1> QED BY <1>1, <1>2, <1>3 DEF Range

LEMMA RangeTail ==
  ASSUME NEW S, NEW s \in Seq(S), s # <<>>
  PROVE  \A x \in Range(s) : x = Head(s) \/ x \in Range(Tail(s))
<1> SUFFICES ASSUME NEW i \in 1..Len(s) PROVE s[i] = Head(s) \/ s[i] \in Range(Tail(s))
  BY DEF Range
<1>1. Len(s) \in Nat \ {0} /\ DOMAIN Tail(s) = 1..Len(s) - 1 /\ Head(s) = s[1]
  OBVIOUS
<1>2. CASE i = 1
  BY <1>1, <1>2
<1>3. CASE i # 1
  <2>1. i - 1 \in 1..Len(s) - 1 /\ Tail(s)[i - 1] = s[i]
    BY <1>1, <1>3
  <2> QED BY <1>1, <2>1 DEF Range
<1> QED BY <1>2, <1>3

(* A step that loses sight of nothing.                                     *)
LEMMA LosesNothing ==
  ASSUME Replies, Waits, UNCHANGED issuer,
         \A c \in Commands : Coming(c) => Coming(c)',
         \A c \in Commands : Owed(c)' => Owed(c) \/ Coming(c)',
         \A c \in Commands : Owed(c)' /\ c \in settled[issuer[c]] =>
           Coming(c)' \/ c \in settled'[issuer[c]],
         BooksOK, \A k \in Connections : waiting'[k] \subseteq waiting[k]
  PROVE  Waits'
<1>1. OwedIsComing'
  BY DEF Waits, OwedIsComing
<1>2. WaitsForSomething'
  BY DEF Waits, WaitsForSomething, BooksOK, Coming
<1> QED BY <1>1, <1>2 DEF Waits

LEMMA WaitStep == ASSUME Parts, Replies, Waits, [Next]_vars PROVE Waits'
<1> USE DEF laneVars, pageVars, busVars, bookVars, eventVars, Step, Parts
<1>0. /\ bus \in Seq(Sent) /\ \A k \in Connections : signals[k] \in Seq(Sent)
      /\ \A c \in Commands : issuer[c] \in Connections
  BY DEF BusOK, EventsOK, LanesOK
<1>1. ASSUME NEW k \in Connections, NEW c \in Commands, Send(k, c)
      PROVE  Waits'
  <2>1. \A d \in Commands \ {c} : issuer'[d] = issuer[d] /\ lane'[d] = lane[d] /\ job'[d] = job[d]
    BY <1>1 DEF Send
  <2>2. \A d \in Commands \ {c} : (Coming(d)' <=> Coming(d)) /\ (Owed(d)' <=> Owed(d))
    BY <1>1, <2>1 DEF Send, Coming, UnderWay, Owed
  <2>3. ~Owed(c)' /\ \A x \in Connections : c \notin waiting[x]
    BY <1>1 DEF Send, Owed, LanesOK, PageOK, Replies, Unanswered
  <2>4. OwedIsComing'
    BY <1>1, <2>1, <2>2, <2>3 DEF Send, Waits, OwedIsComing
  <2>5. WaitsForSomething'
    BY <1>1, <2>1, <2>2, <2>3 DEF Send, Waits, WaitsForSomething, Coming, BooksOK
  <2> QED BY <2>4, <2>5 DEF Waits
<1>2. ASSUME NEW c \in Commands, Called(c) \/ CallTimesOut(c)
      PROVE  Waits'
  <2>1. UNCHANGED <<issuer, page, parked, bus, lost, waiting, settled, signals, ours, declined>>
    BY <1>2 DEF Called, CallTimesOut
  <2>2. \A d \in Commands : Coming(d)' <=> Coming(d)
    BY <2>1 DEF Coming, UnderWay
  <2>3. \A d \in Commands : Owed(d)' => Owed(d)
    BY <1>2 DEF Called, CallTimesOut, Owed, LanesOK, PageOK
  <2> QED BY <2>1, <2>2, <2>3, LosesNothing
<1>3. ASSUME NEW c \in Commands, DeferReply(c)
      PROVE  Waits'
  <2> DEFINE k == issuer[c]
  <2>1. /\ lane[c] = "holding" /\ lane' = [lane EXCEPT ![c] = "released"]
        /\ UNCHANGED <<issuer, job, parked, bus, lost, signals, declined>>
    BY <1>3 DEF DeferReply
  <2>2. PICK old \in SUBSET Stale(k) :
          IF c \in settled[k] \ old
          THEN /\ settled' = [settled EXCEPT ![k] = @ \ (old \cup {c})]
               /\ UNCHANGED waiting
          ELSE /\ settled' = [settled EXCEPT ![k] = @ \ old]
               /\ waiting' = [waiting EXCEPT ![k] = @ \cup {c}]
    BY <1>3 DEF DeferReply
  <2>3. \A d \in Commands : (Coming(d)' <=> Coming(d)) /\ (Owed(d)' => Owed(d) /\ d # c)
    BY <2>1 DEF Coming, UnderWay, Owed, LanesOK
  <2>4. \A d \in Commands : Owed(d) /\ issuer[d] = k => d \notin old
    BY <2>2 DEF Stale, Owed
  <2>5. \A d \in Commands : Owed(d)' /\ d \in settled[issuer[d]] => d \in settled'[issuer[d]]
    <3> SUFFICES ASSUME NEW d \in Commands, Owed(d)', d \in settled[issuer[d]]
                 PROVE  d \in settled'[issuer[d]]
      OBVIOUS
    <3>1. Owed(d) /\ d # c /\ issuer[d] \in Connections /\ k \in Connections
      BY <1>0, <2>3
    <3>2. CASE issuer[d] = k
      <4>1. d \notin old
        BY <2>4, <3>1, <3>2
      <4> QED BY <2>2, <3>1, <3>2, <4>1 DEF BooksOK
    <3>3. CASE issuer[d] # k
      BY <2>2, <3>1, <3>3 DEF BooksOK
    <3> QED BY <3>2, <3>3
  <2>6. OwedIsComing'
    BY <2>1, <2>3, <2>5 DEF Waits, OwedIsComing
  <2>7. WaitsForSomething'
    <3>1. Owed(c) /\ k \in Connections
      BY <1>0, <2>1 DEF Owed
    <3>2. c \notin old
      BY <2>4, <3>1
    <3>3. CASE c \in settled[k]
      <4>1. waiting' = waiting
        BY <2>2, <3>2, <3>3
      <4> QED BY <2>3, <4>1 DEF Waits, WaitsForSomething, Coming, BooksOK
    <3>4. CASE c \notin settled[k]
      <4>1. Coming(c)'
        BY <2>3, <3>1, <3>4 DEF Waits, OwedIsComing
      <4>2. \A x \in Connections : \A d \in waiting'[x] : d \in waiting[x] \/ d = c
        BY <2>2, <3>1, <3>4 DEF BooksOK
      <4> QED BY <2>3, <4>1, <4>2 DEF Waits, WaitsForSomething, Coming, BooksOK
    <3> QED BY <3>3, <3>4
  <2> QED BY <2>6, <2>7 DEF Waits
<1>4. ASSUME NEW c \in Commands, Begin(c) \/ Finish(c)
      PROVE  Waits'
  <2>1. /\ UNCHANGED <<lane, issuer, bus, lost, waiting, settled, signals, declined>>
        /\ parked \subseteq parked'
        /\ \A d \in Commands : job'[d] = "deferred" => job[d] = "deferred" \/ d \in parked'
    BY <1>4 DEF Begin, Finish, PageOK
  <2>2. \A d \in Commands : Coming(d) => Coming(d)'
    BY <2>1 DEF Coming, UnderWay
  <2>3. \A d \in Commands : Owed(d)' => Owed(d) \/ Coming(d)'
    BY <2>1 DEF Coming, UnderWay, Owed
  <2> QED BY <2>1, <2>2, <2>3, LosesNothing
<1>5. ASSUME NEW c \in Commands, Settle(c)
      PROVE  Waits'
  <2>1. /\ UNCHANGED <<lane, issuer, job, waiting, settled, signals, declined>>
        /\ parked' = parked \ {c} /\ lost \subseteq lost' /\ Range(bus) \subseteq Range(bus')
        /\ c \in Range(bus') \cup lost'
    <3>1. CASE bus' = Append(bus, c) /\ UNCHANGED lost
      BY <1>0, <1>5, <3>1, RangeAppend DEF Settle, Sent
    <3>2. CASE UNCHANGED bus /\ lost' = lost \cup {c}
      BY <1>5, <3>2 DEF Settle
    <3> QED BY <1>5, <3>1, <3>2 DEF Settle, Emit
  <2>2. \A d \in Commands : Coming(d) => Coming(d)'
    BY <2>1 DEF Coming, UnderWay
  <2>3. \A d \in Commands : Owed(d)' => Owed(d)
    BY <2>1 DEF Owed
  <2> QED BY <2>1, <2>2, <2>3, LosesNothing
<1>6. CASE BeginClose \/ EndClose \/ Crash
  <2>1. /\ UNCHANGED <<lane, issuer, waiting, settled, signals, declined>>
        /\ parked \subseteq parked' \cup lost' /\ lost \subseteq lost'
        /\ \A d \in Commands : job'[d] = "deferred" => job[d] = "deferred"
    BY <1>6 DEF BeginClose, EndClose, Crash, PageOK
  <2>2. Range(bus) \subseteq Range(bus')
    BY <1>0, <1>6, RangeAppend DEF BeginClose, EndClose, Crash, Sent
  <2>3. \A d \in Commands : Coming(d) => Coming(d)'
    BY <2>1, <2>2 DEF Coming, UnderWay
  <2>4. \A d \in Commands : Owed(d)' => Owed(d)
    BY <2>1 DEF Owed
  <2> QED BY <2>1, <2>3, <2>4, LosesNothing
<1>7. CASE Pump
  <2>1. /\ UNCHANGED <<lane, issuer, job, parked, lost, waiting, settled, declined>>
        /\ bus # <<>> /\ bus' = Tail(bus)
        /\ \A k \in Connections : signals'[k] = Append(signals[k], Head(bus))
    BY <1>7 DEF Pump
  <2>2. Head(bus) \in Sent
    BY <1>0, <2>1
  <2>3. \A k \in Connections :
          Range(signals[k]) \subseteq Range(signals'[k]) /\ Head(bus) \in Range(signals'[k])
    BY <1>0, <2>1, <2>2, RangeAppend
  <2>4. \A x \in Range(bus) : x = Head(bus) \/ x \in Range(bus')
    BY <1>0, <2>1, RangeTail
  <2>5. \A d \in Commands : Coming(d) => Coming(d)'
    BY <1>0, <2>1, <2>3, <2>4 DEF Coming, UnderWay
  <2>6. \A d \in Commands : Owed(d)' => Owed(d)
    BY <2>1 DEF Owed
  <2> QED BY <2>1, <2>5, <2>6, LosesNothing
<1>8. ASSUME NEW k \in Connections, LookAtSessions(k) \/ Detach(k)
      PROVE  Waits'
  <2>1. UNCHANGED <<lane, issuer, job, parked, bus, lost, waiting, settled, signals, declined>>
    BY <1>8 DEF LookAtSessions, Detach
  <2>2. \A d \in Commands : (Coming(d) => Coming(d)') /\ (Owed(d)' => Owed(d))
    BY <2>1 DEF Coming, UnderWay, Owed
  <2> QED BY <2>1, <2>2, LosesNothing
<1>9. ASSUME NEW k \in Connections, ResolveAwait(k)
      PROVE  Waits'
  <2> DEFINE c == Head(signals[k])
  <2>1. /\ UNCHANGED <<lane, issuer, job, parked, bus, lost>>
        /\ signals[k] # <<>> /\ signals' = [signals EXCEPT ![k] = Tail(@)]
        /\ waiting' = [waiting EXCEPT ![k] = @ \ {c}]
        /\ c \in Commands
    BY <1>9, ResolveSteps
  <2>2. PICK old \in SUBSET Stale(k) :
          settled' = [settled EXCEPT ![k] =
            (@ \ old) \cup (IF c \notin waiting[k] /\ ours[k] = "yes" THEN {c} ELSE {})]
    BY <1>9 DEF ResolveAwait
  <2>3. /\ declined \subseteq declined'
        /\ c \notin waiting[k] /\ ours[k] = "no" /\ issuer[c] = k => c \in declined'
        /\ ours[k] \in {"yes", "no"}
    BY <1>9 DEF ResolveAwait, EventsOK
  <2>4. \A x \in Range(signals[k]) : x = c \/ x \in Range(signals'[k])
    BY <1>0, <2>1, RangeTail DEF EventsOK
  <2>5. \A x \in Connections \ {k} : signals'[x] = signals[x]
    BY <2>1 DEF EventsOK
  <2>6. \A d \in Commands : Coming(d) => Coming(d)' \/ (d = c /\ issuer[d] = k)
    BY <1>0, <2>1, <2>3, <2>4, <2>5 DEF Coming, UnderWay
  <2>7. \A d \in Commands : Owed(d)' <=> Owed(d)
    BY <2>1 DEF Owed
  <2>8. OwedIsComing'
    <3> SUFFICES ASSUME NEW d \in Commands, Owed(d)
                 PROVE  Coming(d)' \/ d \in settled'[issuer[d]]
      BY <2>1, <2>7 DEF OwedIsComing
    <3>1. issuer[d] \in Connections /\ d \notin waiting[k]
      BY <1>0 DEF Owed, Replies, Unanswered
    <3>2. CASE d = c /\ issuer[d] = k
      <4>1. CASE ours[k] = "yes"
        BY <2>2, <3>1, <3>2, <4>1 DEF BooksOK
      <4>2. CASE ours[k] = "no"
        BY <2>3, <3>1, <3>2, <4>2 DEF Coming
      <4> QED BY <2>3, <4>1, <4>2
    <3>3. CASE ~(d = c /\ issuer[d] = k) /\ Coming(d)
      BY <2>6, <3>3
    <3>4. CASE ~(d = c /\ issuer[d] = k) /\ d \in settled[issuer[d]]
      <4>1. issuer[d] = k => d \notin old
        BY <2>2 DEF Stale, Owed
      <4> QED BY <2>2, <3>1, <3>4, <4>1 DEF BooksOK
    <3> QED BY <3>2, <3>3, <3>4 DEF Waits, OwedIsComing
  <2>9. WaitsForSomething'
    <3> SUFFICES ASSUME NEW x \in Connections, NEW d \in waiting'[x]
                 PROVE  Coming(d)'
      BY DEF WaitsForSomething, Coming
    <3>1. d \in Commands /\ d \in waiting[x] /\ ~(d = c /\ x = k)
      BY <2>1 DEF BooksOK
    <3>2. issuer[d] = x /\ Coming(d)
      BY <3>1 DEF Replies, Unanswered, Waits, WaitsForSomething, Coming
    <3> QED BY <2>6, <3>1, <3>2
  <2> QED BY <2>8, <2>9 DEF Waits
<1>10. ASSUME NEW k \in Connections, HandleGone(k)
       PROVE  Waits'
  <2>1. /\ UNCHANGED <<lane, issuer, job, parked, bus, lost, waiting, settled, declined>>
        /\ signals[k] # <<>> /\ Head(signals[k]) = Gone
        /\ signals' = [signals EXCEPT ![k] = Tail(@)]
    BY <1>10 DEF HandleGone
  <2>2. \A x \in Range(signals[k]) : x = Gone \/ x \in Range(signals'[k])
    BY <1>0, <2>1, RangeTail DEF EventsOK
  <2>3. \A x \in Connections \ {k} : signals'[x] = signals[x]
    BY <2>1 DEF EventsOK
  <2>4. \A d \in Commands : Coming(d) => Coming(d)'
    BY <1>0, <2>1, <2>2, <2>3, GoneAssumption DEF Coming, UnderWay
  <2>5. \A d \in Commands : Owed(d)' => Owed(d)
    BY <2>1 DEF Owed
  <2> QED BY <2>1, <2>4, <2>5, LosesNothing
<1>11. CASE UNCHANGED vars
  BY <1>11 DEF vars, Waits, OwedIsComing, WaitsForSomething, Coming, UnderWay, Owed
<1> HIDE DEF laneVars, pageVars, busVars, bookVars, eventVars, Step, Parts
<1> QED
  BY <1>1, <1>2, <1>3, <1>4, <1>5, <1>6, <1>7, <1>8, <1>9, <1>10, <1>11 DEF Next, LaneStep, PageStep, EventStep

(* A command left in the await book has its answer on the way, in the page,*)
(* on the bus or in its connection's queue, unless the full bus or a crash *)
(* lost the answer, or no session was there to wait for it.                *)
THEOREM NothingWaitsInVain == Spec => []WaitsForSomething
<1>1. Init => Waits
  BY DEF Init, Waits, OwedIsComing, WaitsForSomething, Owed
<1>2. IInv /\ Waits /\ [Next]_vars => Waits'
  BY WaitStep DEF IInv
<1>3. Waits => WaitsForSomething
  BY DEF Waits
<1> QED BY <1>1, <1>2, <1>3, IInvAlways, PTL DEF Spec
=============================================================================
