------------------------ MODULE BrowserContextsProofs ------------------------
(***************************************************************************)
(* Proofs about BrowserContexts: type correctness, and that what is closed *)
(* leaves nothing behind.                                                  *)
(*                                                                         *)
(* A running page is always somebody's: in the hand of the thread that     *)
(* opens it, in its context's list, or in the hands of a thread that is    *)
(* closing it (Accounted). A closed context's list is empty and unlocked,  *)
(* unless a closer has yet to take it (ClosedIsTaken): a thread that was   *)
(* let in before the flag keeps the lock, so the closer comes after it.    *)
(* For contexts the argument is the same one storey up.                    *)
(***************************************************************************)
EXTENDS BrowserContexts, TLAPS

-----------------------------------------------------------------------------
\* A thread that has a page in hand, and the context it is for.
Carrying == {"built", "refusing", "pushing"}

HandsFull ==
  \A t \in Threads : pc[t] \in Carrying =>
    /\ mine[t] \in Pages
    /\ state[mine[t]] # "unbuilt"
    /\ home[mine[t]] = ctx[t]

\* The lock of a list is kept from the check to the push.
PushersHoldLock ==
  \A t \in Threads : pc[t] = "pushing" => lock[ctx[t]] = t

InHand(p) == \E t \in Threads : pc[t] \in Carrying /\ mine[t] = p
BeingClosed(p) == \E t \in Threads : pc[t] = "closing" /\ ctx[t] = home[p] /\ p \in todo[t]

Accounted ==
  \A p \in Pages : state[p] = "running" =>
    InHand(p) \/ p \in pages[home[p]] \/ BeingClosed(p)

Taken(c) == \E t \in Threads : pc[t] = "taking" /\ ctx[t] = c

ClosedIsTaken ==
  \A c \in Contexts : closed[c] /\ (lock[c] # NoOne \/ pages[c] # {}) => Taken(c)

PagesInv == HandsFull /\ PushersHoldLock /\ Accounted /\ ClosedIsTaken

\* One storey up: the browser's list, its lock and its contexts.
Rounds == {"next", "shutting", "taking", "closing"}

ListersHoldLock ==
  \A t \in Threads : pc[t] = "listing" => contextsLock = t

RoundsMade == \A t \in Threads : rest[t] # {} => pc[t] \in Rounds

BeingShut(c) == \E t \in Threads : pc[t] = "shutting" /\ ctx[t] = c
BeingListed(c) == \E t \in Threads : pc[t] = "listing" /\ ctx[t] = c

Listed ==
  \A c \in born : closed[c] \/ c \in contexts \/ BeingListed(c) \/ BeingShut(c)

AboutToList == \E t \in Threads : pc[t] = "browser"
InARound(c) == \E t \in Threads : c \in rest[t]

ClosedIsListed ==
  browserClosed =>
    /\ contextsLock # NoOne => AboutToList
    /\ \A c \in born : closed[c] \/ AboutToList \/ InARound(c) \/ BeingShut(c)

ContextsInv == ListersHoldLock /\ RoundsMade /\ Listed /\ ClosedIsListed

IInv == TypeOK /\ PagesInv /\ ContextsInv

-----------------------------------------------------------------------------
(* What Admit comes down to: the list is pruned, and the page is refused   *)
(* or, in a context that is not closed, let in with the lock held.         *)
LEMMA AdmitSteps ==
  ASSUME NEW t \in Threads, Admit(t)
  PROVE  LET c == ctx[t] IN
         /\ pc[t] = "built" /\ lock[c] = NoOne
         /\ pages' = [pages EXCEPT ![c] = {p \in pages[c] : state[p] # "exited"}]
         /\ \/ pc' = [pc EXCEPT ![t] = "refusing"] /\ UNCHANGED lock
            \/ /\ ~closed[c]
               /\ pc' = [pc EXCEPT ![t] = "pushing"]
               /\ lock' = [lock EXCEPT ![c] = t]
         /\ UNCHANGED <<contexts, browserClosed, contextsLock, born, closed, path, pageVars,
                        ctx, script, mine, want, todo, rest>>
<1> DEFINE full == closed[ctx[t]] \/ (script[t] /\ Cardinality(Alive(pages[ctx[t]])) >= MaxPages)
<1>1. /\ pc[t] = "built" /\ lock[ctx[t]] = NoOne
      /\ pages' = [pages EXCEPT ![ctx[t]] = {p \in pages[ctx[t]] : state[p] # "exited"}]
      /\ UNCHANGED <<contexts, browserClosed, contextsLock, born, closed, path, pageVars,
                     ctx, script, mine, want, todo, rest>>
      /\ IF full THEN pc' = [pc EXCEPT ![t] = "refusing"] /\ UNCHANGED lock
         ELSE pc' = [pc EXCEPT ![t] = "pushing"] /\ lock' = [lock EXCEPT ![ctx[t]] = t]
  BY DEF Admit, At, Goto, Alive
<1>2. ~full => ~closed[ctx[t]]
  OBVIOUS
<1> HIDE DEF full
<1> QED BY <1>1, <1>2

(* Every step keeps the types; here each thread action has one step.       *)
LEMMA TypeStep == ASSUME TypeOK, HandsFull, [Next]_vars PROVE TypeOK'
<1> USE BrowserAssumption DEF TypeOK, vars, listVars, pageVars, threadVars, At, Goto, Alive, Asked
<1>1. ASSUME NEW t \in Threads, NEW c \in Contexts, NEW byScript \in BOOLEAN, Open(t, c, byScript)
      PROVE TypeOK'
  <2>1. LocksHeld'
    BY <1>1 DEF Open, LocksHeld
  <2> QED BY <1>1, <2>1 DEF Open
<1>2. ASSUME NEW t \in Threads, NEW p \in Pages, Build(t, p) PROVE TypeOK'
  <2>0. LocksHeld'
    BY <1>2 DEF Build, LocksHeld
  <2>1. CASE pc' = [pc EXCEPT ![t] = "idle"] /\ UNCHANGED <<pageVars, mine>>
    BY <1>2, <2>0, <2>1 DEF Build
  <2>2. CASE /\ state' = [state EXCEPT ![p] = "running"] /\ home' = [home EXCEPT ![p] = ctx[t]]
             /\ saves' = [saves EXCEPT ![p] = want[t]] /\ UNCHANGED unreached
             /\ mine' = [mine EXCEPT ![t] = p] /\ pc' = [pc EXCEPT ![t] = "built"]
    BY <1>2, <2>0, <2>2 DEF Build
  <2> QED BY <1>2, <2>1, <2>2 DEF Build
<1>3. ASSUME NEW t \in Threads, Admit(t) PROVE TypeOK'
  <2>1. pages' \in [Contexts -> SUBSET Pages]
    BY <1>3, AdmitSteps
  <2>2. CASE pc' = [pc EXCEPT ![t] = "refusing"] /\ UNCHANGED lock
    <3>1. /\ pc[t] = "built" /\ UNCHANGED <<lock, contextsLock, ctx>>
          /\ \A u \in Threads : pc'[u] = IF u = t THEN "refusing" ELSE pc[u]
      BY <1>3, <2>2, AdmitSteps
    <3>2. LocksHeld'
      BY <3>1 DEF LocksHeld
    <3> QED BY <1>3, <2>1, <2>2, <3>2, AdmitSteps
  <2>3. CASE pc' = [pc EXCEPT ![t] = "pushing"] /\ lock' = [lock EXCEPT ![ctx[t]] = t]
    <3>1. /\ pc[t] = "built" /\ lock[ctx[t]] = NoOne /\ UNCHANGED <<contextsLock, ctx>>
          /\ \A u \in Threads : pc'[u] = IF u = t THEN "pushing" ELSE pc[u]
          /\ \A c \in Contexts : lock'[c] = IF c = ctx[t] THEN t ELSE lock[c]
      BY <1>3, <2>3, AdmitSteps
    <3>2. LocksHeld'
      BY <3>1 DEF LocksHeld
    <3> QED BY <1>3, <2>1, <2>3, <3>2, AdmitSteps
  <2> QED BY <1>3, <2>2, <2>3, AdmitSteps
<1>4. ASSUME NEW t \in Threads, Push(t) PROVE TypeOK'
  <2>1. LocksHeld'
    BY <1>4 DEF Push, LocksHeld
  <2> QED BY <1>4, <2>1 DEF Push, HandsFull, Carrying
<1>5. ASSUME NEW t \in Threads, Refuse(t) PROVE TypeOK'
  <2>1. LocksHeld'
    BY <1>5 DEF Refuse, LocksHeld
  <2> QED BY <1>5, <2>1 DEF Refuse
<1>6. ASSUME NEW t \in Threads, NEW c \in Contexts, SpawnContext(t, c) PROVE TypeOK'
  <2>1. LocksHeld'
    BY <1>6 DEF SpawnContext, LocksHeld
  <2> QED BY <1>6, <2>1 DEF SpawnContext
<1>7. ASSUME NEW t \in Threads, PushContext(t) PROVE TypeOK'
  <2>1. LocksHeld'
    BY <1>7 DEF PushContext, LocksHeld
  <2> QED BY <1>7, <2>1 DEF PushContext
<1>8. ASSUME NEW t \in Threads, NEW c \in Contexts, CloseContext(t, c) PROVE TypeOK'
  <2>1. LocksHeld'
    BY <1>8 DEF CloseContext, LocksHeld
  <2> QED BY <1>8, <2>1 DEF CloseContext
<1>9. ASSUME NEW t \in Threads, ShutContext(t) PROVE TypeOK'
  <2>1. LocksHeld'
    BY <1>9 DEF ShutContext, LocksHeld
  <2> QED BY <1>9, <2>1 DEF ShutContext
<1>10. ASSUME NEW t \in Threads, TakePages(t) PROVE TypeOK'
  <2>1. LocksHeld'
    BY <1>10 DEF TakePages, LocksHeld
  <2> QED BY <1>10, <2>1 DEF TakePages
<1>11. ASSUME NEW t \in Threads, NEW p \in Pages, ClosePage(t, p) PROVE TypeOK'
  <2>1. LocksHeld'
    BY <1>11 DEF ClosePage, LocksHeld
  <2> QED BY <1>11, <2>1 DEF ClosePage
<1>12. ASSUME NEW t \in Threads, ContextClosed(t) PROVE TypeOK'
  <2>1. LocksHeld'
    BY <1>12 DEF ContextClosed, LocksHeld
  <2> QED BY <1>12, <2>1 DEF ContextClosed
<1>13. ASSUME NEW t \in Threads, CloseBrowser(t) PROVE TypeOK'
  <2>1. LocksHeld'
    BY <1>13 DEF CloseBrowser, LocksHeld
  <2> QED BY <1>13, <2>1 DEF CloseBrowser
<1>14. ASSUME NEW t \in Threads, ListContexts(t) PROVE TypeOK'
  <2>1. LocksHeld'
    BY <1>14 DEF ListContexts, LocksHeld
  <2> QED BY <1>14, <2>1 DEF ListContexts
<1>15. ASSUME NEW t \in Threads, NEW c \in Contexts, NextContext(t, c) PROVE TypeOK'
  <2>1. LocksHeld'
    BY <1>15 DEF NextContext, LocksHeld
  <2> QED BY <1>15, <2>1 DEF NextContext
<1>16. ASSUME NEW t \in Threads, NEW c \in Contexts, NEW where \in Paths, SetDownload(t, c, where)
       PROVE TypeOK'
  <2>1. LocksHeld'
    BY <1>16 DEF SetDownload, LocksHeld
  <2> QED BY <1>16, <2>1 DEF SetDownload
<1>17. ASSUME NEW t \in Threads, ListPages(t) PROVE TypeOK'
  <2>1. LocksHeld'
    BY <1>17 DEF ListPages, LocksHeld
  <2> QED BY <1>17, <2>1 DEF ListPages
<1>18. ASSUME NEW t \in Threads, NEW p \in Pages, TellPage(t, p) PROVE TypeOK'
  <2>1. LocksHeld'
    BY <1>18 DEF TellPage, LocksHeld
  <2> QED BY <1>18, <2>1 DEF TellPage
<1>19. ASSUME NEW t \in Threads, Told(t) PROVE TypeOK'
  <2>1. LocksHeld'
    BY <1>19 DEF Told, LocksHeld
  <2> QED BY <1>19, <2>1 DEF Told
<1>20. ASSUME NEW p \in Pages, Exit(p) PROVE TypeOK'
  <2>1. LocksHeld'
    BY <1>20 DEF Exit, LocksHeld
  <2> QED BY <1>20, <2>1 DEF Exit
<1>21. CASE UNCHANGED vars
  BY <1>21 DEF LocksHeld
<1> HIDE DEF TypeOK, vars, listVars, pageVars, threadVars, At, Goto, Alive, Asked
<1>22. ASSUME NEW t \in Threads, ThreadNext(t) PROVE TypeOK'
  BY <1>1, <1>2, <1>3, <1>4, <1>5, <1>6, <1>7, <1>8, <1>9, <1>10, <1>11, <1>12, <1>13, <1>14,
     <1>15, <1>16, <1>17, <1>18, <1>19, <1>22 DEF ThreadNext
<1> QED
  BY <1>20, <1>21, <1>22 DEF Next
(* Every step keeps the pages accounted for.                               *)
LEMMA PagesStep == ASSUME TypeOK, PagesInv, [Next]_vars PROVE PagesInv'
<1> USE BrowserAssumption DEF TypeOK, PagesInv, listVars, pageVars, threadVars, At, Goto, Alive, Asked
<1>1. ASSUME NEW t \in Threads, NEW c \in Contexts, NEW byScript \in BOOLEAN, Open(t, c, byScript)
      PROVE  PagesInv'
  <2>1. HandsFull'
    BY <1>1 DEF Open, HandsFull, Carrying
  <2>2. PushersHoldLock'
    BY <1>1 DEF Open, PushersHoldLock, HandsFull, Carrying
  <2>3. Accounted'
    BY <1>1 DEF Open, Accounted, HandsFull, Carrying, InHand, BeingClosed
  <2>4. ClosedIsTaken'
    BY <1>1 DEF Open, ClosedIsTaken, PushersHoldLock, HandsFull, Carrying, Taken
  <2> QED BY <2>1, <2>2, <2>3, <2>4 DEF PagesInv
<1>2. ASSUME NEW t \in Threads, NEW p \in Pages, Build(t, p)
      PROVE  PagesInv'
  <2>1. HandsFull'
    BY <1>2 DEF Build, HandsFull, Carrying
  <2>2. PushersHoldLock'
    BY <1>2 DEF Build, PushersHoldLock, HandsFull, Carrying
  <2>3. Accounted'
    <3> SUFFICES ASSUME NEW q \in Pages, state'[q] = "running"
                 PROVE  InHand(q)' \/ q \in pages'[home'[q]] \/ BeingClosed(q)'
      BY DEF Accounted
    <3>1. CASE q = p /\ mine'[t] = p /\ pc'[t] = "built"
      BY <1>2, <3>1 DEF InHand, Carrying
    <3>2. CASE q # p \/ ~(mine'[t] = p /\ pc'[t] = "built")
      <4>1. state[q] = "running" /\ home'[q] = home[q] /\ pages' = pages /\ todo' = todo
        BY <1>2, <3>2 DEF Build
      <4>2. \A u \in Threads : u # t => pc'[u] = pc[u] /\ mine'[u] = mine[u]
        BY <1>2 DEF Build
      <4>3. InHand(q) => InHand(q)'
        BY <1>2, <4>2 DEF Build, InHand, Carrying
      <4>4. BeingClosed(q) => BeingClosed(q)'
        BY <1>2, <4>1, <4>2 DEF Build, BeingClosed
      <4> QED BY <4>1, <4>3, <4>4 DEF Accounted
    <3> QED BY <3>1, <3>2
  <2>4. ClosedIsTaken'
    BY <1>2 DEF Build, ClosedIsTaken, PushersHoldLock, HandsFull, Carrying, Taken
  <2> QED BY <2>1, <2>2, <2>3, <2>4 DEF PagesInv
<1>3. ASSUME NEW t \in Threads, Admit(t)
      PROVE  PagesInv'
  <2>1. HandsFull'
    BY <1>3 DEF Admit, HandsFull, Carrying
  <2>2. PushersHoldLock'
    BY <1>3 DEF Admit, PushersHoldLock, HandsFull, Carrying
  <2>3. Accounted'
    BY <1>3 DEF Admit, Accounted, HandsFull, Carrying, InHand, BeingClosed
  <2>4. ClosedIsTaken'
    BY <1>3 DEF Admit, ClosedIsTaken, PushersHoldLock, HandsFull, Carrying, Taken
  <2> QED BY <2>1, <2>2, <2>3, <2>4 DEF PagesInv
<1>4. ASSUME NEW t \in Threads, Push(t)
      PROVE  PagesInv'
  <2>1. HandsFull'
    BY <1>4 DEF Push, HandsFull, Carrying
  <2>2. PushersHoldLock'
    BY <1>4 DEF Push, PushersHoldLock, HandsFull, Carrying
  <2>3. Accounted'
    BY <1>4 DEF Push, Accounted, HandsFull, Carrying, InHand, BeingClosed
  <2>4. ClosedIsTaken'
    BY <1>4 DEF Push, ClosedIsTaken, PushersHoldLock, HandsFull, Carrying, Taken
  <2> QED BY <2>1, <2>2, <2>3, <2>4 DEF PagesInv
<1>5. ASSUME NEW t \in Threads, Refuse(t)
      PROVE  PagesInv'
  <2>1. HandsFull'
    BY <1>5 DEF Refuse, HandsFull, Carrying
  <2>2. PushersHoldLock'
    BY <1>5 DEF Refuse, PushersHoldLock, HandsFull, Carrying
  <2>3. Accounted'
    BY <1>5 DEF Refuse, Accounted, HandsFull, Carrying, InHand, BeingClosed
  <2>4. ClosedIsTaken'
    BY <1>5 DEF Refuse, ClosedIsTaken, PushersHoldLock, HandsFull, Carrying, Taken
  <2> QED BY <2>1, <2>2, <2>3, <2>4 DEF PagesInv
<1>6. ASSUME NEW t \in Threads, NEW c \in Contexts, SpawnContext(t, c)
      PROVE  PagesInv'
  <2>1. HandsFull'
    BY <1>6 DEF SpawnContext, HandsFull, Carrying
  <2>2. PushersHoldLock'
    BY <1>6 DEF SpawnContext, PushersHoldLock, HandsFull, Carrying
  <2>3. Accounted'
    <3>1. pages' = pages /\ state' = state /\ home' = home /\ mine' = mine /\ todo' = todo
      BY <1>6 DEF SpawnContext
    <3>2. \A u \in Threads \ {t} : pc'[u] = pc[u] /\ ctx'[u] = ctx[u]
      BY <1>6 DEF SpawnContext
    <3>3. pc[t] = "idle"
      BY <1>6 DEF SpawnContext
    <3> QED BY <3>1, <3>2, <3>3 DEF Accounted, InHand, BeingClosed, Carrying
  <2>4. ClosedIsTaken'
    BY <1>6 DEF SpawnContext, ClosedIsTaken, PushersHoldLock, HandsFull, Carrying, Taken
  <2> QED BY <2>1, <2>2, <2>3, <2>4 DEF PagesInv
<1>7. ASSUME NEW t \in Threads, PushContext(t)
      PROVE  PagesInv'
  <2>1. HandsFull'
    BY <1>7 DEF PushContext, HandsFull, Carrying
  <2>2. PushersHoldLock'
    BY <1>7 DEF PushContext, PushersHoldLock, HandsFull, Carrying
  <2>3. Accounted'
    BY <1>7 DEF PushContext, Accounted, HandsFull, Carrying, InHand, BeingClosed
  <2>4. ClosedIsTaken'
    BY <1>7 DEF PushContext, ClosedIsTaken, PushersHoldLock, HandsFull, Carrying, Taken
  <2> QED BY <2>1, <2>2, <2>3, <2>4 DEF PagesInv
<1>8. ASSUME NEW t \in Threads, NEW c \in Contexts, CloseContext(t, c)
      PROVE  PagesInv'
  <2>1. HandsFull'
    BY <1>8 DEF CloseContext, HandsFull, Carrying
  <2>2. PushersHoldLock'
    BY <1>8 DEF CloseContext, PushersHoldLock, HandsFull, Carrying
  <2>3. Accounted'
    BY <1>8 DEF CloseContext, Accounted, HandsFull, Carrying, InHand, BeingClosed
  <2>4. ClosedIsTaken'
    BY <1>8 DEF CloseContext, ClosedIsTaken, PushersHoldLock, HandsFull, Carrying, Taken
  <2> QED BY <2>1, <2>2, <2>3, <2>4 DEF PagesInv
<1>9. ASSUME NEW t \in Threads, ShutContext(t)
      PROVE  PagesInv'
  <2>1. HandsFull'
    BY <1>9 DEF ShutContext, HandsFull, Carrying
  <2>2. PushersHoldLock'
    BY <1>9 DEF ShutContext, PushersHoldLock, HandsFull, Carrying
  <2>3. Accounted'
    BY <1>9 DEF ShutContext, Accounted, HandsFull, Carrying, InHand, BeingClosed
  <2>4. ClosedIsTaken'
    BY <1>9 DEF ShutContext, ClosedIsTaken, PushersHoldLock, HandsFull, Carrying, Taken
  <2> QED BY <2>1, <2>2, <2>3, <2>4 DEF PagesInv
<1>10. ASSUME NEW t \in Threads, TakePages(t)
      PROVE  PagesInv'
  <2>1. HandsFull'
    BY <1>10 DEF TakePages, HandsFull, Carrying
  <2>2. PushersHoldLock'
    BY <1>10 DEF TakePages, PushersHoldLock, HandsFull, Carrying
  <2>3. Accounted'
    BY <1>10 DEF TakePages, Accounted, HandsFull, Carrying, InHand, BeingClosed
  <2>4. ClosedIsTaken'
    BY <1>10 DEF TakePages, ClosedIsTaken, PushersHoldLock, HandsFull, Carrying, Taken
  <2> QED BY <2>1, <2>2, <2>3, <2>4 DEF PagesInv
<1>11. ASSUME NEW t \in Threads, NEW p \in Pages, ClosePage(t, p)
      PROVE  PagesInv'
  <2>1. HandsFull'
    BY <1>11 DEF ClosePage, HandsFull, Carrying
  <2>2. PushersHoldLock'
    BY <1>11 DEF ClosePage, PushersHoldLock, HandsFull, Carrying
  <2>3. Accounted'
    BY <1>11 DEF ClosePage, Accounted, HandsFull, Carrying, InHand, BeingClosed
  <2>4. ClosedIsTaken'
    BY <1>11 DEF ClosePage, ClosedIsTaken, PushersHoldLock, HandsFull, Carrying, Taken
  <2> QED BY <2>1, <2>2, <2>3, <2>4 DEF PagesInv
<1>12. ASSUME NEW t \in Threads, ContextClosed(t)
      PROVE  PagesInv'
  <2>1. HandsFull'
    BY <1>12 DEF ContextClosed, HandsFull, Carrying
  <2>2. PushersHoldLock'
    BY <1>12 DEF ContextClosed, PushersHoldLock, HandsFull, Carrying
  <2>3. Accounted'
    BY <1>12 DEF ContextClosed, Accounted, HandsFull, Carrying, InHand, BeingClosed
  <2>4. ClosedIsTaken'
    BY <1>12 DEF ContextClosed, ClosedIsTaken, PushersHoldLock, HandsFull, Carrying, Taken
  <2> QED BY <2>1, <2>2, <2>3, <2>4 DEF PagesInv
<1>13. ASSUME NEW t \in Threads, CloseBrowser(t)
      PROVE  PagesInv'
  <2>1. HandsFull'
    BY <1>13 DEF CloseBrowser, HandsFull, Carrying
  <2>2. PushersHoldLock'
    BY <1>13 DEF CloseBrowser, PushersHoldLock, HandsFull, Carrying
  <2>3. Accounted'
    BY <1>13 DEF CloseBrowser, Accounted, HandsFull, Carrying, InHand, BeingClosed
  <2>4. ClosedIsTaken'
    BY <1>13 DEF CloseBrowser, ClosedIsTaken, PushersHoldLock, HandsFull, Carrying, Taken
  <2> QED BY <2>1, <2>2, <2>3, <2>4 DEF PagesInv
<1>14. ASSUME NEW t \in Threads, ListContexts(t)
      PROVE  PagesInv'
  <2>1. HandsFull'
    BY <1>14 DEF ListContexts, HandsFull, Carrying
  <2>2. PushersHoldLock'
    BY <1>14 DEF ListContexts, PushersHoldLock, HandsFull, Carrying
  <2>3. Accounted'
    BY <1>14 DEF ListContexts, Accounted, HandsFull, Carrying, InHand, BeingClosed
  <2>4. ClosedIsTaken'
    BY <1>14 DEF ListContexts, ClosedIsTaken, PushersHoldLock, HandsFull, Carrying, Taken
  <2> QED BY <2>1, <2>2, <2>3, <2>4 DEF PagesInv
<1>15. ASSUME NEW t \in Threads, NEW c \in Contexts, NextContext(t, c)
      PROVE  PagesInv'
  <2>1. HandsFull'
    BY <1>15 DEF NextContext, HandsFull, Carrying
  <2>2. PushersHoldLock'
    BY <1>15 DEF NextContext, PushersHoldLock, HandsFull, Carrying
  <2>3. Accounted'
    BY <1>15 DEF NextContext, Accounted, HandsFull, Carrying, InHand, BeingClosed
  <2>4. ClosedIsTaken'
    BY <1>15 DEF NextContext, ClosedIsTaken, PushersHoldLock, HandsFull, Carrying, Taken
  <2> QED BY <2>1, <2>2, <2>3, <2>4 DEF PagesInv
<1>16. ASSUME NEW t \in Threads, NEW c \in Contexts, NEW where \in Paths, SetDownload(t, c, where)
      PROVE  PagesInv'
  <2>1. HandsFull'
    BY <1>16 DEF SetDownload, HandsFull, Carrying
  <2>2. PushersHoldLock'
    BY <1>16 DEF SetDownload, PushersHoldLock, HandsFull, Carrying
  <2>3. Accounted'
    BY <1>16 DEF SetDownload, Accounted, HandsFull, Carrying, InHand, BeingClosed
  <2>4. ClosedIsTaken'
    BY <1>16 DEF SetDownload, ClosedIsTaken, PushersHoldLock, HandsFull, Carrying, Taken
  <2> QED BY <2>1, <2>2, <2>3, <2>4 DEF PagesInv
<1>17. ASSUME NEW t \in Threads, ListPages(t)
      PROVE  PagesInv'
  <2>1. HandsFull'
    BY <1>17 DEF ListPages, HandsFull, Carrying
  <2>2. PushersHoldLock'
    BY <1>17 DEF ListPages, PushersHoldLock, HandsFull, Carrying
  <2>3. Accounted'
    BY <1>17 DEF ListPages, Accounted, HandsFull, Carrying, InHand, BeingClosed
  <2>4. ClosedIsTaken'
    BY <1>17 DEF ListPages, ClosedIsTaken, PushersHoldLock, HandsFull, Carrying, Taken
  <2> QED BY <2>1, <2>2, <2>3, <2>4 DEF PagesInv
<1>18. ASSUME NEW t \in Threads, NEW p \in Pages, TellPage(t, p)
      PROVE  PagesInv'
  <2>1. HandsFull'
    BY <1>18 DEF TellPage, HandsFull, Carrying
  <2>2. PushersHoldLock'
    BY <1>18 DEF TellPage, PushersHoldLock, HandsFull, Carrying
  <2>3. Accounted'
    BY <1>18 DEF TellPage, Accounted, HandsFull, Carrying, InHand, BeingClosed
  <2>4. ClosedIsTaken'
    BY <1>18 DEF TellPage, ClosedIsTaken, PushersHoldLock, HandsFull, Carrying, Taken
  <2> QED BY <2>1, <2>2, <2>3, <2>4 DEF PagesInv
<1>19. ASSUME NEW t \in Threads, Told(t)
      PROVE  PagesInv'
  <2>1. HandsFull'
    BY <1>19 DEF Told, HandsFull, Carrying
  <2>2. PushersHoldLock'
    BY <1>19 DEF Told, PushersHoldLock, HandsFull, Carrying
  <2>3. Accounted'
    BY <1>19 DEF Told, Accounted, HandsFull, Carrying, InHand, BeingClosed
  <2>4. ClosedIsTaken'
    BY <1>19 DEF Told, ClosedIsTaken, PushersHoldLock, HandsFull, Carrying, Taken
  <2> QED BY <2>1, <2>2, <2>3, <2>4 DEF PagesInv
<1>20. ASSUME NEW p \in Pages, Exit(p)
      PROVE  PagesInv'
  <2>1. HandsFull'
    BY <1>20 DEF Exit, HandsFull, Carrying
  <2>2. PushersHoldLock'
    BY <1>20 DEF Exit, PushersHoldLock, HandsFull, Carrying
  <2>3. Accounted'
    BY <1>20 DEF Exit, Accounted, HandsFull, Carrying, InHand, BeingClosed
  <2>4. ClosedIsTaken'
    BY <1>20 DEF Exit, ClosedIsTaken, PushersHoldLock, HandsFull, Carrying, Taken
  <2> QED BY <2>1, <2>2, <2>3, <2>4 DEF PagesInv
<1>21. CASE UNCHANGED vars
  BY <1>21 DEF PagesInv, HandsFull, PushersHoldLock, Accounted, ClosedIsTaken, Carrying, InHand, BeingClosed, Taken, vars
<1> HIDE DEF TypeOK, PagesInv, listVars, pageVars, threadVars, At, Goto, Alive, Asked
<1>22. ASSUME NEW t \in Threads, ThreadNext(t) PROVE PagesInv'
  BY <1>1, <1>2, <1>3, <1>4, <1>5, <1>6, <1>7, <1>8, <1>9, <1>10, <1>11, <1>12, <1>13, <1>14, <1>15, <1>16, <1>17, <1>18, <1>19, <1>22 DEF ThreadNext
<1> QED
  BY <1>20, <1>21, <1>22 DEF Next

(* Every step keeps the contexts listed, or on the way.                    *)
LEMMA ContextsStep == ASSUME TypeOK, ContextsInv, [Next]_vars PROVE ContextsInv'
<1> USE BrowserAssumption DEF TypeOK, ContextsInv, listVars, pageVars, threadVars, At, Goto, Alive, Asked
<1>1. ASSUME NEW t \in Threads, NEW c \in Contexts, NEW byScript \in BOOLEAN, Open(t, c, byScript)
      PROVE  ContextsInv'
  <2>1. ListersHoldLock'
    BY <1>1 DEF Open, ListersHoldLock
  <2>2. RoundsMade'
    BY <1>1 DEF Open, RoundsMade, Rounds
  <2>3. Listed'
    BY <1>1 DEF Open, Listed, ListersHoldLock, BeingListed, BeingShut
  <2>4. ClosedIsListed'
    BY <1>1 DEF Open, ClosedIsListed, Listed, ListersHoldLock, RoundsMade, Rounds, AboutToList, InARound, BeingShut, BeingListed
  <2> QED BY <2>1, <2>2, <2>3, <2>4 DEF ContextsInv
<1>2. ASSUME NEW t \in Threads, NEW p \in Pages, Build(t, p)
      PROVE  ContextsInv'
  <2>1. ListersHoldLock'
    BY <1>2 DEF Build, ListersHoldLock
  <2>2. RoundsMade'
    BY <1>2 DEF Build, RoundsMade, Rounds
  <2>3. Listed'
    BY <1>2 DEF Build, Listed, ListersHoldLock, BeingListed, BeingShut
  <2>4. ClosedIsListed'
    BY <1>2 DEF Build, ClosedIsListed, Listed, ListersHoldLock, RoundsMade, Rounds, AboutToList, InARound, BeingShut, BeingListed
  <2> QED BY <2>1, <2>2, <2>3, <2>4 DEF ContextsInv
<1>3. ASSUME NEW t \in Threads, Admit(t)
      PROVE  ContextsInv'
  <2>1. ListersHoldLock'
    BY <1>3 DEF Admit, ListersHoldLock
  <2>2. RoundsMade'
    BY <1>3 DEF Admit, RoundsMade, Rounds
  <2>3. Listed'
    <3>1. /\ pc[t] = "built" /\ UNCHANGED <<born, closed, contexts, ctx>>
          /\ \A u \in Threads : u # t => pc'[u] = pc[u]
      BY <1>3, AdmitSteps
    <3>2. \A c \in Contexts : (BeingListed(c) => BeingListed(c)') /\ (BeingShut(c) => BeingShut(c)')
      BY <3>1 DEF BeingListed, BeingShut
    <3> QED BY <3>1, <3>2 DEF Listed
  <2>4. ClosedIsListed'
    BY <1>3 DEF Admit, ClosedIsListed, Listed, ListersHoldLock, RoundsMade, Rounds, AboutToList, InARound, BeingShut, BeingListed
  <2> QED BY <2>1, <2>2, <2>3, <2>4 DEF ContextsInv
<1>4. ASSUME NEW t \in Threads, Push(t)
      PROVE  ContextsInv'
  <2>1. ListersHoldLock'
    BY <1>4 DEF Push, ListersHoldLock
  <2>2. RoundsMade'
    BY <1>4 DEF Push, RoundsMade, Rounds
  <2>3. Listed'
    BY <1>4 DEF Push, Listed, ListersHoldLock, BeingListed, BeingShut
  <2>4. ClosedIsListed'
    BY <1>4 DEF Push, ClosedIsListed, Listed, ListersHoldLock, RoundsMade, Rounds, AboutToList, InARound, BeingShut, BeingListed
  <2> QED BY <2>1, <2>2, <2>3, <2>4 DEF ContextsInv
<1>5. ASSUME NEW t \in Threads, Refuse(t)
      PROVE  ContextsInv'
  <2>1. ListersHoldLock'
    BY <1>5 DEF Refuse, ListersHoldLock
  <2>2. RoundsMade'
    BY <1>5 DEF Refuse, RoundsMade, Rounds
  <2>3. Listed'
    BY <1>5 DEF Refuse, Listed, ListersHoldLock, BeingListed, BeingShut
  <2>4. ClosedIsListed'
    BY <1>5 DEF Refuse, ClosedIsListed, Listed, ListersHoldLock, RoundsMade, Rounds, AboutToList, InARound, BeingShut, BeingListed
  <2> QED BY <2>1, <2>2, <2>3, <2>4 DEF ContextsInv
<1>6. ASSUME NEW t \in Threads, NEW c \in Contexts, SpawnContext(t, c)
      PROVE  ContextsInv'
  <2>1. ListersHoldLock'
    BY <1>6 DEF SpawnContext, ListersHoldLock
  <2>2. RoundsMade'
    BY <1>6 DEF SpawnContext, RoundsMade, Rounds
  <2>3. Listed'
    BY <1>6 DEF SpawnContext, Listed, ListersHoldLock, BeingListed, BeingShut
  <2>4. ClosedIsListed'
    <3>1. /\ pc[t] = "idle" /\ contextsLock = NoOne /\ UNCHANGED <<browserClosed, closed, rest>>
          /\ \A u \in Threads : u # t => pc'[u] = pc[u] /\ ctx'[u] = ctx[u]
          /\ born' = born \cup {c} /\ ctx'[t] = c
          /\ browserClosed => pc'[t] = "shutting" /\ contextsLock' = contextsLock
      BY <1>6 DEF SpawnContext
    <3>2. (AboutToList => AboutToList') /\ (\A d \in Contexts : BeingShut(d) => BeingShut(d)')
      BY <3>1 DEF AboutToList, BeingShut
    <3>3. \A d \in Contexts : InARound(d) => InARound(d)'
      BY <3>1 DEF InARound
    <3>4. browserClosed' => BeingShut(c)'
      BY <3>1 DEF BeingShut
    <3>5. browserClosed' /\ contextsLock' # NoOne => AboutToList'
      BY <3>1, <3>2 DEF ClosedIsListed
    <3>6. \A d \in born' : browserClosed' => closed'[d] \/ AboutToList' \/ InARound(d)' \/ BeingShut(d)'
      BY <3>1, <3>2, <3>3, <3>4 DEF ClosedIsListed
    <3> QED BY <3>5, <3>6 DEF ClosedIsListed
  <2> QED BY <2>1, <2>2, <2>3, <2>4 DEF ContextsInv
<1>7. ASSUME NEW t \in Threads, PushContext(t)
      PROVE  ContextsInv'
  <2>1. ListersHoldLock'
    BY <1>7 DEF PushContext, ListersHoldLock
  <2>2. RoundsMade'
    BY <1>7 DEF PushContext, RoundsMade, Rounds
  <2>3. Listed'
    BY <1>7 DEF PushContext, Listed, ListersHoldLock, BeingListed, BeingShut
  <2>4. ClosedIsListed'
    BY <1>7 DEF PushContext, ClosedIsListed, Listed, ListersHoldLock, RoundsMade, Rounds, AboutToList, InARound, BeingShut, BeingListed
  <2> QED BY <2>1, <2>2, <2>3, <2>4 DEF ContextsInv
<1>8. ASSUME NEW t \in Threads, NEW c \in Contexts, CloseContext(t, c)
      PROVE  ContextsInv'
  <2>1. ListersHoldLock'
    BY <1>8 DEF CloseContext, ListersHoldLock
  <2>2. RoundsMade'
    BY <1>8 DEF CloseContext, RoundsMade, Rounds
  <2>3. Listed'
    BY <1>8 DEF CloseContext, Listed, ListersHoldLock, BeingListed, BeingShut
  <2>4. ClosedIsListed'
    BY <1>8 DEF CloseContext, ClosedIsListed, Listed, ListersHoldLock, RoundsMade, Rounds, AboutToList, InARound, BeingShut, BeingListed
  <2> QED BY <2>1, <2>2, <2>3, <2>4 DEF ContextsInv
<1>9. ASSUME NEW t \in Threads, ShutContext(t)
      PROVE  ContextsInv'
  <2>1. ListersHoldLock'
    BY <1>9 DEF ShutContext, ListersHoldLock
  <2>2. RoundsMade'
    BY <1>9 DEF ShutContext, RoundsMade, Rounds
  <2>3. Listed'
    BY <1>9 DEF ShutContext, Listed, ListersHoldLock, BeingListed, BeingShut
  <2>4. ClosedIsListed'
    BY <1>9 DEF ShutContext, ClosedIsListed, Listed, ListersHoldLock, RoundsMade, Rounds, AboutToList, InARound, BeingShut, BeingListed
  <2> QED BY <2>1, <2>2, <2>3, <2>4 DEF ContextsInv
<1>10. ASSUME NEW t \in Threads, TakePages(t)
      PROVE  ContextsInv'
  <2>1. ListersHoldLock'
    BY <1>10 DEF TakePages, ListersHoldLock
  <2>2. RoundsMade'
    BY <1>10 DEF TakePages, RoundsMade, Rounds
  <2>3. Listed'
    BY <1>10 DEF TakePages, Listed, ListersHoldLock, BeingListed, BeingShut
  <2>4. ClosedIsListed'
    <3>1. UNCHANGED <<browserClosed, contextsLock, born, closed, ctx, rest>>
      BY <1>10 DEF TakePages
    <3>2. pc[t] = "taking" /\ \A u \in Threads \ {t} : pc'[u] = pc[u]
      BY <1>10 DEF TakePages
    <3>3. AboutToList => AboutToList'
      BY <3>1, <3>2 DEF AboutToList
    <3>4. \A c \in Contexts : (InARound(c) => InARound(c)') /\ (BeingShut(c) => BeingShut(c)')
      BY <3>1, <3>2 DEF InARound, BeingShut
    <3>5. born \subseteq Contexts
      OBVIOUS
    <3> QED BY <3>1, <3>3, <3>4, <3>5 DEF ClosedIsListed
  <2> QED BY <2>1, <2>2, <2>3, <2>4 DEF ContextsInv
<1>11. ASSUME NEW t \in Threads, NEW p \in Pages, ClosePage(t, p)
      PROVE  ContextsInv'
  <2>1. ListersHoldLock'
    BY <1>11 DEF ClosePage, ListersHoldLock
  <2>2. RoundsMade'
    BY <1>11 DEF ClosePage, RoundsMade, Rounds
  <2>3. Listed'
    BY <1>11 DEF ClosePage, Listed, ListersHoldLock, BeingListed, BeingShut
  <2>4. ClosedIsListed'
    BY <1>11 DEF ClosePage, ClosedIsListed, Listed, ListersHoldLock, RoundsMade, Rounds, AboutToList, InARound, BeingShut, BeingListed
  <2> QED BY <2>1, <2>2, <2>3, <2>4 DEF ContextsInv
<1>12. ASSUME NEW t \in Threads, ContextClosed(t)
      PROVE  ContextsInv'
  <2>1. ListersHoldLock'
    BY <1>12 DEF ContextClosed, ListersHoldLock
  <2>2. RoundsMade'
    BY <1>12 DEF ContextClosed, RoundsMade, Rounds
  <2>3. Listed'
    BY <1>12 DEF ContextClosed, Listed, ListersHoldLock, BeingListed, BeingShut
  <2>4. ClosedIsListed'
    BY <1>12 DEF ContextClosed, ClosedIsListed, Listed, ListersHoldLock, RoundsMade, Rounds, AboutToList, InARound, BeingShut, BeingListed
  <2> QED BY <2>1, <2>2, <2>3, <2>4 DEF ContextsInv
<1>13. ASSUME NEW t \in Threads, CloseBrowser(t)
      PROVE  ContextsInv'
  <2>1. ListersHoldLock'
    BY <1>13 DEF CloseBrowser, ListersHoldLock
  <2>2. RoundsMade'
    BY <1>13 DEF CloseBrowser, RoundsMade, Rounds
  <2>3. Listed'
    BY <1>13 DEF CloseBrowser, Listed, ListersHoldLock, BeingListed, BeingShut
  <2>4. ClosedIsListed'
    BY <1>13 DEF CloseBrowser, ClosedIsListed, Listed, ListersHoldLock, RoundsMade, Rounds, AboutToList, InARound, BeingShut, BeingListed
  <2> QED BY <2>1, <2>2, <2>3, <2>4 DEF ContextsInv
<1>14. ASSUME NEW t \in Threads, ListContexts(t)
      PROVE  ContextsInv'
  <2>1. ListersHoldLock'
    BY <1>14 DEF ListContexts, ListersHoldLock
  <2>2. RoundsMade'
    BY <1>14 DEF ListContexts, RoundsMade, Rounds
  <2>3. Listed'
    BY <1>14 DEF ListContexts, Listed, ListersHoldLock, BeingListed, BeingShut
  <2>4. ClosedIsListed'
    BY <1>14 DEF ListContexts, ClosedIsListed, Listed, ListersHoldLock, RoundsMade, Rounds, AboutToList, InARound, BeingShut, BeingListed
  <2> QED BY <2>1, <2>2, <2>3, <2>4 DEF ContextsInv
<1>15. ASSUME NEW t \in Threads, NEW c \in Contexts, NextContext(t, c)
      PROVE  ContextsInv'
  <2>1. ListersHoldLock'
    BY <1>15 DEF NextContext, ListersHoldLock
  <2>2. RoundsMade'
    BY <1>15 DEF NextContext, RoundsMade, Rounds
  <2>3. Listed'
    BY <1>15 DEF NextContext, Listed, ListersHoldLock, BeingListed, BeingShut
  <2>4. ClosedIsListed'
    BY <1>15 DEF NextContext, ClosedIsListed, Listed, ListersHoldLock, RoundsMade, Rounds, AboutToList, InARound, BeingShut, BeingListed
  <2> QED BY <2>1, <2>2, <2>3, <2>4 DEF ContextsInv
<1>16. ASSUME NEW t \in Threads, NEW c \in Contexts, NEW where \in Paths, SetDownload(t, c, where)
      PROVE  ContextsInv'
  <2>1. ListersHoldLock'
    BY <1>16 DEF SetDownload, ListersHoldLock
  <2>2. RoundsMade'
    BY <1>16 DEF SetDownload, RoundsMade, Rounds
  <2>3. Listed'
    BY <1>16 DEF SetDownload, Listed, ListersHoldLock, BeingListed, BeingShut
  <2>4. ClosedIsListed'
    BY <1>16 DEF SetDownload, ClosedIsListed, Listed, ListersHoldLock, RoundsMade, Rounds, AboutToList, InARound, BeingShut, BeingListed
  <2> QED BY <2>1, <2>2, <2>3, <2>4 DEF ContextsInv
<1>17. ASSUME NEW t \in Threads, ListPages(t)
      PROVE  ContextsInv'
  <2>1. ListersHoldLock'
    BY <1>17 DEF ListPages, ListersHoldLock
  <2>2. RoundsMade'
    BY <1>17 DEF ListPages, RoundsMade, Rounds
  <2>3. Listed'
    BY <1>17 DEF ListPages, Listed, ListersHoldLock, BeingListed, BeingShut
  <2>4. ClosedIsListed'
    BY <1>17 DEF ListPages, ClosedIsListed, Listed, ListersHoldLock, RoundsMade, Rounds, AboutToList, InARound, BeingShut, BeingListed
  <2> QED BY <2>1, <2>2, <2>3, <2>4 DEF ContextsInv
<1>18. ASSUME NEW t \in Threads, NEW p \in Pages, TellPage(t, p)
      PROVE  ContextsInv'
  <2>1. ListersHoldLock'
    BY <1>18 DEF TellPage, ListersHoldLock
  <2>2. RoundsMade'
    BY <1>18 DEF TellPage, RoundsMade, Rounds
  <2>3. Listed'
    BY <1>18 DEF TellPage, Listed, ListersHoldLock, BeingListed, BeingShut
  <2>4. ClosedIsListed'
    BY <1>18 DEF TellPage, ClosedIsListed, Listed, ListersHoldLock, RoundsMade, Rounds, AboutToList, InARound, BeingShut, BeingListed
  <2> QED BY <2>1, <2>2, <2>3, <2>4 DEF ContextsInv
<1>19. ASSUME NEW t \in Threads, Told(t)
      PROVE  ContextsInv'
  <2>1. ListersHoldLock'
    BY <1>19 DEF Told, ListersHoldLock
  <2>2. RoundsMade'
    BY <1>19 DEF Told, RoundsMade, Rounds
  <2>3. Listed'
    BY <1>19 DEF Told, Listed, ListersHoldLock, BeingListed, BeingShut
  <2>4. ClosedIsListed'
    BY <1>19 DEF Told, ClosedIsListed, Listed, ListersHoldLock, RoundsMade, Rounds, AboutToList, InARound, BeingShut, BeingListed
  <2> QED BY <2>1, <2>2, <2>3, <2>4 DEF ContextsInv
<1>20. ASSUME NEW p \in Pages, Exit(p)
      PROVE  ContextsInv'
  <2>1. ListersHoldLock'
    BY <1>20 DEF Exit, ListersHoldLock
  <2>2. RoundsMade'
    BY <1>20 DEF Exit, RoundsMade, Rounds
  <2>3. Listed'
    BY <1>20 DEF Exit, Listed, ListersHoldLock, BeingListed, BeingShut
  <2>4. ClosedIsListed'
    BY <1>20 DEF Exit, ClosedIsListed, Listed, ListersHoldLock, RoundsMade, Rounds, AboutToList, InARound, BeingShut, BeingListed
  <2> QED BY <2>1, <2>2, <2>3, <2>4 DEF ContextsInv
<1>21. CASE UNCHANGED vars
  BY <1>21 DEF ContextsInv, ListersHoldLock, RoundsMade, Listed, ClosedIsListed, Rounds, BeingListed, BeingShut, AboutToList, InARound, vars
<1> HIDE DEF TypeOK, ContextsInv, listVars, pageVars, threadVars, At, Goto, Alive, Asked
<1>22. ASSUME NEW t \in Threads, ThreadNext(t) PROVE ContextsInv'
  BY <1>1, <1>2, <1>3, <1>4, <1>5, <1>6, <1>7, <1>8, <1>9, <1>10, <1>11, <1>12, <1>13, <1>14, <1>15, <1>16, <1>17, <1>18, <1>19, <1>22 DEF ThreadNext
<1> QED
  BY <1>20, <1>21, <1>22 DEF Next

-----------------------------------------------------------------------------
LEMMA InitIInv == Init => IInv
<1> SUFFICES ASSUME Init PROVE IInv
  OBVIOUS
<1>1. TypeOK
  BY BrowserAssumption DEF Init, TypeOK, LocksHeld
<1>2. PagesInv
  BY DEF Init, PagesInv, HandsFull, Carrying, PushersHoldLock, Accounted, ClosedIsTaken
<1>3. ContextsInv
  BY DEF Init, ContextsInv, ListersHoldLock, RoundsMade, Listed, ClosedIsListed
<1> QED BY <1>1, <1>2, <1>3 DEF IInv

LEMMA IInvStep == IInv /\ [Next]_vars => IInv'
BY TypeStep, PagesStep, ContextsStep DEF IInv, PagesInv

LEMMA IInvAlways == Spec => []IInv
BY InitIInv, IInvStep, PTL DEF Spec

(* Every variable keeps its type for any number of threads, contexts and   *)
(* pages.                                                                  *)
THEOREM TypeCorrect == Spec => []TypeOK
<1>1. IInv => TypeOK
  BY DEF IInv
<1> QED BY <1>1, IInvAlways, PTL

(* `BrowserContext::close` and `Browser::close` leave no page running and  *)
(* no context open, however many threads open, create and close at once.   *)
THEOREM NobodyIsLeftBehind == Spec => []NobodyLeftBehind
<1>1. IInv => NoPageLeftBehind
  <2> SUFFICES ASSUME IInv, NEW c \in Contexts, closed[c], Settled(c),
                      NEW p \in Pages, home[p] = c, state[p] = "running"
               PROVE  FALSE
    BY DEF NoPageLeftBehind
  <2>1. \A t \in Threads : ctx[t] = c => pc[t] \in {"idle", "looking", "telling", "listing"}
    BY DEF Settled
  <2>2. ~Taken(c) /\ ~BeingClosed(p)
    BY <2>1 DEF Taken, BeingClosed
  <2>3. ~InHand(p)
    BY <2>1 DEF InHand, Carrying, IInv, PagesInv, HandsFull
  <2>4. pages[c] = {}
    BY <2>2 DEF IInv, PagesInv, ClosedIsTaken
  <2> QED BY <2>2, <2>3, <2>4 DEF IInv, PagesInv, Accounted
<1>2. IInv => NoContextLeftBehind
  BY DEF IInv, TypeOK, ContextsInv, ClosedIsListed, AboutToList, InARound, RoundsMade, Rounds,
         BeingShut, NoContextLeftBehind
<1> QED BY <1>1, <1>2, IInvAlways, PTL DEF NobodyLeftBehind
=============================================================================
