-------------------------- MODULE TargetAttachProofs --------------------------
(***************************************************************************)
(* Proofs about TargetAttach: type correctness with the lock's discipline, *)
(* that auto-attach gives a target at most one session, that nothing it    *)
(* made outlives its target once all is quiet, that the driver hears of    *)
(* things in order, and that no target is forgotten.                       *)
(*                                                                         *)
(* The argument for the second: a session that auto-attach made is covered *)
(* by a claim for as long as its target lives, because claims are taken    *)
(* back only for targets that are gone (Covered, GoneAreGone), and a       *)
(* thread about to insert one holds the lock and has made sure, since it   *)
(* took it, that there is none (NoRival).                                  *)
(***************************************************************************)
EXTENDS TargetAttach, SequenceTheorems, TLAPS

-----------------------------------------------------------------------------
\* Which jobs the steps on the way to the lock, and under it, belong to.
StepFits(th) ==
  /\ run[th].step \in {"register", "check", "claim", "late"} \union Locked => run[th].target \in Targets
  /\ run[th].step \in {"check", "claim", "info", "announce", "other"} => run[th].job # "attach"
  /\ run[th].step = "other" => run[th].job = "autoAttach"
  /\ run[th].step \in {"unclaim", "unannounce", "detach"} => run[th].job = "destroyed"
  /\ run[th].step = "register" => run[th].job = "create"
  /\ run[th].step \in {"flag", "snapshot", "each", "forget"} => run[th].job \in {"discover", "autoAttach"}

StepsFit == \A th \in Threads : StepFits(th)

\* Targets do not come back, so a `Destroyed` signal stays true.
Gone == born \ registry

GoneAreGone ==
  /\ \A i \in 1 .. Len(signals) : signals[i].kind = "destroyed" => signals[i].target \in Gone
  /\ \A th \in Threads : run[th].job = "destroyed" => run[th].target \in Gone

\* Every session auto-attach made is claimed or its target is gone.
Covered == \A s \in sessions : s.auto => s.target \in born /\ s.target \in claimed \union Gone

\* No session that auto-attach made for t.
NoAuto(t) == \A s \in sessions : s.auto => s.target # t

\* What the holder of the lock knows of its target at each step up to the
\* insertion.
HolderKnows(th) ==
  /\ run[th].target \in claimed
  /\ run[th].step = "info" /\ run[th].job # "autoAttach" => NoAuto(run[th].target) \/ run[th].target \in Gone
  /\ run[th].step = "announce" /\ run[th].job # "autoAttach" => NoAuto(run[th].target)
  /\ run[th].step \in {"look", "insert"} => NoAuto(run[th].target)
  /\ run[th].step = "insert" => run[th].target \in born

NoRival == \A th \in Threads : holder = th => HolderKnows(th)

IInv == TypeOK /\ StepsFit /\ GoneAreGone /\ Covered /\ NoRival /\ AutoAttachedOnce

-----------------------------------------------------------------------------
(***************************************************************************)
(* What the helpers do to `run`, so that the proofs below need not open    *)
(* them.                                                                   *)
(***************************************************************************)
OthersStay(th) ==
  \A x \in Threads \ {th} :
    run'[x].step = run[x].step /\ run'[x].job = run[x].job /\ run'[x].target = run[x].target

Moved(th, step) ==
  /\ run' \in [Threads -> Runs]
  /\ run'[th].step = step
  /\ run'[th].job = run[th].job /\ run'[th].target = run[th].target
  /\ run'[th].todo = run[th].todo /\ run'[th].on = run[th].on
  /\ OthersStay(th)

LEMMA GoMoves ==
  ASSUME run \in [Threads -> Runs], NEW th \in Threads, NEW step \in Steps, Go(th, step)
  PROVE  Moved(th, step)
<1>1. run'[th] = [run[th] EXCEPT !.step = step] /\ run[th] \in Runs
  BY DEF Go
<1>2. run'[th] \in Runs
  BY <1>1 DEF Runs
<1>3. run' \in [Threads -> Runs]
  BY <1>2 DEF Go
<1>4. /\ run'[th].step = step /\ run'[th].job = run[th].job /\ run'[th].target = run[th].target
      /\ run'[th].todo = run[th].todo /\ run'[th].on = run[th].on
  BY <1>1 DEF Runs
<1> QED BY <1>3, <1>4 DEF Moved, OthersStay, Go

\* Where `Return` goes.
LEMMA AfterWhere ==
  ASSUME NEW th \in Threads
  PROVE  /\ After(th) \in {"each", "late", "reply"} /\ After(th) \in Steps
         /\ After(th) = "each" => run[th].job = "autoAttach"
  BY DEF After, Steps

LEMMA ReturnMoves ==
  ASSUME run \in [Threads -> Runs], NEW th \in Threads, Return(th)
  PROVE  /\ Moved(th, After(th))
         /\ holder' = IF holder = th THEN "none" ELSE holder
  BY AfterWhere, GoMoves DEF Return

LEMMA StopIdles ==
  ASSUME run \in [Threads -> Runs], NEW th \in Threads, Stop(th)
  PROVE  run' \in [Threads -> Runs] /\ run'[th] = Idle /\ OthersStay(th)
<1>1. Idle \in Runs
  BY DEF Idle, Runs, Jobs, Steps
<1> QED BY <1>1 DEF Stop, OthersStay

\* How a thread starts on something new.
Started(th, r) == run' \in [Threads -> Runs] /\ run'[th] = r /\ OthersStay(th)

LEMMA Starts ==
  ASSUME run \in [Threads -> Runs], NEW th \in Threads, NEW r \in Runs, run' = [run EXCEPT ![th] = r]
  PROVE  Started(th, r)
  BY DEF Started, OthersStay

Order(job, t, on) == [job |-> job, step |-> FirstStep(job), target |-> t, todo |-> {}, on |-> on]

LEMMA ReceiveStarts ==
  ASSUME run \in [Threads -> Runs], NEW l \in Lanes,
         NEW job \in {"discover", "autoAttach", "create", "attach"},
         NEW t \in Targets \union {NoTarget}, NEW on \in BOOLEAN, Receive(l, job, t, on)
  PROVE  Started(l, Order(job, t, on)) /\ run[l].step = "idle"
<1>1. l \in Threads
  BY DEF Threads
<1>2. FirstStep(job) \in Steps /\ job \in Jobs
  BY DEF FirstStep, Steps, Jobs
<1>3. Order(job, t, on) \in Runs
  BY <1>2 DEF Runs, Order
<1> QED BY <1>1, <1>3, Starts DEF Receive, Order, At

\* A thread that moves between steps outside the lock, or between steps under
\* it, leaves the discipline as it was.
LEMMA LockUntouched ==
  ASSUME LockDiscipline, NEW th \in Threads, OthersStay(th), UNCHANGED holder,
         (run'[th].step \in Locked /\ run'[th].job # "attach") <=> (run[th].step \in Locked /\ run[th].job # "attach")
  PROVE  LockDiscipline'
  BY DEF LockDiscipline, OthersStay

LEMMA FitKept ==
  ASSUME StepsFit, NEW th \in Threads, OthersStay(th), StepFits(th)'
  PROVE  StepsFit'
  BY DEF StepsFit, StepFits, OthersStay

-----------------------------------------------------------------------------
(***************************************************************************)
(* Type correctness.                                                       *)
(***************************************************************************)
\* The part of the type invariant that is not about `run`.
DataOK ==
  /\ registry \subseteq born /\ born \subseteq Targets
  /\ signals \in Seq([kind : {"created", "destroyed"}, target : Targets])
  /\ discover \in BOOLEAN /\ autoAttach \in BOOLEAN
  /\ announced \subseteq Targets /\ claimed \subseteq Targets
  /\ holder \in Threads \union {"none"}
  /\ sessions \subseteq [id : Nat, target : Targets, auto : BOOLEAN]
  /\ minted \in Nat
  /\ commands \in 0 .. MaxCommands
  /\ reported \subseteq Targets /\ told \subseteq Targets
  /\ sure \subseteq {"discover", "autoAttach"}

LEMMA TypeParts == TypeOK <=> DataOK /\ run \in [Threads -> Runs] /\ LockDiscipline
  BY DEF TypeOK, DataOK

LEMMA DataKept ==
  ASSUME TypeOK, StepsFit, [Next]_vars
  PROVE  DataOK'
<1> USE LanesAssumption, MaxCommandsAssumption DEF TypeOK, DataOK, world, switches, history
<1>1. CASE \E job \in {"discover", "autoAttach"}, on \in BOOLEAN : ReceiveSwitch(job, on)
  BY <1>1 DEF ReceiveSwitch, Receive
<1>2. CASE \E l \in Lanes, t \in Targets : ReceiveCreate(l, t)
  BY <1>2 DEF ReceiveCreate, Receive
<1>3. CASE \E l \in Lanes, t \in Targets : ReceiveAttach(l, t)
  BY <1>3 DEF ReceiveAttach, Receive
<1>4. CASE \E l \in Lanes, s \in sessions : Detach(l, s)
  BY <1>4 DEF Detach
<1>5. CASE \E t \in Targets : CreateElsewhere(t)
  BY <1>5 DEF CreateElsewhere, Register
<1>6. CASE \E t \in Targets : Destroy(t)
  BY <1>6 DEF Destroy
<1>7. CASE \E l \in Lanes : Swap(l)
  <2>1. PICK l \in Lanes : Swap(l)
    BY <1>7
  <2>2. run[l].on \in BOOLEAN
    BY DEF Threads, Runs
  <2> QED BY <2>1, <2>2 DEF Swap
<1>8. CASE \E l \in Lanes : Snapshot(l)
  BY <1>8 DEF Snapshot
<1>9. CASE \E l \in Lanes : Each(l)
  <2>1. PICK l \in Lanes : Each(l)
    BY <1>9
  <2>2. run[l].todo \subseteq Targets
    BY DEF Threads, Runs
  <2> QED BY <2>1, <2>2 DEF Each, Announce
<1>10. CASE \E l \in Lanes : Forget(l)
  BY <1>10 DEF Forget
<1>11. CASE \E l \in Lanes : CreateHere(l)
  <2>1. PICK l \in Lanes : CreateHere(l)
    BY <1>11
  <2>2. run[l].target \in Targets
    BY <2>1 DEF CreateHere, At, StepsFit, StepFits, Threads
  <2> QED BY <2>1, <2>2 DEF CreateHere, Register
<1>12. CASE \E l \in Lanes : Reply(l)
  BY <1>12 DEF Reply
<1>13. CASE \E th \in Threads : Check(th)
  BY <1>13 DEF Check
<1>14. CASE \E th \in Threads : Claim(th)
  <2>1. PICK th \in Threads : Claim(th)
    BY <1>14
  <2>2. run[th].target \in Targets
    BY <2>1 DEF Claim, At, StepsFit, StepFits, Locked
  <2> QED BY <2>1, <2>2 DEF Claim
<1>15. CASE \E th \in Threads : LookUp(th)
  BY <1>15 DEF LookUp, Return
<1>16. CASE \E th \in Threads : AnnounceClaimed(th)
  <2>1. PICK th \in Threads : AnnounceClaimed(th)
    BY <1>16
  <2>2. run[th].target \in Targets
    BY <2>1 DEF AnnounceClaimed, At, StepsFit, StepFits, Locked
  <2> QED BY <2>1, <2>2 DEF AnnounceClaimed, Announce
<1>17. CASE \E th \in Threads : LeaveAttached(th)
  BY <1>17 DEF LeaveAttached, Return
<1>18. CASE \E th \in Threads : AttachLook(th)
  BY <1>18 DEF AttachLook, Return
<1>19. CASE \E th \in Threads : AttachInsert(th)
  <2>1. PICK th \in Threads : AttachInsert(th)
    BY <1>19
  <2>2. run[th].target \in Targets
    BY <2>1 DEF AttachInsert, At, StepsFit, StepFits, Locked
  <2> DEFINE new == [id |-> minted, target |-> run[th].target, auto |-> run[th].job # "attach"]
  <2>3. new \in [id : Nat, target : Targets, auto : BOOLEAN] /\ sessions' = sessions \union {new}
    BY <2>1, <2>2 DEF AttachInsert
  <2>4. /\ minted' = minted + 1
        /\ UNCHANGED <<world, signals, switches, announced, claimed, holder, commands, history>>
    BY <2>1 DEF AttachInsert
  <2> HIDE DEF new
  <2> QED BY <2>3, <2>4
<1>20. CASE \E th \in Threads : AttachInfo(th)
  BY <1>20 DEF AttachInfo, Return
<1>21. CASE \E th \in Threads : AttachEmit(th)
  <2>1. PICK th \in Threads : AttachEmit(th)
    BY <1>21
  <2>2. run[th].target \in Targets
    BY <2>1 DEF AttachEmit, At, StepsFit, StepFits, Locked
  <2> QED BY <2>1, <2>2 DEF AttachEmit, Return
<1>22. CASE TakeSignal
  BY <1>22 DEF TakeSignal
<1>23. CASE LateAnnounce
  <2>1. run["events"].target \in Targets
    BY <1>23 DEF LateAnnounce, At, StepsFit, StepFits, Threads
  <2> QED BY <1>23, <2>1 DEF LateAnnounce, Announce
<1>24. CASE Unclaim
  BY <1>24 DEF Unclaim
<1>25. CASE Unannounce
  BY <1>25 DEF Unannounce
<1>26. CASE DetachAll
  BY <1>26 DEF DetachAll
<1>27. CASE UNCHANGED vars
  BY <1>27 DEF vars
<1> QED
  BY <1>1, <1>2, <1>3, <1>4, <1>5, <1>6, <1>7, <1>8, <1>9, <1>10, <1>11, <1>12, <1>13, <1>14, <1>15, <1>16, <1>17, <1>18, <1>19, <1>20, <1>21, <1>22, <1>23, <1>24, <1>25, <1>26, <1>27
  DEF Next, Driver, Others, Command, Attaching, HandleSignal

\* The part that is about `run`: its type, the lock and the steps.
RunOK == run \in [Threads -> Runs] /\ LockDiscipline /\ StepsFit

LEMMA MoveKeeps ==
  ASSUME RunOK, NEW th \in Threads, NEW step \in Steps, Go(th, step), UNCHANGED holder,
         StepFits(th)',
         run[th].step \in Locked <=> step \in Locked
  PROVE  RunOK'
<1>1. Moved(th, step)
  BY GoMoves DEF RunOK
<1> QED BY <1>1, LockUntouched, FitKept DEF Moved, RunOK

LEMMA ReturnKeeps ==
  ASSUME RunOK, NEW th \in Threads, Return(th), run[th].step \in Locked
  PROVE  RunOK'
<1>1. Moved(th, After(th)) /\ holder' = IF holder = th THEN "none" ELSE holder
  BY ReturnMoves DEF RunOK
<1>2. After(th) \notin Locked /\ After(th) \in {"each", "late", "reply"}
  BY AfterWhere DEF Locked
<1>3. StepFits(th)'
  BY <1>1, <1>2, AfterWhere DEF Moved, StepFits, RunOK, StepsFit
<1>4. LockDiscipline'
  BY <1>1, <1>2, LanesAssumption DEF Moved, OthersStay, LockDiscipline, RunOK, Threads
<1> QED BY <1>1, <1>3, <1>4, FitKept DEF Moved, RunOK

LEMMA StartKeeps ==
  ASSUME RunOK, NEW th \in Threads, NEW r, Started(th, r), UNCHANGED holder,
         run[th].step \notin Locked,
         r.step \in Locked => r.job = "attach",
         StepFits(th)'
  PROVE  RunOK'
<1>1. LockDiscipline'
  BY LockUntouched DEF RunOK, Started
<1> QED BY <1>1, FitKept DEF RunOK, Started

LEMMA StopKeeps ==
  ASSUME RunOK, NEW th \in Threads, Stop(th), UNCHANGED holder, run[th].step \notin Locked
  PROVE  RunOK'
<1>1. Started(th, Idle)
  BY StopIdles DEF RunOK, Started
<1>2. Idle.step = "idle"
  BY DEF Idle
<1>3. StepFits(th)'
  BY <1>1, <1>2 DEF Started, StepFits, Locked
<1> QED BY <1>1, <1>2, <1>3, StartKeeps DEF Locked

LEMMA RunKept ==
  ASSUME TypeOK, StepsFit, [Next]_vars
  PROVE  RunOK'
<1> RunOK
  BY DEF RunOK, TypeOK
<1> USE DEF RunOK
<1>1. CASE \E job \in {"discover", "autoAttach"}, on \in BOOLEAN : ReceiveSwitch(job, on)
  <2>1. PICK job \in {"discover", "autoAttach"}, on \in BOOLEAN : ReceiveSwitch(job, on)
    BY <1>1
  <2>2. Started(BrowserLane, Order(job, NoTarget, on)) /\ run[BrowserLane].step = "idle"
    BY <2>1, LanesAssumption, ReceiveStarts DEF ReceiveSwitch
  <2>3. StepFits(BrowserLane)'
    BY <2>2 DEF Started, Order, FirstStep, StepFits, Locked
  <2> QED BY <2>1, <2>2, <2>3, LanesAssumption, StartKeeps DEF ReceiveSwitch, Order, FirstStep, Locked, Threads
<1>2. CASE \E l \in Lanes, t \in Targets : ReceiveCreate(l, t)
  <2>1. PICK l \in Lanes, t \in Targets : ReceiveCreate(l, t)
    BY <1>2
  <2> DEFINE on == "autoAttach" \in sure
  <2>2. on \in BOOLEAN /\ Receive(l, "create", t, on)
    BY <2>1 DEF ReceiveCreate
  <2> HIDE DEF on
  <2>3. Started(l, Order("create", t, on)) /\ run[l].step = "idle"
    BY <2>2, ReceiveStarts
  <2>4. StepFits(l)'
    BY <2>3 DEF Started, Order, FirstStep, StepFits, Locked
  <2> QED BY <2>1, <2>3, <2>4, StartKeeps DEF ReceiveCreate, Order, FirstStep, Locked, Threads
<1>3. CASE \E l \in Lanes, t \in Targets : ReceiveAttach(l, t)
  <2>1. PICK l \in Lanes, t \in Targets : ReceiveAttach(l, t)
    BY <1>3
  <2>2. Started(l, Order("attach", t, FALSE)) /\ run[l].step = "idle"
    BY <2>1, ReceiveStarts DEF ReceiveAttach
  <2>3. StepFits(l)'
    BY <2>2 DEF Started, Order, FirstStep, StepFits, Locked
  <2> QED BY <2>1, <2>2, <2>3, StartKeeps DEF ReceiveAttach, Order, FirstStep, Locked, Threads
<1>4. CASE \E l \in Lanes, s \in sessions : Detach(l, s)
  BY <1>4 DEF Detach, RunOK, LockDiscipline, StepsFit, StepFits
<1>5. CASE \E t \in Targets : CreateElsewhere(t)
  BY <1>5 DEF CreateElsewhere, RunOK, LockDiscipline, StepsFit, StepFits
<1>6. CASE \E t \in Targets : Destroy(t)
  BY <1>6 DEF Destroy, RunOK, LockDiscipline, StepsFit, StepFits
<1>7. CASE \E l \in Lanes : Swap(l)
  <2>1. PICK l \in Lanes : Swap(l)
    BY <1>7
  <2> DEFINE to == IF run[l].job = "discover"
                     THEN IF run[l].on = discover THEN "reply" ELSE IF run[l].on THEN "snapshot" ELSE "forget"
                     ELSE IF run[l].on /\ ~autoAttach THEN "snapshot" ELSE "reply"
  <2>2. l \in Threads /\ run[l].step = "flag" /\ run[l].job \in {"discover", "autoAttach"} /\ UNCHANGED holder
    BY <2>1 DEF Swap, At, Threads, StepsFit, StepFits
  <2>3. to \in {"reply", "snapshot", "forget"}
    OBVIOUS
  <2>4. CASE run[l].job = "discover"
    <3>1. Go(l, to)
      BY <2>1, <2>4 DEF Swap
    <3>2. Moved(l, to)
      BY <3>1, <2>2, <2>3, GoMoves DEF Steps
    <3>3. StepFits(l)'
      BY <3>2, <2>2, <2>3 DEF Moved, StepFits, Locked
    <3> QED BY <2>2, <2>3, <3>1, <3>3, MoveKeeps DEF Steps, Locked
  <2>5. CASE run[l].job # "discover"
    <3> DEFINE on == run[l].on /\ (autoAttach => "autoAttach" \in sure)
               new(x) == IF x = l THEN [run[l] EXCEPT !.step = to, !.on = on]
                         ELSE IF run[x].job = "create" /\ ~run[l].on THEN [run[x] EXCEPT !.on = FALSE]
                         ELSE run[x]
    <3>1. run' = [x \in Threads |-> new(x)]
      BY <2>1, <2>5 DEF Swap
    <3> on \in BOOLEAN
      OBVIOUS
    <3> HIDE DEF on
    <3>2. \A x \in Threads : new(x) \in Runs
      BY <2>2, <2>3 DEF Runs, Steps
    <3>3. \A x \in Threads \ {l} :
            new(x).step = run[x].step /\ new(x).job = run[x].job /\ new(x).target = run[x].target
      BY DEF Runs
    <3>4. new(l).step = to /\ new(l).job = run[l].job /\ new(l).target = run[l].target
      BY <2>2 DEF Runs
    <3> HIDE DEF new, to
    <3>5. Started(l, new(l))
      BY <2>2, <3>1, <3>2, <3>3 DEF Started, OthersStay
    <3>6. StepFits(l)'
      BY <2>2, <2>3, <3>4, <3>5 DEF Started, StepFits, Locked
    <3> QED BY <2>2, <2>3, <3>4, <3>5, <3>6, StartKeeps DEF Locked
  <2> QED BY <2>4, <2>5
<1>8. CASE \E l \in Lanes : Snapshot(l)
  <2>1. PICK l \in Lanes : Snapshot(l)
    BY <1>8
  <2> DEFINE new == [run[l] EXCEPT !.todo = registry, !.step = "each"]
  <2>2. l \in Threads /\ run[l].step = "snapshot" /\ run[l].job \in {"discover", "autoAttach"} /\ UNCHANGED holder
    BY <2>1 DEF Snapshot, At, Threads, StepsFit, StepFits
  <2>3. new \in Runs /\ new.step = "each" /\ new.job = run[l].job
    BY <2>2 DEF Runs, Steps, TypeOK
  <2>4. run' = [run EXCEPT ![l] = new]
    BY <2>1, <2>2 DEF Snapshot
  <2> HIDE DEF new
  <2>5. Started(l, new)
    BY <2>2, <2>3, <2>4, Starts
  <2>6. StepFits(l)'
    BY <2>2, <2>3, <2>5 DEF Started, StepFits, Locked
  <2> QED BY <2>2, <2>3, <2>5, <2>6, StartKeeps DEF Locked
<1>9. CASE \E l \in Lanes : Each(l)
  <2>1. PICK l \in Lanes : Each(l)
    BY <1>9
  <2>2. l \in Threads /\ run[l].step = "each" /\ run[l].job \in {"discover", "autoAttach"} /\ UNCHANGED holder
    BY <2>1 DEF Each, At, Threads, StepsFit, StepFits
  <2>3. CASE Go(l, "reply")
    <3>1. Moved(l, "reply")
      BY <2>2, <2>3, GoMoves DEF Steps
    <3>2. StepFits(l)'
      BY <3>1 DEF Moved, StepFits, Locked
    <3> QED BY <2>2, <2>3, <3>2, MoveKeeps DEF Steps, Locked
  <2>4. CASE ~Go(l, "reply")
    <3>1. PICK t \in run[l].todo :
            IF run[l].job = "discover"
              THEN run' = [run EXCEPT ![l].todo = run[l].todo \ {t}]
              ELSE run' = [run EXCEPT ![l].todo = run[l].todo \ {t}, ![l].target = t, ![l].step = "claim"]
      BY <2>1, <2>4 DEF Each
    <3>2. run[l].todo \subseteq Targets /\ t \in Targets
      BY <2>2 DEF Runs
    <3>3. CASE run[l].job = "discover"
      <4> DEFINE new == [run[l] EXCEPT !.todo = run[l].todo \ {t}]
      <4>1. new \in Runs /\ new.step = "each" /\ new.job = run[l].job
        BY <2>2, <3>2 DEF Runs
      <4>2. run' = [run EXCEPT ![l] = new]
        BY <2>2, <3>1, <3>3
      <4> HIDE DEF new
      <4>3. Started(l, new)
        BY <2>2, <4>1, <4>2, Starts
      <4>4. StepFits(l)'
        BY <2>2, <4>1, <4>3 DEF Started, StepFits, Locked
      <4> QED BY <2>2, <4>1, <4>3, <4>4, StartKeeps DEF Locked
    <3>4. CASE run[l].job # "discover"
      <4> DEFINE new == [run[l] EXCEPT !.todo = run[l].todo \ {t}, !.target = t, !.step = "claim"]
      <4>1. new \in Runs /\ new.step = "claim" /\ new.job = run[l].job /\ new.target = t
        BY <2>2, <3>2 DEF Runs, Steps
      <4>2. run' = [run EXCEPT ![l] = new]
        BY <2>2, <3>1, <3>4
      <4> HIDE DEF new
      <4>3. Started(l, new)
        BY <2>2, <4>1, <4>2, Starts
      <4>4. StepFits(l)'
        BY <2>2, <3>2, <4>1, <4>3 DEF Started, StepFits, Locked
      <4> QED BY <2>2, <4>1, <4>3, <4>4, StartKeeps DEF Locked
    <3> QED BY <3>3, <3>4
  <2> QED BY <2>3, <2>4
<1>10. CASE \E l \in Lanes : Forget(l)
  <2>1. PICK l \in Lanes : Forget(l)
    BY <1>10
  <2>2. Go(l, "reply") /\ Moved(l, "reply")
    BY <2>1, GoMoves DEF Forget, Steps, Threads
  <2>3. StepFits(l)'
    BY <2>1, <2>2 DEF Forget, At, Moved, StepFits, StepsFit, Threads, Locked
  <2> QED BY <2>1, <2>2, <2>3, MoveKeeps DEF Forget, At, Steps, Locked, Threads
<1>11. CASE \E l \in Lanes : CreateHere(l)
  <2>1. PICK l \in Lanes : CreateHere(l)
    BY <1>11
  <2>2. Go(l, "check") /\ Moved(l, "check")
    BY <2>1, GoMoves DEF CreateHere, Steps, Threads
  <2>3. StepFits(l)'
    BY <2>1, <2>2 DEF CreateHere, At, Moved, StepFits, StepsFit, Threads, Locked
  <2> QED BY <2>1, <2>2, <2>3, MoveKeeps DEF CreateHere, At, Steps, Locked, Threads
<1>12. CASE \E l \in Lanes : Reply(l)
  BY <1>12, StopKeeps DEF Reply, At, Locked, Threads
<1>13. CASE \E th \in Threads : Check(th)
  <2>1. PICK th \in Threads : Check(th)
    BY <1>13
  <2> DEFINE to == IF autoAttach THEN "claim" ELSE After(th)
  <2>2. to \in Steps /\ Go(th, to)
    BY <2>1, AfterWhere DEF Check, Steps
  <2>3. Moved(th, to)
    BY <2>2, GoMoves
  <2>4. StepFits(th)'
    BY <2>1, <2>3, AfterWhere DEF Check, At, Moved, StepFits, StepsFit, Locked
  <2>5. run[th].step \in Locked <=> to \in Locked
    BY <2>1, AfterWhere DEF Check, At, Locked
  <2> QED BY <2>1, <2>2, <2>4, <2>5, MoveKeeps DEF Check
<1>14. CASE \E th \in Threads : Claim(th)
  <2>1. PICK th \in Threads : Claim(th)
    BY <1>14
  <2>2. run[th].step = "claim" /\ holder = "none" /\ run[th].job # "attach" /\ run[th].target \in Targets
    BY <2>1 DEF Claim, At, StepsFit, StepFits
  <2>3. CASE run[th].target \in claimed /\ run[th].job # "autoAttach"
    <3>1. Go(th, After(th)) /\ UNCHANGED holder
      BY <2>1, <2>3 DEF Claim
    <3>2. Moved(th, After(th))
      BY <3>1, AfterWhere, GoMoves
    <3>3. StepFits(th)'
      BY <2>2, <3>2, AfterWhere DEF Moved, StepFits, Locked
    <3> QED BY <2>2, <3>1, <3>3, AfterWhere, MoveKeeps DEF Locked
  <2>4. CASE ~(run[th].target \in claimed /\ run[th].job # "autoAttach")
    <3>1. Go(th, "info") /\ holder' = th
      BY <2>1, <2>4 DEF Claim
    <3>2. Moved(th, "info")
      BY <3>1, GoMoves DEF Steps
    <3>3. StepFits(th)'
      BY <2>2, <3>2 DEF Moved, StepFits, Locked
    <3>4. \A x \in Threads : ~(run[x].step \in Locked /\ run[x].job # "attach")
      BY <2>2, LanesAssumption DEF LockDiscipline, Threads
    <3>5. run'[th].step \in Locked /\ run'[th].job # "attach"
      BY <2>2, <3>2 DEF Moved, Locked
    <3>6. LockDiscipline'
      BY <3>1, <3>2, <3>4, <3>5 DEF Moved, OthersStay, LockDiscipline
    <3> QED BY <3>2, <3>3, <3>6, FitKept DEF Moved
  <2> QED BY <2>3, <2>4
<1>15. CASE \E th \in Threads : LookUp(th)
  <2>1. PICK th \in Threads : LookUp(th)
    BY <1>15
  <2>2. CASE run[th].target \in registry
    <3>1. Go(th, "announce") /\ UNCHANGED holder
      BY <2>1, <2>2 DEF LookUp
    <3>2. Moved(th, "announce")
      BY <3>1, GoMoves DEF Steps
    <3>3. StepFits(th)'
      BY <2>1, <3>2 DEF LookUp, At, Moved, StepFits, StepsFit, Locked
    <3> QED BY <2>1, <3>1, <3>3, MoveKeeps DEF LookUp, At, Steps, Locked
  <2>3. CASE ~(run[th].target \in registry)
    BY <2>1, <2>3, ReturnKeeps DEF LookUp, At, Locked
  <2> QED BY <2>2, <2>3
<1>16. CASE \E th \in Threads : AnnounceClaimed(th)
  <2>1. PICK th \in Threads : AnnounceClaimed(th)
    BY <1>16
  <2> DEFINE to == IF run[th].job = "autoAttach" THEN "other" ELSE "look"
  <2>2. to \in Steps /\ Go(th, to)
    BY <2>1, AfterWhere DEF AnnounceClaimed, Steps
  <2>3. Moved(th, to)
    BY <2>2, GoMoves
  <2>4. StepFits(th)'
    BY <2>1, <2>3, AfterWhere DEF AnnounceClaimed, At, Moved, StepFits, StepsFit, Locked
  <2>5. run[th].step \in Locked <=> to \in Locked
    BY <2>1, AfterWhere DEF AnnounceClaimed, At, Locked
  <2> QED BY <2>1, <2>2, <2>4, <2>5, MoveKeeps DEF AnnounceClaimed
<1>17. CASE \E th \in Threads : LeaveAttached(th)
  <2>1. PICK th \in Threads : LeaveAttached(th)
    BY <1>17
  <2>2. CASE SessionsFor(run[th].target) = {}
    <3>1. Go(th, "look") /\ UNCHANGED holder
      BY <2>1, <2>2 DEF LeaveAttached
    <3>2. Moved(th, "look")
      BY <3>1, GoMoves DEF Steps
    <3>3. StepFits(th)'
      BY <2>1, <3>2 DEF LeaveAttached, At, Moved, StepFits, StepsFit, Locked
    <3> QED BY <2>1, <3>1, <3>3, MoveKeeps DEF LeaveAttached, At, Steps, Locked
  <2>3. CASE ~(SessionsFor(run[th].target) = {})
    BY <2>1, <2>3, ReturnKeeps DEF LeaveAttached, At, Locked
  <2> QED BY <2>2, <2>3
<1>18. CASE \E th \in Threads : AttachLook(th)
  <2>1. PICK th \in Threads : AttachLook(th)
    BY <1>18
  <2>2. run[th].step = "look" /\ run[th].target \in Targets
    BY <2>1 DEF AttachLook, At, StepsFit, StepFits, Locked
  <2>3. CASE run[th].target \in registry
    <3>1. Go(th, "insert") /\ UNCHANGED holder
      BY <2>1, <2>3 DEF AttachLook
    <3>2. Moved(th, "insert")
      BY <3>1, GoMoves DEF Steps
    <3>3. StepFits(th)'
      BY <2>2, <3>2 DEF Moved, StepFits, Locked
    <3> QED BY <2>2, <3>1, <3>3, MoveKeeps DEF Steps, Locked
  <2>4. CASE run[th].target \notin registry /\ run[th].job = "autoAttach"
    <3> DEFINE new == [run[th] EXCEPT !.step = "reply", !.todo = {}, !.on = FALSE]
    <3>1. new \in Runs /\ new.step = "reply"
      BY DEF Runs, Steps
    <3>2. run' = [run EXCEPT ![th] = new] /\ holder' = "none"
      BY <2>1, <2>4 DEF AttachLook
    <3> HIDE DEF new
    <3>3. Started(th, new)
      BY <3>1, <3>2, Starts
    <3>4. StepFits(th)'
      BY <3>1, <3>3 DEF Started, StepFits, Locked
    <3>5. holder = th
      BY <2>2, <2>4 DEF LockDiscipline, Locked
    <3>6. LockDiscipline'
      BY <3>1, <3>2, <3>3, <3>5, LanesAssumption DEF Started, OthersStay, LockDiscipline, Locked, Threads
    <3> QED BY <3>3, <3>4, <3>6, FitKept DEF Started
  <2>5. CASE run[th].target \notin registry /\ run[th].job # "autoAttach"
    BY <2>1, <2>2, <2>5, ReturnKeeps DEF AttachLook, Locked
  <2> QED BY <2>3, <2>4, <2>5
<1>19. CASE \E th \in Threads : AttachInsert(th)
  <2>1. PICK th \in Threads : AttachInsert(th)
    BY <1>19
  <2> DEFINE to == "info again"
  <2>2. to \in Steps /\ Go(th, to)
    BY <2>1, AfterWhere DEF AttachInsert, Steps
  <2>3. Moved(th, to)
    BY <2>2, GoMoves
  <2>4. StepFits(th)'
    BY <2>1, <2>3, AfterWhere DEF AttachInsert, At, Moved, StepFits, StepsFit, Locked
  <2>5. run[th].step \in Locked <=> to \in Locked
    BY <2>1, AfterWhere DEF AttachInsert, At, Locked
  <2> QED BY <2>1, <2>2, <2>4, <2>5, MoveKeeps DEF AttachInsert
<1>20. CASE \E th \in Threads : AttachInfo(th)
  <2>1. PICK th \in Threads : AttachInfo(th)
    BY <1>20
  <2>2. CASE run[th].target \in registry
    <3>1. Go(th, "emit") /\ UNCHANGED holder
      BY <2>1, <2>2 DEF AttachInfo
    <3>2. Moved(th, "emit")
      BY <3>1, GoMoves DEF Steps
    <3>3. StepFits(th)'
      BY <2>1, <3>2 DEF AttachInfo, At, Moved, StepFits, StepsFit, Locked
    <3> QED BY <2>1, <3>1, <3>3, MoveKeeps DEF AttachInfo, At, Steps, Locked
  <2>3. CASE ~(run[th].target \in registry)
    BY <2>1, <2>3, ReturnKeeps DEF AttachInfo, At, Locked
  <2> QED BY <2>2, <2>3
<1>21. CASE \E th \in Threads : AttachEmit(th)
  BY <1>21, ReturnKeeps DEF AttachEmit, At, Locked
<1>22. CASE TakeSignal
  <2> DEFINE s == Head(signals)
             new == [Idle EXCEPT !.job = s.kind, !.target = s.target,
                                 !.step = IF s.kind = "created" THEN "check" ELSE "unclaim"]
  <2>1. run["events"].step = "idle" /\ "events" \in Threads /\ UNCHANGED holder
    BY <1>22 DEF TakeSignal, At, Threads
  <2>2. s.kind \in {"created", "destroyed"} /\ s.target \in Targets
    <3>1. s \in [kind : {"created", "destroyed"}, target : Targets]
      BY <1>22, HeadTailProperties DEF TakeSignal, TypeOK
    <3> QED BY <3>1
  <2>3. /\ new \in Runs /\ new.target = s.target /\ new.job = s.kind
        /\ new.step = IF s.kind = "created" THEN "check" ELSE "unclaim"
    BY <2>2 DEF Runs, Idle, Jobs, Steps
  <2>4. run' = [run EXCEPT !["events"] = new]
    BY <1>22 DEF TakeSignal
  <2> HIDE DEF new, s
  <2>5. Started("events", new)
    BY <2>1, <2>3, <2>4, Starts
  <2>6. StepFits("events")'
    BY <2>2, <2>3, <2>5 DEF Started, StepFits, Locked
  <2> QED BY <2>1, <2>3, <2>5, <2>6, StartKeeps DEF Locked
<1>23. CASE LateAnnounce
  BY <1>23, StopKeeps DEF LateAnnounce, At, Locked, Threads
<1>24. CASE Unclaim
  <2>1. Go("events", "unannounce") /\ "events" \in Threads
    BY <1>24 DEF Unclaim, Threads
  <2>2. Moved("events", "unannounce")
    BY <2>1, GoMoves DEF Steps
  <2>3. StepFits("events")'
    BY <1>24, <2>1, <2>2 DEF Unclaim, At, Moved, StepFits, StepsFit, Locked
  <2> QED BY <1>24, <2>1, <2>3, MoveKeeps DEF Unclaim, At, Steps, Locked
<1>25. CASE Unannounce
  <2>1. Go("events", "detach") /\ "events" \in Threads
    BY <1>25 DEF Unannounce, Threads
  <2>2. Moved("events", "detach")
    BY <2>1, GoMoves DEF Steps
  <2>3. StepFits("events")'
    BY <1>25, <2>1, <2>2 DEF Unannounce, At, Moved, StepFits, StepsFit, Locked
  <2> QED BY <1>25, <2>1, <2>3, MoveKeeps DEF Unannounce, At, Steps, Locked
<1>26. CASE DetachAll
  BY <1>26, StopKeeps DEF DetachAll, At, Locked, Threads
<1>27. CASE UNCHANGED vars
  BY <1>27 DEF vars, RunOK, LockDiscipline, StepsFit, StepFits
<1> QED
  BY <1>1, <1>2, <1>3, <1>4, <1>5, <1>6, <1>7, <1>8, <1>9, <1>10, <1>11, <1>12, <1>13, <1>14, <1>15, <1>16, <1>17, <1>18, <1>19, <1>20, <1>21, <1>22, <1>23, <1>24, <1>25, <1>26, <1>27
  DEF Next, Driver, Others, Command, Attaching, HandleSignal

-----------------------------------------------------------------------------
(***************************************************************************)
(* A target that is gone stays gone.                                       *)
(***************************************************************************)
LEMMA WorldSteps ==
  ASSUME TypeOK, StepsFit, [Next]_vars
  PROVE  \/ UNCHANGED <<world, signals>>
         \/ UNCHANGED world /\ TakeSignal
         \/ \E t \in Targets : Register(t)
         \/ \E t \in Targets : Destroy(t)
<1>1. CASE \E l \in Lanes : CreateHere(l)
  BY <1>1 DEF CreateHere, At, StepsFit, StepFits, Threads
<1>2. CASE ~(\E l \in Lanes : CreateHere(l))
  BY <1>2
  DEF Next, Driver, Others, Command, Attaching, HandleSignal, vars, world,
      ReceiveSwitch, ReceiveCreate, ReceiveAttach, Detach, CreateElsewhere, Swap, Snapshot, Each, Forget,
      Reply, Check, Claim, LookUp, AnnounceClaimed, LeaveAttached, AttachLook, AttachInsert, AttachInfo,
      AttachEmit, TakeSignal, LateAnnounce, Unclaim, Unannounce, DetachAll
<1> QED BY <1>1, <1>2

LEMMA GoneGrows ==
  ASSUME TypeOK, StepsFit, [Next]_vars
  PROVE  Gone \subseteq Gone' /\ born \subseteq born'
  BY WorldSteps DEF Gone, world, Register, Destroy, TypeOK

\* Only the event thread takes on the end of a target.
NewEnds(x) ==
  run'[x].job = "destroyed" =>
    \/ run[x].job = "destroyed" /\ run'[x].target = run[x].target
    \/ TakeSignal /\ Head(signals).kind = "destroyed" /\ run'[x].target = Head(signals).target

LEMMA GoSameJob ==
  ASSUME run \in [Threads -> Runs], NEW th \in Threads, NEW step, Go(th, step), NEW x \in Threads
  PROVE  run'[x].job = run[x].job /\ run'[x].target = run[x].target
<1>1. run'[x] = IF x = th THEN [run[th] EXCEPT !.step = step] ELSE run[x]
  BY DEF Go
<1> QED BY <1>1 DEF Runs

LEMMA JobSteps ==
  ASSUME TypeOK, StepsFit, [Next]_vars, NEW x \in Threads
  PROVE  NewEnds(x)
<1> USE DEF TypeOK
<1>1. CASE \E th \in Threads : \E step : Go(th, step)
  BY <1>1, GoSameJob DEF NewEnds
<1>2. CASE \E th \in Threads : Stop(th)
  BY <1>2 DEF Stop, Idle, NewEnds
<1>3. CASE UNCHANGED run
  BY <1>3 DEF NewEnds
<1>4. CASE \E l \in Lanes, job \in {"discover", "autoAttach", "create", "attach"},
             t \in Targets \union {NoTarget} : \E on : Receive(l, job, t, on)
  BY <1>4 DEF Receive, NewEnds
<1>5. CASE \E l \in Lanes : Swap(l)
  <2>1. PICK l \in Lanes : Swap(l)
    BY <1>5
  <2>2. CASE run[l].job = "discover"
    BY <2>1, <2>2, <1>1 DEF Swap, Threads
  <2>3. CASE run[l].job # "discover"
    <3>1. run'[x] = IF x = l THEN [run[l] EXCEPT !.step = IF run[l].on /\ ~autoAttach THEN "snapshot" ELSE "reply",
                                                 !.on = run[l].on /\ (autoAttach => "autoAttach" \in sure)]
                    ELSE IF run[x].job = "create" /\ ~run[l].on THEN [run[x] EXCEPT !.on = FALSE]
                    ELSE run[x]
      BY <2>1, <2>3 DEF Swap
    <3> QED BY <3>1 DEF Runs, NewEnds
  <2> QED BY <2>2, <2>3
<1>6. CASE \E l \in Lanes : Snapshot(l)
  <2>1. PICK l \in Lanes : Snapshot(l)
    BY <1>6
  <2>2. run'[x] = IF x = l THEN [run[l] EXCEPT !.todo = registry, !.step = "each"] ELSE run[x]
    BY <2>1 DEF Snapshot, Threads
  <2> QED BY <2>2 DEF Runs, NewEnds
<1>7. CASE \E l \in Lanes : Each(l)
  <2>1. PICK l \in Lanes : Each(l)
    BY <1>7
  <2>2. run[l].job \in {"discover", "autoAttach"} /\ l \in Threads
    BY <2>1 DEF Each, At, StepsFit, StepFits, Threads
  <2>3. CASE Go(l, "reply")
    BY <2>2, <2>3, <1>1
  <2>4. CASE ~Go(l, "reply")
    <3>1. PICK t \in run[l].todo :
            IF run[l].job = "discover"
              THEN run' = [run EXCEPT ![l].todo = run[l].todo \ {t}]
              ELSE run' = [run EXCEPT ![l].todo = run[l].todo \ {t}, ![l].target = t, ![l].step = "claim"]
      BY <2>1, <2>4 DEF Each
    <3>2. run'[x] = IF x # l THEN run[x]
                    ELSE IF run[l].job = "discover" THEN [run[l] EXCEPT !.todo = run[l].todo \ {t}]
                    ELSE [run[l] EXCEPT !.todo = run[l].todo \ {t}, !.target = t, !.step = "claim"]
      BY <2>2, <3>1
    <3> QED BY <2>2, <3>2 DEF Runs, NewEnds
  <2> QED BY <2>3, <2>4
<1>8. CASE \E th \in Threads : AttachLook(th)
  <2>1. PICK th \in Threads : AttachLook(th)
    BY <1>8
  <2>2. CASE \E step : Go(th, step)
    BY <2>2, <1>1
  <2>3. CASE ~(\E step : Go(th, step))
    <3>1. run'[x] = IF x = th THEN [run[th] EXCEPT !.step = "reply", !.todo = {}, !.on = FALSE] ELSE run[x]
      BY <2>1, <2>3 DEF AttachLook, Return
    <3> QED BY <3>1 DEF Runs, NewEnds
  <2> QED BY <2>2, <2>3
<1>9. CASE TakeSignal
  BY <1>9 DEF TakeSignal, Idle, NewEnds
<1>10. Lanes \subseteq Threads /\ "events" \in Threads /\ BrowserLane \in Lanes
  BY LanesAssumption DEF Threads
<1>11. CASE Driver
  <2>1. ASSUME NEW job \in {"discover", "autoAttach"}, NEW on \in BOOLEAN, ReceiveSwitch(job, on)
        PROVE  NewEnds(x)
    <3>1. Receive(BrowserLane, job, NoTarget, on) /\ job \in {"discover", "autoAttach", "create", "attach"}
      BY <2>1 DEF ReceiveSwitch
    <3> QED BY <1>4, <1>10, <3>1
  <2>2. ASSUME NEW l \in Lanes, NEW t \in Targets, ReceiveCreate(l, t)
        PROVE  NewEnds(x)
    <3> DEFINE on == "autoAttach" \in sure
    <3>1. Receive(l, "create", t, on)
      BY <2>2 DEF ReceiveCreate
    <3> HIDE DEF on
    <3> QED BY <1>4, <3>1
  <2>3. ASSUME NEW l \in Lanes, NEW t \in Targets, ReceiveAttach(l, t)
        PROVE  NewEnds(x)
    BY <1>4, <2>3 DEF ReceiveAttach
  <2>4. CASE \E l \in Lanes, s \in sessions : Detach(l, s)
    BY <1>3, <2>4 DEF Detach
  <2> QED BY <1>11, <2>1, <2>2, <2>3, <2>4 DEF Driver
<1>12. CASE Others
  BY <1>3, <1>12 DEF Others, CreateElsewhere, Destroy
<1>13. CASE \E l \in Lanes : Forget(l) \/ CreateHere(l) \/ Reply(l)
  BY <1>1, <1>2, <1>10, <1>13 DEF Forget, CreateHere, Reply
<1>14. CASE \E th \in Threads : \/ Check(th) \/ Claim(th) \/ LookUp(th) \/ AnnounceClaimed(th) \/ LeaveAttached(th)
                               \/ AttachInsert(th) \/ AttachInfo(th) \/ AttachEmit(th)
  <2>1. PICK th \in Threads : \/ Check(th) \/ Claim(th) \/ LookUp(th) \/ AnnounceClaimed(th) \/ LeaveAttached(th)
                             \/ AttachInsert(th) \/ AttachInfo(th) \/ AttachEmit(th)
    BY <1>14
  <2>2. \E step : Go(th, step)
    BY <2>1 DEF Check, Claim, LookUp, AnnounceClaimed, LeaveAttached, AttachInsert, AttachInfo, AttachEmit, Return
  <2> QED BY <1>1, <2>2
<1>15. CASE LateAnnounce \/ Unclaim \/ Unannounce \/ DetachAll
  BY <1>1, <1>2, <1>10, <1>15 DEF LateAnnounce, Unclaim, Unannounce, DetachAll
<1>16. CASE UNCHANGED vars
  BY <1>3, <1>16 DEF vars
<1> QED
  BY <1>5, <1>6, <1>7, <1>8, <1>9, <1>11, <1>12, <1>13, <1>14, <1>15, <1>16
  DEF Next, Command, Attaching, HandleSignal

LEMMA GoneKept ==
  ASSUME TypeOK, StepsFit, GoneAreGone, [Next]_vars
  PROVE  GoneAreGone'
<1> DEFINE S == [kind : {"created", "destroyed"}, target : Targets]
<1>1. signals \in Seq(S) /\ Gone \subseteq Gone'
  BY GoneGrows DEF TypeOK
<1>2. \A i \in 1 .. Len(signals') : signals'[i].kind = "destroyed" => signals'[i].target \in Gone'
  <2>1. CASE UNCHANGED <<world, signals>>
    BY <1>1, <2>1 DEF GoneAreGone
  <2>2. CASE UNCHANGED world /\ TakeSignal
    <3>1. \A i \in 1 .. Len(signals') : i + 1 \in 1 .. Len(signals) /\ signals'[i] = signals[i + 1]
      BY <1>1, <2>2, HeadTailProperties DEF TakeSignal
    <3> QED BY <1>1, <3>1 DEF GoneAreGone
  <2>3. ASSUME NEW e \in S, signals' = Append(signals, e), e.kind = "destroyed" => e.target \in Gone'
        PROVE  \A i \in 1 .. Len(signals') : signals'[i].kind = "destroyed" => signals'[i].target \in Gone'
    <3>1. \A i \in 1 .. Len(signals') : IF i \in 1 .. Len(signals) THEN signals'[i] = signals[i] ELSE signals'[i] = e
      BY <1>1, <2>3, AppendProperties
    <3> QED BY <1>1, <2>3, <3>1 DEF GoneAreGone
  <2>4. CASE \E t \in Targets : Register(t)
    BY <2>3, <2>4 DEF Register
  <2>5. CASE \E t \in Targets : Destroy(t)
    BY <2>3, <2>5 DEF Destroy, Gone, TypeOK
  <2> QED BY <2>1, <2>2, <2>4, <2>5, WorldSteps
<1>3. ASSUME NEW x \in Threads, run'[x].job = "destroyed"
      PROVE  run'[x].target \in Gone'
  <2>1. TakeSignal => Head(signals) = signals[1] /\ 1 \in 1 .. Len(signals)
    BY <1>1 DEF TakeSignal
  <2> QED BY <1>1, <1>3, <2>1, JobSteps DEF GoneAreGone, NewEnds
<1> QED BY <1>2, <1>3 DEF GoneAreGone

-----------------------------------------------------------------------------
(***************************************************************************)
(* At most one session per target that auto-attach made.                   *)
(***************************************************************************)
Core == Covered /\ NoRival /\ AutoAttachedOnce

\* A step that takes no claim back, adds no session and does not let its
\* thread go on to the insertion without knowing.
LEMMA CoreUndisturbed ==
  ASSUME Core, NEW th \in Threads, OthersStay(th), claimed \subseteq claimed', sessions' \subseteq sessions,
         Gone \subseteq Gone', born \subseteq born', holder' \in {holder, th, "none"}, "none" \notin Threads,
         holder' = th => HolderKnows(th)'
  PROVE  Core'
<1>1. Covered' /\ AutoAttachedOnce'
  BY DEF Core, Covered, AutoAttachedOnce
<1>2. ASSUME NEW x \in Threads, x # th, holder' = x
      PROVE  HolderKnows(x)'
  BY <1>2 DEF Core, NoRival, HolderKnows, NoAuto, OthersStay
<1> QED BY <1>1, <1>2 DEF Core, NoRival

\* Whoever is outside the lock before and after a step has nothing to know.
LEMMA CoreOutside ==
  ASSUME Core, RunOK, RunOK', NEW th \in Threads, OthersStay(th), UNCHANGED <<claimed, holder>>,
         sessions' \subseteq sessions, Gone \subseteq Gone', born \subseteq born', run[th].step \notin Locked
  PROVE  Core'
<1>1. holder # th /\ "none" \notin Threads
  BY LanesAssumption DEF RunOK, LockDiscipline, Threads
<1> QED BY <1>1, CoreUndisturbed

\* A claim is taken back, with the lock free afterwards, only when its target
\* is gone.
LEMMA CoreReleased ==
  ASSUME Core, NEW t, t \notin registry, claimed' = claimed \ {t}, UNCHANGED <<registry, born, sessions>>,
         holder' \notin Threads
  PROVE  Core'
  BY DEF Core, Covered, NoRival, AutoAttachedOnce, Gone

LEMMA GoOthersStay ==
  ASSUME run \in [Threads -> Runs], NEW th \in Threads, NEW step, Go(th, step)
  PROVE  OthersStay(th)
  BY DEF Go, OthersStay

LEMMA CoreKept ==
  ASSUME TypeOK, StepsFit, GoneAreGone, RunOK', Core, [Next]_vars
  PROVE  Core'
<1>1. RunOK /\ Gone \subseteq Gone' /\ born \subseteq born' /\ "none" \notin Threads /\ Lanes \subseteq Threads
  BY GoneGrows, LanesAssumption DEF RunOK, TypeOK, Threads
<1>2. CASE \E job \in {"discover", "autoAttach"}, on \in BOOLEAN : ReceiveSwitch(job, on)
  <2>1. PICK job \in {"discover", "autoAttach"}, on \in BOOLEAN : ReceiveSwitch(job, on)
    BY <1>2
  <2>2. OthersStay(BrowserLane) /\ run[BrowserLane].step = "idle" /\ BrowserLane \in Threads
    BY <1>1, <2>1, LanesAssumption DEF ReceiveSwitch, Receive, At, OthersStay
  <2> QED BY <1>1, <2>1, <2>2, CoreOutside DEF ReceiveSwitch, Locked
<1>3. CASE \E l \in Lanes, t \in Targets : ReceiveCreate(l, t)
  <2>1. PICK l \in Lanes, t \in Targets : ReceiveCreate(l, t)
    BY <1>3
  <2>2. OthersStay(l) /\ run[l].step = "idle"
    BY <1>1, <2>1 DEF ReceiveCreate, Receive, At, OthersStay
  <2> QED BY <1>1, <2>1, <2>2, CoreOutside DEF ReceiveCreate, Locked
<1>4. CASE \E l \in Lanes, t \in Targets : ReceiveAttach(l, t)
  <2>1. PICK l \in Lanes, t \in Targets : ReceiveAttach(l, t)
    BY <1>4
  <2>2. OthersStay(l) /\ run[l].step = "idle"
    BY <1>1, <2>1 DEF ReceiveAttach, Receive, At, OthersStay
  <2> QED BY <1>1, <2>1, <2>2, CoreOutside DEF ReceiveAttach, Locked
<1>5. CASE \E l \in Lanes, s \in sessions : Detach(l, s)
  BY <1>1, <1>5 DEF Detach, Core, Covered, NoRival, HolderKnows, NoAuto, AutoAttachedOnce
<1>6. CASE Others
  BY <1>1, <1>6 DEF Others, CreateElsewhere, Destroy, Core, Covered, NoRival, HolderKnows, NoAuto, AutoAttachedOnce
<1>7. CASE \E l \in Lanes : Swap(l)
  <2>1. PICK l \in Lanes : Swap(l)
    BY <1>7
  <2>2. OthersStay(l)
    BY <1>1, <2>1 DEF Swap, Go, Stop, OthersStay, RunOK, Runs
  <2> QED BY <1>1, <2>1, <2>2, CoreOutside DEF Swap, At, Locked
<1>8. CASE \E l \in Lanes : Snapshot(l)
  <2>1. PICK l \in Lanes : Snapshot(l)
    BY <1>8
  <2>2. OthersStay(l)
    BY <1>1, <2>1 DEF Snapshot, Go, Stop, OthersStay, RunOK, Runs
  <2> QED BY <1>1, <2>1, <2>2, CoreOutside DEF Snapshot, At, Locked
<1>9. CASE \E l \in Lanes : Each(l)
  <2>1. PICK l \in Lanes : Each(l)
    BY <1>9
  <2>2. OthersStay(l)
    BY <1>1, <2>1 DEF Each, Go, Stop, OthersStay, RunOK, Runs
  <2> QED BY <1>1, <2>1, <2>2, CoreOutside DEF Each, At, Locked
<1>10. CASE \E l \in Lanes : Forget(l)
  <2>1. PICK l \in Lanes : Forget(l)
    BY <1>10
  <2>2. OthersStay(l)
    BY <1>1, <2>1 DEF Forget, Go, Stop, OthersStay, RunOK, Runs
  <2> QED BY <1>1, <2>1, <2>2, CoreOutside DEF Forget, At, Locked
<1>11. CASE \E l \in Lanes : CreateHere(l)
  <2>1. PICK l \in Lanes : CreateHere(l)
    BY <1>11
  <2>2. OthersStay(l)
    BY <1>1, <2>1 DEF CreateHere, Go, Stop, OthersStay, RunOK, Runs
  <2> QED BY <1>1, <2>1, <2>2, CoreOutside DEF CreateHere, At, Locked
<1>12. CASE \E l \in Lanes : Reply(l)
  <2>1. PICK l \in Lanes : Reply(l)
    BY <1>12
  <2>2. OthersStay(l)
    BY <1>1, <2>1 DEF Reply, Go, Stop, OthersStay, RunOK, Runs
  <2> QED BY <1>1, <2>1, <2>2, CoreOutside DEF Reply, At, Locked
<1>13. CASE \E th \in Threads : Check(th)
  BY <1>1, <1>13, CoreOutside, GoOthersStay DEF Check, At, Locked, RunOK
<1>14. CASE \E th \in Threads : Claim(th)
  <2>1. PICK th \in Threads : Claim(th)
    BY <1>14
  <2>2. OthersStay(th) /\ run[th].step = "claim"
    BY <1>1, <2>1, GoOthersStay DEF Claim, At, RunOK
  <2>3. CASE UNCHANGED holder
    BY <1>1, <2>1, <2>2, <2>3, CoreOutside DEF Claim, Locked
  <2>4. CASE ~UNCHANGED holder
    <3>1. /\ Moved(th, "info") /\ holder' = th /\ claimed' = claimed \union {run[th].target}
          /\ run[th].target \notin claimed \/ run[th].job = "autoAttach"
      BY <1>1, <2>1, <2>4, GoMoves DEF Claim, RunOK, Steps
    <3>2. HolderKnows(th)'
      BY <1>1, <2>1, <3>1 DEF Claim, Moved, HolderKnows, NoAuto, Core, Covered
    <3> QED BY <1>1, <2>1, <2>2, <3>1, <3>2, CoreUndisturbed DEF Claim
  <2> QED BY <2>3, <2>4
<1>15. CASE \E th \in Threads : LookUp(th)
  <2>1. PICK th \in Threads : LookUp(th)
    BY <1>15
  <2>2. run[th].step = "info" /\ run[th].job # "attach" /\ holder = th /\ UNCHANGED <<world, sessions>>
    BY <1>1, <2>1 DEF LookUp, At, RunOK, StepsFit, StepFits, LockDiscipline, Locked
  <2>3. CASE run[th].target \in registry
    <3>1. Moved(th, "announce") /\ UNCHANGED <<claimed, holder>>
      BY <1>1, <2>1, <2>3, GoMoves DEF LookUp, RunOK, Steps
    <3>2. HolderKnows(th)'
      BY <2>2, <2>3, <3>1 DEF Moved, HolderKnows, NoAuto, Core, NoRival, Gone
    <3> QED BY <1>1, <2>2, <3>1, <3>2, CoreUndisturbed DEF Moved
  <2>4. CASE run[th].target \notin registry
    <3>1. holder' = "none" /\ claimed' = claimed \ {run[th].target}
      BY <2>1, <2>2, <2>4 DEF LookUp, Return
    <3> QED BY <1>1, <2>2, <2>4, <3>1, CoreReleased DEF world
  <2> QED BY <2>3, <2>4
<1>16. CASE \E th \in Threads : AnnounceClaimed(th)
  <2>1. PICK th \in Threads : AnnounceClaimed(th)
    BY <1>16
  <2> DEFINE to == IF run[th].job = "autoAttach" THEN "other" ELSE "look"
  <2>2. run[th].step = "announce" /\ run[th].job # "attach" /\ holder = th /\ UNCHANGED <<world, sessions, claimed, holder>>
    BY <1>1, <2>1 DEF AnnounceClaimed, At, RunOK, StepsFit, StepFits, LockDiscipline, Locked
  <2>3. Moved(th, to)
    BY <1>1, <2>1, GoMoves DEF AnnounceClaimed, RunOK, Steps
  <2>4. HolderKnows(th)'
    BY <2>2, <2>3 DEF Moved, HolderKnows, NoAuto, Core, NoRival
  <2> QED BY <1>1, <2>2, <2>3, <2>4, CoreUndisturbed DEF Moved
<1>17. CASE \E th \in Threads : LeaveAttached(th)
  <2>1. PICK th \in Threads : LeaveAttached(th)
    BY <1>17
  <2>2. run[th].step = "other" /\ run[th].job = "autoAttach" /\ holder = th /\ UNCHANGED <<world, sessions, claimed>>
    BY <1>1, <2>1 DEF LeaveAttached, At, RunOK, StepsFit, StepFits, LockDiscipline, Locked
  <2>3. CASE SessionsFor(run[th].target) = {}
    <3>1. Moved(th, "look") /\ UNCHANGED holder
      BY <1>1, <2>1, <2>3, GoMoves DEF LeaveAttached, RunOK, Steps
    <3>2. HolderKnows(th)'
      BY <2>2, <2>3, <3>1 DEF Moved, HolderKnows, NoAuto, Core, NoRival, SessionsFor
    <3> QED BY <1>1, <2>2, <3>1, <3>2, CoreUndisturbed DEF Moved
  <2>4. CASE SessionsFor(run[th].target) # {}
    <3>1. OthersStay(th) /\ holder' = "none"
      BY <1>1, <2>1, <2>2, <2>4, GoOthersStay DEF LeaveAttached, Return, RunOK
    <3> QED BY <1>1, <2>2, <3>1, CoreUndisturbed
  <2> QED BY <2>3, <2>4
<1>18. CASE \E th \in Threads : AttachLook(th)
  <2>1. PICK th \in Threads : AttachLook(th)
    BY <1>18
  <2>2. run[th].step = "look" /\ (holder = th <=> run[th].job # "attach") /\ UNCHANGED <<world, sessions>>
    BY <1>1, <2>1 DEF AttachLook, At, RunOK, LockDiscipline, Locked
  <2>3. CASE run[th].target \in registry
    <3>1. Moved(th, "insert") /\ UNCHANGED <<claimed, holder>>
      BY <1>1, <2>1, <2>3, GoMoves DEF AttachLook, RunOK, Steps
    <3>2. holder' = th => HolderKnows(th)'
      BY <2>2, <2>3, <3>1 DEF Moved, HolderKnows, NoAuto, Core, NoRival, TypeOK, world
    <3> QED BY <1>1, <2>2, <3>1, <3>2, CoreUndisturbed DEF Moved
  <2>4. CASE run[th].target \notin registry /\ run[th].job = "autoAttach"
    <3>1. holder' = "none" /\ claimed' = claimed \ {run[th].target}
      BY <2>1, <2>4 DEF AttachLook
    <3> QED BY <1>1, <2>2, <2>4, <3>1, CoreReleased DEF world
  <2>5. CASE run[th].target \notin registry /\ run[th].job # "autoAttach"
    <3>1. OthersStay(th) /\ UNCHANGED claimed /\ holder' = IF holder = th THEN "none" ELSE holder
      BY <1>1, <2>1, <2>5, GoOthersStay DEF AttachLook, Return, RunOK
    <3> QED BY <1>1, <2>2, <3>1, CoreUndisturbed
  <2> QED BY <2>3, <2>4, <2>5
<1>19. CASE \E th \in Threads : AttachInsert(th)
  <2>1. PICK th \in Threads : AttachInsert(th)
    BY <1>19
  <2> DEFINE new == [id |-> minted, target |-> run[th].target, auto |-> run[th].job # "attach"]
  <2>2. run[th].step = "insert" /\ (holder = th <=> run[th].job # "attach")
    BY <1>1, <2>1 DEF AttachInsert, At, RunOK, LockDiscipline, Locked
  <2>3. /\ sessions' = sessions \union {new} /\ UNCHANGED <<world, claimed, holder>>
        /\ new.target = run[th].target /\ new.auto = (run[th].job # "attach")
    BY <2>1 DEF AttachInsert
  <2>4. Moved(th, "info again")
    BY <1>1, <2>1, GoMoves DEF AttachInsert, RunOK, Steps
  <2> HIDE DEF new
  <2>5. new.auto => NoAuto(new.target) /\ new.target \in claimed /\ new.target \in born /\ holder = th
    BY <2>2, <2>3 DEF Core, NoRival, HolderKnows
  <2>6. Covered' /\ AutoAttachedOnce'
    BY <2>3, <2>5 DEF Core, Covered, AutoAttachedOnce, NoAuto, world, Gone
  <2>7. ASSUME NEW x \in Threads, holder' = x
        PROVE  HolderKnows(x)'
    <3>1. HolderKnows(x)
      BY <2>3, <2>7 DEF Core, NoRival
    <3>2. CASE x = th
      BY <2>3, <2>4, <3>1, <3>2 DEF Moved, HolderKnows
    <3>3. CASE x # th
      <4>1. ~new.auto
        BY <2>3, <2>5, <2>7, <3>3
      <4> QED BY <2>3, <2>4, <3>1, <3>3, <4>1 DEF Moved, OthersStay, HolderKnows, NoAuto, world, Gone
    <3> QED BY <3>2, <3>3
  <2> QED BY <2>6, <2>7 DEF Core, NoRival
<1>20. CASE \E th \in Threads : AttachInfo(th)
  <2>1. PICK th \in Threads : AttachInfo(th)
    BY <1>20
  <2>2. run[th].step = "info again" /\ UNCHANGED <<world, sessions, claimed>>
    BY <2>1 DEF AttachInfo, At
  <2>3. CASE run[th].target \in registry
    <3>1. Moved(th, "emit") /\ UNCHANGED holder
      BY <1>1, <2>1, <2>3, GoMoves DEF AttachInfo, RunOK, Steps
    <3>2. holder' = th => HolderKnows(th)'
      BY <2>2, <3>1 DEF Moved, HolderKnows, Core, NoRival
    <3> QED BY <1>1, <2>2, <3>1, <3>2, CoreUndisturbed DEF Moved
  <2>4. CASE run[th].target \notin registry
    <3>1. OthersStay(th) /\ holder' = IF holder = th THEN "none" ELSE holder
      BY <1>1, <2>1, <2>4, GoOthersStay DEF AttachInfo, Return, RunOK
    <3> QED BY <1>1, <2>2, <3>1, CoreUndisturbed
  <2> QED BY <2>3, <2>4
<1>21. CASE \E th \in Threads : AttachEmit(th)
  <2>1. PICK th \in Threads : AttachEmit(th)
    BY <1>21
  <2>2. OthersStay(th) /\ holder' = (IF holder = th THEN "none" ELSE holder) /\ UNCHANGED <<sessions, claimed>>
    BY <1>1, <2>1, GoOthersStay DEF AttachEmit, Return, RunOK
  <2> QED BY <1>1, <2>2, CoreUndisturbed
<1>22. CASE TakeSignal
  <2>1. OthersStay("events") /\ "events" \in Threads
    BY <1>1, <1>22 DEF TakeSignal, Go, Stop, OthersStay, RunOK, Runs, Threads
  <2> QED BY <1>1, <1>22, <2>1, CoreOutside DEF TakeSignal, At, Locked
<1>23. CASE LateAnnounce
  <2>1. OthersStay("events") /\ "events" \in Threads
    BY <1>1, <1>23 DEF LateAnnounce, Go, Stop, OthersStay, RunOK, Runs, Threads
  <2> QED BY <1>1, <1>23, <2>1, CoreOutside DEF LateAnnounce, At, Locked
<1>24. CASE Unannounce
  <2>1. OthersStay("events") /\ "events" \in Threads
    BY <1>1, <1>24 DEF Unannounce, Go, Stop, OthersStay, RunOK, Runs, Threads
  <2> QED BY <1>1, <1>24, <2>1, CoreOutside DEF Unannounce, At, Locked
<1>25. CASE DetachAll
  <2>1. OthersStay("events") /\ "events" \in Threads
    BY <1>1, <1>25 DEF DetachAll, Go, Stop, OthersStay, RunOK, Runs, Threads
  <2> QED BY <1>1, <1>25, <2>1, CoreOutside DEF DetachAll, At, Locked
<1>26. CASE Unclaim
  <2>1. run["events"].target \notin registry
    BY <1>26 DEF Unclaim, At, StepsFit, StepFits, GoneAreGone, Gone, Threads
  <2> QED BY <1>1, <1>26, <2>1, CoreReleased DEF Unclaim, world
<1>27. CASE UNCHANGED vars
  BY <1>27 DEF vars, world, Gone, Core, Covered, NoRival, HolderKnows, NoAuto, AutoAttachedOnce
<1> QED
  BY <1>2, <1>3, <1>4, <1>5, <1>6, <1>7, <1>8, <1>9, <1>10, <1>11, <1>12, <1>13, <1>14, <1>15, <1>16, <1>17, <1>18, <1>19, <1>20, <1>21, <1>22, <1>23, <1>24, <1>25, <1>26, <1>27
  DEF Next, Driver, Command, Attaching, HandleSignal

-----------------------------------------------------------------------------
LEMMA InitInv == Init => IInv
<1> SUFFICES ASSUME Init PROVE IInv
  OBVIOUS
<1>1. TypeOK
  <2>1. Idle \in Runs /\ Idle.step = "idle"
    BY DEF Idle, Runs, Jobs, Steps
  <2>2. DataOK
    <3>1. /\ registry = born /\ born \subseteq Targets
          /\ discover = FALSE /\ autoAttach = FALSE /\ announced = {} /\ claimed = {} /\ holder = "none"
          /\ sessions = {} /\ minted = 0 /\ commands = 0 /\ reported = {} /\ told = {} /\ sure = {}
      BY DEF Init
    <3>2. signals \in Seq([kind : {"created", "destroyed"}, target : Targets])
      BY DEF Init
    <3>3. registry \subseteq born /\ commands \in 0 .. MaxCommands /\ minted \in Nat
      BY <3>1, MaxCommandsAssumption
    <3>4. /\ announced \subseteq Targets /\ claimed \subseteq Targets /\ reported \subseteq Targets
          /\ told \subseteq Targets /\ sure \subseteq {"discover", "autoAttach"}
          /\ sessions \subseteq [id : Nat, target : Targets, auto : BOOLEAN]
      BY <3>1
    <3>5. discover \in BOOLEAN /\ autoAttach \in BOOLEAN /\ holder \in Threads \union {"none"}
      BY <3>1
    <3> QED BY <3>1, <3>2, <3>3, <3>4, <3>5 DEF DataOK
  <2>3. run \in [Threads -> Runs]
    BY <2>1 DEF Init
  <2>4. LockDiscipline
    BY <2>1, LanesAssumption DEF Init, LockDiscipline, Locked, Threads
  <2> QED BY <2>2, <2>3, <2>4, TypeParts
<1>2. StepsFit
  BY DEF Init, StepsFit, StepFits, Locked, Idle
<1>3. GoneAreGone /\ Covered /\ NoRival /\ AutoAttachedOnce
  BY LanesAssumption DEF Init, GoneAreGone, Covered, NoRival, AutoAttachedOnce, Idle, Threads
<1> QED BY <1>1, <1>2, <1>3 DEF IInv

LEMMA InvKept == IInv /\ [Next]_vars => IInv'
<1> SUFFICES ASSUME IInv, [Next]_vars PROVE IInv'
  OBVIOUS
<1>1. TypeOK /\ StepsFit /\ GoneAreGone /\ Core
  BY DEF IInv, Core
<1>2. RunOK' /\ DataOK'
  BY <1>1, RunKept, DataKept
<1>3. TypeOK'
  BY <1>2 DEF RunOK, DataOK, TypeOK
<1>4. GoneAreGone' /\ Core'
  BY <1>1, <1>2, GoneKept, CoreKept
<1> QED BY <1>2, <1>3, <1>4 DEF IInv, Core, RunOK

LEMMA Invariance == Spec => []IInv
<1>1. Init => IInv
  BY InitInv
<1>2. IInv /\ [Next]_vars => IInv'
  BY InvKept
<1> QED BY <1>1, <1>2, PTL DEF Spec

\* Types, and that `auto_attached` is held exactly by the thread between a
\* claim and its return, for any number of targets and lanes.
THEOREM TypeCorrect == Spec => []TypeOK
<1>1. IInv => TypeOK
  BY DEF IInv
<1> QED BY <1>1, Invariance, PTL

\* However the event thread, `createTarget` on any lane, `setAutoAttach`,
\* attaching by hand, detaching and the end of targets interleave, auto-attach
\* gives a target at most one session.
THEOREM AtMostOneAutoSession == Spec => []AutoAttachedOnce
<1>1. IInv => AutoAttachedOnce
  BY DEF IInv
<1> QED BY <1>1, Invariance, PTL

-----------------------------------------------------------------------------
(***************************************************************************)
(* What is left of targets that are gone.                                  *)
(*                                                                         *)
(* A claim on a gone target has its `Destroyed` signal still before it, or *)
(* a holder of the lock who has yet to look the target up and will give it *)
(* back.  A session of auto-attach has its signal before it or being       *)
(* served: the one who inserts it has the claim, is past the look-up, and  *)
(* keeps the signal waiting for the lock.                                  *)
(***************************************************************************)
Queued(t) == \E i \in 1 .. Len(signals) : signals[i].kind = "destroyed" /\ signals[i].target = t
Serving(t, steps) == run["events"].step \in steps /\ run["events"].target = t
LookingUp(t) == \E th \in Threads : run[th].step = "info" /\ run[th].target = t

ClaimsLetGo == \A t \in claimed \ registry : Queued(t) \/ Serving(t, {"unclaim"}) \/ LookingUp(t)
SessionsLetGo ==
  \A s \in sessions : s.auto /\ s.target \notin registry =>
    Queued(s.target) \/ Serving(s.target, {"unclaim", "unannounce", "detach"})

Swept == ClaimsLetGo /\ SessionsLetGo

LEMMA AppendKeepsQueued ==
  ASSUME TypeOK, NEW s \in [kind : {"created", "destroyed"}, target : Targets], signals' = Append(signals, s)
  PROVE  /\ \A t : Queued(t) => Queued(t)'
         /\ s.kind = "destroyed" => Queued(s.target)'
<1>1. Len(signals') = Len(signals) + 1 /\ Len(signals) \in Nat
  BY DEF TypeOK
<1>2. \A i \in 1 .. Len(signals) : signals'[i] = signals[i]
  BY DEF TypeOK
<1>3. signals'[Len(signals) + 1] = s
  BY DEF TypeOK
<1> QED BY <1>1, <1>2, <1>3 DEF Queued

LEMMA TailKeepsQueued ==
  ASSUME TypeOK, signals # <<>>, signals' = Tail(signals)
  PROVE  \A t : Queued(t) => Queued(t)' \/ (Head(signals).kind = "destroyed" /\ Head(signals).target = t)
<1>1. Len(signals') = Len(signals) - 1 /\ Len(signals) \in Nat /\ Head(signals) = signals[1]
  BY DEF TypeOK
<1>2. \A i \in 1 .. Len(signals) - 1 : signals'[i] = signals[i + 1]
  BY DEF TypeOK
<1> TAKE t
<1> HAVE Queued(t)
<1>3. PICK i \in 1 .. Len(signals) : signals[i].kind = "destroyed" /\ signals[i].target = t
  BY DEF Queued
<1>4. CASE i = 1
  BY <1>1, <1>3, <1>4
<1>5. CASE i # 1
  <2>1. i - 1 \in 1 .. Len(signals') /\ signals'[i - 1] = signals[i]
    BY <1>1, <1>2, <1>5
  <2> QED BY <1>3, <2>1 DEF Queued
<1> QED BY <1>4, <1>5

\* A thread that neither looks a target up nor serves its destruction.
LEMMA SweptUndisturbed ==
  ASSUME Swept, NEW th \in Threads, OthersStay(th),
         run[th].step \notin {"info", "unclaim", "unannounce", "detach"},
         claimed' \subseteq claimed, sessions' \subseteq sessions, registry \subseteq registry',
         \A t : Queued(t) => Queued(t)'
  PROVE  Swept'
<1>1. \A t, steps : steps \subseteq {"unclaim", "unannounce", "detach"} /\ Serving(t, steps) => Serving(t, steps)'
  BY DEF Serving, OthersStay, Threads
<1>2. \A t : LookingUp(t) => LookingUp(t)'
  BY DEF LookingUp, OthersStay
<1> QED BY <1>1, <1>2 DEF Swept, ClaimsLetGo, SessionsLetGo

LEMMA SweptKept ==
  ASSUME TypeOK, StepsFit, Core, Swept, [Next]_vars
  PROVE  Swept'
<1>1. RunOK /\ run \in [Threads -> Runs] /\ Lanes \subseteq Threads /\ "events" \in Threads /\ "events" \notin Lanes
  BY LanesAssumption DEF RunOK, TypeOK, Threads
<1>2. UNCHANGED signals => \A t : Queued(t) => Queued(t)'
  BY DEF Queued
<1>3. CASE \E job \in {"discover", "autoAttach"}, on \in BOOLEAN : ReceiveSwitch(job, on)
  <2>1. PICK job \in {"discover", "autoAttach"}, on \in BOOLEAN : ReceiveSwitch(job, on)
    BY <1>3
  <2>2. OthersStay(BrowserLane) /\ run[BrowserLane].step = "idle" /\ BrowserLane \in Threads
    BY <1>1, <2>1, LanesAssumption DEF ReceiveSwitch, Receive, At, OthersStay
  <2> QED BY <1>2, <2>1, <2>2, SweptUndisturbed DEF ReceiveSwitch, world
<1>4. CASE \E l \in Lanes, t \in Targets : ReceiveCreate(l, t) \/ ReceiveAttach(l, t)
  <2>1. PICK l \in Lanes, t \in Targets : ReceiveCreate(l, t) \/ ReceiveAttach(l, t)
    BY <1>4
  <2>2. OthersStay(l) /\ run[l].step = "idle"
    BY <1>1, <2>1 DEF ReceiveCreate, ReceiveAttach, Receive, At, OthersStay
  <2> QED BY <1>1, <1>2, <2>1, <2>2, SweptUndisturbed DEF ReceiveCreate, ReceiveAttach, world
<1>5. CASE \E l \in Lanes, s \in sessions : Detach(l, s)
  BY <1>2, <1>5 DEF Detach, world, Swept, ClaimsLetGo, SessionsLetGo, Serving, LookingUp
<1>6. CASE \E t \in Targets : CreateElsewhere(t)
  <2>1. PICK t \in Targets : CreateElsewhere(t)
    BY <1>6
  <2>2. \A u : Queued(u) => Queued(u)'
    BY <2>1, AppendKeepsQueued DEF CreateElsewhere, Register
  <2> QED BY <2>1, <2>2 DEF CreateElsewhere, Register, Swept, ClaimsLetGo, SessionsLetGo, Serving, LookingUp
<1>7. CASE \E t \in Targets : Destroy(t)
  <2>1. PICK t \in Targets : Destroy(t)
    BY <1>7
  <2>2. Queued(t)' /\ \A u : Queued(u) => Queued(u)'
    BY <2>1, AppendKeepsQueued DEF Destroy
  <2> QED BY <2>1, <2>2 DEF Destroy, Swept, ClaimsLetGo, SessionsLetGo, Serving, LookingUp
<1>8. CASE \E l \in Lanes : Swap(l)
  <2>1. PICK l \in Lanes : Swap(l)
    BY <1>8
  <2>2. OthersStay(l)
    BY <1>1, <2>1 DEF Swap, Go, OthersStay, Runs
  <2> QED BY <1>1, <1>2, <2>1, <2>2, SweptUndisturbed DEF Swap, At, world
<1>9. CASE \E l \in Lanes : Snapshot(l) \/ Each(l) \/ Forget(l) \/ Reply(l)
  <2>1. PICK l \in Lanes : Snapshot(l) \/ Each(l) \/ Forget(l) \/ Reply(l)
    BY <1>9
  <2>2. OthersStay(l) /\ run[l].step \in {"snapshot", "each", "forget", "reply"}
    BY <1>1, <2>1 DEF Snapshot, Each, Forget, Reply, Go, Stop, At, OthersStay, Runs
  <2> QED BY <1>1, <1>2, <2>1, <2>2, SweptUndisturbed DEF Snapshot, Each, Forget, Reply, world
<1>10. CASE \E l \in Lanes : CreateHere(l)
  <2>1. PICK l \in Lanes : CreateHere(l)
    BY <1>10
  <2>2. OthersStay(l) /\ run[l].step = "register" /\ run[l].target \in Targets
    BY <1>1, <2>1 DEF CreateHere, Go, At, OthersStay, StepsFit, StepFits
  <2>3. \A u : Queued(u) => Queued(u)'
    BY <2>1, <2>2, AppendKeepsQueued DEF CreateHere, Register
  <2> QED BY <1>1, <2>1, <2>2, <2>3, SweptUndisturbed DEF CreateHere, Register
<1>11. CASE \E th \in Threads : Check(th) \/ AnnounceClaimed(th) \/ LeaveAttached(th) \/ AttachInfo(th) \/ AttachEmit(th)
  <2>1. PICK th \in Threads : Check(th) \/ AnnounceClaimed(th) \/ LeaveAttached(th) \/ AttachInfo(th) \/ AttachEmit(th)
    BY <1>11
  <2>2. OthersStay(th) /\ run[th].step \in {"check", "announce", "other", "info again", "emit"}
    BY <1>1, <2>1, GoOthersStay DEF Check, AnnounceClaimed, LeaveAttached, AttachInfo, AttachEmit, Return, At
  <2> QED BY <1>2, <2>1, <2>2, SweptUndisturbed
      DEF Check, AnnounceClaimed, LeaveAttached, AttachInfo, AttachEmit, world
<1>12. CASE \E th \in Threads : Claim(th)
  <2>1. PICK th \in Threads : Claim(th)
    BY <1>12
  <2>2. OthersStay(th) /\ run[th].step = "claim" /\ UNCHANGED <<world, signals, sessions>>
    BY <1>1, <2>1, GoOthersStay DEF Claim, At
  <2>3. CASE UNCHANGED claimed
    BY <1>2, <2>2, <2>3, SweptUndisturbed DEF world
  <2>4. CASE ~UNCHANGED claimed
    <3>1. Moved(th, "info") /\ claimed' = claimed \union {run[th].target}
      BY <1>1, <2>1, <2>4, GoMoves DEF Claim, Steps
    <3>2. \A t : t = run[th].target => LookingUp(t)'
      BY <3>1 DEF Moved, LookingUp
    <3>3. \A t : LookingUp(t) => LookingUp(t)'
      BY <2>2 DEF LookingUp, OthersStay
    <3>4. \A t, steps : steps \subseteq {"unclaim", "unannounce", "detach"} /\ Serving(t, steps) => Serving(t, steps)'
      BY <1>1, <2>2 DEF Serving, OthersStay
    <3>5. UNCHANGED <<registry, sessions>> /\ \A t : Queued(t) => Queued(t)'
      BY <1>2, <2>2 DEF world
    <3>6. \A t : Serving(t, {"unclaim"}) => Serving(t, {"unclaim"})'
      BY <1>1, <2>2 DEF Serving, OthersStay
    <3>7. ClaimsLetGo'
      BY <3>1, <3>2, <3>3, <3>5, <3>6 DEF Swept, ClaimsLetGo
    <3>8. SessionsLetGo'
      BY <3>4, <3>5 DEF Swept, SessionsLetGo
    <3> QED BY <3>7, <3>8 DEF Swept
  <2> QED BY <2>3, <2>4
<1>13. CASE \E th \in Threads : LookUp(th)
  <2>1. PICK th \in Threads : LookUp(th)
    BY <1>13
  <2>2. /\ OthersStay(th) /\ run[th].step = "info" /\ UNCHANGED <<world, signals, sessions>>
        /\ run[th].target \in registry \/ claimed' = claimed \ {run[th].target}
        /\ claimed' \subseteq claimed
    BY <1>1, <2>1, GoOthersStay DEF LookUp, Return, At
  <2>3. \A t : LookingUp(t) => LookingUp(t)' \/ t = run[th].target
    BY <2>2 DEF LookingUp, OthersStay
  <2>4. \A t, steps : steps \subseteq {"unclaim", "unannounce", "detach"} /\ Serving(t, steps) => Serving(t, steps)'
    BY <1>1, <2>2 DEF Serving, OthersStay
  <2> QED BY <1>2, <2>2, <2>3, <2>4 DEF Swept, ClaimsLetGo, SessionsLetGo, world
<1>14. CASE \E th \in Threads : AttachLook(th)
  <2>1. PICK th \in Threads : AttachLook(th)
    BY <1>14
  <2>2. OthersStay(th) /\ run[th].step = "look" /\ claimed' \subseteq claimed /\ UNCHANGED <<world, signals, sessions>>
    <3>1. CASE run[th].target \in registry
      BY <1>1, <2>1, <3>1, GoOthersStay DEF AttachLook, At
    <3>2. CASE run[th].target \notin registry /\ run[th].job = "autoAttach"
      BY <1>1, <2>1, <3>2 DEF AttachLook, At, OthersStay, Runs
    <3>3. CASE run[th].target \notin registry /\ run[th].job # "autoAttach"
      BY <1>1, <2>1, <3>3, GoOthersStay DEF AttachLook, Return, At
    <3> QED BY <3>1, <3>2, <3>3
  <2> QED BY <1>2, <2>2, SweptUndisturbed DEF world
<1>15. CASE \E th \in Threads : AttachInsert(th)
  <2>1. PICK th \in Threads : AttachInsert(th)
    BY <1>15
  <2> DEFINE new == [id |-> minted, target |-> run[th].target, auto |-> run[th].job # "attach"]
  <2>2. /\ OthersStay(th) /\ run[th].step = "insert" /\ UNCHANGED <<world, signals, claimed>>
        /\ sessions' = sessions \union {new}
        /\ new.target = run[th].target /\ new.auto = (run[th].job # "attach")
    BY <1>1, <2>1, GoOthersStay DEF AttachInsert, At
  <2> HIDE DEF new
  <2>3. \A t, steps : steps \subseteq {"unclaim", "unannounce", "detach"} /\ Serving(t, steps) => Serving(t, steps)'
    BY <1>1, <2>2 DEF Serving, OthersStay
  <2>4. \A t : LookingUp(t) => LookingUp(t)'
    BY <2>2 DEF LookingUp, OthersStay
  <2>5. new.auto => holder = th /\ new.target \in claimed
    BY <1>1, <2>2 DEF RunOK, LockDiscipline, Locked, Core, NoRival, HolderKnows
  <2>6. new.auto => ~LookingUp(new.target)
    BY <1>1, <2>2, <2>5 DEF LookingUp, RunOK, LockDiscipline, Locked, StepsFit, StepFits
  <2>7. new.auto /\ new.target \notin registry =>
          Queued(new.target) \/ Serving(new.target, {"unclaim", "unannounce", "detach"})
    BY <2>5, <2>6 DEF Swept, ClaimsLetGo, Serving
  <2> QED BY <1>2, <2>2, <2>3, <2>4, <2>7 DEF Swept, ClaimsLetGo, SessionsLetGo, world
<1>16. CASE TakeSignal
  <2> DEFINE s == Head(signals)
  <2>1. /\ run["events"].step = "idle" /\ signals # <<>> /\ signals' = Tail(signals)
        /\ run'["events"].target = s.target /\ (s.kind = "destroyed" => run'["events"].step = "unclaim")
        /\ \A th \in Threads \ {"events"} : run'[th] = run[th]
        /\ UNCHANGED <<world, claimed, sessions>>
    BY <1>1, <1>16 DEF TakeSignal, At, Idle
  <2>2. \A t : Queued(t) => Queued(t)' \/ Serving(t, {"unclaim"})'
    BY <2>1, TailKeepsQueued DEF Serving
  <2>3. \A t : LookingUp(t) => LookingUp(t)'
    BY <2>1 DEF LookingUp
  <2>4. \A t : Serving(t, {"unclaim"})' => Serving(t, {"unclaim", "unannounce", "detach"})'
    BY DEF Serving
  <2>5. \A t, steps : steps \subseteq {"unclaim", "unannounce", "detach"} => ~Serving(t, steps)
    BY <2>1 DEF Serving
  <2> QED BY <2>1, <2>2, <2>3, <2>4, <2>5 DEF Swept, ClaimsLetGo, SessionsLetGo, world
<1>17. CASE LateAnnounce
  <2>1. OthersStay("events") /\ run["events"].step = "late"
    BY <1>1, <1>17 DEF LateAnnounce, Stop, At, OthersStay
  <2> QED BY <1>1, <1>2, <1>17, <2>1, SweptUndisturbed DEF LateAnnounce, world
<1>18. CASE Unclaim \/ Unannounce
  <2> DEFINE t == run["events"].target
  <2>1. /\ run["events"].step \in {"unclaim", "unannounce"} /\ run'["events"].target = t
        /\ run'["events"].step \in {"unannounce", "detach"}
        /\ OthersStay("events")
        /\ UNCHANGED <<world, signals, sessions>>
        /\ claimed' \subseteq claimed
        /\ run["events"].step = "unclaim" => claimed' = claimed \ {t}
    <3>1. CASE Unclaim
      BY <1>1, <3>1, GoMoves DEF Unclaim, At, Moved, Steps
    <3>2. CASE Unannounce
      BY <1>1, <3>2, GoMoves DEF Unannounce, At, Moved, Steps
    <3> QED BY <1>18, <3>1, <3>2
  <2>2. \A u : LookingUp(u) => LookingUp(u)'
    BY <2>1 DEF LookingUp, OthersStay
  <2>3. \A u : Serving(u, {"unclaim"}) => u \notin claimed'
    BY <2>1 DEF Serving
  <2>4. \A u : Serving(u, {"unclaim", "unannounce", "detach"}) => Serving(u, {"unclaim", "unannounce", "detach"})'
    BY <2>1 DEF Serving
  <2> QED BY <1>2, <2>1, <2>2, <2>3, <2>4 DEF Swept, ClaimsLetGo, SessionsLetGo, world
<1>19. CASE DetachAll
  <2> DEFINE t == run["events"].target
  <2>1. /\ run["events"].step = "detach" /\ OthersStay("events") /\ UNCHANGED <<world, signals, claimed>>
        /\ sessions' = sessions \ SessionsFor(t)
    BY <1>1, <1>19, StopIdles DEF DetachAll, At
  <2>2. \A u : LookingUp(u) => LookingUp(u)'
    BY <2>1 DEF LookingUp, OthersStay
  <2>3. \A u : ~Serving(u, {"unclaim"}) /\ (Serving(u, {"unclaim", "unannounce", "detach"}) => u = t)
    BY <2>1 DEF Serving
  <2>4. \A s \in sessions' : s \in sessions /\ s.target # t
    BY <2>1 DEF SessionsFor
  <2> QED BY <1>2, <2>1, <2>2, <2>3, <2>4 DEF Swept, ClaimsLetGo, SessionsLetGo, world
<1>20. CASE UNCHANGED vars
  BY <1>2, <1>20 DEF vars, world, Swept, ClaimsLetGo, SessionsLetGo, Serving, LookingUp
<1> QED
  BY <1>3, <1>4, <1>5, <1>6, <1>7, <1>8, <1>9, <1>10, <1>11, <1>12, <1>13, <1>14, <1>15, <1>16, <1>17, <1>18, <1>19, <1>20
  DEF Next, Driver, Others, Command, Attaching, HandleSignal

LEMMA QuietIsSwept ==
  ASSUME TypeOK, Swept
  PROVE  NothingLeftOfTheGone
<1> SUFFICES ASSUME Quiet
             PROVE  claimed \subseteq registry /\ \A s \in sessions : s.auto => s.target \in registry
  BY DEF NothingLeftOfTheGone
<1>1. \A t : ~Queued(t)
  BY DEF Quiet, Queued
<1>2. \A th \in Threads : run[th].step = "idle"
  BY DEF Quiet, At
<1>3. \A t : ~LookingUp(t) /\ \A steps : "idle" \notin steps => ~Serving(t, steps)
  BY <1>2 DEF LookingUp, Serving, Threads
<1> QED BY <1>1, <1>3 DEF Swept, ClaimsLetGo, SessionsLetGo

\* Whenever nothing is going on, auto-attach holds no claim and no session for
\* a target that is gone, however late its `Destroyed` signal is handled and
\* whoever attaches to it meanwhile.
THEOREM NothingIsLeftBehind == Spec => []NothingLeftOfTheGone
<1>1. Init => Swept
  BY DEF Init, Swept, ClaimsLetGo, SessionsLetGo
<1>2. IInv /\ Swept /\ [Next]_vars => Swept'
  BY SweptKept DEF IInv, Core
<1>3. IInv /\ Swept => NothingLeftOfTheGone
  BY QuietIsSwept DEF IInv
<1> QED BY <1>1, <1>2, <1>3, Invariance, PTL DEF Spec

-----------------------------------------------------------------------------
(***************************************************************************)
(* What a driver may count on in the order of what it is sent.             *)
(*                                                                         *)
(* Only the browser's lane turns the switches, one command after the       *)
(* other, so a driver that counts on a switch finds it on.  With discovery *)
(* on, a thread past its own announcement has a target that was reported   *)
(* or is gone; while discovery is coming on, it may also be one the loop   *)
(* over the snapshot has yet to report (Discovery).  A `createTarget` that *)
(* counts on its attach cannot meet the loop of `setAutoAttach`, so whoever*)
(* else has claimed its target holds the lock, has told of it, or found it *)
(* gone (Attachment).  Both need targets to be born before anything is     *)
(* done about them, so that one that is gone stays gone (Births).          *)
(***************************************************************************)
Known(t) == t \in reported \/ t \notin registry
ToldOrGone(t) == t \in told \/ t \notin registry

BirthOK(th) ==
  /\ run[th].step \in {"check", "claim"} \union Locked => run[th].target \in born
  /\ run[th].job = "create" /\ run[th].step # "register" => run[th].target \in born
  /\ run[th].todo \subseteq born

Births ==
  /\ claimed \subseteq born
  /\ \A i \in 1 .. Len(signals) : signals[i].target \in born
  /\ \A th \in Threads : BirthOK(th)

\* Which lane runs which command, and how far a switch may be.
Loop == {"snapshot", "each", "claim"} \union Locked

TurnOK(th) ==
  /\ run[th].job \in {"discover", "autoAttach"} => th = BrowserLane
  /\ th = "events" => run[th].job \in {"idle", "created", "destroyed"}
  /\ run[th].job = "discover" => run[th].step \in {"flag", "snapshot", "each", "forget", "reply"}
  /\ run[th].job = "autoAttach" => run[th].step \in {"flag", "reply"} \union Loop
  /\ run[th].step = "forget" => run[th].job = "discover" /\ ~run[th].on
  /\ run[th].job = "discover" /\ run[th].step \in {"snapshot", "each"} => run[th].on

Turns == \A th \in Threads : TurnOK(th)

\* A thread that has announced its target, if discovery was on, and not yet
\* told of its attachment.
PastAnnounce(th) ==
  run[th].step \in {"other", "look", "insert", "info again", "emit"} /\ run[th].job # "attach"

AllKnown == \A th \in Threads : PastAnnounce(th) => Known(run[th].target)

DiscoverRun ==
  run[BrowserLane].job = "discover" =>
    /\ run[BrowserLane].on =>
         /\ run[BrowserLane].step = "flag" /\ discover => "discover" \in sure
         /\ run[BrowserLane].step \in {"snapshot", "each", "reply"} => discover
         /\ run[BrowserLane].step = "each" =>
              \A th \in Threads : PastAnnounce(th) =>
                Known(run[th].target) \/ run[th].target \in run[BrowserLane].todo
         /\ run[BrowserLane].step = "reply" => AllKnown
    /\ ~run[BrowserLane].on =>
         /\ "discover" \notin sure
         /\ run[BrowserLane].step \in {"forget", "reply"} => ~discover

Discovery ==
  /\ announced \subseteq reported
  /\ "discover" \in sure => discover /\ AllKnown
  /\ discover /\ run[BrowserLane].job # "discover" => "discover" \in sure
  /\ DiscoverRun

\* A `createTarget` whose driver counts on the attach.
Counting(l) == run[l].job = "create" /\ run[l].on

Looping == run[BrowserLane].job = "autoAttach" /\ run[BrowserLane].step \in Loop

\* Whoever has claimed a target is at it, has told of it, or found it gone.
Covers(t) ==
  t \in claimed => ToldOrGone(t) \/ \E th \in Threads : holder = th /\ run[th].target = t

CreateKnows(l) ==
  /\ autoAttach /\ ~Looping
  /\ run[l].step \in {"check", "claim"} => Covers(run[l].target)
  /\ run[l].step = "reply" => ToldOrGone(run[l].target)

\* A driver that counts on auto-attach finds it on, and nobody else's claims
\* are a loop's; the switch that comes on is on from its swap to its reply.
SureAttached ==
  /\ "autoAttach" \in sure =>
       /\ autoAttach /\ ~Looping
       /\ run[BrowserLane].job = "autoAttach" => run[BrowserLane].on
  /\ run[BrowserLane].job = "autoAttach" /\ run[BrowserLane].on /\ run[BrowserLane].step # "flag" =>
       autoAttach

Attachment == SureAttached /\ \A l \in Lanes : Counting(l) => CreateKnows(l)

OInv == Births /\ Turns /\ Discovery /\ Attachment

-----------------------------------------------------------------------------
(***************************************************************************)
(* What a step does, as far as this argument needs to know: who moves, and *)
(* what happens to the lock and the world around it.                       *)
(***************************************************************************)
\* No thread but th moves; a switch that goes off may tell the others so.
Apart(th) ==
  \A x \in Threads \ {th} :
    /\ run'[x].step = run[x].step /\ run'[x].job = run[x].job
    /\ run'[x].target = run[x].target /\ run'[x].todo = run[x].todo
    /\ run'[x].on = run[x].on \/ (run[x].job = "create" /\ run'[x].on = FALSE)

LEMMA GoApart ==
  ASSUME run \in [Threads -> Runs], NEW th \in Threads, NEW step \in Steps, Go(th, step)
  PROVE  Apart(th) /\ Moved(th, step)
  BY GoMoves DEF Go, Apart

LEMMA ExceptApart ==
  ASSUME run \in [Threads -> Runs], NEW th \in Threads, NEW r, run' = [run EXCEPT ![th] = r]
  PROVE  Apart(th) /\ run'[th] = r
  BY DEF Apart

LEMMA ReturnApart ==
  ASSUME run \in [Threads -> Runs], NEW th \in Threads, Return(th)
  PROVE  /\ Apart(th) /\ Moved(th, After(th))
         /\ holder' = IF holder = th THEN "none" ELSE holder
  BY GoApart, AfterWhere DEF Return

\* A thread on its way to an attachment, or under the lock.
Advances(th) ==
  /\ Apart(th)
  /\ run'[th].job = run[th].job /\ run'[th].target = run[th].target
  /\ run'[th].todo \subseteq run[th].todo
  /\ run'[th].on = run[th].on \/ run'[th].on = FALSE
  /\ run[th].step \in {"check", "claim"} \union Locked
  /\ run'[th].step \in {"claim", "each", "late", "reply"} \union Locked
  /\ run'[th].step = "each" => run[th].job = "autoAttach"
  /\ run'[th].step = "late" => run[th].job = "created"
  /\ run'[th].step = "claim" => run[th].step = "check"
  /\ UNCHANGED <<world, signals, switches, sure>>
  /\ told \subseteq told' /\ reported \subseteq reported'
  /\ announced \subseteq reported => announced' \subseteq reported'
  /\ claimed' \subseteq claimed \union {run[th].target}

\* What becomes of the lock, and what is known of the target of a thread that
\* lets it go.
Locks(th) ==
  \/ holder' = holder /\ claimed' \subseteq claimed
  \/ holder = "none" /\ holder' = th /\ run[th].step = "claim"
  \/ /\ holder = th /\ holder' = "none" /\ claimed' \subseteq claimed
     /\ run[th].step \in Locked
     /\ run[th].step = "other" \/ run[th].target \in told' \/ run[th].target \notin registry

\* A thread that comes to be past its announcement has just made it.
Announces(th) ==
  PastAnnounce(th)' =>
    \/ PastAnnounce(th)
    \/ discover /\ announced \subseteq reported => run[th].target \in reported'

\* A thread that counts on its attachment and is done.
Answers(th) ==
  run'[th].step = "reply" /\ run[th].job = "create" =>
    \/ run[th].step = "check" /\ ~autoAttach
    \/ run[th].step = "claim" /\ holder = "none" /\ run[th].target \in claimed
    \/ run[th].target \in told' \/ run[th].target \notin registry

Shape(th) == Advances(th) /\ Locks(th) /\ Announces(th) /\ Answers(th)

LEMMA AttachingShape ==
  ASSUME TypeOK, StepsFit, NEW th \in Threads, Attaching(th)
  PROVE  Shape(th)
<1> USE DEF TypeOK
<1>0. /\ run[th] \in Runs /\ run[th].step \in Steps
      /\ "none" \notin Threads
      /\ After(th) \in {"each", "late", "reply"} /\ After(th) \in Steps
      /\ After(th) = "each" => run[th].job = "autoAttach"
      /\ After(th) = "late" => run[th].job = "created"
      /\ run[th].step = "other" => run[th].job = "autoAttach"
  BY AfterWhere, LanesAssumption DEF After, Threads, Runs, StepsFit, StepFits
<1>1. CASE Check(th)
  <2> DEFINE to == IF autoAttach THEN "claim" ELSE After(th)
  <2>1. run[th].step = "check" /\ to \in Steps /\ Go(th, to)
    BY <1>0, <1>1 DEF Check, At, Steps
  <2>2. Apart(th) /\ Moved(th, to)
    BY <2>1, GoApart
  <2>3. UNCHANGED <<world, signals, switches, announced, claimed, holder, history>>
    BY <1>1 DEF Check
  <2>4. /\ to \in {"claim", "each", "late", "reply"}
        /\ to = "each" => run[th].job = "autoAttach"
        /\ to = "late" => run[th].job = "created"
    BY <1>0
  <2>5. Advances(th)
    BY <2>1, <2>2, <2>3, <2>4 DEF Advances, Moved, history
  <2>6. Locks(th) /\ Announces(th) /\ Answers(th)
    BY <2>1, <2>2, <2>3, <2>4 DEF Locks, Announces, Answers, Moved, PastAnnounce
  <2> QED BY <2>5, <2>6 DEF Shape
<1>2. CASE Claim(th)
  <2>1. /\ run[th].step = "claim" /\ holder = "none" 
        /\ UNCHANGED <<world, signals, switches, announced, history>>
    BY <1>2 DEF Claim, At
  <2>2. CASE run[th].target \in claimed /\ run[th].job # "autoAttach"
    <3>1. Go(th, After(th)) /\ UNCHANGED <<claimed, holder>>
      BY <1>2, <2>2 DEF Claim
    <3>2. Apart(th) /\ Moved(th, After(th))
      BY <1>0, <3>1, GoApart
    <3>3. Advances(th)
      BY <1>0, <2>1, <3>1, <3>2 DEF Advances, Moved, history
    <3>4. Locks(th) /\ Announces(th) /\ Answers(th)
      BY <1>0, <2>1, <2>2, <3>1, <3>2 DEF Locks, Announces, Answers, Moved, PastAnnounce
    <3> QED BY <3>3, <3>4 DEF Shape
  <2>3. CASE ~(run[th].target \in claimed /\ run[th].job # "autoAttach")
    <3>1. Go(th, "info") /\ claimed' = claimed \union {run[th].target} /\ holder' = th
      BY <1>2, <2>3 DEF Claim
    <3>2. Apart(th) /\ Moved(th, "info")
      BY <3>1, GoApart DEF Steps
    <3>3. Advances(th)
      BY <2>1, <3>1, <3>2 DEF Advances, Moved, history, Locked
    <3>4. Locks(th) /\ Announces(th) /\ Answers(th)
      BY <2>1, <3>1, <3>2 DEF Locks, Announces, Answers, Moved, PastAnnounce
    <3> QED BY <3>3, <3>4 DEF Shape
  <2> QED BY <2>2, <2>3
<1>3. CASE LookUp(th)
  <2>1. run[th].step = "info" /\ UNCHANGED <<world, signals, switches, announced, history>>
    BY <1>3 DEF LookUp, At
  <2>2. CASE run[th].target \in registry
    <3>1. Go(th, "announce") /\ UNCHANGED <<claimed, holder>>
      BY <1>3, <2>2 DEF LookUp
    <3>2. Apart(th) /\ Moved(th, "announce")
      BY <3>1, GoApart DEF Steps
    <3>3. Advances(th)
      BY <2>1, <3>1, <3>2 DEF Advances, Moved, history, Locked
    <3>4. Locks(th) /\ Announces(th) /\ Answers(th)
      BY <2>1, <3>1, <3>2 DEF Locks, Announces, Answers, Moved, PastAnnounce
    <3> QED BY <3>3, <3>4 DEF Shape
  <2>3. CASE run[th].target \notin registry
    <3>1. Return(th) /\ claimed' \subseteq claimed
      BY <1>3, <2>3 DEF LookUp
    <3>2. Apart(th) /\ Moved(th, After(th)) /\ holder' = IF holder = th THEN "none" ELSE holder
      BY <3>1, ReturnApart
    <3>3. Advances(th)
      BY <1>0, <2>1, <3>1, <3>2 DEF Advances, Moved, history, Locked
    <3>4. Locks(th) /\ Announces(th) /\ Answers(th)
      BY <1>0, <2>1, <2>3, <3>1, <3>2 DEF Locks, Announces, Answers, Moved, PastAnnounce, Locked
    <3> QED BY <3>3, <3>4 DEF Shape
  <2> QED BY <2>2, <2>3
<1>4. CASE AnnounceClaimed(th)
  <2> DEFINE to == IF run[th].job = "autoAttach" THEN "other" ELSE "look"
  <2>1. /\ run[th].step = "announce" /\ to \in Steps /\ Go(th, to)
        /\ UNCHANGED <<world, signals, switches, claimed, holder, told, sure>>
    BY <1>4 DEF AnnounceClaimed, At, Steps
  <2>2. Apart(th) /\ Moved(th, to)
    BY <2>1, GoApart
  <2>3. /\ reported \subseteq reported'
        /\ announced \subseteq reported => announced' \subseteq reported'
        /\ discover /\ announced \subseteq reported => run[th].target \in reported'
    BY <1>4 DEF AnnounceClaimed, Announce
  <2>4. Advances(th)
    BY <2>1, <2>2, <2>3 DEF Advances, Moved, Locked
  <2>5. Locks(th) /\ Announces(th) /\ Answers(th)
    BY <2>1, <2>2, <2>3 DEF Locks, Announces, Answers, Moved, PastAnnounce
  <2> QED BY <2>4, <2>5 DEF Shape
<1>5. CASE LeaveAttached(th)
  <2>1. run[th].step = "other" /\ UNCHANGED <<world, signals, switches, announced, claimed, history>>
    BY <1>5 DEF LeaveAttached, At
  <2>2. CASE SessionsFor(run[th].target) = {}
    <3>1. Go(th, "look") /\ UNCHANGED holder
      BY <1>5, <2>2 DEF LeaveAttached
    <3>2. Apart(th) /\ Moved(th, "look")
      BY <3>1, GoApart DEF Steps
    <3>3. Advances(th)
      BY <2>1, <3>1, <3>2 DEF Advances, Moved, history, Locked
    <3>4. Locks(th) /\ Announces(th) /\ Answers(th)
      BY <1>0, <2>1, <3>1, <3>2 DEF Locks, Announces, Answers, Moved, PastAnnounce
    <3> QED BY <3>3, <3>4 DEF Shape
  <2>3. CASE SessionsFor(run[th].target) # {}
    <3>1. Return(th)
      BY <1>5, <2>3 DEF LeaveAttached
    <3>2. Apart(th) /\ Moved(th, After(th)) /\ holder' = IF holder = th THEN "none" ELSE holder
      BY <3>1, ReturnApart
    <3>3. Advances(th)
      BY <1>0, <2>1, <3>2 DEF Advances, Moved, history, Locked
    <3>4. Locks(th) /\ Announces(th) /\ Answers(th)
      BY <1>0, <2>1, <3>2 DEF Locks, Announces, Answers, Moved, PastAnnounce, Locked
    <3> QED BY <3>3, <3>4 DEF Shape
  <2> QED BY <2>2, <2>3
<1>6. CASE AttachLook(th)
  <2>1. run[th].step = "look" /\ UNCHANGED <<world, signals, switches, announced, history>>
    BY <1>6 DEF AttachLook, At
  <2>2. CASE run[th].target \in registry
    <3>1. Go(th, "insert") /\ UNCHANGED <<claimed, holder>>
      BY <1>6, <2>2 DEF AttachLook
    <3>2. Apart(th) /\ Moved(th, "insert")
      BY <3>1, GoApart DEF Steps
    <3>3. Advances(th)
      BY <2>1, <3>1, <3>2 DEF Advances, Moved, history, Locked
    <3>4. Locks(th) /\ Announces(th) /\ Answers(th)
      BY <2>1, <3>1, <3>2 DEF Locks, Announces, Answers, Moved, PastAnnounce
    <3> QED BY <3>3, <3>4 DEF Shape
  <2>3. CASE run[th].target \notin registry /\ run[th].job = "autoAttach"
    <3> DEFINE new == [run[th] EXCEPT !.step = "reply", !.todo = {}, !.on = FALSE]
    <3>1. /\ new.step = "reply" /\ new.job = run[th].job /\ new.target = run[th].target
          /\ new.todo = {} /\ new.on = FALSE
      BY <1>0 DEF Runs
    <3>2. run' = [run EXCEPT ![th] = new] /\ claimed' \subseteq claimed /\ holder' = "none"
      BY <1>6, <2>3 DEF AttachLook
    <3> HIDE DEF new
    <3>3. Apart(th) /\ run'[th] = new
      BY <3>2, ExceptApart
    <3>4. holder = th
      BY <2>1, <2>3 DEF LockDiscipline, Locked
    <3>5. Advances(th)
      BY <2>1, <3>1, <3>2, <3>3 DEF Advances, history, Locked
    <3>6. Locks(th) /\ Announces(th) /\ Answers(th)
      BY <2>1, <2>3, <3>1, <3>2, <3>3, <3>4 DEF Locks, Announces, Answers, PastAnnounce, Locked
    <3> QED BY <3>5, <3>6 DEF Shape
  <2>4. CASE run[th].target \notin registry /\ run[th].job # "autoAttach"
    <3>1. Return(th) /\ UNCHANGED claimed
      BY <1>6, <2>4 DEF AttachLook
    <3>2. Apart(th) /\ Moved(th, After(th)) /\ holder' = IF holder = th THEN "none" ELSE holder
      BY <3>1, ReturnApart
    <3>3. Advances(th)
      BY <1>0, <2>1, <3>1, <3>2 DEF Advances, Moved, history, Locked
    <3>4. Locks(th) /\ Announces(th) /\ Answers(th)
      BY <1>0, <2>1, <2>4, <3>1, <3>2 DEF Locks, Announces, Answers, Moved, PastAnnounce, Locked
    <3> QED BY <3>3, <3>4 DEF Shape
  <2> QED BY <2>2, <2>3, <2>4
<1>7. CASE AttachInsert(th)
  <2>1. /\ run[th].step = "insert" /\ Go(th, "info again")
        /\ UNCHANGED <<world, signals, switches, announced, claimed, holder, history>>
    BY <1>7 DEF AttachInsert, At
  <2>2. Apart(th) /\ Moved(th, "info again")
    BY <2>1, GoApart DEF Steps
  <2>3. Advances(th)
    BY <2>1, <2>2 DEF Advances, Moved, history, Locked
  <2>4. Locks(th) /\ Announces(th) /\ Answers(th)
    BY <2>1, <2>2 DEF Locks, Announces, Answers, Moved, PastAnnounce
  <2> QED BY <2>3, <2>4 DEF Shape
<1>8. CASE AttachInfo(th)
  <2>1. run[th].step = "info again" /\ UNCHANGED <<world, signals, switches, announced, claimed, history>>
    BY <1>8 DEF AttachInfo, At
  <2>2. CASE run[th].target \in registry
    <3>1. Go(th, "emit") /\ UNCHANGED holder
      BY <1>8, <2>2 DEF AttachInfo
    <3>2. Apart(th) /\ Moved(th, "emit")
      BY <3>1, GoApart DEF Steps
    <3>3. Advances(th)
      BY <2>1, <3>1, <3>2 DEF Advances, Moved, history, Locked
    <3>4. Locks(th) /\ Announces(th) /\ Answers(th)
      BY <2>1, <3>1, <3>2 DEF Locks, Announces, Answers, Moved, PastAnnounce
    <3> QED BY <3>3, <3>4 DEF Shape
  <2>3. CASE run[th].target \notin registry
    <3>1. Return(th)
      BY <1>8, <2>3 DEF AttachInfo
    <3>2. Apart(th) /\ Moved(th, After(th)) /\ holder' = IF holder = th THEN "none" ELSE holder
      BY <3>1, ReturnApart
    <3>3. Advances(th)
      BY <1>0, <2>1, <3>2 DEF Advances, Moved, history, Locked
    <3>4. Locks(th) /\ Announces(th) /\ Answers(th)
      BY <1>0, <2>1, <2>3, <3>2 DEF Locks, Announces, Answers, Moved, PastAnnounce, Locked
    <3> QED BY <3>3, <3>4 DEF Shape
  <2> QED BY <2>2, <2>3
<1>9. CASE AttachEmit(th)
  <2>1. /\ run[th].step = "emit" /\ Return(th) /\ told' = told \union {run[th].target}
        /\ UNCHANGED <<world, signals, switches, announced, claimed, reported, sure>>
    BY <1>9 DEF AttachEmit, At
  <2>2. Apart(th) /\ Moved(th, After(th)) /\ holder' = IF holder = th THEN "none" ELSE holder
    BY <2>1, ReturnApart
  <2>3. Advances(th)
    BY <1>0, <2>1, <2>2 DEF Advances, Moved, Locked
  <2>4. Locks(th) /\ Announces(th) /\ Answers(th)
    BY <1>0, <2>1, <2>2 DEF Locks, Announces, Answers, Moved, PastAnnounce, Locked
  <2> QED BY <2>3, <2>4 DEF Shape
<1> QED BY <1>1, <1>2, <1>3, <1>4, <1>5, <1>6, <1>7, <1>8, <1>9 DEF Attaching

\* The steps of the lanes and of the event thread that are not on the way to
\* an attachment.
LEMMA ReceiveShape ==
  ASSUME TypeOK, NEW l \in Lanes, NEW job, NEW t, NEW on, Receive(l, job, t, on)
  PROVE  /\ Apart(l) /\ l \in Threads /\ run[l].step = "idle"
         /\ run'[l].job = job /\ run'[l].step = FirstStep(job) /\ run'[l].target = t
         /\ run'[l].todo = {} /\ run'[l].on = on
<1> DEFINE r == [job |-> job, step |-> FirstStep(job), target |-> t, todo |-> {}, on |-> on]
<1>1. run' = [run EXCEPT ![l] = r] /\ l \in Threads /\ run[l].step = "idle"
  BY DEF Receive, At, Threads
<1>2. /\ r.job = job /\ r.step = FirstStep(job) /\ r.target = t
      /\ r.todo = {} /\ r.on = on
  OBVIOUS
<1> HIDE DEF r
<1> QED BY <1>1, <1>2, ExceptApart DEF TypeOK

LEMMA StopShape ==
  ASSUME TypeOK, NEW th \in Threads, Stop(th)
  PROVE  /\ Apart(th) /\ run'[th].job = "idle" /\ run'[th].step = "idle"
         /\ run'[th].target = NoTarget /\ run'[th].todo = {} /\ run'[th].on = FALSE
<1>1. Apart(th) /\ run'[th] = Idle
  BY ExceptApart DEF Stop, TypeOK
<1> QED BY <1>1 DEF Idle

SwapTo(l) ==
  IF run[l].job = "discover"
    THEN IF run[l].on = discover THEN "reply" ELSE IF run[l].on THEN "snapshot" ELSE "forget"
    ELSE IF run[l].on /\ ~autoAttach THEN "snapshot" ELSE "reply"

\* Whether the driver will count on the switch.
SwapOn(l) ==
  IF run[l].job = "discover" THEN run[l].on ELSE run[l].on /\ (autoAttach => "autoAttach" \in sure)

LEMMA SwapShape ==
  ASSUME TypeOK, StepsFit, NEW l \in Lanes, Swap(l)
  PROVE  /\ Apart(l) /\ l \in Threads /\ run[l].step = "flag"
         /\ run[l].job \in {"discover", "autoAttach"}
         /\ run'[l].job = run[l].job /\ run'[l].target = run[l].target
         /\ run'[l].todo = run[l].todo /\ run'[l].on = SwapOn(l) /\ run'[l].step = SwapTo(l)
         /\ run[l].job = "autoAttach" /\ ~run[l].on =>
              \A x \in Threads : run'[x].job = "create" => ~run'[x].on
<1>1. /\ run[l].step = "flag" /\ run \in [Threads -> Runs] /\ l \in Threads /\ run[l] \in Runs
      /\ run[l].job \in {"discover", "autoAttach"} /\ SwapTo(l) \in Steps
  BY DEF Swap, At, TypeOK, Threads, StepsFit, StepFits, SwapTo, Steps
<1>2. CASE run[l].job = "discover"
  <2>1. Go(l, SwapTo(l))
    BY <1>2 DEF Swap, SwapTo
  <2> QED BY <1>1, <1>2, <2>1, GoApart DEF Moved, SwapOn
<1>3. CASE run[l].job # "discover"
  <2> DEFINE new(x) == IF x = l THEN [run[l] EXCEPT !.step = SwapTo(l), !.on = SwapOn(l)]
                       ELSE IF run[x].job = "create" /\ ~run[l].on THEN [run[x] EXCEPT !.on = FALSE]
                       ELSE run[x]
  <2>1. run' = [x \in Threads |-> new(x)]
    BY <1>3 DEF Swap, SwapTo, SwapOn
  <2>2. /\ new(l).step = SwapTo(l) /\ new(l).job = run[l].job /\ new(l).target = run[l].target
        /\ new(l).todo = run[l].todo /\ new(l).on = SwapOn(l)
    BY <1>1 DEF Runs
  <2>3. \A x \in Threads \ {l} :
          /\ new(x).step = run[x].step /\ new(x).job = run[x].job
          /\ new(x).target = run[x].target /\ new(x).todo = run[x].todo
          /\ new(x).on = run[x].on \/ (run[x].job = "create" /\ new(x).on = FALSE)
    BY <1>1 DEF Runs
  <2>4. ASSUME ~run[l].on, NEW x \in Threads, new(x).job = "create"
        PROVE  ~new(x).on
    <3>1. run[x] \in Runs
      BY <1>1
    <3> QED BY <1>1, <1>3, <2>4, <3>1 DEF Runs
  <2> HIDE DEF new
  <2>5. \A x \in Threads : run'[x] = new(x)
    BY <2>1
  <2> QED BY <1>1, <2>2, <2>3, <2>4, <2>5 DEF Apart
<1> QED BY <1>2, <1>3

LEMMA SnapshotShape ==
  ASSUME TypeOK, StepsFit, NEW l \in Lanes, Snapshot(l)
  PROVE  /\ Apart(l) /\ l \in Threads /\ run[l].step = "snapshot"
         /\ run'[l].job = run[l].job /\ run'[l].target = run[l].target
         /\ run'[l].todo = registry /\ run'[l].on = run[l].on /\ run'[l].step = "each"
<1> DEFINE new == [run[l] EXCEPT !.todo = registry, !.step = "each"]
<1>1. l \in Threads /\ run \in [Threads -> Runs] /\ run[l].step = "snapshot"
  BY DEF Snapshot, At, Threads, TypeOK
<1>2. /\ new.job = run[l].job /\ new.target = run[l].target /\ new.todo = registry
      /\ new.on = run[l].on /\ new.step = "each"
  BY <1>1 DEF Runs
<1>3. run' = [run EXCEPT ![l] = new]
  BY <1>1 DEF Snapshot
<1> HIDE DEF new
<1> QED BY <1>1, <1>2, <1>3, ExceptApart

\* The end of the loop, an announcement, or the next target to attach to.
EachEnds(l) == run[l].todo = {} /\ run'[l].step = "reply" /\ run'[l].todo = {} /\ run'[l].target = run[l].target
EachTells(l, t) ==
  /\ run[l].job = "discover" /\ Announce(t)
  /\ run'[l].step = "each" /\ run'[l].todo = run[l].todo \ {t} /\ run'[l].target = run[l].target
EachAttaches(l, t) ==
  /\ run[l].job = "autoAttach"
  /\ run'[l].step = "claim" /\ run'[l].todo = run[l].todo \ {t} /\ run'[l].target = t

LEMMA EachShape ==
  ASSUME TypeOK, StepsFit, NEW l \in Lanes, Each(l)
  PROVE  /\ Apart(l) /\ l \in Threads /\ run[l].step = "each"
         /\ run[l].job \in {"discover", "autoAttach"}
         /\ run'[l].job = run[l].job /\ run'[l].on = run[l].on
         /\ \/ EachEnds(l) /\ UNCHANGED <<announced, reported>>
            \/ \E t \in run[l].todo : EachTells(l, t)
            \/ \E t \in run[l].todo : EachAttaches(l, t) /\ UNCHANGED <<announced, reported>>
<1>1. l \in Threads /\ run \in [Threads -> Runs] /\ run[l].step = "each" /\ run[l].job \in {"discover", "autoAttach"}
  BY DEF Each, At, Threads, TypeOK, StepsFit, StepFits
<1>2. CASE run[l].todo = {} /\ Go(l, "reply") /\ UNCHANGED <<announced, reported>>
  BY <1>1, <1>2, GoApart DEF Moved, EachEnds, Steps
<1>3. CASE ~(run[l].todo = {} /\ Go(l, "reply") /\ UNCHANGED <<announced, reported>>)
  <2>1. PICK t \in run[l].todo :
          IF run[l].job = "discover"
            THEN Announce(t) /\ run' = [run EXCEPT ![l].todo = run[l].todo \ {t}]
            ELSE /\ run' = [run EXCEPT ![l].todo = run[l].todo \ {t}, ![l].target = t, ![l].step = "claim"]
                 /\ UNCHANGED <<announced, reported>>
    BY <1>3 DEF Each
  <2>2. CASE run[l].job = "discover"
    <3> DEFINE new == [run[l] EXCEPT !.todo = run[l].todo \ {t}]
    <3>1. /\ new.job = run[l].job /\ new.target = run[l].target /\ new.todo = run[l].todo \ {t}
          /\ new.on = run[l].on /\ new.step = "each"
      BY <1>1 DEF Runs
    <3>2. run' = [run EXCEPT ![l] = new] /\ Announce(t)
      BY <1>1, <2>1, <2>2
    <3> HIDE DEF new
    <3>3. Apart(l) /\ run'[l] = new
      BY <1>1, <3>2, ExceptApart
    <3>4. EachTells(l, t)
      BY <2>2, <3>1, <3>2, <3>3 DEF EachTells
    <3> QED BY <1>1, <3>1, <3>3, <3>4
  <2>3. CASE run[l].job # "discover"
    <3> DEFINE new == [run[l] EXCEPT !.todo = run[l].todo \ {t}, !.target = t, !.step = "claim"]
    <3>1. /\ new.job = run[l].job /\ new.target = t /\ new.todo = run[l].todo \ {t}
          /\ new.on = run[l].on /\ new.step = "claim"
      BY <1>1 DEF Runs
    <3>2. run' = [run EXCEPT ![l] = new] /\ UNCHANGED <<announced, reported>>
      BY <1>1, <2>1, <2>3
    <3> HIDE DEF new
    <3>3. Apart(l) /\ run'[l] = new
      BY <1>1, <3>2, ExceptApart
    <3>4. EachAttaches(l, t)
      BY <1>1, <2>3, <3>1, <3>2, <3>3 DEF EachAttaches
    <3> QED BY <1>1, <3>1, <3>2, <3>3, <3>4
  <2> QED BY <2>2, <2>3
<1> QED BY <1>2, <1>3

LEMMA TakeShape ==
  ASSUME TypeOK, TakeSignal
  PROVE  /\ Apart("events") /\ "events" \in Threads /\ run["events"].step = "idle"
         /\ 1 \in 1 .. Len(signals)
         /\ run'["events"].job = signals[1].kind /\ signals[1].kind \in {"created", "destroyed"}
         /\ run'["events"].target = signals[1].target
         /\ run'["events"].step = (IF signals[1].kind = "created" THEN "check" ELSE "unclaim")
         /\ run'["events"].todo = {} /\ run'["events"].on = FALSE
<1> DEFINE s == signals[1]
           new == [Idle EXCEPT !.job = s.kind, !.target = s.target,
                               !.step = IF s.kind = "created" THEN "check" ELSE "unclaim"]
<1>1. /\ "events" \in Threads /\ run["events"].step = "idle" /\ run \in [Threads -> Runs]
      /\ signals \in Seq([kind : {"created", "destroyed"}, target : Targets]) /\ signals # <<>>
  BY DEF TakeSignal, At, Threads, TypeOK
<1>2. 1 \in 1 .. Len(signals) /\ s \in [kind : {"created", "destroyed"}, target : Targets] /\ s = Head(signals)
  <2> DEFINE S == [kind : {"created", "destroyed"}, target : Targets]
  <2>1. signals \in Seq(S) /\ signals # <<>>
    BY <1>1
  <2> HIDE DEF S
  <2>2. Len(signals) \in Nat \ {0} /\ Head(signals) = signals[1]
    BY <2>1
  <2>3. 1 \in 1 .. Len(signals)
    BY <2>2
  <2>4. signals[1] \in S
    BY <2>1, <2>3
  <2> QED BY <2>2, <2>3, <2>4 DEF S
<1>3. /\ new.job = s.kind /\ new.target = s.target /\ new.todo = {} /\ new.on = FALSE
      /\ new.step = IF s.kind = "created" THEN "check" ELSE "unclaim"
  BY DEF Idle
<1>4. run' = [run EXCEPT !["events"] = new]
  BY <1>2 DEF TakeSignal
<1> HIDE DEF new
<1> QED BY <1>1, <1>2, <1>3, <1>4, ExceptApart

\* A step that is not on the way to an attachment leaves the lock and its
\* holder alone.
Beside(th) ==
  /\ Apart(th) /\ run[th].step \notin Locked \union {"check", "claim"}
  /\ UNCHANGED <<holder, told>> /\ claimed' \subseteq claimed

LEMMA BesideShape ==
  ASSUME TypeOK, StepsFit, [Next]_vars, ~\E th \in Threads : Attaching(th)
  PROVE  UNCHANGED <<run, holder, told, claimed>> \/ \E th \in Threads : Beside(th)
<1> USE DEF Locked
<1>0. "events" \in Threads /\ Lanes \subseteq Threads /\ run \in [Threads -> Runs]
  BY DEF Threads, TypeOK
<1>1. CASE Driver /\ ~UNCHANGED run
  <2>1. PICK l \in Lanes : \E job, t, on : Receive(l, job, t, on)
    BY <1>1, LanesAssumption DEF Driver, ReceiveSwitch, ReceiveCreate, ReceiveAttach, Detach
  <2>2. Apart(l) /\ run[l].step = "idle"
    BY <2>1, ReceiveShape
  <2>3. UNCHANGED <<holder, told, claimed>>
    BY <1>1 DEF Driver, ReceiveSwitch, ReceiveCreate, ReceiveAttach, Detach, history
  <2> QED BY <1>0, <2>2, <2>3 DEF Beside
<1>2. CASE Driver /\ UNCHANGED run
  BY <1>2 DEF Driver, ReceiveSwitch, ReceiveCreate, ReceiveAttach, Detach, history
<1>3. CASE Others \/ UNCHANGED vars
  BY <1>3 DEF Others, CreateElsewhere, Destroy, vars, history
<1>4. CASE \E l \in Lanes : Command(l)
  <2>1. PICK l \in Lanes : Command(l)
    BY <1>4
  <2>2. UNCHANGED <<holder, told, claimed>>
    BY <2>1 DEF Command, Swap, Snapshot, Each, Forget, CreateHere, Reply, history
  <2>3. CASE Swap(l) \/ Snapshot(l) \/ Each(l)
    BY <1>0, <2>2, <2>3, SwapShape, SnapshotShape, EachShape DEF Beside
  <2>4. CASE Forget(l) \/ CreateHere(l)
    <3>1. Apart(l) /\ run[l].step \in {"forget", "register"}
      BY <1>0, <2>4, GoApart DEF Forget, CreateHere, At, Steps
    <3> QED BY <1>0, <2>2, <3>1 DEF Beside
  <2>5. CASE Reply(l)
    BY <1>0, <2>2, <2>5, StopShape DEF Reply, At, Beside
  <2> QED BY <2>1, <2>3, <2>4, <2>5 DEF Command
<1>5. CASE HandleSignal
  <2>1. UNCHANGED <<holder, told>> /\ claimed' \subseteq claimed
    BY <1>5 DEF HandleSignal, TakeSignal, LateAnnounce, Unclaim, Unannounce, DetachAll, history
  <2>2. CASE TakeSignal
    BY <1>0, <2>1, <2>2, TakeShape DEF Beside
  <2>3. CASE LateAnnounce \/ DetachAll
    BY <1>0, <2>1, <2>3, StopShape DEF LateAnnounce, DetachAll, At, Beside
  <2>4. CASE Unclaim \/ Unannounce
    <3>1. Apart("events") /\ run["events"].step \in {"unclaim", "unannounce"}
      BY <1>0, <2>4, GoApart DEF Unclaim, Unannounce, At, Steps
    <3> QED BY <1>0, <2>1, <3>1 DEF Beside
  <2> QED BY <1>5, <2>2, <2>3, <2>4 DEF HandleSignal
<1> QED BY <1>1, <1>2, <1>3, <1>4, <1>5 DEF Next

-----------------------------------------------------------------------------
(***************************************************************************)
(* Births and turns.                                                       *)
(***************************************************************************)
LEMMA WorldGrows ==
  ASSUME TypeOK, StepsFit, [Next]_vars
  PROVE  born \subseteq born' /\ registry' \cap born \subseteq registry
  BY WorldSteps DEF world, Register, Destroy, TypeOK

LEMMA SignalsBorn ==
  ASSUME TypeOK, StepsFit, Births, [Next]_vars
  PROVE  (\A i \in 1 .. Len(signals) : signals[i].target \in born)'
<1> DEFINE S == [kind : {"created", "destroyed"}, target : Targets]
<1>1. signals \in Seq(S) /\ Len(signals) \in Nat
  BY DEF TypeOK
<1>2. \A i \in 1 .. Len(signals) : signals[i].target \in born
  BY DEF Births
<1>3. CASE UNCHANGED <<world, signals>>
  BY <1>2, <1>3 DEF world
<1>4. CASE UNCHANGED world /\ TakeSignal
  <2>1. signals # <<>> /\ signals' = Tail(signals) /\ UNCHANGED born
    BY <1>4 DEF TakeSignal, world
  <2>2. Len(signals') = Len(signals) - 1 /\ \A i \in 1 .. Len(signals') : signals'[i] = signals[i + 1]
    BY <1>1, <2>1
  <2> QED BY <1>1, <1>2, <2>1, <2>2
<1>5. ASSUME NEW t \in Targets, NEW s \in S, s.target \in born', born \subseteq born', signals' = Append(signals, s)
      PROVE  \A i \in 1 .. Len(signals') : signals'[i].target \in born'
  <2>1. /\ Len(signals') = Len(signals) + 1
        /\ \A i \in 1 .. Len(signals') : signals'[i] = IF i = Len(signals) + 1 THEN s ELSE signals[i]
    BY <1>1, <1>5
  <2> QED BY <1>1, <1>2, <1>5, <2>1
<1>6. CASE \E t \in Targets : Register(t)
  <2>1. PICK t \in Targets : Register(t)
    BY <1>6
  <2> DEFINE s == [kind |-> "created", target |-> t]
  <2>2. s \in S /\ s.target = t
    OBVIOUS
  <2>3. t \in born' /\ born \subseteq born' /\ signals' = Append(signals, s)
    BY <2>1 DEF Register
  <2> HIDE DEF s, S
  <2> QED BY <1>5, <2>2, <2>3
<1>7. CASE \E t \in Targets : Destroy(t)
  <2>1. PICK t \in Targets : Destroy(t)
    BY <1>7
  <2> DEFINE s == [kind |-> "destroyed", target |-> t]
  <2>2. s \in S /\ s.target = t
    OBVIOUS
  <2>3. t \in born' /\ born \subseteq born' /\ signals' = Append(signals, s)
    BY <2>1 DEF Destroy, TypeOK
  <2> HIDE DEF s, S
  <2> QED BY <1>5, <2>2, <2>3
<1> QED BY <1>3, <1>4, <1>6, <1>7, WorldSteps

LEMMA BirthApart ==
  ASSUME Births, NEW th \in Threads, Apart(th), BirthOK(th)', born \subseteq born', NEW x \in Threads
  PROVE  BirthOK(x)'
  BY DEF Births, BirthOK, Apart

LEMMA BirthsKept ==
  ASSUME TypeOK, StepsFit, Births, [Next]_vars
  PROVE  Births'
<1>0. /\ "events" \in Threads /\ Lanes \subseteq Threads /\ BrowserLane \in Lanes /\ run \in [Threads -> Runs]
      /\ registry \subseteq born
  BY LanesAssumption DEF Threads, TypeOK
<1>1. born \subseteq born'
  BY WorldGrows
<1>2. (\A i \in 1 .. Len(signals) : signals[i].target \in born)'
  BY SignalsBorn
<1>3. \A th \in Threads : BirthOK(th)
  BY DEF Births
<1>4. CASE \E th \in Threads : Attaching(th)
  <2>1. PICK th \in Threads : Shape(th)
    BY <1>4, AttachingShape
  <2>2. BirthOK(th) /\ run[th].target \in born
    BY <1>3, <2>1 DEF Shape, Advances, BirthOK
  <2>3. BirthOK(th)'
    BY <1>1, <2>1, <2>2 DEF Shape, Advances, BirthOK, Locked
  <2>4. claimed' \subseteq born'
    BY <1>1, <2>1, <2>2 DEF Shape, Advances, Births
  <2>5. \A x \in Threads : BirthOK(x)'
    BY <1>1, <2>1, <2>3, BirthApart DEF Shape, Advances
  <2> QED BY <1>2, <2>4, <2>5 DEF Births
<1>5. CASE ~\E th \in Threads : Attaching(th)
  <2>1. claimed' \subseteq born'
    BY <1>1, <1>5, BesideShape DEF Beside, Births
  <2>2. CASE UNCHANGED run
    BY <1>1, <1>2, <1>3, <2>1, <2>2 DEF Births, BirthOK
  <2>3. CASE ~UNCHANGED run
    <3>1. SUFFICES \E th \in Threads : Apart(th) /\ BirthOK(th)'
      <4>1. \A x \in Threads : BirthOK(x)'
        BY <1>1, <3>1, BirthApart
      <4> QED BY <1>2, <2>1, <4>1 DEF Births
    <3>2. CASE Driver
      <4>1. PICK l \in Lanes : \E job, t, on : Receive(l, job, t, on) /\ (job = "attach" => t \in born)
                                               /\ job \in {"discover", "autoAttach", "create", "attach"}
        BY <1>0, <2>3, <3>2 DEF Driver, ReceiveSwitch, ReceiveCreate, ReceiveAttach, Detach
      <4>2. /\ Apart(l) /\ run'[l].todo = {}
            /\ run'[l].step \in {"register", "flag"} \/ run'[l].target \in born
            /\ run'[l].job = "create" => run'[l].step = "register"
        BY <4>1, ReceiveShape DEF FirstStep
      <4>3. BirthOK(l)'
        BY <1>1, <4>2 DEF BirthOK, Locked
      <4> QED BY <1>0, <4>2, <4>3
    <3>3. CASE Others \/ UNCHANGED vars
      BY <2>3, <3>3 DEF Others, CreateElsewhere, Destroy, vars
    <3>4. CASE \E l \in Lanes : Command(l)
      <4>1. PICK l \in Lanes : Command(l)
        BY <3>4
      <4>2. BirthOK(l) /\ l \in Threads
        BY <1>0, <1>3
      <4>3. CASE Swap(l)
        BY <1>1, <4>2, <4>3, SwapShape DEF BirthOK, SwapTo, Locked
      <4>4. CASE Snapshot(l)
        <5>1. run'[l].job # "create"
          BY <4>2, <4>4, SnapshotShape DEF StepsFit, StepFits
        <5> QED BY <1>0, <1>1, <4>2, <4>4, <5>1, SnapshotShape DEF BirthOK, Locked
      <4>5. CASE Each(l)
        BY <1>1, <4>2, <4>5, EachShape DEF BirthOK, Locked, EachEnds, EachTells, EachAttaches
      <4>6. CASE Forget(l)
        <5>1. Apart(l) /\ Moved(l, "reply") /\ run[l].job # "create"
          BY <1>0, <4>2, <4>6, GoApart DEF Forget, At, Steps, StepsFit, StepFits
        <5> QED BY <1>1, <4>2, <5>1 DEF BirthOK, Moved, Locked
      <4>7. CASE CreateHere(l)
        <5>1. Apart(l) /\ Moved(l, "check") /\ run[l].target \in born'
          BY <1>0, <4>2, <4>7, GoApart DEF CreateHere, Register, Steps
        <5> QED BY <1>1, <4>2, <5>1 DEF BirthOK, Moved, Locked
      <4>8. CASE Reply(l)
        BY <4>2, <4>8, StopShape DEF Reply, BirthOK, Locked
      <4> QED BY <4>1, <4>3, <4>4, <4>5, <4>6, <4>7, <4>8 DEF Command
    <3>5. CASE HandleSignal
      <4>1. CASE TakeSignal
        BY <1>1, <4>1, TakeShape DEF BirthOK, Births
      <4>2. CASE LateAnnounce \/ DetachAll
        BY <1>0, <4>2, StopShape DEF LateAnnounce, DetachAll, BirthOK, Locked
      <4>3. CASE Unclaim \/ Unannounce
        <5>1. PICK to \in {"unannounce", "detach"} : Go("events", to)
          BY <4>3 DEF Unclaim, Unannounce
        <5>2. /\ Apart("events") /\ Moved("events", to) /\ BirthOK("events")
              /\ run["events"].step \in {"unclaim", "unannounce"}
          BY <1>0, <1>3, <4>3, <5>1, GoApart DEF Unclaim, Unannounce, At, Steps
        <5> QED BY <1>0, <1>1, <5>2 DEF BirthOK, Moved, Locked
      <4> QED BY <3>5, <4>1, <4>2, <4>3 DEF HandleSignal
    <3> QED BY <1>5, <3>2, <3>3, <3>4, <3>5 DEF Next
  <2> QED BY <2>2, <2>3
<1> QED BY <1>4, <1>5

LEMMA TurnApart ==
  ASSUME Turns, NEW th \in Threads, Apart(th), TurnOK(th)'
  PROVE  Turns'
  BY DEF Turns, TurnOK, Apart

LEMMA TurnsKept ==
  ASSUME TypeOK, StepsFit, Turns, [Next]_vars
  PROVE  Turns'
<1>0. /\ "events" \in Threads /\ Lanes \subseteq Threads /\ BrowserLane \in Lanes /\ "events" \notin Lanes
      /\ run \in [Threads -> Runs]
  BY LanesAssumption DEF Threads, TypeOK
<1>1. \A th \in Threads : TurnOK(th) /\ StepFits(th)
  BY DEF Turns, StepsFit
<1>2. CASE UNCHANGED run
  BY <1>2 DEF Turns, TurnOK
<1>3. CASE ~UNCHANGED run
  <2>1. SUFFICES \E th \in Threads : Apart(th) /\ TurnOK(th)'
    BY <2>1, TurnApart
  <2>2. CASE \E th \in Threads : Attaching(th)
    <3>1. PICK th \in Threads : Shape(th)
      BY <2>2, AttachingShape
    <3>2. TurnOK(th)
      BY <1>1
    <3> QED BY <3>1, <3>2 DEF Shape, Advances, TurnOK, Loop, Locked
  <2>3. CASE Driver
    <3>1. PICK l \in Lanes : \E job, t, on : Receive(l, job, t, on) /\ (job \in {"discover", "autoAttach"} => l = BrowserLane)
                                             /\ job \in {"discover", "autoAttach", "create", "attach"}
      BY <1>0, <1>3, <2>3 DEF Driver, ReceiveSwitch, ReceiveCreate, ReceiveAttach, Detach
    <3>2. /\ Apart(l) /\ l \in Threads
          /\ run'[l].job \in {"discover", "autoAttach"} => l = BrowserLane /\ run'[l].step = "flag"
          /\ run'[l].step \in {"flag", "register", "look"}
      BY <3>1, ReceiveShape DEF FirstStep
    <3>3. TurnOK(l)'
      BY <1>0, <3>1, <3>2 DEF TurnOK
    <3> QED BY <3>2, <3>3
  <2>4. CASE Others \/ UNCHANGED vars
    BY <1>3, <2>4 DEF Others, CreateElsewhere, Destroy, vars
  <2>5. CASE \E l \in Lanes : Command(l)
    <3>1. PICK l \in Lanes : Command(l)
      BY <2>5
    <3>2. TurnOK(l) /\ StepFits(l) /\ l \in Threads /\ l # "events"
      BY <1>0, <1>1
    <3>3. CASE Swap(l)
      <4>1. /\ SwapTo(l) \in {"reply", "snapshot", "forget"}
            /\ SwapTo(l) = "forget" => run[l].job = "discover" /\ ~run[l].on
            /\ run[l].job = "discover" /\ SwapTo(l) = "snapshot" => run[l].on
        BY DEF SwapTo
      <4> QED BY <3>2, <3>3, <4>1, SwapShape DEF TurnOK, Loop, SwapOn
    <3>4. CASE Snapshot(l)
      BY <3>2, <3>4, SnapshotShape DEF TurnOK, Loop
    <3>5. CASE Each(l)
      <4>1. /\ run'[l].step \in {"reply", "each", "claim"}
            /\ run'[l].step = "claim" => run[l].job = "autoAttach"
        BY <3>5, EachShape DEF EachEnds, EachTells, EachAttaches
      <4> QED BY <3>2, <3>5, <4>1, EachShape DEF TurnOK, Loop
    <3>6. CASE Forget(l)
      <4>1. Apart(l) /\ Moved(l, "reply")
        BY <1>0, <3>2, <3>6, GoApart DEF Forget, Steps
      <4> QED BY <3>2, <4>1 DEF TurnOK, Moved
    <3>7. CASE CreateHere(l)
      <4>1. Apart(l) /\ Moved(l, "check") /\ run[l].job = "create"
        BY <1>0, <3>2, <3>7, GoApart DEF CreateHere, At, Steps, StepFits
      <4> QED BY <3>2, <4>1 DEF TurnOK, Moved
    <3>8. CASE Reply(l)
      BY <3>2, <3>8, StopShape DEF Reply, TurnOK
    <3> QED BY <3>1, <3>3, <3>4, <3>5, <3>6, <3>7, <3>8 DEF Command
  <2>6. CASE HandleSignal
    <3>1. CASE TakeSignal
      BY <3>1, TakeShape DEF TurnOK
    <3>2. CASE LateAnnounce \/ DetachAll
      BY <1>0, <3>2, StopShape DEF LateAnnounce, DetachAll, TurnOK
    <3>3. CASE Unclaim \/ Unannounce
      <4>1. PICK to \in {"unannounce", "detach"} : Go("events", to)
        BY <3>3 DEF Unclaim, Unannounce
      <4>2. Apart("events") /\ Moved("events", to) /\ TurnOK("events")
        BY <1>0, <1>1, <4>1, GoApart DEF Steps
      <4> QED BY <1>0, <4>2 DEF TurnOK, Moved
    <3> QED BY <2>6, <3>1, <3>2, <3>3 DEF HandleSignal
  <2> QED BY <2>2, <2>3, <2>4, <2>5, <2>6 DEF Next
<1> QED BY <1>2, <1>3

-----------------------------------------------------------------------------
(***************************************************************************)
(* Discovery.                                                              *)
(***************************************************************************)
LEMMA KnownKept ==
  ASSUME TypeOK, StepsFit, [Next]_vars, reported \subseteq reported', NEW t \in born, Known(t)
  PROVE  Known(t)'
  BY WorldGrows DEF Known

\* A step of a thread that is not about discovery.
LEMMA DiscoveryBeside ==
  ASSUME TypeOK, StepsFit, Births, Turns, Discovery, [Next]_vars,
         NEW th \in Threads, Apart(th), run[th].job # "discover", run'[th].job # "discover",
         UNCHANGED discover, "discover" \in sure' <=> "discover" \in sure,
         reported \subseteq reported', announced' \subseteq reported',
         PastAnnounce(th)' => (PastAnnounce(th) /\ run'[th].target = run[th].target)
                              \/ (discover => run'[th].target \in reported')
  PROVE  Discovery'
<1> DEFINE b == BrowserLane
           Now(t) == t \in reported' \/ t \notin registry'
<1>1. b \in Threads /\ \A x \in Threads : PastAnnounce(x) => run[x].target \in born
  BY LanesAssumption DEF Threads, Births, BirthOK, PastAnnounce, Locked
<1>2. \A t \in born : Known(t) => Now(t)
  BY KnownKept DEF Known
<1>3. \A x \in Threads :
        PastAnnounce(x)' => (PastAnnounce(x) /\ run'[x].target = run[x].target)
                            \/ (discover => Now(run'[x].target))
  BY DEF Apart, PastAnnounce
<1>4. AllKnown /\ discover => AllKnown'
  BY <1>1, <1>2, <1>3 DEF AllKnown, Known
<1>5. CASE th = b
  BY <1>4, <1>5 DEF Discovery, DiscoverRun
<1>6. CASE th # b
  <2>1. /\ run'[b].job = run[b].job /\ run'[b].step = run[b].step /\ run'[b].todo = run[b].todo
        /\ run[b].job = "discover" => run'[b].on = run[b].on
    BY <1>1, <1>6 DEF Apart
  <2>2. CASE run[b].job # "discover"
    BY <1>4, <2>1, <2>2 DEF Discovery, DiscoverRun
  <2>3. CASE run[b].job = "discover" /\ ~run[b].on
    BY <1>4, <2>1, <2>3 DEF Discovery, DiscoverRun
  <2>4. CASE run[b].job = "discover" /\ run[b].on
    <3>1. DiscoverRun /\ run'[b].on /\ run'[b].job = "discover"
      BY <2>1, <2>4 DEF Discovery
    <3>2. run[b].step = "each" =>
            \A x \in Threads : PastAnnounce(x)' => Now(run'[x].target) \/ run'[x].target \in run'[b].todo
      BY <1>1, <1>2, <1>3, <2>1, <2>4, <3>1 DEF DiscoverRun
    <3>3. DiscoverRun'
      BY <1>4, <2>1, <2>4, <3>1, <3>2 DEF DiscoverRun, Known
    <3> QED BY <1>4, <2>1, <2>4, <3>3 DEF Discovery
  <2> QED BY <2>2, <2>3, <2>4
<1> QED BY <1>5, <1>6

\* The steps of the browser's lane that are.
LEMMA DiscoveryCommands ==
  ASSUME TypeOK, StepsFit, Births, Turns, Discovery, [Next]_vars,
         NEW l \in Lanes, Command(l), run[l].job = "discover"
  PROVE  Discovery'
<1> DEFINE Now(t) == t \in reported' \/ t \notin registry'
<1>0. /\ l = BrowserLane /\ l \in Threads /\ Lanes \subseteq Threads /\ run \in [Threads -> Runs]
      /\ TurnOK(l) /\ StepFits(l) /\ DiscoverRun
  BY DEF Threads, TypeOK, Turns, TurnOK, StepsFit, Discovery
<1>1. \A x \in Threads : PastAnnounce(x) => run[x].target \in born
  BY DEF Births, BirthOK, PastAnnounce, Locked
<1>2. ~PastAnnounce(l) /\ run[l].step \in {"flag", "snapshot", "each", "forget", "reply"}
  BY <1>0 DEF TurnOK, PastAnnounce
<1>3. ASSUME Apart(l), run'[l].step \in {"idle", "flag", "snapshot", "each", "forget", "reply"}, NEW x \in Threads
      PROVE  PastAnnounce(x)' => PastAnnounce(x) /\ run'[x].target = run[x].target
  BY <1>0, <1>2, <1>3 DEF Apart, PastAnnounce
<1>4. CASE Swap(l)
  <2>1. /\ Apart(l) /\ run[l].step = "flag" /\ run'[l].job = "discover"
        /\ run'[l].on = run[l].on /\ run'[l].step = SwapTo(l)
    BY <1>4, SwapShape DEF SwapOn
  <2>2. discover' = run[l].on /\ UNCHANGED <<world, announced, history>>
    BY <1>4 DEF Swap
  <2>3. AllKnown => AllKnown'
    BY <1>3, <2>1, <2>2 DEF AllKnown, Known, world, history, SwapTo
  <2>4. run[l].on \in BOOLEAN /\ discover \in BOOLEAN
    BY <1>0 DEF Runs, TypeOK
  <2>5. CASE run[l].on
    BY <1>0, <2>1, <2>2, <2>3, <2>4, <2>5 DEF SwapTo, Discovery, DiscoverRun, history
  <2>6. CASE ~run[l].on
    BY <1>0, <2>1, <2>2, <2>3, <2>4, <2>6 DEF SwapTo, Discovery, DiscoverRun, history
  <2> QED BY <2>5, <2>6
<1>5. CASE Snapshot(l)
  <2>1. /\ Apart(l) /\ run[l].step = "snapshot" /\ run'[l].job = "discover"
        /\ run'[l].on = run[l].on /\ run'[l].todo = registry /\ run'[l].step = "each"
    BY <1>5, SnapshotShape
  <2>2. UNCHANGED <<world, switches, announced, history>> /\ run[l].on
    BY <1>0, <1>5, <2>1 DEF Snapshot, TurnOK
  <2>3. AllKnown => AllKnown'
    BY <1>3, <2>1, <2>2 DEF AllKnown, Known, world, history
  <2>4. \A x \in Threads : Known(run[x].target)' \/ run'[x].target \in run'[l].todo
    BY <2>1, <2>2 DEF Known, world
  <2> QED BY <1>0, <2>1, <2>2, <2>3, <2>4 DEF Discovery, DiscoverRun, history, switches
<1>6. CASE Each(l)
  <2>1. /\ Apart(l) /\ run[l].step = "each" /\ run'[l].job = "discover" /\ run'[l].on = run[l].on
        /\ \/ EachEnds(l) /\ UNCHANGED <<announced, reported>>
           \/ \E t \in run[l].todo : EachTells(l, t)
    BY <1>6, EachShape DEF EachAttaches
  <2>2. /\ UNCHANGED <<world, switches, sure>> /\ run[l].on /\ discover
        /\ \A x \in Threads : PastAnnounce(x) => Known(run[x].target) \/ run[x].target \in run[l].todo
    BY <1>0, <1>6, <2>1 DEF Each, TurnOK, DiscoverRun
  <2>3. CASE EachEnds(l) /\ UNCHANGED <<announced, reported>>
    <3>1. AllKnown'
      BY <1>3, <2>1, <2>2, <2>3 DEF AllKnown, Known, world, EachEnds
    <3> QED BY <1>0, <2>1, <2>2, <2>3, <3>1 DEF Discovery, DiscoverRun, switches, EachEnds
  <2>4. CASE \E t \in run[l].todo : EachTells(l, t)
    <3>1. PICK t \in run[l].todo : EachTells(l, t)
      BY <2>4
    <3>2. t \in reported' /\ reported \subseteq reported' /\ announced' \subseteq reported'
      BY <2>2, <3>1 DEF EachTells, Announce, Discovery
    <3>3. run'[l].step = "each" /\ run'[l].todo = run[l].todo \ {t}
      BY <3>1 DEF EachTells
    <3>4. \A x \in Threads : PastAnnounce(x)' => Known(run[x].target)' \/ run'[x].target \in run'[l].todo
      BY <1>3, <2>1, <2>2, <3>2, <3>3 DEF Known, world
    <3>5. AllKnown => AllKnown'
      BY <1>3, <2>1, <2>2, <3>2, <3>3 DEF AllKnown, Known, world
    <3> QED BY <1>0, <2>1, <2>2, <3>2, <3>3, <3>4, <3>5 DEF Discovery, DiscoverRun, switches
  <2> QED BY <2>1, <2>3, <2>4
<1>7. CASE Forget(l)
  <2>1. Apart(l) /\ Moved(l, "reply") /\ run[l].step = "forget"
    BY <1>0, <1>7, GoApart DEF Forget, At, Steps
  <2>2. announced' = {} /\ UNCHANGED <<switches, sure>> /\ ~run[l].on /\ ~discover /\ "discover" \notin sure
    BY <1>0, <1>7, <2>1 DEF Forget, TurnOK, DiscoverRun
  <2> QED BY <1>0, <2>1, <2>2 DEF Discovery, DiscoverRun, switches, Moved
<1>8. CASE CreateHere(l)
  BY <1>0, <1>8 DEF CreateHere, At, StepFits
<1>9. CASE Reply(l)
  <2>1. Apart(l) /\ run[l].step = "reply" /\ run'[l].job = "idle" /\ run'[l].step = "idle"
    BY <1>0, <1>9, StopShape DEF Reply, At
  <2>2. /\ UNCHANGED <<world, switches, announced, reported>>
        /\ sure' = IF run[l].on THEN sure \union {"discover"} ELSE sure
    BY <1>0, <1>9 DEF Reply
  <2>3. AllKnown => AllKnown'
    BY <1>3, <2>1, <2>2 DEF AllKnown, Known, world
  <2>4. CASE run[l].on
    BY <1>0, <2>1, <2>2, <2>3, <2>4 DEF Discovery, DiscoverRun, switches
  <2>5. CASE ~run[l].on
    BY <1>0, <2>1, <2>2, <2>3, <2>5 DEF Discovery, DiscoverRun, switches
  <2> QED BY <2>4, <2>5
<1> QED BY <1>4, <1>5, <1>6, <1>7, <1>8, <1>9 DEF Command

LEMMA DiscoveryKept ==
  ASSUME TypeOK, StepsFit, Births, Turns, Discovery, [Next]_vars
  PROVE  Discovery'
<1>0. /\ "events" \in Threads /\ Lanes \subseteq Threads /\ BrowserLane \in Lanes /\ run \in [Threads -> Runs]
      /\ announced \subseteq reported /\ sure \subseteq {"discover", "autoAttach"}
      /\ run["events"].job # "discover"
  BY LanesAssumption DEF Threads, TypeOK, Discovery, Turns, TurnOK
<1>1. \A th \in Threads : TurnOK(th) /\ StepFits(th)
  BY DEF Turns, StepsFit
<1>2. ASSUME UNCHANGED <<run, discover, announced, reported, sure>>
      PROVE  Discovery'
  <2>1. Apart("events")
    BY <1>2 DEF Apart
  <2>2. PastAnnounce("events")' => PastAnnounce("events") /\ run'["events"].target = run["events"].target
    BY <1>2 DEF PastAnnounce
  <2> QED BY <1>0, <1>2, <2>1, <2>2, DiscoveryBeside
<1>3. ASSUME NEW th \in Threads, Apart(th), run[th].job # "discover", run'[th].job # "discover",
             UNCHANGED <<discover, announced, reported>>, "discover" \in sure' <=> "discover" \in sure,
             ~PastAnnounce(th)'
      PROVE  Discovery'
  BY <1>0, <1>3, DiscoveryBeside
<1>4. CASE \E job \in {"discover", "autoAttach"}, on \in BOOLEAN : ReceiveSwitch(job, on)
  <2>1. PICK job \in {"discover", "autoAttach"}, on \in BOOLEAN : ReceiveSwitch(job, on)
    BY <1>4
  <2> DEFINE b == BrowserLane
  <2>2. /\ Apart(b) /\ b \in Threads /\ run[b].step = "idle" /\ run'[b].job = job /\ run'[b].step = "flag"
        /\ run'[b].on = on
    BY <1>0, <2>1, ReceiveShape DEF ReceiveSwitch, FirstStep
  <2>3. /\ UNCHANGED <<world, switches, announced, reported>>
        /\ sure' = IF on THEN sure ELSE sure \ {job}
    BY <2>1 DEF ReceiveSwitch
  <2>4. run[b].job # "discover" /\ ~PastAnnounce(b)'
    BY <1>1, <2>2 DEF TurnOK, PastAnnounce
  <2>5. CASE job = "autoAttach"
    BY <1>3, <2>2, <2>3, <2>4, <2>5 DEF switches
  <2>6. CASE job = "discover"
    <3>1. AllKnown => AllKnown'
      BY <2>2, <2>3, <2>4 DEF AllKnown, Known, PastAnnounce, Apart, world
    <3> QED BY <1>0, <2>2, <2>3, <2>4, <2>6, <3>1 DEF Discovery, DiscoverRun, switches
  <2> QED BY <2>5, <2>6
<1>5. CASE \E l \in Lanes, t \in Targets : ReceiveCreate(l, t) \/ ReceiveAttach(l, t)
  <2>1. PICK l \in Lanes : \E job \in {"create", "attach"} : \E t, on : Receive(l, job, t, on)
    BY <1>5 DEF ReceiveCreate, ReceiveAttach
  <2>2. /\ Apart(l) /\ l \in Threads /\ run[l].step = "idle" /\ run'[l].job \in {"create", "attach"}
        /\ run'[l].job = "create" => run'[l].step = "register"
    BY <2>1, ReceiveShape DEF FirstStep
  <2>3. UNCHANGED <<discover, announced, reported, sure>>
    BY <1>5 DEF ReceiveCreate, ReceiveAttach, switches, history
  <2> QED BY <1>1, <1>3, <2>2, <2>3 DEF TurnOK, PastAnnounce
<1>6. CASE (\E l \in Lanes, s \in sessions : Detach(l, s)) \/ Others \/ UNCHANGED vars
  BY <1>2, <1>6 DEF Detach, Others, CreateElsewhere, Destroy, vars, switches, history
<1>7. CASE \E th \in Threads : Attaching(th)
  <2>1. PICK th \in Threads : Shape(th)
    BY <1>7, AttachingShape
  <2>2. run[th].job # "discover"
    BY <1>1, <2>1 DEF Shape, Advances, TurnOK, Locked
  <2>3. /\ Apart(th) /\ run'[th].job = run[th].job /\ run'[th].target = run[th].target
        /\ UNCHANGED <<switches, sure>> /\ reported \subseteq reported' /\ announced' \subseteq reported'
        /\ PastAnnounce(th)' => PastAnnounce(th) \/ (discover => run[th].target \in reported')
    BY <1>0, <2>1 DEF Shape, Advances, Announces
  <2> QED BY <2>2, <2>3, DiscoveryBeside DEF switches
<1>8. CASE \E l \in Lanes : Command(l)
  <2>1. PICK l \in Lanes : Command(l)
    BY <1>8
  <2>2. CASE run[l].job = "discover"
    BY <2>1, <2>2, DiscoveryCommands
  <2>3. CASE run[l].job # "discover"
    <3>1. l \in Threads /\ TurnOK(l) /\ StepFits(l)
      BY <1>0, <1>1
    <3>2. CASE Swap(l)
      <4>1. ~PastAnnounce(l)'
        BY <3>2, SwapShape DEF SwapTo, PastAnnounce
      <4>2. UNCHANGED <<discover, announced, reported, sure>>
        BY <2>3, <3>2 DEF Swap, history
      <4> QED BY <1>3, <2>3, <3>1, <3>2, <4>1, <4>2, SwapShape
    <3>3. CASE Snapshot(l)
      BY <1>3, <2>3, <3>1, <3>3, SnapshotShape DEF Snapshot, PastAnnounce, switches, history
    <3>4. CASE Each(l)
      <4>1. ~PastAnnounce(l)' /\ UNCHANGED <<announced, reported>>
        BY <2>3, <3>4, EachShape DEF EachEnds, EachTells, EachAttaches, PastAnnounce
      <4> QED BY <1>3, <2>3, <3>1, <3>4, <4>1, EachShape DEF Each, switches
    <3>5. CASE Forget(l)
      BY <2>3, <3>1, <3>5 DEF Forget, At, TurnOK
    <3>6. CASE CreateHere(l)
      <4>1. Apart(l) /\ Moved(l, "check")
        BY <1>0, <3>1, <3>6, GoApart DEF CreateHere, Steps
      <4> QED BY <1>3, <2>3, <3>1, <3>6, <4>1 DEF CreateHere, Moved, PastAnnounce, switches, history
    <3>7. CASE Reply(l)
      <4>1. /\ UNCHANGED <<discover, announced, reported>>
            /\ "discover" \in sure' <=> "discover" \in sure
        BY <2>3, <3>7 DEF Reply, switches
      <4> QED BY <1>3, <2>3, <3>1, <3>7, <4>1, StopShape DEF Reply, PastAnnounce
    <3> QED BY <2>1, <3>2, <3>3, <3>4, <3>5, <3>6, <3>7 DEF Command
  <2> QED BY <2>2, <2>3
<1>9. CASE HandleSignal
  <2> DEFINE e == "events"
  <2>1. CASE TakeSignal
    <3>1. run'[e].job # "discover" /\ ~PastAnnounce(e)' /\ Apart(e)
      BY <2>1, TakeShape DEF PastAnnounce
    <3> QED BY <1>0, <1>3, <2>1, <3>1 DEF TakeSignal, switches, history
  <2>2. CASE LateAnnounce
    <3>1. Apart(e) /\ run'[e].job # "discover" /\ ~PastAnnounce(e)'
      BY <1>0, <2>2, StopShape DEF LateAnnounce, PastAnnounce
    <3>2. reported \subseteq reported' /\ announced' \subseteq reported' /\ UNCHANGED <<discover, sure>>
      BY <1>0, <2>2 DEF LateAnnounce, Announce, switches
    <3> QED BY <1>0, <3>1, <3>2, DiscoveryBeside
  <2>3. CASE DetachAll
    BY <1>0, <1>3, <2>3, StopShape DEF DetachAll, PastAnnounce, switches, history
  <2>4. CASE Unclaim \/ Unannounce
    <3>1. PICK to \in {"unannounce", "detach"} : Go(e, to)
      BY <2>4 DEF Unclaim, Unannounce
    <3>2. Apart(e) /\ Moved(e, to) /\ ~PastAnnounce(e)'
      BY <1>0, <3>1, GoApart DEF Steps, Moved, PastAnnounce
    <3>3. UNCHANGED <<discover, reported, sure>> /\ announced' \subseteq announced
      BY <2>4 DEF Unclaim, Unannounce, switches, history
    <3> QED BY <1>0, <3>2, <3>3, DiscoveryBeside DEF Moved
  <2> QED BY <1>9, <2>1, <2>2, <2>3, <2>4 DEF HandleSignal
<1> QED BY <1>4, <1>5, <1>6, <1>7, <1>8, <1>9 DEF Next, Driver

-----------------------------------------------------------------------------
(***************************************************************************)
(* Attachment.                                                             *)
(***************************************************************************)
LEMMA ToldKept ==
  ASSUME TypeOK, StepsFit, [Next]_vars, NEW t \in born, ToldOrGone(t)
  PROVE  ToldOrGone(t)'
<1>1. CASE \E th \in Threads : Attaching(th)
  BY <1>1, AttachingShape DEF Shape, Advances, ToldOrGone, world
<1>2. CASE ~\E th \in Threads : Attaching(th)
  <2>1. UNCHANGED told
    BY <1>2, BesideShape DEF Beside
  <2> QED BY <2>1, WorldGrows DEF ToldOrGone
<1> QED BY <1>1, <1>2

LEMMA CoversKept ==
  ASSUME TypeOK, StepsFit, Births, Turns, ~Looping, [Next]_vars, NEW t \in born, Covers(t)
  PROVE  Covers(t)'
<1>0. /\ LockDiscipline /\ "none" \notin Threads
      /\ \A th \in Threads : run[th].step = "other" => th = BrowserLane /\ run[th].job = "autoAttach"
  BY LanesAssumption DEF TypeOK, Threads, StepsFit, StepFits, Turns, TurnOK
<1>1. ToldOrGone(t) => ToldOrGone(t)'
  BY ToldKept
<1>2. CASE \E th \in Threads : Attaching(th)
  <2>1. PICK th \in Threads : Shape(th)
    BY <1>2, AttachingShape
  <2>2. run[th].step # "other"
    BY <1>0 DEF Looping, Loop, Locked
  <2>3. /\ \A x \in Threads : run'[x].target = run[x].target
        /\ claimed' \subseteq claimed \union {run[th].target}
        /\ UNCHANGED world
    BY <2>1 DEF Shape, Advances, Apart
  <2>4. CASE holder' = holder /\ claimed' \subseteq claimed
    BY <1>1, <2>3, <2>4 DEF Covers
  <2>5. CASE holder = "none" /\ holder' = th
    BY <1>0, <1>1, <2>3, <2>5 DEF Covers
  <2>6. CASE /\ holder = th /\ claimed' \subseteq claimed
             /\ run[th].target \in told' \/ run[th].target \notin registry
    BY <1>1, <2>3, <2>6 DEF Covers, ToldOrGone, world
  <2> QED BY <2>1, <2>2, <2>4, <2>5, <2>6 DEF Shape, Locks
<1>3. CASE ~\E th \in Threads : Attaching(th)
  <2>1. CASE UNCHANGED <<run, holder, told, claimed>>
    BY <1>1, <2>1 DEF Covers
  <2>2. CASE \E th \in Threads : Beside(th)
    <3>1. PICK th \in Threads : Beside(th)
      BY <2>2
    <3>2. holder # th
      BY <1>0, <3>1 DEF Beside, LockDiscipline
    <3> QED BY <1>1, <3>1, <3>2 DEF Covers, Beside, Apart
  <2> QED BY <1>3, <2>1, <2>2, BesideShape
<1> QED BY <1>2, <1>3

\* While auto-attach is on, no loop over the targets begins.
LEMMA LoopingKept ==
  ASSUME TypeOK, StepsFit, Turns, autoAttach, ~Looping, [Next]_vars
  PROVE  ~Looping'
<1> DEFINE b == BrowserLane
<1>0. /\ "events" \in Threads /\ Lanes \subseteq Threads /\ b \in Lanes /\ "events" \notin Lanes
      /\ run \in [Threads -> Runs]
      /\ run[b].job = "autoAttach" => run[b].step \in {"flag", "reply"}
  BY LanesAssumption DEF Threads, TypeOK, Turns, TurnOK, Looping
<1>1. CASE UNCHANGED run
  BY <1>1 DEF Looping
<1>2. ASSUME NEW th \in Threads, Apart(th), th # b
      PROVE  ~Looping'
  BY <1>0, <1>2 DEF Apart, Looping
<1>3. CASE \E th \in Threads : Attaching(th)
  <2>1. PICK th \in Threads : Shape(th)
    BY <1>3, AttachingShape
  <2>2. CASE th # b
    BY <1>2, <2>1, <2>2 DEF Shape, Advances
  <2>3. CASE th = b
    BY <1>0, <2>1, <2>3 DEF Shape, Advances, Locked, Looping
  <2> QED BY <2>2, <2>3
<1>4. CASE Driver /\ ~UNCHANGED run
  <2>1. PICK l \in Lanes :
          \E job, t, on : Receive(l, job, t, on) /\ job \in {"discover", "autoAttach", "create", "attach"}
    BY <1>4, LanesAssumption DEF Driver, ReceiveSwitch, ReceiveCreate, ReceiveAttach, Detach
  <2>2. /\ Apart(l) /\ l \in Threads
        /\ run'[l].job = "autoAttach" => run'[l].step = "flag"
    BY <2>1, ReceiveShape DEF FirstStep
  <2>3. CASE l = b
    BY <2>2, <2>3 DEF Looping, Loop, Locked
  <2> QED BY <1>2, <2>2, <2>3
<1>5. CASE Others \/ UNCHANGED vars
  BY <1>1, <1>5 DEF Others, CreateElsewhere, Destroy, vars
<1>6. CASE \E l \in Lanes : Command(l)
  <2>1. PICK l \in Lanes : Command(l)
    BY <1>6
  <2>2. l \in Threads /\ StepFits(l)
    BY <1>0 DEF StepsFit
  <2>3. CASE Swap(l)
    <3>1. Apart(l) /\ (run'[l].job = "autoAttach" => run'[l].step = "reply")
      BY <2>3, SwapShape DEF SwapTo
    <3>2. CASE l = b
      BY <3>1, <3>2 DEF Looping, Loop, Locked
    <3> QED BY <1>2, <2>2, <3>1, <3>2
  <2>4. CASE Snapshot(l)
    <3>1. Apart(l) /\ run'[l].job = run[l].job /\ run[l].step = "snapshot"
      BY <2>4, SnapshotShape
    <3>2. CASE l = b
      BY <1>0, <3>1, <3>2 DEF Looping
    <3> QED BY <1>2, <2>2, <3>1, <3>2
  <2>5. CASE Each(l)
    <3>1. Apart(l) /\ run'[l].job = run[l].job /\ run[l].step = "each"
      BY <2>5, EachShape
    <3>2. CASE l = b
      BY <1>0, <3>1, <3>2 DEF Looping
    <3> QED BY <1>2, <2>2, <3>1, <3>2
  <2>6. CASE Forget(l) \/ CreateHere(l)
    <3>1. Apart(l) /\ run'[l].job = run[l].job /\ run[l].step \in {"forget", "register"}
      BY <1>0, <2>2, <2>6, GoApart DEF Forget, CreateHere, At, Steps, Moved
    <3>2. CASE l = b
      BY <1>0, <3>1, <3>2 DEF Looping
    <3> QED BY <1>2, <2>2, <3>1, <3>2
  <2>7. CASE Reply(l)
    <3>1. Apart(l) /\ run'[l].job = "idle"
      BY <2>2, <2>7, StopShape DEF Reply
    <3>2. CASE l = b
      BY <3>1, <3>2 DEF Looping
    <3> QED BY <1>2, <2>2, <3>1, <3>2
  <2> QED BY <2>1, <2>3, <2>4, <2>5, <2>6, <2>7 DEF Command
<1>7. CASE HandleSignal
  <2>1. Apart("events")
    BY <1>0, <1>7, TakeShape, StopShape, GoApart
    DEF HandleSignal, LateAnnounce, Unclaim, Unannounce, DetachAll, Steps
  <2> QED BY <1>0, <1>2, <2>1
<1> QED BY <1>1, <1>3, <1>4, <1>5, <1>6, <1>7 DEF Next

\* Only a swap turns auto-attach, and one that turns it off tells every
\* running `createTarget`.
LEMMA AutoAttachSteps ==
  ASSUME TypeOK, StepsFit, [Next]_vars
  PROVE  \/ UNCHANGED autoAttach
         \/ \E l \in Lanes : Swap(l) /\ run[l].job = "autoAttach" /\ autoAttach' = run[l].on
<1>1. CASE \E l \in Lanes : Swap(l)
  BY <1>1, SwapShape DEF Swap
<1>2. CASE ~\E l \in Lanes : Swap(l)
  BY <1>2 DEF Next, Driver, Others, Command, Attaching, HandleSignal, vars, switches,
      ReceiveSwitch, ReceiveCreate, ReceiveAttach, Detach, CreateElsewhere, Destroy, Snapshot, Each, Forget,
      CreateHere, Reply, Check, Claim, LookUp, AnnounceClaimed, LeaveAttached, AttachLook, AttachInsert,
      AttachInfo, AttachEmit, TakeSignal, LateAnnounce, Unclaim, Unannounce, DetachAll
<1> QED BY <1>1, <1>2

LEMMA SureKept ==
  ASSUME TypeOK, StepsFit, Turns, SureAttached, [Next]_vars
  PROVE  SureAttached'
<1> DEFINE b == BrowserLane
<1>0. /\ "events" \in Threads /\ Lanes \subseteq Threads /\ b \in Lanes /\ "events" \notin Lanes
      /\ run \in [Threads -> Runs] /\ TurnOK(b) /\ StepFits(b)
      /\ run[b].on \in BOOLEAN /\ autoAttach \in BOOLEAN
  BY LanesAssumption DEF Threads, TypeOK, Turns, StepsFit, Runs
<1>1. "autoAttach" \in sure => ~Looping'
  BY LoopingKept DEF SureAttached
<1>2. CASE UNCHANGED <<autoAttach, sure, run>>
  BY <1>1, <1>2 DEF SureAttached
<1>3. ASSUME UNCHANGED <<autoAttach, sure>>, NEW th \in Threads, Apart(th),
             th = b /\ run'[b].job = "autoAttach" =>
               \/ run'[b].step = "flag" /\ ("autoAttach" \in sure => run'[b].on)
               \/ run[b].job = "autoAttach" /\ run'[b].on = run[b].on /\ run[b].step # "flag"
      PROVE  SureAttached'
  BY <1>0, <1>1, <1>3 DEF SureAttached, Apart
<1>4. CASE \E job \in {"discover", "autoAttach"}, on \in BOOLEAN : ReceiveSwitch(job, on)
  <2>1. PICK job \in {"discover", "autoAttach"}, on \in BOOLEAN : ReceiveSwitch(job, on)
    BY <1>4
  <2>2. run'[b].job = job /\ run'[b].step = "flag" /\ run'[b].on = on
    BY <1>0, <2>1, ReceiveShape DEF ReceiveSwitch, FirstStep
  <2>3. UNCHANGED autoAttach /\ sure' = IF on THEN sure ELSE sure \ {job}
    BY <2>1 DEF ReceiveSwitch, switches
  <2> QED BY <1>1, <2>2, <2>3 DEF SureAttached
<1>5. CASE \E l \in Lanes, t \in Targets : ReceiveCreate(l, t) \/ ReceiveAttach(l, t)
  <2>1. PICK l \in Lanes : \E job \in {"create", "attach"} : \E t, on : Receive(l, job, t, on)
    BY <1>5 DEF ReceiveCreate, ReceiveAttach
  <2>2. Apart(l) /\ l \in Threads /\ run'[l].job \in {"create", "attach"}
    BY <2>1, ReceiveShape
  <2> QED BY <1>3, <1>5, <2>2 DEF ReceiveCreate, ReceiveAttach, switches, history
<1>6. CASE (\E l \in Lanes, s \in sessions : Detach(l, s)) \/ Others \/ UNCHANGED vars
  BY <1>2, <1>6 DEF Detach, Others, CreateElsewhere, Destroy, vars, switches, history
<1>7. CASE \E th \in Threads : Attaching(th)
  <2>1. PICK th \in Threads : Shape(th)
    BY <1>7, AttachingShape
  <2>2. CASE th # b
    BY <1>3, <2>1, <2>2 DEF Shape, Advances, switches
  <2>3. CASE th = b
    <3>1. run[b].job = "autoAttach" => Looping /\ run[b].step # "flag"
      BY <1>0, <2>1, <2>3 DEF Shape, Advances, TurnOK, Locked, Looping
    <3>2. /\ run'[b].job = run[b].job /\ (run'[b].on = run[b].on \/ run'[b].on = FALSE)
          /\ UNCHANGED <<autoAttach, sure>>
      BY <2>1, <2>3 DEF Shape, Advances, switches
    <3> QED BY <1>1, <3>1, <3>2 DEF SureAttached
  <2> QED BY <2>2, <2>3
<1>8. CASE \E l \in Lanes : Command(l)
  <2>1. PICK l \in Lanes : Command(l)
    BY <1>8
  <2>2. l \in Threads /\ TurnOK(l) /\ StepFits(l)
    BY <1>0 DEF StepsFit, Turns
  <2>3. CASE Swap(l)
    <3>1. /\ l = b /\ run[l].job \in {"discover", "autoAttach"}
          /\ run'[b].job = run[b].job /\ (run'[b].on => run[b].on)
          /\ run[b].on /\ "autoAttach" \in sure => run'[b].on
      BY <2>2, <2>3, SwapShape DEF TurnOK, SwapOn
    <3>2. UNCHANGED sure /\ autoAttach' = IF run[b].job = "discover" THEN autoAttach ELSE run[b].on
      BY <2>3, <3>1 DEF Swap, history
    <3> QED BY <1>1, <3>1, <3>2 DEF SureAttached
  <2>4. CASE Snapshot(l)
    BY <1>3, <2>2, <2>4, SnapshotShape DEF Snapshot, switches, history
  <2>5. CASE Each(l)
    BY <1>3, <2>2, <2>5, EachShape DEF Each, switches
  <2>6. CASE Forget(l) \/ CreateHere(l)
    <3>1. Apart(l) /\ run'[l].job = run[l].job /\ run'[l].on = run[l].on /\ run[l].step \in {"forget", "register"}
      BY <1>0, <2>2, <2>6, GoApart DEF Forget, CreateHere, At, Steps, Moved
    <3> QED BY <1>3, <2>2, <2>6, <3>1 DEF Forget, CreateHere, switches, history
  <2>7. CASE Reply(l)
    <3>1. Apart(l) /\ run'[l].job = "idle" /\ run[l].step = "reply" /\ UNCHANGED autoAttach
      BY <2>2, <2>7, StopShape DEF Reply, At, switches
    <3>2. CASE UNCHANGED sure
      BY <1>3, <2>2, <3>1, <3>2
    <3>3. CASE ~UNCHANGED sure
      <4>1. run[l].job \in {"discover", "autoAttach"} /\ run[l].on /\ sure' = sure \union {run[l].job}
        BY <2>7, <3>3 DEF Reply
      <4>2. l = b
        BY <2>2, <4>1 DEF TurnOK
      <4>3. run[b].job = "autoAttach" => autoAttach
        BY <3>1, <4>1, <4>2 DEF SureAttached
      <4> QED BY <1>1, <3>1, <4>1, <4>2, <4>3 DEF SureAttached, Looping
    <3> QED BY <3>2, <3>3
  <2> QED BY <2>1, <2>3, <2>4, <2>5, <2>6, <2>7 DEF Command
<1>9. CASE HandleSignal
  <2>1. Apart("events")
    BY <1>0, <1>9, TakeShape, StopShape, GoApart
    DEF HandleSignal, LateAnnounce, Unclaim, Unannounce, DetachAll, Steps
  <2>2. UNCHANGED <<autoAttach, sure>>
    BY <1>9 DEF HandleSignal, TakeSignal, LateAnnounce, Unclaim, Unannounce, DetachAll, switches, history
  <2> QED BY <1>0, <1>3, <2>1, <2>2
<1> QED BY <1>4, <1>5, <1>6, <1>7, <1>8, <1>9 DEF Next, Driver

LEMMA CreateKept ==
  ASSUME TypeOK, StepsFit, Births, Turns, Attachment, [Next]_vars, NEW l \in Lanes, Counting(l)'
  PROVE  CreateKnows(l)'
<1>0. /\ "events" \in Threads /\ l \in Threads /\ l # "events" /\ Lanes \subseteq Threads /\ run \in [Threads -> Runs]
      /\ BirthOK(l) /\ TurnOK(l) /\ StepFits(l) /\ claimed \subseteq born
      /\ Counting(l) => CreateKnows(l)
  BY LanesAssumption DEF Threads, TypeOK, Births, Turns, StepsFit, Attachment
<1>1. autoAttach => autoAttach'
  <2>1. CASE UNCHANGED autoAttach
    BY <2>1
  <2>2. CASE \E x \in Lanes : Swap(x) /\ run[x].job = "autoAttach" /\ autoAttach' = run[x].on
    BY <1>0, <2>2, SwapShape DEF Counting
  <2> QED BY <2>1, <2>2, AutoAttachSteps
<1>2. autoAttach /\ ~Looping => ~Looping'
  BY LoopingKept
<1>3. PICK t : t = run[l].target
  OBVIOUS
<1>4. t \in born /\ Covers(t) /\ ~Looping => Covers(t)'
  BY CoversKept
<1>5. t \in born /\ ToldOrGone(t) => ToldOrGone(t)'
  BY ToldKept
<1>6. ASSUME Counting(l), run'[l].target = run[l].target, run'[l].step = run[l].step
      PROVE  CreateKnows(l)'
  <2>1. run[l].step # "register" => t \in born
    BY <1>0, <1>3, <1>6 DEF BirthOK, Counting
  <2>2. run'[l].step \in {"check", "claim"} => Covers(t)'
    BY <1>0, <1>3, <1>4, <1>6, <2>1 DEF CreateKnows
  <2>3. run'[l].step = "reply" => ToldOrGone(t)'
    BY <1>0, <1>3, <1>5, <1>6, <2>1 DEF CreateKnows
  <2> QED BY <1>0, <1>1, <1>2, <1>3, <1>6, <2>2, <2>3 DEF CreateKnows, Covers, ToldOrGone
<1>7. ASSUME NEW th \in Threads, Apart(th), th # l
      PROVE  CreateKnows(l)'
  BY <1>0, <1>6, <1>7 DEF Apart, Counting
<1>8. CASE UNCHANGED run
  BY <1>6, <1>8 DEF Counting
<1>9. CASE \E job \in {"discover", "autoAttach"}, on \in BOOLEAN : ReceiveSwitch(job, on)
  BY <1>0, <1>7, <1>9, LanesAssumption, ReceiveShape DEF ReceiveSwitch, Counting
<1>10. CASE \E x \in Lanes, u \in Targets : ReceiveAttach(x, u)
  BY <1>0, <1>7, <1>10, ReceiveShape DEF ReceiveAttach, Counting
<1>11. CASE \E x \in Lanes, u \in Targets : ReceiveCreate(x, u)
  <2>1. PICK x \in Lanes, u \in Targets : ReceiveCreate(x, u)
    BY <1>11
  <2> DEFINE on == "autoAttach" \in sure
  <2>2. Receive(x, "create", u, on)
    BY <2>1 DEF ReceiveCreate
  <2>3. /\ Apart(x) /\ run'[x].step = "register"
        /\ run'[x].on = on
    BY <2>2, ReceiveShape DEF FirstStep
  <2>4. CASE x = l
    <3>1. "autoAttach" \in sure
      BY <2>3, <2>4 DEF Counting
    <3> QED BY <1>1, <1>2, <2>3, <2>4, <3>1 DEF Attachment, SureAttached, CreateKnows
  <2> QED BY <1>0, <1>7, <2>3, <2>4
<1>12. CASE (\E x \in Lanes, s \in sessions : Detach(x, s)) \/ Others \/ UNCHANGED vars
  BY <1>8, <1>12 DEF Detach, Others, CreateElsewhere, Destroy, vars
<1>13. CASE \E th \in Threads : Attaching(th)
  <2>1. PICK th \in Threads : Shape(th)
    BY <1>13, AttachingShape
  <2>2. CASE th # l
    BY <1>7, <2>1, <2>2 DEF Shape, Advances
  <2>3. CASE th = l
    <3>1. /\ run'[l].job = run[l].job /\ run'[l].target = t /\ run[l].step \in {"check", "claim"} \union Locked
          /\ run'[l].on = run[l].on \/ run'[l].on = FALSE
          /\ run'[l].step = "claim" => run[l].step = "check"
          /\ run'[l].step \in {"claim", "each", "late", "reply"} \union Locked
          /\ UNCHANGED world
      BY <1>3, <2>1, <2>3 DEF Shape, Advances
    <3>2. Counting(l) /\ CreateKnows(l) /\ t \in born
      BY <1>0, <1>3, <3>1 DEF Counting, BirthOK, Locked
    <3>3. run'[l].step \in {"check", "claim"} => Covers(t)'
      BY <1>3, <1>4, <3>1, <3>2 DEF CreateKnows, Locked
    <3>4. run'[l].step = "reply" => ToldOrGone(t)'
      <4>1. SUFFICES ASSUME run'[l].step = "reply" PROVE ToldOrGone(t)'
        OBVIOUS
      <4>2. CASE run[l].step = "claim" /\ holder = "none" /\ t \in claimed
        <5>1. ToldOrGone(t)
          BY <1>3, <3>2, <4>2, LanesAssumption DEF CreateKnows, Covers, Threads
        <5> QED BY <1>5, <3>2, <5>1
      <4>3. CASE t \in told' \/ t \notin registry
        BY <3>1, <4>3 DEF ToldOrGone, world
      <4> QED BY <1>3, <2>1, <2>3, <3>2, <4>1, <4>2, <4>3 DEF Shape, Answers, Counting, CreateKnows
    <3> QED BY <1>1, <1>2, <3>1, <3>2, <3>3, <3>4 DEF CreateKnows, Covers, ToldOrGone
  <2> QED BY <2>2, <2>3
<1>14. CASE \E x \in Lanes : Command(x)
  <2>1. PICK x \in Lanes : Command(x)
    BY <1>14
  <2>2. x \in Threads /\ StepFits(x)
    BY <1>0 DEF StepsFit
  <2>3. CASE Swap(x)
    BY <1>0, <1>7, <2>3, SwapShape DEF Counting
  <2>4. CASE Snapshot(x)
    <3>1. run[x].job # "create"
      BY <2>2, <2>4, SnapshotShape DEF StepFits
    <3> QED BY <1>7, <2>2, <2>4, <3>1, SnapshotShape DEF Counting
  <2>5. CASE Each(x)
    BY <1>7, <2>2, <2>5, EachShape DEF Counting
  <2>6. CASE Forget(x)
    <3>1. Apart(x) /\ Moved(x, "reply") /\ run[x].job # "create"
      BY <1>0, <2>2, <2>6, GoApart DEF Forget, At, Steps, StepFits
    <3> QED BY <1>7, <2>2, <3>1 DEF Counting, Moved
  <2>7. CASE CreateHere(x)
    <3>1. Apart(x) /\ Moved(x, "check") /\ run[x].target \notin born /\ UNCHANGED claimed
      BY <1>0, <2>2, <2>7, GoApart DEF CreateHere, Steps
    <3>2. CASE x = l
      <4>1. Counting(l) /\ run'[l].target = run[l].target /\ run[l].target \notin claimed'
        BY <1>0, <3>1, <3>2 DEF Counting, Moved
      <4> QED BY <1>0, <1>1, <1>2, <3>1, <3>2, <4>1 DEF CreateKnows, Covers, Moved
    <3> QED BY <1>7, <2>2, <3>1, <3>2
  <2>8. CASE Reply(x)
    BY <1>7, <2>2, <2>8, StopShape DEF Reply, Counting
  <2> QED BY <2>1, <2>3, <2>4, <2>5, <2>6, <2>7, <2>8 DEF Command
<1>15. CASE HandleSignal
  <2>1. Apart("events")
    BY <1>0, <1>15, TakeShape, StopShape, GoApart
    DEF HandleSignal, LateAnnounce, Unclaim, Unannounce, DetachAll, Steps
  <2> QED BY <1>0, <1>7, <2>1
<1> QED BY <1>9, <1>10, <1>11, <1>12, <1>13, <1>14, <1>15 DEF Next, Driver

-----------------------------------------------------------------------------
LEMMA OInvKept == IInv /\ OInv /\ [Next]_vars => OInv'
  BY BirthsKept, TurnsKept, DiscoveryKept, SureKept, CreateKept DEF IInv, OInv, Attachment

LEMMA InitOInv == Init => OInv
<1> SUFFICES ASSUME Init PROVE OInv
  OBVIOUS
<1>1. \A th \in Threads : run[th] = Idle
  BY DEF Init
<1>2. /\ Idle.job = "idle" /\ Idle.step = "idle" /\ Idle.todo = {} /\ Idle.on = FALSE
      /\ BrowserLane \in Threads /\ Lanes \subseteq Threads
  BY LanesAssumption DEF Idle, Threads
<1>3. \A th \in Threads : run[th].job = "idle" /\ run[th].step = "idle" /\ run[th].todo = {} /\ run[th].on = FALSE
  BY <1>1, <1>2
<1>4. Births
  <2>1. claimed = {} /\ signals = <<>>
    BY DEF Init
  <2>2. \A th \in Threads : BirthOK(th)
    BY <1>3 DEF BirthOK, Locked
  <2>3. \A i \in 1 .. Len(signals) : FALSE
    BY <2>1
  <2> QED BY <2>1, <2>2, <2>3 DEF Births
<1>5. Turns
  BY <1>3 DEF Turns, TurnOK
<1>6. Discovery
  BY <1>2, <1>3 DEF Init, Discovery, DiscoverRun
<1>7. Attachment
  BY <1>2, <1>3 DEF Init, Attachment, SureAttached, Counting
<1> QED BY <1>4, <1>5, <1>6, <1>7 DEF OInv

\* With discovery on, a driver is told of a live target before it is told of
\* an auto-attach to it, and the reply to `createTarget` does not overtake the
\* attachment the driver counts on: whichever of the event thread, the lane
\* that creates and the loop of `setAutoAttach` gets to the target first.
THEOREM DriverHearsInOrder == Spec => EventsInOrder
<1>1. OInv => AnnouncedBeforeAttached
  BY DEF OInv, Discovery, AllKnown, PastAnnounce, Known, AnnouncedBeforeAttached, AttachEmit, At
<1>2. OInv => ReplyFollowsAttach
  BY DEF OInv, Attachment, Counting, CreateKnows, ToldOrGone, ReplyFollowsAttach, Reply, At
<1>3. OInv => [AnnouncedBeforeAttached /\ ReplyFollowsAttach]_vars
  BY <1>1, <1>2
<1>4. Spec => []OInv
  BY InitOInv, OInvKept, Invariance, PTL DEF Spec
<1> QED BY <1>3, <1>4, PTL DEF EventsInOrder

-----------------------------------------------------------------------------
(***************************************************************************)
(* Nothing is forgotten.  Liveness needs fairness and stays with TLC; what *)
(* it needs of the state is proved here: whatever the driver counts on and *)
(* has not been sent, some thread or signal is still bringing.             *)
(***************************************************************************)
Arriving(t) == \E i \in 1 .. Len(signals) : signals[i].kind = "created" /\ signals[i].target = t
Served(t) ==
  run["events"].job = "created" /\ run["events"].target = t /\ run["events"].step # "idle"

\* What brings the report of t: its signal, or the loop over the snapshot.
Listing(t) ==
  /\ run[BrowserLane].job = "discover"
  /\ run[BrowserLane].step = "snapshot" \/ (run[BrowserLane].step = "each" /\ t \in run[BrowserLane].todo)

ReportComing(t) == Arriving(t) \/ Served(t) \/ Listing(t)

\* While discovery is on, a target in the registry has been reported or its
\* report is on the way: neither a switch that comes on while targets are
\* created nor an announcement left to another thread loses one.
NothingUnreported == discover => \A t \in registry : t \in reported \/ ReportComing(t)

\* What brings the attachedToTarget of t: a thread with a session for it, the
\* holder of the lock, its signal, or the loop over the snapshot.
Heading(t) == \E th \in Threads : run[th].target = t /\ run[th].step \in {"info again", "emit"}
Holding(t) == \E th \in Threads : holder = th /\ run[th].target = t
Looking(t) == Served(t) /\ run["events"].step \in {"check", "claim"}

Circling(t) ==
  /\ run[BrowserLane].job = "autoAttach"
  /\ \/ run[BrowserLane].step = "snapshot"
     \/ run[BrowserLane].step \in Loop /\ t \in run[BrowserLane].todo
     \/ run[BrowserLane].step = "claim" /\ t = run[BrowserLane].target

AttachComing(t) == Heading(t) \/ Holding(t) \/ Arriving(t) \/ Looking(t)

\* Once the driver counts on auto-attach, a target in the registry has been
\* attached to or its attachedToTarget is on the way, whichever thread claimed
\* it and whoever attached to it by hand.
NothingUnattached ==
  "autoAttach" \in sure => \A t \in registry : t \in told \/ AttachComing(t)

\* A session, or a claim, is the work of someone who will say so.
Met ==
  /\ \A s \in sessions : s.target \in born /\ (ToldOrGone(s.target) \/ Heading(s.target))
  /\ \A t \in claimed : ToldOrGone(t) \/ Heading(t) \/ Holding(t)

Counted ==
  \/ "autoAttach" \in sure
  \/ run[BrowserLane].job = "autoAttach" /\ run[BrowserLane].on /\ run[BrowserLane].step # "flag"

Awaited == Counted => \A t \in registry : t \in told \/ AttachComing(t) \/ Circling(t)

CInv == NothingUnreported /\ Met /\ Awaited

-----------------------------------------------------------------------------
(***************************************************************************)
(* Who moves, seen from one thread.                                        *)
(***************************************************************************)
Rests(x) ==
  /\ run'[x].step = run[x].step /\ run'[x].job = run[x].job
  /\ run'[x].target = run[x].target /\ run'[x].todo = run[x].todo
  /\ run'[x].on = run[x].on \/ (run[x].job = "create" /\ run'[x].on = FALSE)

LEMMA Moves ==
  ASSUME TypeOK, StepsFit, [Next]_vars, NEW x \in Threads
  PROVE  \/ Rests(x)
         \/ Attaching(x)
         \/ x \in Lanes /\ Command(x)
         \/ x \in Lanes /\ Driver /\ \E job, t, on : Receive(x, job, t, on)
         \/ x = "events" /\ HandleSignal
<1>0. "events" \in Threads /\ Lanes \subseteq Threads /\ run \in [Threads -> Runs]
  BY DEF Threads, TypeOK
<1>1. ASSUME NEW th \in Threads, Apart(th), th # x
      PROVE  Rests(x)
  BY <1>1 DEF Apart, Rests
<1>2. CASE UNCHANGED run
  BY <1>2 DEF Rests
<1>3. CASE \E th \in Threads : Attaching(th)
  BY <1>1, <1>3, AttachingShape DEF Shape, Advances
<1>4. CASE Driver /\ ~UNCHANGED run
  <2>1. PICK l \in Lanes : \E job, t, on : Receive(l, job, t, on)
    BY <1>4, LanesAssumption DEF Driver, ReceiveSwitch, ReceiveCreate, ReceiveAttach, Detach
  <2>2. Apart(l)
    BY <2>1, ReceiveShape
  <2> QED BY <1>0, <1>1, <1>4, <2>1, <2>2
<1>5. CASE Others \/ UNCHANGED vars
  BY <1>2, <1>5 DEF Others, CreateElsewhere, Destroy, vars
<1>6. CASE \E l \in Lanes : Command(l)
  <2>1. PICK l \in Lanes : Command(l)
    BY <1>6
  <2>2. CASE Swap(l) \/ Snapshot(l) \/ Each(l)
    BY <1>0, <1>1, <2>1, <2>2, SwapShape, SnapshotShape, EachShape
  <2>3. CASE Forget(l) \/ CreateHere(l) \/ Reply(l)
    <3>1. Apart(l)
      BY <1>0, <2>3, GoApart, StopShape DEF Forget, CreateHere, Reply, Steps
    <3> QED BY <1>0, <1>1, <2>1, <3>1
  <2> QED BY <2>1, <2>2, <2>3 DEF Command
<1>7. CASE HandleSignal
  <2>1. Apart("events")
    BY <1>0, <1>7, TakeShape, StopShape, GoApart
    DEF HandleSignal, LateAnnounce, Unclaim, Unannounce, DetachAll, Steps
  <2> QED BY <1>0, <1>1, <1>7, <2>1
<1> QED BY <1>2, <1>3, <1>4, <1>5, <1>6, <1>7 DEF Next

-----------------------------------------------------------------------------
(***************************************************************************)
(* The signal of a target, until the event thread has it in hand.          *)
(***************************************************************************)
LEMMA ArrivingKept ==
  ASSUME TypeOK, StepsFit, [Next]_vars, NEW t \in Targets, Arriving(t)
  PROVE  Arriving(t)' \/ (Served(t)' /\ run'["events"].step = "check")
<1> DEFINE S == [kind : {"created", "destroyed"}, target : Targets]
<1>1. signals \in Seq(S) /\ Len(signals) \in Nat
  BY DEF TypeOK
<1>2. PICK i \in 1 .. Len(signals) : signals[i].kind = "created" /\ signals[i].target = t
  BY DEF Arriving
<1>3. CASE UNCHANGED signals
  BY <1>3 DEF Arriving
<1>4. CASE TakeSignal
  <2>1. signals # <<>> /\ signals' = Tail(signals)
    BY <1>4 DEF TakeSignal
  <2> HIDE DEF S
  <2>2. Len(signals') = Len(signals) - 1 /\ \A j \in 1 .. Len(signals') : signals'[j] = signals[j + 1]
    BY <1>1, <2>1
  <2>3. CASE i = 1
    BY <1>2, <1>4, <2>3, TakeShape DEF Served
  <2>4. CASE i # 1
    <3>1. i - 1 \in 1 .. Len(signals') /\ signals'[i - 1] = signals[i]
      BY <1>1, <1>2, <2>2, <2>4
    <3> QED BY <1>2, <3>1 DEF Arriving
  <2> QED BY <2>3, <2>4
<1>5. ASSUME NEW s \in S, signals' = Append(signals, s)
      PROVE  Arriving(t)'
  <2> HIDE DEF S
  <2>1. i \in 1 .. Len(signals') /\ signals'[i] = signals[i]
    BY <1>1, <1>2, <1>5
  <2> QED BY <1>2, <2>1 DEF Arriving
<1>6. CASE \E x \in Targets : Register(x)
  <2>1. PICK x \in Targets : Register(x)
    BY <1>6
  <2> QED BY <1>5, <2>1 DEF Register
<1>7. CASE \E x \in Targets : Destroy(x)
  <2>1. PICK x \in Targets : Destroy(x)
    BY <1>7
  <2> QED BY <1>5, <2>1 DEF Destroy
<1> QED BY <1>3, <1>4, <1>6, <1>7, WorldSteps

LEMMA ArrivesWhenBorn ==
  ASSUME TypeOK, StepsFit, [Next]_vars, NEW t \in Targets, t \in registry', t \notin registry
  PROVE  Arriving(t)'
<1> DEFINE S == [kind : {"created", "destroyed"}, target : Targets]
           s == [kind |-> "created", target |-> t]
<1>1. Register(t)
  BY WorldSteps DEF world, Register, Destroy
<1>2. signals \in Seq(S) /\ s \in S /\ s.kind = "created" /\ s.target = t /\ signals' = Append(signals, s)
  BY <1>1 DEF Register, TypeOK
<1> HIDE DEF S, s
<1>3. Len(signals) + 1 \in 1 .. Len(signals') /\ signals'[Len(signals) + 1] = s
  BY <1>2
<1> QED BY <1>2, <1>3 DEF Arriving

-----------------------------------------------------------------------------
(***************************************************************************)
(* Reports.                                                                *)
(***************************************************************************)
\* Nothing that was reported is taken back while discovery stays on.
LEMMA ReportedKept ==
  ASSUME TypeOK, StepsFit, Turns, Discovery, [Next]_vars, discover
  PROVE  reported \subseteq reported'
<1>1. CASE \E l \in Lanes : Forget(l)
  BY <1>1, LanesAssumption DEF Forget, At, Turns, TurnOK, Discovery, DiscoverRun, Threads
<1>2. CASE ~\E l \in Lanes : Forget(l)
  BY <1>2 DEF Next, Driver, Others, Command, Attaching, HandleSignal, vars, history, Announce,
      ReceiveSwitch, ReceiveCreate, ReceiveAttach, Detach, CreateElsewhere, Destroy, Swap, Snapshot, Each,
      CreateHere, Reply, Check, Claim, LookUp, AnnounceClaimed, LeaveAttached, AttachLook, AttachInsert,
      AttachInfo, AttachEmit, TakeSignal, LateAnnounce, Unclaim, Unannounce, DetachAll
<1> QED BY <1>1, <1>2

\* The event thread does not drop a creation it has in hand.
LEMMA ServedKept ==
  ASSUME TypeOK, StepsFit, Turns, Discovery, [Next]_vars, discover, NEW t, Served(t)
  PROVE  Served(t)' \/ t \in reported'
<1> DEFINE e == "events"
<1>0. /\ e \in Threads /\ e \notin Lanes /\ StepFits(e) /\ TurnOK(e) /\ announced \subseteq reported
      /\ run[e].job = "created" /\ run[e].target = t /\ run[e].step # "idle"
  BY LanesAssumption DEF Threads, StepsFit, Turns, Discovery, Served
<1>1. CASE Rests(e)
  BY <1>0, <1>1 DEF Rests, Served
<1>2. CASE Attaching(e)
  BY <1>0, <1>2, AttachingShape DEF Shape, Advances, Served, Locked
<1>3. CASE HandleSignal
  <2>1. LateAnnounce
    BY <1>0, <1>3 DEF HandleSignal, TakeSignal, Unclaim, Unannounce, DetachAll, At, StepFits
  <2> QED BY <1>0, <2>1 DEF LateAnnounce, Announce
<1> QED BY <1>0, <1>1, <1>2, <1>3, Moves

\* Nor does the loop over the snapshot.
LEMMA ListingKept ==
  ASSUME TypeOK, StepsFit, Turns, Discovery, [Next]_vars, discover, NEW t \in registry, Listing(t)
  PROVE  Listing(t)' \/ t \in reported'
<1> DEFINE b == BrowserLane
<1>0. /\ b \in Threads /\ b \in Lanes /\ b # "events" /\ StepFits(b) /\ TurnOK(b) /\ announced \subseteq reported
      /\ run[b].job = "discover" /\ run[b].step \in {"snapshot", "each"}
      /\ run[b].step = "each" => t \in run[b].todo
  BY LanesAssumption DEF Threads, StepsFit, Turns, Discovery, Listing
<1>1. CASE Rests(b)
  BY <1>0, <1>1 DEF Rests, Listing
<1>2. ~Attaching(b) /\ ~\E job, x, on : Receive(b, job, x, on)
  BY <1>0, AttachingShape DEF Shape, Advances, Locked, Receive, At
<1>3. CASE Command(b)
  <2>1. Snapshot(b) \/ Each(b)
    BY <1>0, <1>3 DEF Command, Swap, Forget, CreateHere, Reply, At
  <2>2. CASE Snapshot(b)
    BY <1>0, <2>2, SnapshotShape DEF Listing
  <2>3. CASE Each(b)
    <3>1. CASE EachEnds(b)
      BY <1>0, <2>3, <3>1, EachShape DEF EachEnds
    <3>2. CASE \E x \in run[b].todo : EachTells(b, x)
      <4>1. PICK x \in run[b].todo : EachTells(b, x)
        BY <3>2
      <4>2. CASE x = t
        BY <1>0, <4>1, <4>2 DEF EachTells, Announce
      <4>3. CASE x # t
        BY <1>0, <2>3, <4>1, <4>3, EachShape DEF EachTells, Listing
      <4> QED BY <4>2, <4>3
    <3>3. ~\E x \in run[b].todo : EachAttaches(b, x)
      BY <1>0 DEF EachAttaches
    <3>4. EachEnds(b) \/ (\E x \in run[b].todo : EachTells(b, x)) \/ \E x \in run[b].todo : EachAttaches(b, x)
      BY <1>0, <2>3, EachShape
    <3> QED BY <3>1, <3>2, <3>3, <3>4
  <2> QED BY <2>1, <2>2, <2>3
<1> QED BY <1>0, <1>1, <1>2, <1>3, Moves

\* Discovery comes on in front of a look at every target there is.
LEMMA DiscoverySteps ==
  ASSUME TypeOK, StepsFit, Turns, [Next]_vars, ~discover, discover', NEW t
  PROVE  Listing(t)'
<1>1. PICK l \in Lanes : Swap(l) /\ run[l].job = "discover"
  BY DEF Next, Driver, Others, Command, Attaching, HandleSignal, vars, switches,
      ReceiveSwitch, ReceiveCreate, ReceiveAttach, Detach, CreateElsewhere, Destroy, Swap, Snapshot, Each, Forget,
      CreateHere, Reply, Check, Claim, LookUp, AnnounceClaimed, LeaveAttached, AttachLook, AttachInsert,
      AttachInfo, AttachEmit, TakeSignal, LateAnnounce, Unclaim, Unannounce, DetachAll
<1>2. l = BrowserLane /\ run[l].on /\ discover' = run[l].on
  BY <1>1 DEF Swap, Turns, TurnOK, Threads
<1>3. run[l].on # discover
  BY <1>2
<1> QED BY <1>1, <1>2, <1>3, SwapShape DEF SwapTo, Listing

LEMMA ReportsKept ==
  ASSUME TypeOK, StepsFit, Turns, Discovery, NothingUnreported, [Next]_vars
  PROVE  NothingUnreported'
<1> SUFFICES ASSUME discover', NEW t \in registry'
             PROVE  t \in reported' \/ ReportComing(t)'
  BY DEF NothingUnreported
<1>0. t \in Targets
  BY WorldSteps DEF TypeOK, world, Register, Destroy
<1>1. CASE t \notin registry
  BY <1>0, <1>1, ArrivesWhenBorn DEF ReportComing
<1>2. CASE ~discover
  BY <1>2, DiscoverySteps DEF ReportComing
<1>3. CASE discover /\ t \in registry
  <2>1. t \in reported \/ ReportComing(t)
    BY <1>3 DEF NothingUnreported
  <2>2. reported \subseteq reported'
    BY <1>3, ReportedKept
  <2>3. CASE Arriving(t)
    BY <1>0, <2>3, ArrivingKept DEF ReportComing
  <2>4. CASE Served(t)
    BY <1>3, <2>4, ServedKept DEF ReportComing
  <2>5. CASE Listing(t)
    BY <1>3, <2>5, ListingKept DEF ReportComing
  <2> QED BY <2>1, <2>2, <2>3, <2>4, <2>5 DEF ReportComing
<1> QED BY <1>1, <1>2, <1>3

-----------------------------------------------------------------------------
(***************************************************************************)
(* Attachments: a thread with a session for a target says so, and one that *)
(* holds the lock gets that far or finds that it need not.                 *)
(***************************************************************************)
LEMMA HeadingKept ==
  ASSUME TypeOK, StepsFit, [Next]_vars, NEW t \in born, Heading(t)
  PROVE  Heading(t)' \/ ToldOrGone(t)'
<1>1. PICK th \in Threads : run[th].target = t /\ run[th].step \in {"info again", "emit"}
  BY DEF Heading
<1>2. CASE Rests(th)
  BY <1>1, <1>2 DEF Rests, Heading
<1>3. CASE Attaching(th)
  <2>1. Apart(th) /\ run'[th].target = t /\ UNCHANGED world
    BY <1>1, <1>3, AttachingShape DEF Shape, Advances
  <2>2. AttachInfo(th) \/ AttachEmit(th)
    BY <1>1, <1>3
    DEF Attaching, Check, Claim, LookUp, AnnounceClaimed, LeaveAttached, AttachLook, AttachInsert, At
  <2>3. CASE AttachInfo(th)
    <3>1. CASE t \in registry
      <4>1. Go(th, "emit")
        BY <1>1, <2>3, <3>1 DEF AttachInfo
      <4>2. run'[th].step = "emit"
        BY <4>1, GoApart DEF Moved, Steps, TypeOK
      <4> QED BY <2>1, <4>2 DEF Heading
    <3>2. CASE t \notin registry
      BY <2>1, <3>2 DEF ToldOrGone, world
    <3> QED BY <3>1, <3>2
  <2>4. CASE AttachEmit(th)
    BY <1>1, <2>4 DEF AttachEmit, ToldOrGone
  <2> QED BY <2>2, <2>3, <2>4
<1>4. CASE th \in Lanes /\ Command(th)
  BY <1>1, <1>4 DEF Command, Swap, Snapshot, Each, Forget, CreateHere, Reply, At
<1>5. CASE \E job, x, on : Receive(th, job, x, on)
  BY <1>1, <1>5 DEF Receive, At
<1>6. CASE th = "events" /\ HandleSignal
  BY <1>1, <1>6 DEF HandleSignal, TakeSignal, LateAnnounce, Unclaim, Unannounce, DetachAll, At
<1> QED BY <1>2, <1>3, <1>4, <1>5, <1>6, Moves

\* Someone has told of t, or is about to, or it is gone.
Spoken(t) == ToldOrGone(t) \/ Heading(t)

LEMMA SpokenKept ==
  ASSUME TypeOK, StepsFit, [Next]_vars, NEW t \in born, Spoken(t)
  PROVE  Spoken(t)'
  BY ToldKept, HeadingKept DEF Spoken

LEMMA HoldingKept ==
  ASSUME TypeOK, StepsFit, Births, Met, [Next]_vars, NEW t \in born, Holding(t)
  PROVE  Holding(t)' \/ Spoken(t)'
<1>1. PICK th \in Threads : holder = th /\ run[th].target = t
  BY DEF Holding
<1>2. run[th].step \in Locked /\ holder # "none" /\ "none" \notin Threads
  BY <1>1, LanesAssumption DEF TypeOK, LockDiscipline, Threads
<1>3. ASSUME NEW x \in Threads, Attaching(x)
      PROVE  Holding(t)' \/ Spoken(t)'
  <2>1. Shape(x)
    BY <1>3, AttachingShape
  <2>2. run'[th].target = t
    BY <1>1, <2>1 DEF Shape, Advances, Apart
  <2>3. CASE holder' = holder
    BY <1>1, <2>2, <2>3 DEF Holding
  <2>4. CASE holder' # holder
    <3>1. x = th /\ holder' = "none"
      BY <1>1, <1>2, <2>1, <2>4 DEF Shape, Locks
    <3>2. CASE run[th].target \in told' \/ run[th].target \notin registry
      BY <1>1, <2>1, <3>2 DEF Shape, Advances, Spoken, ToldOrGone, world
    <3>3. CASE run[th].step = "other"
      <4>1. LeaveAttached(th)
        BY <1>3, <3>1, <3>3
        DEF Attaching, Check, Claim, LookUp, AnnounceClaimed, AttachLook, AttachInsert, AttachInfo, AttachEmit, At
      <4>2. SessionsFor(t) # {}
        BY <1>1, <2>4, <4>1 DEF LeaveAttached
      <4>3. Spoken(t)
        BY <4>2 DEF SessionsFor, Met, Spoken
      <4> QED BY <4>3, SpokenKept
    <3> QED BY <1>1, <1>2, <2>1, <2>4, <3>1, <3>2, <3>3 DEF Shape, Locks
  <2> QED BY <2>3, <2>4
<1>4. CASE ~\E x \in Threads : Attaching(x)
  <2>1. CASE UNCHANGED <<run, holder, told, claimed>>
    BY <1>1, <2>1 DEF Holding
  <2>2. CASE \E x \in Threads : Beside(x)
    BY <1>1, <1>2, <2>2 DEF Beside, Apart, Holding
  <2> QED BY <1>4, <2>1, <2>2, BesideShape
<1> QED BY <1>3, <1>4

\* What becomes of the sessions and the claims.
LEMMA SessionSteps ==
  ASSUME TypeOK, StepsFit, Births, [Next]_vars, NEW s \in sessions', s \notin sessions
  PROVE  Heading(s.target)' /\ s.target \in born
<1>1. PICK th \in Threads : AttachInsert(th)
  BY DEF Next, Driver, Others, Command, Attaching, HandleSignal, vars,
      ReceiveSwitch, ReceiveCreate, ReceiveAttach, Detach, CreateElsewhere, Destroy, Swap, Snapshot, Each, Forget,
      CreateHere, Reply, Check, Claim, LookUp, AnnounceClaimed, LeaveAttached, AttachLook,
      AttachInfo, AttachEmit, TakeSignal, LateAnnounce, Unclaim, Unannounce, DetachAll
<1>2. s.target = run[th].target /\ run[th].step = "insert" /\ Go(th, "info again")
  <2>1. s = [id |-> minted, target |-> run[th].target, auto |-> run[th].job # "attach"]
    BY <1>1 DEF AttachInsert
  <2>2. s.target = run[th].target
    BY <2>1
  <2> QED BY <1>1, <2>2 DEF AttachInsert, At
<1>3. run'[th].step = "info again" /\ run'[th].target = run[th].target
  BY <1>2, GoApart DEF Moved, Steps, TypeOK
<1>4. run[th].target \in born
  BY <1>2 DEF Births, BirthOK, Locked
<1> QED BY <1>2, <1>3, <1>4 DEF Heading

LEMMA ClaimSteps ==
  ASSUME TypeOK, StepsFit, [Next]_vars, NEW t \in claimed', t \notin claimed
  PROVE  Holding(t)'
<1>1. PICK th \in Threads : Attaching(th)
  BY BesideShape DEF Beside
<1>2. Shape(th)
  BY <1>1, AttachingShape
<1>3. t = run[th].target /\ run'[th].target = t /\ holder' = th
  BY <1>2 DEF Shape, Advances, Locks
<1> QED BY <1>3 DEF Holding

LEMMA MetKept ==
  ASSUME TypeOK, StepsFit, Births, Met, [Next]_vars
  PROVE  Met'
<1>1. ASSUME NEW s \in sessions'
      PROVE  Spoken(s.target)' /\ s.target \in born'
  <2>1. CASE s \in sessions
    BY <2>1, SpokenKept, WorldGrows DEF Met, Spoken
  <2>2. CASE s \notin sessions
    BY <2>2, SessionSteps, WorldGrows DEF Spoken
  <2> QED BY <2>1, <2>2
<1>2. ASSUME NEW t \in claimed'
      PROVE  Spoken(t)' \/ Holding(t)'
  <2>1. CASE t \in claimed
    <3>1. t \in born
      BY <2>1 DEF Births
    <3>2. Spoken(t) \/ Holding(t)
      BY <2>1 DEF Met, Spoken
    <3> QED BY <3>1, <3>2, SpokenKept, HoldingKept
  <2>2. CASE t \notin claimed
    BY <2>2, ClaimSteps
  <2> QED BY <2>1, <2>2
<1> QED BY <1>1, <1>2 DEF Met, Spoken

-----------------------------------------------------------------------------
(***************************************************************************)
(* What a driver that counts on auto-attach can expect.                    *)
(***************************************************************************)
\* The loop over the snapshot keeps what it has left to do, unless an attach
\* fails; then the command fails, and nobody counts on it.
LEMMA LoopGoesOn ==
  ASSUME TypeOK, StepsFit, NEW th \in Threads, Attaching(th), run[th].job = "autoAttach"
  PROVE  \/ /\ run'[th].todo = run[th].todo /\ run'[th].step \in Loop
            /\ run[th].step = "claim" => holder' = th
         \/ run'[th].on = FALSE
<1>0. /\ run \in [Threads -> Runs] /\ run[th] \in Runs /\ After(th) = "each" /\ After(th) \in Steps
      /\ run[th].step \in Locked => holder = th
  BY AfterWhere DEF TypeOK, After, LockDiscipline
<1>1. CASE \E to \in Loop \cap Steps : Go(th, to) /\ (run[th].step = "claim" => holder' = th)
  BY <1>0, <1>1, GoApart DEF Moved
<1>2. ASSUME Return(th), run[th].step # "claim"
      PROVE  \E to \in Loop \cap Steps : Go(th, to) /\ (run[th].step = "claim" => holder' = th)
  BY <1>0, <1>2 DEF Return, Loop
<1>3. CASE Check(th)
  BY <1>0, <1>1, <1>3 DEF Check, At, Loop, Steps
<1>4. CASE Claim(th)
  BY <1>1, <1>4 DEF Claim, Loop, Locked, Steps
<1>5. CASE LookUp(th)
  BY <1>1, <1>2, <1>5 DEF LookUp, At, Loop, Locked, Steps
<1>6. CASE AnnounceClaimed(th)
  BY <1>1, <1>6 DEF AnnounceClaimed, At, Loop, Locked, Steps
<1>7. CASE LeaveAttached(th)
  BY <1>1, <1>2, <1>7 DEF LeaveAttached, At, Loop, Locked, Steps
<1>8. CASE AttachLook(th)
  <2>1. CASE run[th].target \in registry
    BY <1>1, <1>8, <2>1 DEF AttachLook, At, Loop, Locked, Steps
  <2>2. CASE run[th].target \notin registry
    <3>1. run' = [run EXCEPT ![th] = [run[th] EXCEPT !.step = "reply", !.todo = {}, !.on = FALSE]]
      BY <1>0, <1>8, <2>2 DEF AttachLook
    <3> QED BY <1>0, <3>1 DEF Runs
  <2> QED BY <2>1, <2>2
<1>9. CASE AttachInsert(th)
  BY <1>1, <1>9 DEF AttachInsert, At, Loop, Locked, Steps
<1>10. CASE AttachInfo(th)
  BY <1>1, <1>2, <1>10 DEF AttachInfo, At, Loop, Locked, Steps
<1>11. CASE AttachEmit(th)
  BY <1>2, <1>1, <1>11 DEF AttachEmit, At
<1> QED BY <1>3, <1>4, <1>5, <1>6, <1>7, <1>8, <1>9, <1>10, <1>11 DEF Attaching

\* Only the browser's lane gives a driver something to count on, and it begins
\* with every target there is.
LEMMA CountedBefore ==
  ASSUME TypeOK, StepsFit, Turns, [Next]_vars, Counted', ~Counted, NEW t
  PROVE  Circling(t)'
<1> DEFINE b == BrowserLane
<1>0. /\ b \in Threads /\ b \in Lanes /\ b # "events" /\ StepFits(b) /\ TurnOK(b) /\ Lanes \subseteq Threads
  BY LanesAssumption DEF Threads, StepsFit, Turns
<1>1. sure' \subseteq sure
      \/ \E l \in Lanes : Reply(l) /\ run[l].job \in {"discover", "autoAttach"} /\ run[l].on
                          /\ sure' = sure \union {run[l].job}
  BY DEF Next, Driver, Others, Command, Attaching, HandleSignal, vars, history,
      ReceiveSwitch, ReceiveCreate, ReceiveAttach, Detach, CreateElsewhere, Destroy, Swap, Snapshot, Each, Forget,
      CreateHere, Reply, Check, Claim, LookUp, AnnounceClaimed, LeaveAttached, AttachLook, AttachInsert,
      AttachInfo, AttachEmit, TakeSignal, LateAnnounce, Unclaim, Unannounce, DetachAll
<1>2. CASE "autoAttach" \in sure'
  <2>1. "autoAttach" \notin sure
    BY DEF Counted
  <2>2. PICK l \in Lanes : Reply(l) /\ run[l].job = "autoAttach" /\ run[l].on
    BY <1>1, <1>2, <2>1
  <2>3. l = b /\ run[l].step = "reply"
    BY <1>0, <2>2 DEF Turns, TurnOK, Reply, At
  <2> QED BY <2>2, <2>3 DEF Counted
<1>3. CASE "autoAttach" \notin sure'
  <2>1. run'[b].job = "autoAttach" /\ run'[b].on /\ run'[b].step # "flag"
    BY <1>3 DEF Counted
  <2>2. "autoAttach" \notin sure /\ ~(run[b].job = "autoAttach" /\ run[b].on /\ run[b].step # "flag")
    BY DEF Counted
  <2>3. ~Rests(b)
    BY <2>1, <2>2 DEF Rests
  <2>4. ~Attaching(b)
    BY <1>0, <2>1, <2>2, AttachingShape DEF Shape, Advances, Locked
  <2>5. ~\E job, x, on : Receive(b, job, x, on)
    BY <1>0, <2>1, ReceiveShape DEF FirstStep
  <2>6. Command(b)
    BY <1>0, <2>3, <2>4, <2>5, Moves
  <2>7. ~Snapshot(b) /\ ~Each(b) /\ ~Reply(b)
    BY <1>0, <2>1, <2>2, SnapshotShape, EachShape, StopShape DEF Reply
  <2>8. ~Forget(b) /\ ~CreateHere(b)
    BY <1>0, <2>1, GoApart DEF Forget, CreateHere, Moved, Steps, TypeOK, At, TurnOK, StepFits
  <2>9. Swap(b)
    BY <2>6, <2>7, <2>8 DEF Command
  <2> QED BY <1>0, <2>1, <2>2, <2>9, SwapShape DEF SwapTo, SwapOn, Circling
<1> QED BY <1>2, <1>3

\* The event thread with a creation in hand goes on to claim the target, or
\* finds that it has been claimed.
LEMMA LookingKept ==
  ASSUME TypeOK, StepsFit, Births, Met, autoAttach, [Next]_vars, NEW t \in born, Looking(t)
  PROVE  Looking(t)' \/ Holding(t)' \/ Spoken(t)'
<1> DEFINE e == "events"
<1>0. /\ e \in Threads /\ e \notin Lanes /\ run[e].job = "created" /\ run[e].target = t
      /\ run[e].step \in {"check", "claim"}
  BY LanesAssumption DEF Threads, Looking, Served
<1>1. CASE Rests(e)
  BY <1>0, <1>1 DEF Rests, Looking, Served
<1>2. CASE Attaching(e)
  <2>1. run'[e].job = "created" /\ run'[e].target = t /\ Shape(e)
    BY <1>0, <1>2, AttachingShape DEF Shape, Advances
  <2>2. Check(e) \/ Claim(e)
    BY <1>0, <1>2
    DEF Attaching, LookUp, AnnounceClaimed, LeaveAttached, AttachLook, AttachInsert, AttachInfo, AttachEmit, At
  <2>3. CASE Check(e)
    <3>1. Go(e, "claim")
      BY <2>3 DEF Check
    <3>2. run'[e].step = "claim"
      BY <1>0, <3>1, GoApart DEF Moved, Steps, TypeOK
    <3> QED BY <2>1, <3>2 DEF Looking, Served
  <2>4. CASE Claim(e)
    <3>1. CASE t \in claimed
      <4>1. holder = "none" /\ "none" \notin Threads
        BY <2>4, LanesAssumption DEF Claim, Threads
      <4>2. Spoken(t)
        BY <3>1, <4>1 DEF Met, Spoken, Holding
      <4> QED BY <4>2, SpokenKept
    <3>2. CASE t \notin claimed
      BY <1>0, <2>1, <2>4, <3>2 DEF Claim, Holding
    <3> QED BY <3>1, <3>2
  <2> QED BY <2>2, <2>3, <2>4
<1>3. CASE HandleSignal
  BY <1>0, <1>3 DEF HandleSignal, TakeSignal, LateAnnounce, Unclaim, Unannounce, DetachAll, At
<1> QED BY <1>0, <1>1, <1>2, <1>3, Moves

\* The loop over the snapshot comes to every target in it.
LEMMA CirclingKept ==
  ASSUME TypeOK, StepsFit, Turns, SureAttached, [Next]_vars, NEW t \in registry, Circling(t), Counted'
  PROVE  Circling(t)' \/ Holding(t)'
<1> DEFINE b == BrowserLane
<1>0. /\ b \in Threads /\ b \in Lanes /\ b # "events" /\ StepFits(b) /\ TurnOK(b)
      /\ run[b].job = "autoAttach" /\ run[b].step \in Loop
      /\ \/ run[b].step = "snapshot"
         \/ t \in run[b].todo
         \/ run[b].step = "claim" /\ t = run[b].target
  BY LanesAssumption DEF Threads, StepsFit, Turns, Circling, Loop
<1>1. Looping /\ "autoAttach" \notin sure
  BY <1>0 DEF Looping, SureAttached
<1>2. CASE Rests(b)
  BY <1>0, <1>2 DEF Rests, Circling
<1>3. CASE Attaching(b)
  <2>1. Shape(b) /\ run[b].step # "snapshot"
    BY <1>0, <1>3, AttachingShape DEF Shape, Advances, Locked
  <2>2. run'[b].job = "autoAttach" /\ run'[b].target = run[b].target /\ UNCHANGED sure
    BY <1>0, <2>1 DEF Shape, Advances
  <2>3. run'[b].on # FALSE
    BY <1>1, <2>2 DEF Counted
  <2>4. /\ run'[b].todo = run[b].todo /\ run'[b].step \in Loop
        /\ run[b].step = "claim" => holder' = b
    BY <1>0, <1>3, <2>3, LoopGoesOn
  <2>5. CASE t \in run[b].todo
    BY <2>2, <2>4, <2>5 DEF Circling
  <2>6. CASE run[b].step = "claim" /\ t = run[b].target
    BY <1>0, <2>2, <2>4, <2>6 DEF Holding
  <2> QED BY <1>0, <2>1, <2>5, <2>6
<1>4. ~\E job, x, on : Receive(b, job, x, on)
  BY <1>0 DEF Receive, At, Loop, Locked
<1>5. CASE Command(b)
  <2>1. Snapshot(b) \/ Each(b)
    BY <1>0, <1>5 DEF Command, Swap, Forget, CreateHere, Reply, At, Loop, Locked
  <2>2. CASE Snapshot(b)
    BY <1>0, <2>2, SnapshotShape DEF Circling, Loop
  <2>3. CASE Each(b)
    <3>1. t \in run[b].todo /\ run'[b].job = "autoAttach"
      BY <1>0, <2>3, EachShape
    <3>2. CASE EachEnds(b)
      BY <3>1, <3>2 DEF EachEnds
    <3>3. CASE \E x \in run[b].todo : EachAttaches(b, x)
      BY <3>1, <3>3 DEF EachAttaches, Circling, Loop
    <3>4. ~\E x \in run[b].todo : EachTells(b, x)
      BY <1>0 DEF EachTells
    <3>5. EachEnds(b) \/ (\E x \in run[b].todo : EachTells(b, x)) \/ \E x \in run[b].todo : EachAttaches(b, x)
      BY <1>0, <2>3, EachShape
    <3> QED BY <3>2, <3>3, <3>4, <3>5
  <2> QED BY <2>1, <2>2, <2>3
<1> QED BY <1>0, <1>2, <1>3, <1>4, <1>5, Moves

LEMMA AwaitedKept ==
  ASSUME TypeOK, StepsFit, Births, Turns, SureAttached, Met, Awaited, [Next]_vars
  PROVE  Awaited'
<1> SUFFICES ASSUME Counted', NEW t \in registry'
             PROVE  t \in told' \/ AttachComing(t)' \/ Circling(t)'
  BY DEF Awaited
<1>0. t \in Targets /\ registry \subseteq born
  BY WorldSteps DEF TypeOK, world, Register, Destroy
<1>1. CASE t \notin registry
  BY <1>0, <1>1, ArrivesWhenBorn DEF AttachComing
<1>2. CASE ~Counted
  BY <1>2, CountedBefore
<1>3. CASE Counted /\ t \in registry
  <2>1. (t \in told \/ AttachComing(t) \/ Circling(t)) /\ t \in born
    BY <1>0, <1>3 DEF Awaited
  <2>2. Spoken(t)' => t \in told' \/ AttachComing(t)'
    BY DEF Spoken, ToldOrGone, AttachComing
  <2>3. CASE t \in told \/ Heading(t)
    BY <2>1, <2>2, <2>3, SpokenKept DEF Spoken, ToldOrGone
  <2>4. CASE Holding(t)
    BY <2>1, <2>2, <2>4, HoldingKept DEF AttachComing
  <2>5. CASE Arriving(t)
    BY <1>0, <2>5, ArrivingKept DEF AttachComing, Looking
  <2>6. CASE Looking(t)
    <3>1. autoAttach
      BY <1>3 DEF Counted, SureAttached
    <3> QED BY <2>1, <2>2, <2>6, <3>1, LookingKept DEF AttachComing
  <2>7. CASE Circling(t)
    BY <1>3, <2>7, CirclingKept DEF AttachComing
  <2> QED BY <2>1, <2>3, <2>4, <2>5, <2>6, <2>7 DEF AttachComing
<1> QED BY <1>1, <1>2, <1>3

-----------------------------------------------------------------------------
LEMMA CInvKept == IInv /\ OInv /\ CInv /\ [Next]_vars => CInv'
  BY ReportsKept, MetKept, AwaitedKept DEF IInv, OInv, Attachment, CInv

LEMMA InitCInv == Init => CInv
<1> SUFFICES ASSUME Init PROVE CInv
  OBVIOUS
<1>1. run[BrowserLane].job = "idle"
  BY LanesAssumption DEF Init, Idle, Threads
<1> QED BY <1>1 DEF Init, CInv, NothingUnreported, Met, Awaited, Counted

LEMMA Coming == Spec => [](IInv /\ OInv /\ CInv)
  BY InitOInv, OInvKept, InitCInv, CInvKept, Invariance, PTL DEF Spec

\* While discovery is on, no target in the registry is forgotten: it has been
\* reported, or a signal, the event thread or the loop of `setDiscoverTargets`
\* is on its way to report it.
THEOREM ReportsAreComing == Spec => []NothingUnreported
<1>1. CInv => NothingUnreported
  BY DEF CInv
<1> QED BY <1>1, Coming, PTL

\* Once a driver counts on auto-attach, no target in the registry is forgotten,
\* though most threads that meet it find it claimed and leave it to another.
THEOREM AttachesAreComing == Spec => []NothingUnattached
<1>1. OInv /\ CInv => NothingUnattached
  <2> SUFFICES ASSUME OInv, CInv, "autoAttach" \in sure, NEW t \in registry
               PROVE  t \in told \/ AttachComing(t)
    BY DEF NothingUnattached
  <2>1. ~Looping
    BY DEF OInv, Attachment, SureAttached
  <2>2. ~Circling(t)
    BY <2>1 DEF Looping, Circling, Loop
  <2> QED BY <2>2 DEF CInv, Awaited, Counted
<1> QED BY <1>1, Coming, PTL
=============================================================================
