----------------------------- MODULE TargetAttach -----------------------------
(***************************************************************************)
(* How one connection hears of targets and attaches to them                *)
(* (cdp/session.rs, cdp/domains/target.rs, the registry of cdp/target.rs): *)
(* discovery, auto-attach, attaching and detaching by hand, and targets    *)
(* that other connections or the pages themselves create and destroy.      *)
(*                                                                         *)
(* Three kinds of threads meet: the lanes that run the connection's        *)
(* commands, the event thread that drains the registry's signals in order, *)
(* and whoever creates and destroys targets.  Every step below is one      *)
(* critical section of `auto_attached`, `announced`, `sessions` or the     *)
(* registry; `auto_attached` is the one lock held over several of them.    *)
(*                                                                         *)
(* The session limit and `InfoChanged` signals are left out: the limit is  *)
(* beyond the instances' reach and the signals decide nothing.             *)
(***************************************************************************)
EXTENDS Naturals, Sequences

CONSTANTS
  Targets,      \* target ids, never reused
  Lanes,        \* lanes that run this connection's commands
  BrowserLane,  \* the lane of commands without a session
  MaxCommands   \* bound: commands the driver sends

ASSUME LanesAssumption == BrowserLane \in Lanes /\ "events" \notin Lanes /\ "none" \notin Lanes
ASSUME MaxCommandsAssumption == MaxCommands \in Nat

VARIABLES
  registry,    \* targets the registry holds
  born,        \* targets there have ever been
  signals,     \* the bus's channel to the event thread
  discover,    \* `Connection::discover`
  autoAttach,  \* `Connection::auto_attach`
  announced,   \* targets reported with targetCreated
  claimed,     \* the set behind `auto_attached`
  holder,      \* the thread holding that lock, or "none"
  sessions,    \* live sessions, each with its target and how it came about
  minted,      \* session ids handed out: they are never reused
  run,         \* what each thread is doing
  commands,    \* commands sent so far
  reported,    \* history: targets with a targetCreated since discovery came on
  told,        \* history: targets with an attachedToTarget on the wire
  sure         \* history: which of the two switches the driver knows to be on

world == <<registry, born>>
switches == <<discover, autoAttach>>
history == <<reported, told, sure>>
vars == <<world, signals, switches, announced, claimed, holder, sessions, minted, run, commands, history>>

-----------------------------------------------------------------------------
Threads == Lanes \union {"events"}
NoTarget == "no target"

Jobs == {"idle", "discover", "autoAttach", "create", "attach", "created", "destroyed"}
Steps ==
  {"idle", "flag", "snapshot", "each", "forget", "reply",              \* commands
   "register",
   "check", "claim", "info", "announce", "other", "look", "insert", "info again", "emit",
   "late", "unclaim", "unannounce", "detach"}                           \* signals

\* The steps of `auto_attach` and `auto_attach_existing` that hold the lock.
Locked == {"info", "announce", "other", "look", "insert", "info again", "emit"}

Idle == [job |-> "idle", step |-> "idle", target |-> NoTarget, todo |-> {}, on |-> FALSE]

\* What a thread is doing: the job, the step it is at, its target, the rest of
\* a loop over a snapshot, and the value of a switch (for "create": whether
\* the driver counts on an attach).
Runs == [job : Jobs, step : Steps, target : Targets \union {NoTarget}, todo : SUBSET Targets, on : BOOLEAN]

\* The lock is held by whoever is between the claim and the return.
LockDiscipline ==
  \A th \in Threads : holder = th <=> run[th].step \in Locked /\ run[th].job # "attach"

TypeOK ==
  /\ registry \subseteq born /\ born \subseteq Targets
  /\ signals \in Seq([kind : {"created", "destroyed"}, target : Targets])
  /\ discover \in BOOLEAN /\ autoAttach \in BOOLEAN
  /\ announced \subseteq Targets /\ claimed \subseteq Targets
  /\ holder \in Threads \union {"none"}
  /\ sessions \subseteq [id : Nat, target : Targets, auto : BOOLEAN]
  /\ minted \in Nat
  /\ run \in [Threads -> Runs]
  /\ commands \in 0 .. MaxCommands
  /\ reported \subseteq Targets /\ told \subseteq Targets
  /\ sure \subseteq {"discover", "autoAttach"}
  /\ LockDiscipline

At(th, step) == run[th].step = step
Go(th, step) == run' = [run EXCEPT ![th].step = step]
Stop(th) == run' = [run EXCEPT ![th] = Idle]

SessionsFor(t) == {s \in sessions : s.target = t}

\* `announce_created`: the flag and the set under one lock, the event inside it.
Announce(t) ==
  IF discover /\ t \notin announced
    THEN announced' = announced \union {t} /\ reported' = reported \union {t}
    ELSE UNCHANGED <<announced, reported>>

\* Where a thread goes when `auto_attach`, `auto_attach_existing` or `attach`
\* returns.
After(th) ==
  CASE run[th].job = "autoAttach" -> "each"
    [] run[th].job = "created"    -> "late"
    [] OTHER                      -> "reply"

\* Mutant: a return that keeps the lock.
ReturnLocked(th) == Go(th, After(th)) /\ UNCHANGED holder

Return(th) ==
  /\ Go(th, After(th))
  /\ holder' = IF holder = th THEN "none" ELSE holder

-----------------------------------------------------------------------------
(***************************************************************************)
(* The registry: `create_page` and `destroy`, by this connection, another  *)
(* one, or a page that closes itself.                                      *)
(***************************************************************************)
Register(t) ==
  /\ t \notin born
  /\ born' = born \union {t} /\ registry' = registry \union {t}
  /\ signals' = Append(signals, [kind |-> "created", target |-> t])

CreateElsewhere(t) ==
  /\ Register(t)
  /\ UNCHANGED <<switches, announced, claimed, holder, sessions, minted, run, commands, history>>

Destroy(t) ==
  /\ t \in registry
  /\ registry' = registry \ {t}
  /\ signals' = Append(signals, [kind |-> "destroyed", target |-> t])
  /\ UNCHANGED <<born, switches, announced, claimed, holder, sessions, minted, run, commands, history>>

-----------------------------------------------------------------------------
(***************************************************************************)
(* Commands.  The two switches are browser-level; the other commands may   *)
(* also come in on a session.                                              *)
(***************************************************************************)
FirstStep(job) ==
  CASE job = "create" -> "register" [] job = "attach" -> "look" [] OTHER -> "flag"

Receive(l, job, t, on) ==
  /\ At(l, "idle") /\ commands < MaxCommands
  /\ l = BrowserLane \/ sessions # {}
  /\ commands' = commands + 1
  /\ run' = [run EXCEPT ![l] =
       [job |-> job, step |-> FirstStep(job), target |-> t, todo |-> {}, on |-> on]]

\* From the moment a driver sends "off" it no longer counts on "on".
ReceiveSwitch(job, on) ==
  /\ Receive(BrowserLane, job, NoTarget, on)
  /\ sure' = IF on THEN sure ELSE sure \ {job}
  /\ UNCHANGED <<world, signals, switches, announced, claimed, holder, sessions, minted, reported, told>>

\* Mutant: the switch goes on without a look at the targets that exist.
SwapOnly(l) ==
  /\ At(l, "flag")
  /\ IF run[l].job = "discover"
       THEN discover' = run[l].on /\ UNCHANGED autoAttach
       ELSE autoAttach' = run[l].on /\ UNCHANGED discover
  /\ Go(l, "reply")
  /\ UNCHANGED <<world, signals, announced, claimed, holder, sessions, minted, commands, history>>

\* The swap of `set_discover_targets` or `set_auto_attach`.  Nobody counts on
\* an attach any more once auto-attach has gone off under a running
\* `createTarget`; nor on a switch that was left on by a `setAutoAttach` that
\* failed, because a retry finds it on and attaches to nothing.
Swap(l) ==
  /\ At(l, "flag")
  /\ LET on == run[l].on IN
       IF run[l].job = "discover"
         THEN /\ discover' = on /\ UNCHANGED autoAttach
              /\ Go(l, IF on = discover THEN "reply" ELSE IF on THEN "snapshot" ELSE "forget")
         ELSE /\ autoAttach' = on /\ UNCHANGED discover
              /\ run' = [th \in Threads |->
                   IF th = l THEN [run[l] EXCEPT !.step = IF on /\ ~autoAttach THEN "snapshot" ELSE "reply",
                                                 !.on = on /\ (autoAttach => "autoAttach" \in sure)]
                   ELSE IF run[th].job = "create" /\ ~on THEN [run[th] EXCEPT !.on = FALSE]
                   ELSE run[th]]
  /\ UNCHANGED <<world, signals, announced, claimed, holder, sessions, minted, commands, history>>

\* `registry.infos()`
Snapshot(l) ==
  /\ At(l, "snapshot")
  /\ run' = [run EXCEPT ![l].todo = registry, ![l].step = "each"]
  /\ UNCHANGED <<world, signals, switches, announced, claimed, holder, sessions, minted, commands, history>>

\* The loop over the snapshot: one announcement, or one `auto_attach_existing`.
Each(l) ==
  /\ At(l, "each")
  /\ \/ /\ run[l].todo = {} /\ Go(l, "reply")
        /\ UNCHANGED <<announced, reported>>
     \/ \E t \in run[l].todo :
          LET left == run[l].todo \ {t} IN
          IF run[l].job = "discover"
            THEN Announce(t) /\ run' = [run EXCEPT ![l].todo = left]
            ELSE /\ run' = [run EXCEPT ![l].todo = left, ![l].target = t, ![l].step = "claim"]
                 /\ UNCHANGED <<announced, reported>>
  /\ UNCHANGED <<world, signals, switches, claimed, holder, sessions, minted, commands, told, sure>>

\* Mutant: discovery goes off and the record of what was announced stays.
ForgetNothing(l) ==
  /\ At(l, "forget")
  /\ reported' = {}
  /\ Go(l, "reply")
  /\ UNCHANGED <<world, signals, switches, announced, claimed, holder, sessions, minted, commands, told, sure>>

\* `forget_announcements`
Forget(l) ==
  /\ At(l, "forget")
  /\ announced' = {}
  /\ reported' = {}
  /\ Go(l, "reply")
  /\ UNCHANGED <<world, signals, switches, claimed, holder, sessions, minted, commands, told, sure>>

\* `create_target` up to its own `auto_attach`.  The driver counts on the
\* attach if it knew auto-attach to be on when it asked.
ReceiveCreate(l, t) ==
  /\ Receive(l, "create", t, "autoAttach" \in sure)
  /\ t \notin born
  /\ UNCHANGED <<world, signals, switches, announced, claimed, holder, sessions, minted, history>>

CreateHere(l) ==
  /\ At(l, "register") /\ run[l].target \notin born
  /\ Register(run[l].target)
  /\ Go(l, "check")
  /\ UNCHANGED <<switches, announced, claimed, holder, sessions, minted, commands, history>>

ReceiveAttach(l, t) ==
  /\ t \in born
  /\ Receive(l, "attach", t, FALSE)
  /\ UNCHANGED <<world, signals, switches, announced, claimed, holder, sessions, minted, history>>

\* `detach`, on a lane that has nothing else to do.
Detach(l, s) ==
  /\ At(l, "idle") /\ commands < MaxCommands /\ s \in sessions
  /\ commands' = commands + 1
  /\ sessions' = sessions \ {s}
  /\ UNCHANGED <<world, signals, switches, announced, claimed, holder, minted, run, history>>

\* The reply is sent; a driver that asked for a switch now counts on it.
Reply(l) ==
  /\ At(l, "reply")
  /\ sure' = IF run[l].job \in {"discover", "autoAttach"} /\ run[l].on
               THEN sure \union {run[l].job} ELSE sure
  /\ Stop(l)
  /\ UNCHANGED <<world, signals, switches, announced, claimed, holder, sessions, minted, commands, reported, told>>

-----------------------------------------------------------------------------
(***************************************************************************)
(* `auto_attach` (jobs "create" and "created"), `auto_attach_existing`     *)
(* (job "autoAttach") and `attach` (job "attach").  The first two hold     *)
(* `auto_attached` from the claim to their return.                         *)
(***************************************************************************)
\* The flag, read before the lock.
Check(th) ==
  /\ At(th, "check")
  /\ Go(th, IF autoAttach THEN "claim" ELSE After(th))
  /\ UNCHANGED <<world, signals, switches, announced, claimed, holder, sessions, minted, commands, history>>

\* Mutant: whoever finds the target claimed does not wait for the lock.
ClaimNarrow(th) ==
  /\ At(th, "claim")
  /\ LET t == run[th].target IN
       \/ /\ t \in claimed /\ run[th].job # "autoAttach"
          /\ Go(th, After(th)) /\ UNCHANGED <<claimed, holder>>
       \/ /\ t \notin claimed \/ run[th].job = "autoAttach"
          /\ holder = "none"
          /\ Go(th, "info") /\ claimed' = claimed \union {t} /\ holder' = th
  /\ UNCHANGED <<world, signals, switches, announced, sessions, minted, commands, history>>

\* `auto_attach` returns when the target is claimed already;
\* `auto_attach_existing` goes on either way.
Claim(th) ==
  /\ At(th, "claim") /\ holder = "none"
  /\ LET t == run[th].target IN
       IF t \in claimed /\ run[th].job # "autoAttach"
         THEN Go(th, After(th)) /\ UNCHANGED <<claimed, holder>>
         ELSE Go(th, "info") /\ claimed' = claimed \union {t} /\ holder' = th
  /\ UNCHANGED <<world, signals, switches, announced, sessions, minted, commands, history>>

\* Mutant: the claim stays.
LookUpKeepsClaim(th) ==
  /\ At(th, "info")
  /\ IF run[th].target \in registry
       THEN Go(th, "announce") /\ UNCHANGED holder
       ELSE Return(th)
  /\ UNCHANGED <<world, signals, switches, announced, claimed, sessions, minted, commands, history>>

\* A target that is gone gives its claim back.
LookUp(th) ==
  /\ At(th, "info")
  /\ IF run[th].target \in registry
       THEN Go(th, "announce") /\ UNCHANGED <<claimed, holder>>
       ELSE Return(th) /\ claimed' = claimed \ {run[th].target}
  /\ UNCHANGED <<world, signals, switches, announced, sessions, minted, commands, history>>

AnnounceClaimed(th) ==
  /\ At(th, "announce")
  /\ Announce(run[th].target)
  /\ Go(th, IF run[th].job = "autoAttach" THEN "other" ELSE "look")
  /\ UNCHANGED <<world, signals, switches, claimed, holder, sessions, minted, commands, told, sure>>

\* Mutant: a claim of its own is all `auto_attach_existing` asks for.
AttachAnyway(th) ==
  /\ At(th, "other")
  /\ Go(th, "look")
  /\ UNCHANGED <<world, signals, switches, announced, claimed, holder, sessions, minted, commands, history>>

\* `sessions_for`: a target attached by hand is left alone.
LeaveAttached(th) ==
  /\ At(th, "other")
  /\ IF SessionsFor(run[th].target) # {} THEN Return(th) ELSE Go(th, "look") /\ UNCHANGED holder
  /\ UNCHANGED <<world, signals, switches, announced, claimed, sessions, minted, commands, history>>

\* `attach` looks the page up.  Without one it fails: `auto_attach` ignores
\* that, `auto_attach_existing` gives the claim back and ends the command
\* with the error, whatever targets the loop had left.
AttachLook(th) ==
  /\ At(th, "look")
  /\ LET t == run[th].target IN
       CASE t \in registry -> Go(th, "insert") /\ UNCHANGED <<claimed, holder>>
         [] t \notin registry /\ run[th].job = "autoAttach" ->
              /\ run' = [run EXCEPT ![th].step = "reply", ![th].todo = {}, ![th].on = FALSE]
              /\ claimed' = claimed \ {t} /\ holder' = "none"
         [] OTHER -> Return(th) /\ UNCHANGED claimed
  /\ UNCHANGED <<world, signals, switches, announced, sessions, minted, commands, history>>

AttachInsert(th) ==
  /\ At(th, "insert")
  /\ minted' = minted + 1
  /\ sessions' = sessions \union
       {[id |-> minted, target |-> run[th].target, auto |-> run[th].job # "attach"]}
  /\ Go(th, "info again")
  /\ UNCHANGED <<world, signals, switches, announced, claimed, holder, commands, history>>

\* The event is left out for a target that is gone by now.
AttachInfo(th) ==
  /\ At(th, "info again")
  /\ IF run[th].target \in registry THEN Go(th, "emit") /\ UNCHANGED holder ELSE Return(th)
  /\ UNCHANGED <<world, signals, switches, announced, claimed, sessions, minted, commands, history>>

AttachEmit(th) ==
  /\ At(th, "emit")
  /\ told' = told \union {run[th].target}
  /\ Return(th)
  /\ UNCHANGED <<world, signals, switches, announced, claimed, sessions, minted, commands, reported, sure>>

-----------------------------------------------------------------------------
(***************************************************************************)
(* The event thread: `handle_signal`, one signal after the other.          *)
(***************************************************************************)
TakeSignal ==
  /\ At("events", "idle") /\ signals # <<>>
  /\ LET s == Head(signals) IN
       run' = [run EXCEPT !["events"] =
         [Idle EXCEPT !.job = s.kind, !.target = s.target,
                      !.step = IF s.kind = "created" THEN "check" ELSE "unclaim"]]
  /\ signals' = Tail(signals)
  /\ UNCHANGED <<world, switches, announced, claimed, holder, sessions, minted, commands, history>>

\* The unconditional announcement that ends `on_target_created`.
LateAnnounce ==
  /\ At("events", "late")
  /\ Announce(run["events"].target)
  /\ Stop("events")
  /\ UNCHANGED <<world, signals, switches, claimed, holder, sessions, minted, commands, told, sure>>

\* `on_target_destroyed`: the claim, the announcement, the sessions.
Unclaim ==
  /\ At("events", "unclaim") /\ holder = "none"
  /\ claimed' = claimed \ {run["events"].target}
  /\ Go("events", "unannounce")
  /\ UNCHANGED <<world, signals, switches, announced, holder, sessions, minted, commands, history>>

Unannounce ==
  /\ At("events", "unannounce")
  /\ announced' = announced \ {run["events"].target}
  /\ Go("events", "detach")
  /\ UNCHANGED <<world, signals, switches, claimed, holder, sessions, minted, commands, history>>

DetachAll ==
  /\ At("events", "detach")
  /\ sessions' = sessions \ SessionsFor(run["events"].target)
  /\ Stop("events")
  /\ UNCHANGED <<world, signals, switches, announced, claimed, holder, minted, commands, history>>

-----------------------------------------------------------------------------
\* A connection subscribes to a registry that may hold targets already.
Init ==
  /\ born \in SUBSET Targets /\ registry = born
  /\ signals = <<>>
  /\ discover = FALSE /\ autoAttach = FALSE
  /\ announced = {} /\ claimed = {} /\ holder = "none"
  /\ sessions = {} /\ minted = 0
  /\ run = [th \in Threads |-> Idle]
  /\ commands = 0
  /\ reported = {} /\ told = {} /\ sure = {}

Command(l) ==
  Swap(l) \/ Snapshot(l) \/ Each(l) \/ Forget(l) \/ CreateHere(l) \/ Reply(l)

Attaching(th) ==
  \/ Check(th) \/ Claim(th) \/ LookUp(th) \/ AnnounceClaimed(th) \/ LeaveAttached(th)
  \/ AttachLook(th) \/ AttachInsert(th) \/ AttachInfo(th) \/ AttachEmit(th)

HandleSignal == TakeSignal \/ LateAnnounce \/ Unclaim \/ Unannounce \/ DetachAll

Driver ==
  \/ \E job \in {"discover", "autoAttach"}, on \in BOOLEAN : ReceiveSwitch(job, on)
  \/ \E l \in Lanes, t \in Targets : ReceiveCreate(l, t) \/ ReceiveAttach(l, t)
  \/ \E l \in Lanes, s \in sessions : Detach(l, s)

Others == \E t \in Targets : CreateElsewhere(t) \/ Destroy(t)

Next ==
  \/ Driver
  \/ Others
  \/ \E l \in Lanes : Command(l)
  \/ \E th \in Threads : Attaching(th)
  \/ HandleSignal

Spec == Init /\ [][Next]_vars

\* Threads run on, and one that waits for `auto_attached` while nobody holds it
\* gets it.  Nothing is assumed of the driver, of other connections or of the
\* pages.
Fairness ==
  /\ \A l \in Lanes : WF_vars(Command(l))
  /\ \A th \in Threads : WF_vars(Attaching(th))
  /\ WF_vars(HandleSignal)

FairSpec == Spec /\ Fairness

-----------------------------------------------------------------------------
(***************************************************************************)
(* Properties                                                              *)
(***************************************************************************)
Quiet == signals = <<>> /\ \A th \in Threads : At(th, "idle")

\* A target never has two sessions that auto-attach made, whichever of the
\* event thread, `createTarget`'s lane and `setAutoAttach` gets to it and in
\* whatever order: the check and the claim are under one lock, and
\* `auto_attach_existing` looks for sessions under it.
AutoAttachedOnce ==
  \A a, b \in sessions : a.auto /\ b.auto /\ a.target = b.target => a = b

\* When nothing is going on, no session that auto-attach made and no claim is
\* left for a target that is gone: a `Destroyed` signal waits for the lock, so
\* it cannot be overtaken by the attach, and a claim made after it is given
\* back.
NothingLeftOfTheGone ==
  Quiet => /\ claimed \subseteq registry
           /\ \A s \in sessions : s.auto => s.target \in registry

\* A driver that has discovery on is never told of an auto-attach to a live
\* target it was not told of first, even when discovery came on between the
\* claim and the attach.
AnnouncedBeforeAttached ==
  \A th \in Threads :
    (AttachEmit(th) /\ run[th].job # "attach" /\ "discover" \in sure)
      => (run[th].target \in reported \/ run[th].target \notin registry)

\* The reply to `createTarget` does not overtake the `attachedToTarget` that
\* a driver with auto-attach on counts on, whichever thread won the claim.
ReplyFollowsAttach ==
  \A l \in Lanes :
    (Reply(l) /\ run[l].job = "create" /\ run[l].on)
      => (run[l].target \in told \/ run[l].target \notin registry)

\* What a driver may count on in the order of what it is sent.
EventsInOrder == [][AnnouncedBeforeAttached /\ ReplyFollowsAttach]_vars

\* With discovery on, every target is reported in the end: from the snapshot,
\* by a thread that attaches to it, or late.
EveryTargetReported ==
  \A t \in Targets :
    (t \in registry /\ discover) ~> (t \in reported \/ t \notin registry \/ ~discover)

\* Once `setAutoAttach` has answered that it is on, every target, existing or
\* new, is attached to in the end, unless the driver turns it off.  (Not so
\* after an attempt that failed and a retry: see Swap.)
EveryTargetAttached ==
  \A t \in Targets :
    (t \in registry /\ "autoAttach" \in sure)
      ~> (t \in told \/ t \notin registry \/ "autoAttach" \notin sure)

\* "a driver that connects to a running browser sees the same stream as one
\* that was watching from the start": a target that is gone when all is quiet
\* is not one the driver was last told exists. The code does not keep this.
NoGhosts == Quiet => announced \subseteq registry
=============================================================================
