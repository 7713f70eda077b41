------------------------ MODULE InterceptControlProofs ------------------------
(***************************************************************************)
(* What holds of InterceptControl for every number of sessions, sockets,   *)
(* requests and receive stamps.                                            *)
(***************************************************************************)
EXTENDS InterceptControl, SequenceTheorems, TLAPS

-----------------------------------------------------------------------------
(***************************************************************************)
(* The critical sections.                                                  *)
(***************************************************************************)

\* Every critical section maps a configuration to a configuration, and the ids
\* a disable hands back are requests.
LEMMA ConfigClosed ==
  ASSUME NEW c \in InterceptConfigs
  PROVE  /\ \A seq \in 0 .. MaxSeq, s \in Sessions, p \in SUBSET Requests, a \in BOOLEAN :
              Enable(c, seq, s, p, a) \in InterceptConfigs
         /\ \A seq \in 0 .. MaxSeq : \A s : Disable(c, seq, s) \in InterceptConfigs
         /\ \A s : DisableReleases(c, s) \subseteq c.paused
         /\ \A gone : DropClaims(c, gone) \in InterceptConfigs
         /\ \A r : Unpause(c, r) \in InterceptConfigs
         /\ \A r \in Requests : Pause(c, r) \in InterceptConfigs
         /\ \A offline \in BOOLEAN : SetConditions(c, offline) \in InterceptConfigs
<1> USE MaxSeqAssumption DEF InterceptConfigs, Forever
<1>1. \A seq \in 0 .. MaxSeq, s \in Sessions, p \in SUBSET Requests, a \in BOOLEAN :
        Enable(c, seq, s, p, a) \in InterceptConfigs
  BY DEF Enable
<1>2. \A seq \in 0 .. MaxSeq : \A s : Disable(c, seq, s) \in InterceptConfigs
  BY DEF Disable, ClaimsWithout
<1>3. \A s : DisableReleases(c, s) \subseteq c.paused
  BY DEF DisableReleases
<1>4. \A gone : DropClaims(c, gone) \in InterceptConfigs
  BY DEF DropClaims
<1>5. \A r : Unpause(c, r) \in InterceptConfigs
  BY DEF Unpause
<1>6. \A r \in Requests : Pause(c, r) \in InterceptConfigs
  BY DEF Pause
<1>7. \A offline \in BOOLEAN : SetConditions(c, offline) \in InterceptConfigs
  BY DEF SetConditions
<1> QED BY <1>1, <1>2, <1>3, <1>4, <1>5, <1>6, <1>7

-----------------------------------------------------------------------------
(***************************************************************************)
(* Type correctness.  A priority lane in the middle of a disable still has *)
(* that disable at its head, which is what `ApplyDisable` reads.           *)
(***************************************************************************)
DisablingHasJob == \A c \in Connections : disabling[c] => priority[c] # <<>>

Typed == TypeOK /\ DisablingHasJob

Jobs == [seq : 0 .. MaxSeq, session : Sessions]

LEMMA PausedAreRequests ==
  ASSUME NEW c \in InterceptConfigs
  PROVE  c.paused \subseteq Requests
  BY DEF InterceptConfigs

LEMMA TypedInit == Init => Typed
  BY MaxSeqAssumption
  DEF Init, Typed, TypeOK, DisablingHasJob, InterceptConfigs, DefaultConfig, Forever,
      NoEnable, Words, Progress, Release, Places

LEMMA TypedReceive ==
  ASSUME Typed, NEW s \in Sessions, ReceiveEnable(s) \/ ReceiveDisable(s)
  PROVE  Typed'
<1> USE MaxSeqAssumption, ConnectionOfAssumption
<1>1. nextSeq \in 0 .. MaxSeq /\ nextSeq' \in 0 .. MaxSeq /\ word' \in [Sessions -> [0 .. MaxSeq -> Words]]
  <2>1. nextSeq \in 0 .. MaxSeq /\ nextSeq < MaxSeq /\ nextSeq' = nextSeq + 1
    BY DEF Typed, TypeOK, ReceiveEnable, ReceiveDisable, MayReceive
  <2>2. PICK w \in Words : word' = [word EXCEPT ![s][nextSeq] = w]
    BY DEF ReceiveEnable, ReceiveDisable, Words
  <2>3. word \in [Sessions -> [0 .. MaxSeq -> Words]]
    BY DEF Typed, TypeOK
  <2>4. word' \in [Sessions -> [0 .. MaxSeq -> Words]]
    BY <2>2, <2>3
  <2> QED BY <2>1, <2>4
<1>2. CASE ReceiveEnable(s)
  <2>1. Append(lane[s], nextSeq) \in Seq(0 .. MaxSeq)
    BY <1>1 DEF Typed, TypeOK
  <2>2. lane' \in [Sessions -> Seq(0 .. MaxSeq)]
    BY <1>2, <2>1 DEF ReceiveEnable, Typed, TypeOK
  <2> QED
    BY <1>1, <1>2, <2>2 DEF ReceiveEnable, Typed, TypeOK, DisablingHasJob, pageVars
<1>3. CASE ReceiveDisable(s)
  <2> DEFINE c == ConnectionOf[s]
             job == [seq |-> nextSeq, session |-> s]
  <2>1. c \in Connections /\ job \in Jobs /\ priority[c] \in Seq(Jobs)
    BY <1>1 DEF Typed, TypeOK, Jobs
  <2>2. Append(priority[c], job) \in Seq(Jobs) /\ Append(priority[c], job) # <<>>
    BY <2>1, AppendProperties
  <2>3. priority' = [priority EXCEPT ![c] = Append(priority[c], job)]
    BY <1>3 DEF ReceiveDisable
  <2>4. priority \in [Connections -> Seq(Jobs)] /\ disabling' = disabling
    BY <1>3 DEF ReceiveDisable, Typed, TypeOK, Jobs
  <2> HIDE DEF c, job
  <2>5. priority' \in [Connections -> Seq(Jobs)] /\ DisablingHasJob'
    BY <2>1, <2>2, <2>3, <2>4 DEF Typed, DisablingHasJob
  <2> QED
    BY <1>1, <1>3, <2>5 DEF ReceiveDisable, Typed, TypeOK, pageVars, Jobs
<1> QED BY <1>2, <1>3

LEMMA TypedLane ==
  ASSUME Typed, NEW s \in Sessions, LaneNext(s)
  PROVE  Typed'
<1> USE MaxSeqAssumption, ConnectionOfAssumption
<1>1. CASE StartEnable(s)
  <2>1. Head(lane[s]) \in 0 .. MaxSeq /\ Tail(lane[s]) \in Seq(0 .. MaxSeq)
    BY <1>1, HeadTailProperties DEF StartEnable, Typed, TypeOK
  <2>2. lane' \in [Sessions -> Seq(0 .. MaxSeq)]
    BY <1>1, <2>1 DEF StartEnable, Typed, TypeOK
  <2>3. enabling' \in [Sessions -> [step : Progress, seq : 0 .. MaxSeq]]
    BY <1>1, <2>1 DEF StartEnable, Typed, TypeOK, Progress
  <2> QED
    BY <1>1, <2>2, <2>3 DEF StartEnable, Typed, TypeOK, DisablingHasJob, pageVars
<1>2. CASE RaiseFlag(s)
  BY <1>2 DEF RaiseFlag, Typed, TypeOK, DisablingHasJob, pageVars, Progress
<1>3. CASE ApplyEnable(s)
  <2>1. config' \in InterceptConfigs
    BY <1>3, ConfigClosed DEF ApplyEnable, Typed, TypeOK
  <2>2. NoEnable \in [step : Progress, seq : 0 .. MaxSeq]
    BY DEF NoEnable, Progress
  <2> QED
    BY <1>3, <2>1, <2>2 DEF ApplyEnable, Typed, TypeOK, DisablingHasJob, pageVars
<1>4. CASE RefuseEnable(s)
  <2>1. NoEnable \in [step : Progress, seq : 0 .. MaxSeq] /\ "refused" \in Words
    BY DEF NoEnable, Progress, Words
  <2> QED
    BY <1>4, <2>1 DEF RefuseEnable, Typed, TypeOK, DisablingHasJob, pageVars
<1> QED BY <1>1, <1>2, <1>3, <1>4 DEF LaneNext

LEMMA TypedPriority ==
  ASSUME Typed, NEW c \in Connections, StartDisable(c) \/ ApplyDisable(c)
  PROVE  Typed'
<1> USE MaxSeqAssumption, ConnectionOfAssumption
<1>1. priority[c] # <<>>
  BY DEF StartDisable, ApplyDisable, Typed, DisablingHasJob
<1>2. priority[c] \in Seq(Jobs)
  BY DEF Typed, TypeOK, Jobs
<1>3. Head(priority[c]) \in Jobs /\ Tail(priority[c]) \in Seq(Jobs)
  BY <1>1, <1>2, HeadTailProperties
<1>4. CASE StartDisable(c)
  <2>1. priority' \in [Connections -> Seq(Jobs)] /\ disabling' \in [Connections -> BOOLEAN]
    BY <1>3, <1>4 DEF StartDisable, Typed, TypeOK, Jobs
  <2>2. flag' \in [Sessions -> BOOLEAN]
    BY <1>3, <1>4 DEF StartDisable, Typed, TypeOK, Jobs
  <2>3. DisablingHasJob'
    BY <1>1, <1>4 DEF StartDisable, Typed, TypeOK, DisablingHasJob
  <2> QED
    BY <1>4, <2>1, <2>2, <2>3 DEF StartDisable, Typed, TypeOK, pageVars, Jobs
<1>5. CASE ApplyDisable(c)
  <2>1. Head(priority[c]).seq \in 0 .. MaxSeq
    BY <1>3 DEF Jobs
  <2>2. config' \in InterceptConfigs /\ decided' \subseteq Requests
    BY <1>5, <2>1, ConfigClosed, PausedAreRequests DEF ApplyDisable, Typed, TypeOK
  <2>3. priority' \in [Connections -> Seq(Jobs)] /\ disabling' \in [Connections -> BOOLEAN]
    BY <1>3, <1>5 DEF ApplyDisable, Typed, TypeOK, Jobs
  <2>4. DisablingHasJob'
    BY <1>5 DEF ApplyDisable, Typed, TypeOK, DisablingHasJob
  <2> QED
    BY <1>5, <2>2, <2>3, <2>4 DEF ApplyDisable, Typed, TypeOK, Jobs
<1> QED BY <1>4, <1>5

LEMMA TypedLeave ==
  ASSUME Typed, NEW s \in Sessions, Detach(s) \/ ReleaseNext(s)
  PROVE  Typed'
<1> USE MaxSeqAssumption, ConnectionOfAssumption DEF Release
<1>1. CASE Detach(s)
  BY <1>1 DEF Detach, Typed, TypeOK, DisablingHasJob, laneVars, pageVars
<1>2. CASE LowerFlag(s)
  BY <1>2 DEF LowerFlag, Typed, TypeOK, DisablingHasJob, laneVars, pageVars
<1>3. CASE DropClaim(s)
  <2>1. config' \in InterceptConfigs
    BY <1>3, ConfigClosed DEF DropClaim, Typed, TypeOK
  <2> QED
    BY <1>3, <2>1 DEF DropClaim, Typed, TypeOK, DisablingHasJob, laneVars, pageVars
<1>4. CASE DisableForGood(s)
  <2>1. config' \in InterceptConfigs /\ decided' \subseteq Requests
    <3>1. Forever \in 0 .. MaxSeq /\ config \in InterceptConfigs /\ decided \subseteq Requests
      BY DEF Forever, Typed, TypeOK
    <3> QED BY <1>4, <3>1, ConfigClosed, PausedAreRequests DEF DisableForGood
  <2> QED
    BY <1>4, <2>1 DEF DisableForGood, Typed, TypeOK, DisablingHasJob, laneVars
<1> QED BY <1>1, <1>2, <1>3, <1>4 DEF ReleaseNext

LEMMA TypedPage ==
  ASSUME Typed, NEW r \in Requests, Resolve(r) \/ PageNext(r)
  PROVE  Typed'
<1> USE MaxSeqAssumption, ConnectionOfAssumption DEF Places
<1>1. CASE Resolve(r)
  <2>1. config' \in InterceptConfigs
    BY <1>1, ConfigClosed DEF Resolve, Typed, TypeOK
  <2> QED BY <1>1, <2>1 DEF Resolve, Typed, TypeOK, DisablingHasJob, laneVars
<1>2. CASE CheckRequest(r)
  BY <1>2 DEF CheckRequest, Typed, TypeOK, DisablingHasJob, laneVars
<1>3. CASE AnnouncePause(r)
  <2>1. config' \in InterceptConfigs
    BY <1>3, ConfigClosed DEF AnnouncePause, Typed, TypeOK
  <2> QED BY <1>3, <2>1 DEF AnnouncePause, Typed, TypeOK, DisablingHasJob, laneVars
<1>4. CASE LetGo(r)
  <2>1. config' \in InterceptConfigs
    BY <1>4, ConfigClosed DEF LetGo, Typed, TypeOK
  <2> QED BY <1>4, <2>1 DEF LetGo, Typed, TypeOK, DisablingHasJob, laneVars
<1> QED BY <1>1, <1>2, <1>3, <1>4 DEF PageNext, ApplyDecision, GiveUp

LEMMA TypedStep == Typed /\ [Next]_vars => Typed'
<1> SUFFICES ASSUME Typed, [Next]_vars PROVE Typed'
  OBVIOUS
<1>1. CASE UNCHANGED vars
  BY <1>1 DEF vars, Typed, TypeOK, DisablingHasJob
<1>2. ASSUME NEW s \in Sessions, NEW offline \in BOOLEAN, EmulateOffline(s, offline)
      PROVE  Typed'
  <2>1. config' \in InterceptConfigs
    BY <1>2, ConfigClosed DEF EmulateOffline, Typed, TypeOK
  <2> QED BY <1>2, <2>1 DEF EmulateOffline, Typed, TypeOK, DisablingHasJob, laneVars, pageVars
<1>3. ASSUME NEW c \in Connections, Close(c)
      PROVE  Typed'
  BY <1>3 DEF Close, Typed, TypeOK, DisablingHasJob, laneVars, pageVars, Release
<1> QED
  BY <1>1, <1>2, <1>3, TypedReceive, TypedLane, TypedPriority, TypedLeave, TypedPage DEF Next

\* Every variable keeps its type, whatever is queued, running or leaving.
THEOREM TypeCorrect == Spec => []TypeOK
<1>1. Spec => []Typed
  BY TypedInit, TypedStep, PTL DEF Spec
<1> QED BY <1>1, PTL DEF Typed

-----------------------------------------------------------------------------
(***************************************************************************)
(* The paused set.  Whatever order lanes, teardown and the page's give-up  *)
(* come in, the requests the page holds are exactly those in the shared    *)
(* set or with a decision on the way, and never both: an id leaves the set *)
(* only into `decided`, and only the page takes it out of there.           *)
(***************************************************************************)
DecidedIsHeld == \A r \in decided : at[r] = "paused"

PausedSet == PausedIsHeld /\ HeldIsAnswerable /\ DecidedIsHeld

\* The ids that move from the shared set to `decided` in one critical section.
LEMMA MovedTogether ==
  ASSUME Typed, PausedSet, NEW moved \in SUBSET config.paused,
         config'.paused = config.paused \ moved, decided' = decided \union moved, at' = at
  PROVE  PausedSet'
  BY DEF Typed, TypeOK, PausedSet, PausedIsHeld, HeldIsAnswerable, DecidedIsHeld

\* A disable empties the shared set into the releases it hands back, or leaves
\* it alone and hands back nothing.
LEMMA DisableMoves ==
  ASSUME NEW c \in InterceptConfigs, NEW seq, NEW s
  PROVE  Disable(c, seq, s).paused = c.paused \ DisableReleases(c, s)
  BY DEF Disable, DisableReleases, ClaimsWithout, InterceptConfigs

LEMMA PausedSetInit == Init => PausedSet
  BY DEF Init, DefaultConfig, PausedSet, PausedIsHeld, HeldIsAnswerable, DecidedIsHeld

LEMMA PausedSetKept ==
  ASSUME PausedSet, config'.paused = config.paused, decided' = decided, at' = at
  PROVE  PausedSet'
  BY DEF PausedSet, PausedIsHeld, HeldIsAnswerable, DecidedIsHeld

LEMMA PausedSetPage ==
  ASSUME Typed, PausedSet, NEW r \in Requests, PageNext(r)
  PROVE  PausedSet'
<1> USE DEF PausedSet, PausedIsHeld, HeldIsAnswerable, DecidedIsHeld
<1>0. at \in [Requests -> Places] /\ config.paused \subseteq Requests /\ decided \subseteq Requests
  BY PausedAreRequests DEF Typed, TypeOK
<1>1. CASE CheckRequest(r)
  BY <1>0, <1>1 DEF CheckRequest
<1>2. CASE AnnouncePause(r)
  <2>1. config'.paused = config.paused \union {r}
    BY <1>2 DEF AnnouncePause, Pause, Typed, TypeOK, InterceptConfigs
  <2> QED BY <1>0, <1>2, <2>1 DEF AnnouncePause
<1>3. CASE LetGo(r)
  <2>1. config'.paused = config.paused \ {r}
    BY <1>3 DEF LetGo, Unpause, Typed, TypeOK, InterceptConfigs
  <2> QED BY <1>0, <1>3, <2>1 DEF LetGo
<1> QED BY <1>1, <1>2, <1>3 DEF PageNext, ApplyDecision, GiveUp

LEMMA PausedSetStep == Typed /\ PausedSet /\ [Next]_vars => PausedSet'
<1> SUFFICES ASSUME Typed, PausedSet, [Next]_vars PROVE PausedSet'
  OBVIOUS
<1>0. config \in InterceptConfigs
  BY DEF Typed, TypeOK
<1>1. CASE UNCHANGED vars
  BY <1>1, PausedSetKept DEF vars
<1>2. ASSUME NEW s \in Sessions,
             ReceiveEnable(s) \/ ReceiveDisable(s) \/ Detach(s) \/ StartEnable(s) \/ RefuseEnable(s)
               \/ RaiseFlag(s) \/ LowerFlag(s)
      PROVE  PausedSet'
  <2>1. config' = config /\ decided' = decided /\ at' = at
    BY <1>2 DEF ReceiveEnable, ReceiveDisable, Detach, StartEnable, RefuseEnable, RaiseFlag, LowerFlag, pageVars
  <2> QED BY <2>1, PausedSetKept
<1>3. ASSUME NEW s \in Sessions, ApplyEnable(s)
      PROVE  PausedSet'
  <2>1. config'.paused = config.paused
    BY <1>0, <1>3 DEF ApplyEnable, Enable, InterceptConfigs
  <2> QED BY <1>3, <2>1, PausedSetKept DEF ApplyEnable, pageVars
<1>4. ASSUME NEW s \in Sessions, NEW offline \in BOOLEAN, EmulateOffline(s, offline)
      PROVE  PausedSet'
  <2>1. config'.paused = config.paused
    BY <1>0, <1>4 DEF EmulateOffline, SetConditions, InterceptConfigs
  <2> QED BY <1>4, <2>1, PausedSetKept DEF EmulateOffline, pageVars
<1>5. ASSUME NEW s \in Sessions, DropClaim(s)
      PROVE  PausedSet'
  <2>1. config'.paused = config.paused
    BY <1>0, <1>5 DEF DropClaim, DropClaims, InterceptConfigs
  <2> QED BY <1>5, <2>1, PausedSetKept DEF DropClaim, pageVars
<1>6. ASSUME NEW s \in Sessions, DisableForGood(s)
      PROVE  PausedSet'
  <2>1. config'.paused = config.paused \ DisableReleases(config, NoSession)
    BY <1>0, <1>6, DisableMoves DEF DisableForGood
  <2> QED BY <1>0, <1>6, <2>1, MovedTogether, ConfigClosed DEF DisableForGood
<1>7. ASSUME NEW c \in Connections, StartDisable(c) \/ Close(c)
      PROVE  PausedSet'
  <2>1. config' = config /\ decided' = decided /\ at' = at
    BY <1>7 DEF StartDisable, Close, pageVars
  <2> QED BY <2>1, PausedSetKept
<1>8. ASSUME NEW c \in Connections, ApplyDisable(c)
      PROVE  PausedSet'
  <2> DEFINE s == Head(priority[c]).session
  <2>1. config'.paused = config.paused \ DisableReleases(config, s)
    BY <1>0, <1>8, DisableMoves DEF ApplyDisable
  <2>2. decided' = decided \union DisableReleases(config, s) /\ at' = at
    BY <1>8 DEF ApplyDisable
  <2> QED BY <1>0, <2>1, <2>2, MovedTogether, ConfigClosed
<1>9. ASSUME NEW r \in Requests, Resolve(r)
      PROVE  PausedSet'
  <2>1. config'.paused = config.paused \ {r}
    BY <1>0, <1>9 DEF Resolve, Unpause, InterceptConfigs
  <2> QED BY <1>9, <2>1, MovedTogether DEF Resolve
<1> QED
  BY <1>1, <1>2, <1>3, <1>4, <1>5, <1>6, <1>7, <1>8, <1>9, PausedSetPage
  DEF Next, LaneNext, ReleaseNext

\* No interleaving of enables, disables, resolutions, teardowns and give-ups
\* loses a held request, and a claim that succeeds is about one still held.
THEOREM HeldExactly == Spec => []PausesAgree
<1>1. Spec => [](Typed /\ PausedSet)
  BY TypedInit, TypedStep, PausedSetInit, PausedSetStep, PTL DEF Spec
<1> QED BY <1>1, PTL DEF PausedSet, PausesAgree

-----------------------------------------------------------------------------
(***************************************************************************)
(* What the critical sections do to the claims, the switch and the stamp.  *)
(***************************************************************************)

\* A step leaves the configuration alone but for the paused set and the
\* emulated conditions, or is one of the three operations on claims.
ConfigUntouched ==
  /\ config'.wantedBy = config.wantedBy
  /\ config'.enabled = config.enabled
  /\ config'.configSeq = config.configSeq

LEMMA ConfigMoves ==
  ASSUME Typed, [Next]_vars
  PROVE  \/ ConfigUntouched
         \/ \E seq \in 0 .. MaxSeq, s \in Sessions : config' = Enable(config, seq, s, Requests, FALSE)
         \/ \E seq \in 0 .. MaxSeq, s \in Sessions \union {NoSession} : config' = Disable(config, seq, s)
         \/ \E s \in Sessions : config' = DropClaims(config, {s})
<1>0. config \in InterceptConfigs
  BY DEF Typed, TypeOK
<1>1. CASE config' = config
  BY <1>1 DEF ConfigUntouched
<1>2. CASE \E s \in Sessions : ApplyEnable(s)
  BY <1>2 DEF ApplyEnable, Typed, TypeOK
<1>3. CASE \E s \in Sessions : DropClaim(s)
  BY <1>3 DEF DropClaim
<1>4. CASE \E s \in Sessions : DisableForGood(s)
  <2>1. Forever \in 0 .. MaxSeq
    BY MaxSeqAssumption DEF Forever
  <2> QED BY <1>4, <2>1 DEF DisableForGood
<1>5. ASSUME NEW c \in Connections, ApplyDisable(c)
      PROVE  \E seq \in 0 .. MaxSeq, s \in Sessions : config' = Disable(config, seq, s)
  <2>1. priority[c] \in Seq(Jobs) /\ priority[c] # <<>>
    BY <1>5 DEF ApplyDisable, Typed, TypeOK, DisablingHasJob, Jobs
  <2>2. Head(priority[c]) \in Jobs
    BY <2>1, HeadTailProperties
  <2>3. Head(priority[c]).seq \in 0 .. MaxSeq /\ Head(priority[c]).session \in Sessions
    BY <2>2 DEF Jobs
  <2> QED BY <1>5, <2>3 DEF ApplyDisable
<1>6. CASE \/ \E r \in Requests : Resolve(r) \/ PageNext(r)
           \/ \E s \in Sessions, offline \in BOOLEAN : EmulateOffline(s, offline)
  <2>1. \/ config' = config
        \/ \E r \in Requests : config' = Unpause(config, r) \/ config' = Pause(config, r)
        \/ \E offline \in BOOLEAN : config' = SetConditions(config, offline)
    BY <1>6 DEF Resolve, PageNext, CheckRequest, AnnouncePause, ApplyDecision, GiveUp, LetGo,
                EmulateOffline
  <2> QED BY <1>0, <2>1 DEF ConfigUntouched, Unpause, Pause, SetConditions, InterceptConfigs
<1>7. \/ config' = config
      \/ \E s \in Sessions : ApplyEnable(s) \/ DropClaim(s) \/ DisableForGood(s)
      \/ \E c \in Connections : ApplyDisable(c)
      \/ \E r \in Requests : Resolve(r) \/ PageNext(r)
      \/ \E s \in Sessions, offline \in BOOLEAN : EmulateOffline(s, offline)
  BY DEF Next, vars, LaneNext, ReleaseNext, ReceiveEnable, ReceiveDisable, Detach, StartEnable,
         RefuseEnable, RaiseFlag, LowerFlag, StartDisable, Close
<1> QED BY <1>1, <1>2, <1>3, <1>4, <1>5, <1>6, <1>7

\* A standing claim is never starved of the page-wide switch: whoever turns it
\* off has seen no claim left, in the same critical section.
THEOREM ClaimsKeepInterceptionOn == Spec => []ClaimsKeepItOn
<1>1. Init => ClaimsKeepItOn
  BY DEF Init, DefaultConfig, ClaimsKeepItOn
<1>2. Typed /\ ClaimsKeepItOn /\ [Next]_vars => ClaimsKeepItOn'
  <2> SUFFICES ASSUME Typed, ClaimsKeepItOn, [Next]_vars PROVE ClaimsKeepItOn'
    OBVIOUS
  <2> USE DEF ClaimsKeepItOn, InterceptConfigs
  <2>0. config \in InterceptConfigs
    BY DEF Typed, TypeOK
  <2>1. CASE ConfigUntouched
    BY <2>1 DEF ConfigUntouched
  <2>2. CASE \E seq \in 0 .. MaxSeq, s \in Sessions : config' = Enable(config, seq, s, Requests, FALSE)
    BY <2>0, <2>2 DEF Enable
  <2>3. CASE \E seq \in 0 .. MaxSeq, s \in Sessions \union {NoSession} : config' = Disable(config, seq, s)
    BY <2>0, <2>3 DEF Disable, ClaimsWithout
  <2>4. CASE \E s \in Sessions : config' = DropClaims(config, {s})
    BY <2>0, <2>4 DEF DropClaims
  <2> QED BY <2>1, <2>2, <2>3, <2>4, ConfigMoves
<1> QED BY <1>1, <1>2, TypedInit, TypedStep, PTL DEF Spec

\* No command, stale or not, moves the configuration back to an older stamp.
THEOREM StampNeverGoesBack == Spec => NeverRolledBack
<1>1. Typed /\ [Next]_vars => config'.configSeq >= config.configSeq
  <2> SUFFICES ASSUME Typed, [Next]_vars PROVE config'.configSeq >= config.configSeq
    OBVIOUS
  <2> USE MaxSeqAssumption DEF InterceptConfigs, Forever
  <2>0. config \in InterceptConfigs
    BY DEF Typed, TypeOK
  <2>1. CASE ConfigUntouched
    BY <2>0, <2>1 DEF ConfigUntouched
  <2>2. CASE \E seq \in 0 .. MaxSeq, s \in Sessions : config' = Enable(config, seq, s, Requests, FALSE)
    BY <2>0, <2>2 DEF Enable
  <2>3. CASE \E seq \in 0 .. MaxSeq, s \in Sessions \union {NoSession} : config' = Disable(config, seq, s)
    BY <2>0, <2>3 DEF Disable
  <2>4. CASE \E s \in Sessions : config' = DropClaims(config, {s})
    BY <2>0, <2>4 DEF DropClaims
  <2> QED BY <2>1, <2>2, <2>3, <2>4, ConfigMoves
<1> QED BY <1>1, TypedInit, TypedStep, PTL DEF Spec, NeverRolledBack

\* Whoever lets go while another session still claims releases none of the
\* requests that session may be answering.
THEOREM OthersPausesKept == Spec => OthersKeepTheirPauses
<1>1. Typed /\ [Next]_vars
        => (config'.wantedBy # {} /\ config'.wantedBy # config.wantedBy
              => config'.paused = config.paused)
  <2> SUFFICES ASSUME Typed, [Next]_vars, config'.wantedBy # {}, config'.wantedBy # config.wantedBy
               PROVE  config'.paused = config.paused
    OBVIOUS
  <2> USE DEF InterceptConfigs
  <2>0. config \in InterceptConfigs
    BY DEF Typed, TypeOK
  <2>1. CASE ConfigUntouched
    BY <2>1 DEF ConfigUntouched
  <2>2. CASE \E seq \in 0 .. MaxSeq, s \in Sessions : config' = Enable(config, seq, s, Requests, FALSE)
    BY <2>0, <2>2 DEF Enable
  <2>3. CASE \E seq \in 0 .. MaxSeq, s \in Sessions \union {NoSession} : config' = Disable(config, seq, s)
    BY <2>0, <2>3 DEF Disable, ClaimsWithout
  <2>4. CASE \E s \in Sessions : config' = DropClaims(config, {s})
    BY <2>0, <2>4 DEF DropClaims
  <2> QED BY <2>1, <2>2, <2>3, <2>4, ConfigMoves
<1> QED BY <1>1, TypedInit, TypedStep, PTL DEF Spec, OthersKeepTheirPauses

-----------------------------------------------------------------------------
(***************************************************************************)
(* The last word of a lone driver.                                         *)
(*                                                                         *)
(* Its enables and its disables run on two lanes, in any order, but a      *)
(* command that stands is due still or older than the stamp on the         *)
(* configuration, and the switch is as the command with that stamp left it *)
(* (Heeded).  A refused enable drops out: each stamp is in line once       *)
(* (Once), so it is not the one on the configuration.  That nobody else's  *)
(* claim, command or release is in the way (Alone) is because sessions     *)
(* that have left do not come back, and those that have not spoken have    *)
(* nothing queued.                                                         *)
(***************************************************************************)
\* Stamps of commands that are queued or running.
EnableDue(s, m) ==
  \/ \E i \in 1 .. Len(lane[s]) : lane[s][i] = m
  \/ enabling[s].step # "idle" /\ enabling[s].seq = m

DisableDue(m) == \E c \in Connections : \E i \in 1 .. Len(priority[c]) : priority[c][i].seq = m

\* A release is under way only for those who have left.
LeaversRelease == \A s \in Sessions : Live(s) => releasing[s] = "none"

\* Nobody but s has anything queued, running or claimed.
Alone(s) ==
  /\ \A q \in Sessions \ {s} : lane[q] = <<>> /\ enabling[q].step = "idle"
  /\ \A c \in Connections : \A i \in 1 .. Len(priority[c]) : priority[c][i].session = s
  /\ config.wantedBy \subseteq {s}

\* Everything due and everything applied has been stamped.
Stamped(s) ==
  /\ \A m \in 0 .. MaxSeq : EnableDue(s, m) \/ DisableDue(m) => m < nextSeq
  /\ config.configSeq = 0 \/ config.configSeq < nextSeq

\* No enable is queued twice, or queued and running.
Once(s) ==
  /\ \A i, j \in 1 .. Len(lane[s]) : i # j => lane[s][i] # lane[s][j]
  /\ enabling[s].step # "idle" => \A i \in 1 .. Len(lane[s]) : lane[s][i] # enabling[s].seq

\* What is due is as it was received; what stands and is not due is not newer
\* than the stamp on the configuration; and the switch is as the command with
\* that stamp left it, if there has been one.
Heeded(s) ==
  /\ \A m \in 0 .. MaxSeq : EnableDue(s, m) => word[s][m] = "enable"
  /\ \A m \in 0 .. MaxSeq : DisableDue(m) => word[s][m] = "disable"
  /\ \A m \in 0 .. MaxSeq : m >= nextSeq => word[s][m] = "none"
  /\ \A m \in Standing(s) : m <= config.configSeq \/ EnableDue(s, m) \/ DisableDue(m)
  /\ config.enabled => word[s][config.configSeq] = "enable" /\ ~EnableDue(s, config.configSeq)
  /\ ~config.enabled =>
       \/ word[s][config.configSeq] = "disable"
       \/ config.configSeq = 0 /\ (EnableDue(s, 0) \/ word[s][0] \in {"none", "refused"})

LastWord == \A s \in Sessions : LoneDriver(s) => Alone(s) /\ Stamped(s) /\ Once(s) /\ Heeded(s)

LEMMA LiveBefore ==
  ASSUME [Next]_vars, NEW q \in Sessions, Live(q)'
  PROVE  Live(q)
<1>1. sessions' \subseteq sessions /\ closed \subseteq closed'
  BY DEF Next, vars, LaneNext, ReleaseNext, PageNext, ReceiveEnable, ReceiveDisable, Detach, EmulateOffline,
         StartEnable, RefuseEnable, RaiseFlag, ApplyEnable, LowerFlag, DropClaim, DisableForGood, StartDisable, ApplyDisable,
         Close, Resolve, CheckRequest, AnnouncePause, ApplyDecision, GiveUp, LetGo
<1> QED BY <1>1 DEF Live

LEMMA LeaversKept ==
  ASSUME Typed, LeaversRelease, [Next]_vars
  PROVE  LeaversRelease'
<1> SUFFICES ASSUME NEW q \in Sessions, Live(q)' PROVE releasing'[q] = "none"
  BY DEF LeaversRelease
<1>1. releasing[q] = "none" /\ Live(q) /\ releasing \in [Sessions -> Release]
  BY LiveBefore DEF LeaversRelease, Typed, TypeOK
<1>2. CASE UNCHANGED releasing
  BY <1>1, <1>2
<1>3. CASE \E s \in Sessions : Detach(s)
  BY <1>1, <1>3 DEF Detach, Live
<1>4. CASE \E s \in Sessions : ReleaseNext(s)
  BY <1>1, <1>4 DEF ReleaseNext, LowerFlag, DropClaim, DisableForGood
<1>5. CASE \E c \in Connections : Close(c)
  BY <1>1, <1>5 DEF Close, Live
<1>6. \/ UNCHANGED releasing
      \/ \E s \in Sessions : Detach(s) \/ ReleaseNext(s)
      \/ \E c \in Connections : Close(c)
  BY DEF Next, vars, LaneNext, PageNext, ReceiveEnable, ReceiveDisable, EmulateOffline,
         StartEnable, RefuseEnable, RaiseFlag, ApplyEnable, StartDisable, ApplyDisable,
         Resolve, CheckRequest, AnnouncePause, ApplyDecision, GiveUp, LetGo
<1> QED BY <1>2, <1>3, <1>4, <1>5, <1>6

\* A driver that is alone has been alone all along, and hears only itself.
LEMMA LoneBefore ==
  ASSUME Typed, [Next]_vars, NEW s \in Sessions, LoneDriver(s)'
  PROVE  LoneDriver(s) /\ \A q \in Sessions : Live(q) /\ Live(q)'
<1>1. \A q \in Sessions : Live(q) /\ Live(q)'
  BY LiveBefore DEF LoneDriver
<1>2. word \in [Sessions -> [0 .. MaxSeq -> Words]]
  BY DEF Typed, TypeOK
<1>3. \/ UNCHANGED word
      \/ \E q \in Sessions : \E n, w : w # "none" /\ word' = [word EXCEPT ![q][n] = w]
  BY DEF Next, vars, LaneNext, ReleaseNext, PageNext, ReceiveEnable, ReceiveDisable, Detach, EmulateOffline,
         StartEnable, RefuseEnable, RaiseFlag, ApplyEnable, LowerFlag, DropClaim, DisableForGood, StartDisable, ApplyDisable,
         Close, Resolve, CheckRequest, AnnouncePause, ApplyDecision, GiveUp, LetGo
<1>4. \A q \in Sessions \ {s} : \A m \in 0 .. MaxSeq : word'[q][m] = "none"
  BY DEF LoneDriver
<1>5. ASSUME NEW q \in Sessions \ {s}, NEW m \in 0 .. MaxSeq
      PROVE  word[q][m] = "none"
  <2>1. CASE UNCHANGED word
    BY <1>4, <2>1
  <2>2. ASSUME NEW p \in Sessions, NEW n, NEW w, w # "none", word' = [word EXCEPT ![p][n] = w]
        PROVE  word[q][m] = "none"
    <3>1. word'[q] = IF q = p THEN [word[q] EXCEPT ![n] = w] ELSE word[q]
      BY <1>2, <2>2
    <3>2. word[q] \in [0 .. MaxSeq -> Words] /\ word'[q][m] = "none"
      BY <1>2, <1>4
    <3> QED BY <2>2, <3>1, <3>2
  <2> QED BY <1>3, <2>1, <2>2
<1> QED BY <1>1, <1>5 DEF LoneDriver

-----------------------------------------------------------------------------
\* What the operations on the two kinds of lane do to the stamps that are due.
LEMMA EnableReceived ==
  ASSUME Typed, NEW s \in Sessions, ReceiveEnable(s)
  PROVE  /\ \A m : EnableDue(s, m)' <=> EnableDue(s, m) \/ m = nextSeq
         /\ \A m : DisableDue(m)' <=> DisableDue(m)
<1>1. lane[s] \in Seq(0 .. MaxSeq) /\ lane'[s] = Append(lane[s], nextSeq) /\ UNCHANGED <<enabling, priority>>
  BY DEF ReceiveEnable, Typed, TypeOK
<1>2. /\ Len(lane[s]) \in Nat /\ Len(lane'[s]) = Len(lane[s]) + 1
      /\ \A i \in 1 .. Len(lane[s]) : lane'[s][i] = lane[s][i]
      /\ lane'[s][Len(lane[s]) + 1] = nextSeq
  BY <1>1
<1>3. \A i \in 1 .. Len(lane'[s]) : i \in 1 .. Len(lane[s]) \/ i = Len(lane[s]) + 1
  BY <1>2
<1>4. 1 .. Len(lane[s]) \subseteq 1 .. Len(lane'[s]) /\ Len(lane[s]) + 1 \in 1 .. Len(lane'[s])
  BY <1>2
<1>5. \A m : (\E i \in 1 .. Len(lane'[s]) : lane'[s][i] = m) <=> (\E i \in 1 .. Len(lane[s]) : lane[s][i] = m) \/ m = nextSeq
  BY <1>2, <1>3, <1>4
<1> QED BY <1>1, <1>5 DEF EnableDue, DisableDue

LEMMA DisableReceived ==
  ASSUME Typed, NEW s \in Sessions, ReceiveDisable(s)
  PROVE  /\ \A m : DisableDue(m)' <=> DisableDue(m) \/ m = nextSeq
         /\ \A q, m : EnableDue(q, m)' <=> EnableDue(q, m)
         /\ (\A c \in Connections : \A i \in 1 .. Len(priority[c]) : priority[c][i].session = s)
              => (\A c \in Connections : \A i \in 1 .. Len(priority[c]) : priority[c][i].session = s)'
<1> DEFINE d == ConnectionOf[s]
           job == [seq |-> nextSeq, session |-> s]
<1>1. /\ d \in Connections /\ priority[d] \in Seq(Jobs) /\ priority \in [Connections -> Seq(Jobs)]
      /\ priority' = [priority EXCEPT ![d] = Append(priority[d], job)]
      /\ UNCHANGED <<lane, enabling>>
  BY ConnectionOfAssumption DEF ReceiveDisable, Typed, TypeOK, Jobs
<1>2. job.seq = nextSeq /\ job.session = s
  OBVIOUS
<1> HIDE DEF d, job
<1>3. /\ Len(priority[d]) \in Nat /\ Len(priority'[d]) = Len(priority[d]) + 1
      /\ \A i \in 1 .. Len(priority[d]) : priority'[d][i] = priority[d][i]
      /\ priority'[d][Len(priority[d]) + 1] = job
  BY <1>1
<1>4. \A i \in 1 .. Len(priority'[d]) : i \in 1 .. Len(priority[d]) \/ i = Len(priority[d]) + 1
  BY <1>3
<1>5. 1 .. Len(priority[d]) \subseteq 1 .. Len(priority'[d]) /\ Len(priority[d]) + 1 \in 1 .. Len(priority'[d])
  BY <1>3
<1>6. \A c \in Connections \ {d} : priority'[c] = priority[c]
  BY <1>1
<1>7. \A m : DisableDue(m)' => DisableDue(m) \/ m = nextSeq
  BY <1>2, <1>3, <1>4, <1>6 DEF DisableDue
<1>8. \A m : DisableDue(m) \/ m = nextSeq => DisableDue(m)'
  BY <1>1, <1>2, <1>3, <1>5, <1>6 DEF DisableDue
<1>9. (\A c \in Connections : \A i \in 1 .. Len(priority[c]) : priority[c][i].session = s)
        => (\A c \in Connections : \A i \in 1 .. Len(priority[c]) : priority[c][i].session = s)'
  BY <1>2, <1>3, <1>4, <1>6
<1> QED BY <1>1, <1>7, <1>8, <1>9 DEF EnableDue

LEMMA EnableTaken ==
  ASSUME Typed, NEW s \in Sessions, StartEnable(s), Live(s)
  PROVE  /\ \A m : EnableDue(s, m)' <=> EnableDue(s, m)
         /\ \A m : DisableDue(m)' <=> DisableDue(m)
<1>1. /\ lane[s] \in Seq(0 .. MaxSeq) /\ lane[s] # <<>> /\ lane'[s] = Tail(lane[s])
      /\ enabling[s].step = "idle" /\ enabling'[s] = [step |-> "checked", seq |-> Head(lane[s])]
      /\ UNCHANGED priority
  BY DEF StartEnable, Typed, TypeOK
<1>2. /\ Len(lane[s]) \in Nat \ {0} /\ Len(lane'[s]) = Len(lane[s]) - 1
      /\ Head(lane[s]) = lane[s][1]
      /\ \A i \in 1 .. Len(lane'[s]) : lane'[s][i] = lane[s][i + 1]
  BY <1>1
<1>3. \A i \in 1 .. Len(lane[s]) : i = 1 \/ (i - 1 \in 1 .. Len(lane'[s]) /\ lane'[s][i - 1] = lane[s][i])
  BY <1>2
<1>4. \A i \in 1 .. Len(lane'[s]) : i + 1 \in 1 .. Len(lane[s])
  BY <1>2
<1>5. 1 \in 1 .. Len(lane[s])
  BY <1>2
<1>6. \A m : (\E i \in 1 .. Len(lane[s]) : lane[s][i] = m) <=> (\E i \in 1 .. Len(lane'[s]) : lane'[s][i] = m) \/ m = lane[s][1]
  BY <1>2, <1>3, <1>4, <1>5
<1>7. enabling'[s].step = "checked" /\ enabling'[s].seq = lane[s][1]
  BY <1>1, <1>2
<1> QED BY <1>1, <1>6, <1>7 DEF EnableDue, DisableDue

LEMMA DisableTaken ==
  ASSUME Typed, NEW c \in Connections, ApplyDisable(c)
  PROVE  /\ priority[c] # <<>> /\ Head(priority[c]) \in Jobs
         /\ DisableDue(Head(priority[c]).seq)
         /\ \A m : DisableDue(m)' => DisableDue(m)
         /\ \A m : DisableDue(m) => DisableDue(m)' \/ m = Head(priority[c]).seq
         /\ \A q, m : EnableDue(q, m)' <=> EnableDue(q, m)
         /\ \A s : (\A d \in Connections : \A i \in 1 .. Len(priority[d]) : priority[d][i].session = s)
                     => /\ Head(priority[c]).session = s
                        /\ (\A d \in Connections : \A i \in 1 .. Len(priority[d]) : priority[d][i].session = s)'
<1>1. /\ priority[c] \in Seq(Jobs) /\ priority[c] # <<>> /\ priority \in [Connections -> Seq(Jobs)]
      /\ priority' = [priority EXCEPT ![c] = Tail(priority[c])]
      /\ UNCHANGED <<lane, enabling>>
  BY DEF ApplyDisable, Typed, TypeOK, DisablingHasJob, Jobs
<1>2. /\ Len(priority[c]) \in Nat \ {0} /\ Len(priority'[c]) = Len(priority[c]) - 1
      /\ Head(priority[c]) = priority[c][1] /\ Head(priority[c]) \in Jobs
      /\ \A i \in 1 .. Len(priority'[c]) : priority'[c][i] = priority[c][i + 1]
  BY <1>1, HeadTailProperties
<1>3. \A i \in 1 .. Len(priority[c]) : i = 1 \/ (i - 1 \in 1 .. Len(priority'[c]) /\ priority'[c][i - 1] = priority[c][i])
  <2> SUFFICES ASSUME NEW i \in 1 .. Len(priority[c]), i # 1
               PROVE  i - 1 \in 1 .. Len(priority'[c]) /\ priority'[c][i - 1] = priority[c][i]
    OBVIOUS
  <2>1. i - 1 \in 1 .. Len(priority'[c]) /\ (i - 1) + 1 = i
    BY <1>2
  <2> QED BY <1>2, <2>1
<1>4. (\A i \in 1 .. Len(priority'[c]) : i + 1 \in 1 .. Len(priority[c])) /\ 1 \in 1 .. Len(priority[c])
  BY <1>2
<1>5. \A d \in Connections \ {c} : priority'[d] = priority[d]
  BY <1>1
<1>6. DisableDue(Head(priority[c]).seq)
  BY <1>2, <1>4 DEF DisableDue
<1>7. \A m : DisableDue(m)' => DisableDue(m)
  BY <1>2, <1>4, <1>5 DEF DisableDue
<1>8. \A m : DisableDue(m) => DisableDue(m)' \/ m = Head(priority[c]).seq
  BY <1>2, <1>3, <1>5 DEF DisableDue
<1>9. ASSUME NEW s, \A d \in Connections : \A i \in 1 .. Len(priority[d]) : priority[d][i].session = s
      PROVE  /\ Head(priority[c]).session = s
             /\ (\A d \in Connections : \A i \in 1 .. Len(priority[d]) : priority[d][i].session = s)'
  <2>1. Head(priority[c]).session = s
    BY <1>2, <1>4, <1>9
  <2>2. ASSUME NEW d \in Connections, NEW i \in 1 .. Len(priority'[d])
        PROVE  priority'[d][i].session = s
    <3>1. CASE d = c
      <4>1. priority'[c][i] = priority[c][i + 1] /\ i + 1 \in 1 .. Len(priority[c])
        BY <1>2, <1>4, <2>2, <3>1
      <4> QED BY <1>9, <3>1, <4>1
    <3>2. CASE d # c
      BY <1>5, <1>9, <2>2, <3>2
    <3> QED BY <3>1, <3>2
  <2> QED BY <2>1, <2>2
<1> QED BY <1>1, <1>2, <1>6, <1>7, <1>8, <1>9 DEF EnableDue

-----------------------------------------------------------------------------
\* Types of what the arithmetic below is about.
LEMMA StampTypes ==
  ASSUME Typed
  PROVE  /\ nextSeq \in Nat /\ nextSeq <= MaxSeq /\ MaxSeq \in Nat /\ config.configSeq \in 0 .. MaxSeq
         /\ config.enabled \in BOOLEAN /\ word \in [Sessions -> [0 .. MaxSeq -> Words]]
         /\ config.wantedBy \subseteq Sessions
  BY MaxSeqAssumption DEF Typed, TypeOK, InterceptConfigs, Forever

\* A step that leaves the stamps that are due and what has been applied alone.
LEMMA HeedKept ==
  ASSUME Typed, NEW s \in Sessions, Stamped(s), Heeded(s), UNCHANGED <<nextSeq, word>>, ConfigUntouched,
         \A m : EnableDue(s, m)' <=> EnableDue(s, m), \A m : DisableDue(m)' <=> DisableDue(m)
  PROVE  Stamped(s)' /\ Heeded(s)'
<1>1. Stamped(s)'
  BY DEF Stamped, ConfigUntouched
<1>2. Standing(s)' = Standing(s)
  BY DEF Standing
<1>3. Heeded(s)'
  BY <1>2 DEF Heeded, ConfigUntouched
<1> QED BY <1>1, <1>3

LEMMA AloneKept ==
  ASSUME NEW s \in Sessions, Alone(s), UNCHANGED <<lane, enabling, priority>>, ConfigUntouched
  PROVE  Alone(s)'
  BY DEF Alone, ConfigUntouched

LEMMA OnceKept ==
  ASSUME NEW s \in Sessions, Once(s), lane'[s] = lane[s],
         \/ enabling'[s].step = "idle"
         \/ enabling[s].step # "idle" /\ enabling'[s].seq = enabling[s].seq
         \/ enabling'[s] = enabling[s]
  PROVE  Once(s)'
  BY DEF Once

\* An applied command - the enable or disable stamped n, due until now - either
\* is older than the configuration's stamp or puts its own there.
LEMMA HeedApplied ==
  ASSUME Typed, NEW s \in Sessions, Stamped(s), Heeded(s), UNCHANGED <<nextSeq, word>>,
         NEW n \in 0 .. MaxSeq, NEW on \in BOOLEAN,
         IF on THEN EnableDue(s, n) /\ ~EnableDue(s, n)' ELSE DisableDue(n),
         \A m : EnableDue(s, m)' => EnableDue(s, m), \A m : DisableDue(m)' => DisableDue(m),
         \A m : EnableDue(s, m) => EnableDue(s, m)' \/ (on /\ m = n),
         \A m : DisableDue(m) => DisableDue(m)' \/ (~on /\ m = n),
         IF n < config.configSeq
           THEN config'.configSeq = config.configSeq /\ config'.enabled = config.enabled
           ELSE config'.configSeq = n /\ config'.enabled = on
  PROVE  Stamped(s)' /\ Heeded(s)'
<1>0. Standing(s)' = Standing(s) /\ Standing(s) \subseteq 0 .. MaxSeq
  BY DEF Standing
<1>1. n < nextSeq /\ word[s][n] = IF on THEN "enable" ELSE "disable"
  BY DEF Stamped, Heeded
<1>2. Stamped(s)'
  BY <1>1 DEF Stamped
<1>3. CASE n < config.configSeq
  <2>1. \A m \in Standing(s) : m <= config.configSeq \/ EnableDue(s, m)' \/ DisableDue(m)'
    BY <1>0, <1>3, StampTypes DEF Heeded
  <2>2. config.configSeq # 0
    BY <1>3, StampTypes
  <2> QED BY <1>0, <1>2, <1>3, <2>1, <2>2 DEF Heeded
<1>4. CASE ~(n < config.configSeq)
  <2>1. \A m \in Standing(s) : m <= n \/ EnableDue(s, m)' \/ DisableDue(m)'
    BY <1>0, <1>4, StampTypes DEF Heeded
  <2>2. CASE on
    BY <1>0, <1>1, <1>2, <1>4, <2>1, <2>2 DEF Heeded
  <2>3. CASE ~on
    BY <1>0, <1>1, <1>2, <1>4, <2>1, <2>3 DEF Heeded
  <2> QED BY <2>2, <2>3
<1> QED BY <1>3, <1>4

\* A command just received, with the stamp nothing carries yet.
LEMMA HeedReceived ==
  ASSUME Typed, NEW s \in Sessions, Stamped(s), Heeded(s), nextSeq < MaxSeq, nextSeq' = nextSeq + 1,
         NEW on \in BOOLEAN, word' = [word EXCEPT ![s][nextSeq] = IF on THEN "enable" ELSE "disable"],
         \A m : EnableDue(s, m)' <=> EnableDue(s, m) \/ (on /\ m = nextSeq),
         \A m : DisableDue(m)' <=> DisableDue(m) \/ (~on /\ m = nextSeq),
         config' = config
  PROVE  Stamped(s)' /\ Heeded(s)'
<1>1. /\ nextSeq \in 0 .. MaxSeq /\ \A m \in 0 .. MaxSeq : m # nextSeq => word'[s][m] = word[s][m]
      /\ word'[s][nextSeq] = IF on THEN "enable" ELSE "disable"
  BY StampTypes
<1>2. ~EnableDue(s, nextSeq) /\ ~DisableDue(nextSeq) /\ word[s][nextSeq] = "none"
  BY <1>1, StampTypes DEF Stamped, Heeded
<1>3. Stamped(s)'
  BY <1>1, StampTypes DEF Stamped
<1>4. /\ \A m \in 0 .. MaxSeq : EnableDue(s, m)' => word'[s][m] = "enable"
      /\ \A m \in 0 .. MaxSeq : DisableDue(m)' => word'[s][m] = "disable"
  BY <1>1, <1>2 DEF Heeded
<1>5. \A m \in 0 .. MaxSeq : m >= nextSeq + 1 => word'[s][m] = "none"
  BY <1>1, StampTypes DEF Heeded
<1>6. \A m \in Standing(s)' : m <= config.configSeq \/ EnableDue(s, m)' \/ DisableDue(m)'
  BY <1>1 DEF Heeded, Standing
<1>7. config.enabled => word'[s][config.configSeq] = "enable" /\ ~EnableDue(s, config.configSeq)'
  BY <1>1, <1>2, StampTypes DEF Heeded
<1>8. ~config.enabled =>
        \/ word'[s][config.configSeq] = "disable"
        \/ config.configSeq = 0 /\ (EnableDue(s, 0)' \/ word'[s][0] \in {"none", "refused"})
  <2>1. CASE config.configSeq # nextSeq
    BY <1>1, <2>1, StampTypes DEF Heeded
  <2>2. CASE config.configSeq = nextSeq
    <3>1. config.configSeq = 0
      BY <2>2, StampTypes DEF Stamped
    <3> QED BY <1>1, <2>2, <3>1
  <2> QED BY <2>1, <2>2
<1> QED BY <1>3, <1>4, <1>5, <1>6, <1>7, <1>8 DEF Heeded

\* A refused enable is due no more, and is not the one on the configuration.
LEMMA HeedRefused ==
  ASSUME Typed, NEW s \in Sessions, Stamped(s), Heeded(s), nextSeq' = nextSeq, config' = config,
         NEW n \in 0 .. MaxSeq, EnableDue(s, n), ~EnableDue(s, n)',
         word' = [word EXCEPT ![s][n] = "refused"],
         \A m : m # n => (EnableDue(s, m)' <=> EnableDue(s, m)), \A m : DisableDue(m)' <=> DisableDue(m)
  PROVE  Stamped(s)' /\ Heeded(s)'
<1>1. /\ \A m \in 0 .. MaxSeq : m # n => word'[s][m] = word[s][m]
      /\ word'[s][n] = "refused" /\ word[s][n] = "enable" /\ n < nextSeq
  BY StampTypes DEF Heeded, Stamped
<1>2. Stamped(s)'
  BY DEF Stamped
<1>3. /\ \A m \in 0 .. MaxSeq : EnableDue(s, m)' => word'[s][m] = "enable"
      /\ \A m \in 0 .. MaxSeq : DisableDue(m)' => word'[s][m] = "disable"
      /\ \A m \in 0 .. MaxSeq : m >= nextSeq => word'[s][m] = "none"
  BY <1>1, StampTypes DEF Heeded
<1>4. \A m \in Standing(s)' : m \in Standing(s) /\ m # n
  BY <1>1 DEF Standing
<1>5. \A m \in Standing(s)' : m <= config.configSeq \/ EnableDue(s, m)' \/ DisableDue(m)'
  BY <1>4 DEF Heeded
<1>6. config.enabled => word'[s][config.configSeq] = "enable" /\ ~EnableDue(s, config.configSeq)'
  BY <1>1, StampTypes DEF Heeded
<1>7. ~config.enabled =>
        \/ word'[s][config.configSeq] = "disable"
        \/ config.configSeq = 0 /\ (EnableDue(s, 0)' \/ word'[s][0] \in {"none", "refused"})
  BY <1>1, StampTypes DEF Heeded
<1> QED BY <1>2, <1>3, <1>5, <1>6, <1>7 DEF Heeded

LEMMA LastWordKept ==
  ASSUME Typed, LeaversRelease, LastWord, [Next]_vars
  PROVE  LastWord'
<1> SUFFICES ASSUME NEW s \in Sessions, LoneDriver(s)'
             PROVE  Alone(s)' /\ Stamped(s)' /\ Once(s)' /\ Heeded(s)'
  BY DEF LastWord
<1>1. /\ LoneDriver(s) /\ Alone(s) /\ Stamped(s) /\ Once(s) /\ Heeded(s)
      /\ \A q \in Sessions : Live(q) /\ Live(q)' /\ releasing[q] = "none"
  BY LoneBefore DEF LastWord, LeaversRelease
<1>2. config \in InterceptConfigs /\ Typed'
  BY TypedStep DEF Typed, TypeOK
<1>3. ASSUME UNCHANGED <<nextSeq, word, lane, enabling, priority>>, ConfigUntouched
      PROVE  Alone(s)' /\ Stamped(s)' /\ Once(s)' /\ Heeded(s)'
  <2>1. (\A m : EnableDue(s, m)' <=> EnableDue(s, m)) /\ \A m : DisableDue(m)' <=> DisableDue(m)
    BY <1>3 DEF EnableDue, DisableDue
  <2> QED BY <1>1, <1>3, <2>1, HeedKept, AloneKept, OnceKept
<1>4. CASE \E q \in Sessions : ReceiveEnable(q)
  <2>1. ReceiveEnable(s)
    <3>1. PICK q \in Sessions : ReceiveEnable(q)
      BY <1>4
    <3>2. word'[q][nextSeq] = "enable" /\ nextSeq \in 0 .. MaxSeq
      BY <3>1, StampTypes DEF ReceiveEnable
    <3> QED BY <3>1, <3>2 DEF LoneDriver
  <2>2. /\ \A m : EnableDue(s, m)' <=> EnableDue(s, m) \/ m = nextSeq
        /\ \A m : DisableDue(m)' <=> DisableDue(m)
    BY <2>1, EnableReceived
  <2>3. /\ nextSeq < MaxSeq /\ nextSeq' = nextSeq + 1 /\ UNCHANGED <<config, priority, enabling>>
        /\ word' = [word EXCEPT ![s][nextSeq] = "enable"]
    BY <2>1, StampTypes DEF ReceiveEnable, MayReceive
  <2>4. Alone(s)'
    BY <1>1, <2>1, <2>3 DEF Alone, ReceiveEnable, Typed, TypeOK
  <2>5. Stamped(s)' /\ Heeded(s)'
    BY <1>1, <2>2, <2>3, HeedReceived
  <2>6. Once(s)'
    <3>1. lane[s] \in Seq(0 .. MaxSeq) /\ lane'[s] = Append(lane[s], nextSeq)
      BY <2>1 DEF ReceiveEnable, Typed, TypeOK
    <3>2. /\ Len(lane[s]) \in Nat /\ Len(lane'[s]) = Len(lane[s]) + 1
          /\ \A i \in 1 .. Len(lane[s]) : lane'[s][i] = lane[s][i]
          /\ lane'[s][Len(lane[s]) + 1] = nextSeq
      BY <3>1
    <3>3. \A i \in 1 .. Len(lane'[s]) : i \in 1 .. Len(lane[s]) \/ i = Len(lane[s]) + 1
      BY <3>2
    <3>4. ~EnableDue(s, nextSeq)
      BY <1>1, StampTypes DEF Stamped
    <3>5. /\ \A i \in 1 .. Len(lane[s]) : lane[s][i] # nextSeq
          /\ enabling[s].step # "idle" => enabling[s].seq # nextSeq
      BY <3>4 DEF EnableDue
    <3> QED BY <1>1, <2>3, <3>2, <3>3, <3>5 DEF Once
  <2> QED BY <2>4, <2>5, <2>6
<1>5. CASE \E q \in Sessions : ReceiveDisable(q)
  <2>1. ReceiveDisable(s)
    <3>1. PICK q \in Sessions : ReceiveDisable(q)
      BY <1>5
    <3>2. word'[q][nextSeq] = "disable" /\ nextSeq \in 0 .. MaxSeq
      BY <3>1, StampTypes DEF ReceiveDisable
    <3> QED BY <3>1, <3>2 DEF LoneDriver
  <2>2. /\ \A m : DisableDue(m)' <=> DisableDue(m) \/ m = nextSeq
        /\ \A m : EnableDue(s, m)' <=> EnableDue(s, m)
        /\ (\A c \in Connections : \A i \in 1 .. Len(priority[c]) : priority[c][i].session = s)
             => (\A c \in Connections : \A i \in 1 .. Len(priority[c]) : priority[c][i].session = s)'
    BY <2>1, DisableReceived
  <2>3. /\ nextSeq < MaxSeq /\ nextSeq' = nextSeq + 1 /\ UNCHANGED <<config, lane, enabling>>
        /\ word' = [word EXCEPT ![s][nextSeq] = "disable"]
    BY <2>1, StampTypes DEF ReceiveDisable, MayReceive
  <2>4. Alone(s)' /\ Once(s)'
    BY <1>1, <2>2, <2>3, OnceKept DEF Alone
  <2>5. Stamped(s)' /\ Heeded(s)'
    BY <1>1, <2>2, <2>3, HeedReceived
  <2> QED BY <2>4, <2>5
<1>6. CASE \E q \in Sessions : StartEnable(q)
  <2>1. StartEnable(s)
    BY <1>1, <1>6 DEF StartEnable, Alone
  <2>2. (\A m : EnableDue(s, m)' <=> EnableDue(s, m)) /\ \A m : DisableDue(m)' <=> DisableDue(m)
    BY <1>1, <2>1, EnableTaken
  <2>3. UNCHANGED <<config, nextSeq, word, priority>>
    BY <2>1 DEF StartEnable
  <2>4. Alone(s)'
    BY <1>1, <2>1, <2>3 DEF Alone, StartEnable, Typed, TypeOK
  <2>5. Once(s)'
    <3>1. /\ lane[s] \in Seq(0 .. MaxSeq) /\ lane[s] # <<>> /\ lane'[s] = Tail(lane[s])
          /\ enabling'[s].seq = Head(lane[s])
      BY <1>1, <2>1 DEF StartEnable, Typed, TypeOK
    <3>2. /\ Len(lane[s]) \in Nat \ {0} /\ Len(lane'[s]) = Len(lane[s]) - 1
          /\ enabling'[s].seq = lane[s][1] /\ 1 \in 1 .. Len(lane[s])
          /\ \A i \in 1 .. Len(lane'[s]) : lane'[s][i] = lane[s][i + 1]
      BY <3>1
    <3>3. \A i \in 1 .. Len(lane'[s]) : i + 1 \in 1 .. Len(lane[s]) /\ i + 1 # 1
      BY <3>2
    <3>4. \A i, j \in 1 .. Len(lane'[s]) : i # j => i + 1 # j + 1
      BY <3>2
    <3>5. \A i, j \in 1 .. Len(lane[s]) : i # j => lane[s][i] # lane[s][j]
      BY <1>1 DEF Once
    <3>6. ASSUME NEW i \in 1 .. Len(lane'[s]), NEW j \in 1 .. Len(lane'[s]), i # j
          PROVE  lane'[s][i] # lane'[s][j]
      <4>1. lane'[s][i] = lane[s][i + 1] /\ lane'[s][j] = lane[s][j + 1]
        BY <3>2
      <4>2. i + 1 \in 1 .. Len(lane[s]) /\ j + 1 \in 1 .. Len(lane[s]) /\ i + 1 # j + 1
        BY <3>3, <3>4, <3>6
      <4> QED BY <4>1, <4>2, <3>5
    <3>7. \A i \in 1 .. Len(lane'[s]) : lane'[s][i] # enabling'[s].seq
      BY <3>2, <3>3, <3>5
    <3> QED BY <3>6, <3>7 DEF Once
  <2> QED BY <1>1, <2>2, <2>3, <2>4, <2>5, HeedKept DEF ConfigUntouched
<1>7. CASE \E q \in Sessions : RaiseFlag(q)
  <2>1. PICK q \in Sessions : RaiseFlag(q)
    BY <1>7
  <2>2. q = s /\ enabling[s].step = "checked" /\ UNCHANGED <<config, nextSeq, word, priority, lane>>
    BY <1>1, <2>1 DEF RaiseFlag, Alone
  <2>3. /\ enabling'[s].step = "flagged" /\ enabling'[s].seq = enabling[s].seq
        /\ \A x \in Sessions \ {s} : enabling'[x] = enabling[x]
    BY <2>1, <2>2 DEF RaiseFlag, Typed, TypeOK
  <2>4. Alone(s)' /\ Once(s)'
    BY <1>1, <2>2, <2>3, OnceKept DEF Alone
  <2>5. (\A m : EnableDue(s, m)' <=> EnableDue(s, m)) /\ \A m : DisableDue(m)' <=> DisableDue(m)
    BY <2>2, <2>3 DEF EnableDue, DisableDue
  <2> QED BY <1>1, <2>2, <2>4, <2>5, HeedKept DEF ConfigUntouched
<1>8. CASE \E q \in Sessions : RefuseEnable(q) \/ ApplyEnable(q)
  <2>1. PICK q \in Sessions : RefuseEnable(q) \/ ApplyEnable(q)
    BY <1>8
  <2>2. q = s /\ enabling[s].step # "idle" /\ UNCHANGED <<nextSeq, priority, lane>>
    <3>1. enabling[q].step # "idle" /\ UNCHANGED <<nextSeq, priority, lane>>
      BY <2>1 DEF RefuseEnable, ApplyEnable
    <3> QED BY <1>1, <3>1 DEF Alone
  <2>3. PICK n : n = enabling[s].seq
    OBVIOUS
  <2>4. n \in 0 .. MaxSeq /\ EnableDue(s, n)
    BY <2>2, <2>3 DEF EnableDue, Typed, TypeOK
  <2>5. enabling'[s].step = "idle" /\ \A x \in Sessions \ {s} : enabling'[x] = enabling[x]
    <3>1. enabling' = [enabling EXCEPT ![s] = NoEnable] /\ NoEnable.step = "idle"
      BY <2>1, <2>2 DEF RefuseEnable, ApplyEnable, NoEnable
    <3> QED BY <3>1 DEF Typed, TypeOK
  <2>6. /\ \A m : EnableDue(s, m)' => EnableDue(s, m)
        /\ \A m : EnableDue(s, m) => EnableDue(s, m)' \/ m = n
        /\ \A m : DisableDue(m)' <=> DisableDue(m)
    BY <2>2, <2>3, <2>5 DEF EnableDue, DisableDue
  <2>7. ~EnableDue(s, n)'
    BY <1>1, <2>2, <2>3, <2>5 DEF EnableDue, Once
  <2>8. Once(s)'
    BY <1>1, <2>2, <2>5, OnceKept
  <2>9. CASE RefuseEnable(q)
    <3>1. config' = config /\ word' = [word EXCEPT ![s][n] = "refused"]
      BY <2>2, <2>3, <2>9 DEF RefuseEnable
    <3>2. Alone(s)'
      BY <1>1, <2>2, <2>5, <3>1 DEF Alone
    <3>3. Stamped(s)' /\ Heeded(s)'
      BY <1>1, <2>2, <2>4, <2>6, <2>7, <3>1, HeedRefused
    <3> QED BY <2>8, <3>2, <3>3
  <2>10. CASE ApplyEnable(q)
    <3>1. config' = Enable(config, n, s, Requests, FALSE) /\ word' = word
      BY <2>2, <2>3, <2>10 DEF ApplyEnable
    <3>2. /\ config'.wantedBy \subseteq {s}
          /\ IF n < config.configSeq
               THEN config'.configSeq = config.configSeq /\ config'.enabled = config.enabled
               ELSE config'.configSeq = n /\ config'.enabled = TRUE
      BY <1>1, <1>2, <3>1 DEF Enable, InterceptConfigs, Alone
    <3>3. Alone(s)'
      BY <1>1, <2>2, <2>5, <3>2 DEF Alone
    <3>4. Stamped(s)' /\ Heeded(s)'
      BY <1>1, <2>2, <2>4, <2>6, <2>7, <3>1, <3>2, HeedApplied
    <3> QED BY <2>8, <3>3, <3>4
  <2> QED BY <2>1, <2>9, <2>10
<1>9. CASE \E c \in Connections : StartDisable(c)
  <2>1. PICK c \in Connections : StartDisable(c)
    BY <1>9
  <2>2. Head(priority[c]) \in Jobs
    <3>1. priority[c] \in Seq(Jobs) /\ priority[c] # <<>>
      BY <2>1 DEF StartDisable, Typed, TypeOK, Jobs
    <3> QED BY <3>1, HeadTailProperties
  <2>3. Live(Head(priority[c]).session)
    BY <1>1, <2>2 DEF Jobs
  <2> QED BY <1>3, <2>1, <2>3 DEF StartDisable, ConfigUntouched
<1>10. CASE \E c \in Connections : ApplyDisable(c)
  <2>1. PICK c \in Connections : ApplyDisable(c)
    BY <1>10
  <2>2. PICK n : n = Head(priority[c]).seq
    OBVIOUS
  <2>3. /\ Head(priority[c]) \in Jobs /\ Head(priority[c]).session = s
        /\ DisableDue(n)
        /\ \A m : DisableDue(m)' => DisableDue(m)
        /\ \A m : DisableDue(m) => DisableDue(m)' \/ m = n
        /\ \A m : EnableDue(s, m)' <=> EnableDue(s, m)
        /\ (\A d \in Connections : \A i \in 1 .. Len(priority[d]) : priority[d][i].session = s)'
    BY <1>1, <2>1, <2>2, DisableTaken DEF Alone
  <2>4. n \in 0 .. MaxSeq /\ UNCHANGED <<nextSeq, word, lane, enabling>>
    BY <1>1, <2>1, <2>2, <2>3 DEF Jobs, ApplyDisable
  <2>5. config' = Disable(config, n, s)
    BY <2>1, <2>2, <2>3 DEF ApplyDisable
  <2>6. /\ ClaimsWithout(config, {s}) = {} /\ config'.wantedBy = {}
        /\ IF n < config.configSeq
             THEN config'.configSeq = config.configSeq /\ config'.enabled = config.enabled
             ELSE config'.configSeq = n /\ config'.enabled = FALSE
    BY <1>1, <1>2, <2>5 DEF Alone, ClaimsWithout, Disable, InterceptConfigs
  <2>7. Alone(s)' /\ Once(s)'
    BY <1>1, <2>3, <2>4, <2>6, OnceKept DEF Alone
  <2>8. Stamped(s)' /\ Heeded(s)'
    BY <1>1, <2>3, <2>4, <2>6, HeedApplied
  <2> QED BY <2>7, <2>8
<1>11. CASE \E q \in Sessions : Detach(q) \/ ReleaseNext(q)
  BY <1>1, <1>11 DEF Detach, Live, ReleaseNext, LowerFlag, DropClaim, DisableForGood
<1>12. CASE \E c \in Connections : Close(c)
  BY <1>3, <1>12 DEF Close, laneVars, ConfigUntouched
<1>13. CASE \/ \E r \in Requests : Resolve(r) \/ PageNext(r)
            \/ \E q \in Sessions, offline \in BOOLEAN : EmulateOffline(q, offline)
            \/ UNCHANGED vars
  <2>1. UNCHANGED <<nextSeq, word, lane, enabling, priority>>
    BY <1>13 DEF Resolve, PageNext, CheckRequest, AnnouncePause, ApplyDecision, GiveUp, LetGo, EmulateOffline,
                 laneVars, vars
  <2>2. \/ UNCHANGED config
        \/ \E r : config' = Unpause(config, r) \/ config' = Pause(config, r)
        \/ \E offline : config' = SetConditions(config, offline)
    BY <1>13 DEF Resolve, PageNext, CheckRequest, AnnouncePause, ApplyDecision, GiveUp, LetGo, EmulateOffline, vars
  <2>3. ConfigUntouched
    BY <1>2, <2>2 DEF ConfigUntouched, Unpause, Pause, SetConditions, InterceptConfigs
  <2> QED BY <1>3, <2>1, <2>3
<1> QED
  BY <1>4, <1>5, <1>6, <1>7, <1>8, <1>9, <1>10, <1>11, <1>12, <1>13 DEF Next, LaneNext

LEMMA LastWordInit == Init => LeaversRelease /\ LastWord
<1> SUFFICES ASSUME Init PROVE LeaversRelease /\ LastWord
  OBVIOUS
<1>1. /\ \A s \in Sessions : lane[s] = <<>> /\ enabling[s].step = "idle" /\ releasing[s] = "none"
      /\ \A s \in Sessions : \A n \in 0 .. MaxSeq : word[s][n] = "none"
      /\ \A c \in Connections : priority[c] = <<>>
      /\ config.wantedBy = {} /\ config.configSeq = 0 /\ config.enabled = FALSE
  BY DEF Init, NoEnable, DefaultConfig
<1>2. \A c \in Connections : \A i \in 1 .. Len(priority[c]) : FALSE
  BY <1>1
<1>3. \A s \in Sessions : \A i \in 1 .. Len(lane[s]) : FALSE
  BY <1>1
<1>4. \A s \in Sessions : \A m : ~EnableDue(s, m) /\ ~DisableDue(m)
  BY <1>1, <1>2, <1>3 DEF EnableDue, DisableDue
<1>5. LeaversRelease
  BY <1>1 DEF LeaversRelease
<1>6. LastWord
  <2>1. \A s \in Sessions : Standing(s) = {}
    BY <1>1 DEF Standing
  <2>2. 0 \in 0 .. MaxSeq
    BY MaxSeqAssumption
  <2>3. \A s \in Sessions : Heeded(s)
    BY <1>1, <1>4, <2>1, <2>2 DEF Heeded
  <2> QED BY <1>1, <1>2, <1>3, <1>4, <2>3 DEF LastWord, Alone, Stamped, Once
<1> QED BY <1>5, <1>6

\* Whichever lane runs first, once everything a lone driver sent has run,
\* interception is on exactly when the last of its commands that was not refused
\* is an enable: a command older than the newest applied one changes neither the
\* switch nor the stamp, and a refused one changes nothing.
THEOREM LastWordStands == Spec => []LastWordWins
<1>1. Typed /\ LastWord => LastWordWins
  <2> SUFFICES ASSUME Typed, LastWord, NEW s \in Sessions, LoneDriver(s), Quiet
               PROVE  config.enabled <=> SaysOn(s)
    BY DEF LastWordWins
  <2>1. \A m : ~EnableDue(s, m) /\ ~DisableDue(m)
    <3>1. lane[s] = <<>> /\ enabling[s].step = "idle" /\ \A c \in Connections : priority[c] = <<>>
      BY DEF Quiet
    <3>2. (\A i \in 1 .. Len(lane[s]) : FALSE) /\ \A c \in Connections : \A i \in 1 .. Len(priority[c]) : FALSE
      BY <3>1
    <3> QED BY <3>1, <3>2 DEF EnableDue, DisableDue
  <2>2. Heeded(s)
    BY DEF LastWord
  <2>3. (\A m \in Standing(s) : m <= config.configSeq) /\ Standing(s) \subseteq 0 .. MaxSeq
    BY <2>1, <2>2 DEF Heeded, Standing
  <2>4. CASE config.enabled
    <3>1. word[s][config.configSeq] = "enable" /\ config.configSeq \in Standing(s)
      BY <2>2, <2>4, StampTypes DEF Heeded, Standing
    <3> QED BY <2>3, <2>4, <3>1 DEF SaysOn
  <2>5. CASE ~config.enabled /\ word[s][config.configSeq] = "disable"
    <3>1. config.configSeq \in Standing(s)
      BY <2>5, StampTypes DEF Standing
    <3>2. ASSUME NEW n \in Standing(s), word[s][n] = "enable", \A m \in Standing(s) : m <= n
          PROVE  FALSE
      <4>1. n = config.configSeq
        BY <2>3, <3>1, <3>2, StampTypes
      <4> QED BY <2>5, <3>2, <4>1
    <3> QED BY <2>5, <3>2 DEF SaysOn
  <2>6. CASE ~config.enabled /\ config.configSeq = 0 /\ word[s][0] \in {"none", "refused"}
    <3>1. Standing(s) = {}
      <4>1. 0 \notin Standing(s)
        BY <2>6 DEF Standing
      <4> QED BY <2>3, <2>6, <4>1
    <3> QED BY <2>6, <3>1 DEF SaysOn
  <2>7. config.enabled \in BOOLEAN
    BY StampTypes
  <2> QED BY <2>1, <2>2, <2>4, <2>5, <2>6, <2>7 DEF Heeded
<1> QED BY <1>1, LastWordInit, LastWordKept, LeaversKept, TypedInit, TypedStep, PTL DEF Spec

-----------------------------------------------------------------------------
(***************************************************************************)
(* The pause point.                                                        *)
(***************************************************************************)
Stands == \A r \in Requests : PauseState(r)' = PauseState(r)

LEMMA PausesStand ==
  ASSUME config'.paused = config.paused, at' = at
  PROVE  Stands
  BY DEF Stands, PauseState

LEMMA PointOf ==
  ASSUME NEW S, S \subseteq config.paused, PausedSet,
         config'.paused = config.paused \ S, at' = at
  PROVE  \A r \in Requests : PauseState(r)' = IF r \in S THEN "decided" ELSE PauseState(r)
  BY DEF PauseState, PausedSet, PausedIsHeld

LEMMA PausesFollow == Typed /\ PausedSet /\ [Next]_vars => [PausePoint!Next]_[r \in Requests |-> PauseState(r)]
<1> SUFFICES ASSUME Typed, PausedSet, [Next]_vars
             PROVE  PausePoint!Next \/ Stands
  BY DEF Stands
<1>0. /\ config \in InterceptConfigs /\ at \in [Requests -> Places] /\ config.paused \subseteq Requests
      /\ PausePoint!Claimable = config.paused
  <2>1. config.paused \subseteq Requests /\ at \in [Requests -> Places] /\ config \in InterceptConfigs
    BY PausedAreRequests DEF Typed, TypeOK
  <2> QED BY <2>1 DEF PausePoint!Claimable, PauseState, PausedSet, PausedIsHeld
<1>1. CASE UNCHANGED vars
  BY <1>1, PausesStand DEF vars
<1>2. ASSUME NEW s \in Sessions,
             ReceiveEnable(s) \/ ReceiveDisable(s) \/ Detach(s) \/ StartEnable(s) \/ RefuseEnable(s)
               \/ RaiseFlag(s) \/ LowerFlag(s) \/ ApplyEnable(s) \/ DropClaim(s)
      PROVE  Stands
  <2>1. config'.paused = config.paused /\ at' = at
    BY <1>0, <1>2 DEF ReceiveEnable, ReceiveDisable, Detach, StartEnable, RefuseEnable, RaiseFlag, LowerFlag, ApplyEnable,
       DropClaim, Enable, DropClaims, InterceptConfigs, pageVars
  <2> QED BY <2>1, PausesStand
<1>3. ASSUME NEW s \in Sessions, NEW offline \in BOOLEAN, EmulateOffline(s, offline)
      PROVE  Stands
  <2>1. config'.paused = config.paused /\ at' = at
    BY <1>0, <1>3 DEF EmulateOffline, SetConditions, InterceptConfigs, pageVars
  <2> QED BY <2>1, PausesStand
<1>4. ASSUME NEW c \in Connections, StartDisable(c) \/ Close(c)
      PROVE  Stands
  BY <1>4, PausesStand DEF StartDisable, Close, pageVars
\* A disable claims all that can be claimed, or nothing.
<1>5. ASSUME NEW seq, NEW s, config' = Disable(config, seq, s), at' = at
      PROVE  PausePoint!Next \/ Stands
  <2>1. config'.paused = config.paused \ DisableReleases(config, s)
    BY <1>0, <1>5, DisableMoves
  <2>2. DisableReleases(config, s) \in {{}, config.paused}
    BY DEF DisableReleases
  <2>3. CASE DisableReleases(config, s) = {}
    BY <1>5, <2>1, <2>3, PausesStand
  <2>4. CASE DisableReleases(config, s) = config.paused /\ config.paused # {}
    <3>1. \A r \in Requests : PauseState(r)' = IF r \in config.paused THEN "decided" ELSE PauseState(r)
      BY <1>5, <2>1, <2>4, PointOf
    <3>2. PausePoint!Release
      BY <1>0, <2>4, <3>1 DEF PausePoint!Release, PausePoint!Decide
    <3> QED BY <3>2 DEF PausePoint!Next
  <2> QED BY <2>2, <2>3, <2>4
<1>6. ASSUME NEW s \in Sessions, DisableForGood(s)
      PROVE  PausePoint!Next \/ Stands
  BY <1>5, <1>6 DEF DisableForGood
<1>7. ASSUME NEW c \in Connections, ApplyDisable(c)
      PROVE  PausePoint!Next \/ Stands
  BY <1>5, <1>7 DEF ApplyDisable
<1>8. ASSUME NEW r \in Requests, Resolve(r)
      PROVE  PausePoint!Next
  <2>1. r \in config.paused /\ config'.paused = config.paused \ {r} /\ at' = at
    BY <1>0, <1>8 DEF Resolve, Unpause, InterceptConfigs
  <2>2. \A q \in Requests : PauseState(q)' = IF q \in {r} THEN "decided" ELSE PauseState(q)
    BY <2>1, PointOf
  <2>3. PausePoint!Claim(r)
    BY <1>0, <2>1, <2>2 DEF PausePoint!Claim, PausePoint!Decide
  <2> QED BY <2>3 DEF PausePoint!Next
<1>9. ASSUME NEW r \in Requests, PageNext(r)
      PROVE  PausePoint!Next \/ Stands
  <2>1. CASE CheckRequest(r)
    BY <1>0, <2>1 DEF CheckRequest, Stands, PauseState
  <2>2. CASE AnnouncePause(r)
    <3>1. config'.paused = config.paused \union {r} /\ at[r] = "matched" /\ at' = [at EXCEPT ![r] = "paused"]
      BY <1>0, <2>2 DEF AnnouncePause, Pause, InterceptConfigs
    <3>2. PauseState(r) = "free" /\ PauseState(r)' = "claimable"
          /\ \A q \in Requests \ {r} : PauseState(q)' = PauseState(q)
      BY <1>0, <3>1 DEF PauseState, PausedSet, PausedIsHeld
    <3>3. PausePoint!Pause(r)
      BY <3>2 DEF PausePoint!Pause
    <3> QED BY <3>3 DEF PausePoint!Next
  <2>3. CASE at[r] = "paused" /\ LetGo(r)
    <3>1. config'.paused = config.paused \ {r} /\ at' = [at EXCEPT ![r] = "sent"]
      BY <1>0, <2>3 DEF LetGo, Unpause, InterceptConfigs
    <3>2. PauseState(r) # "free" /\ PauseState(r)' = "free"
          /\ \A q \in Requests \ {r} : PauseState(q)' = PauseState(q)
      BY <1>0, <2>3, <3>1 DEF PauseState
    <3>3. PausePoint!LetGo(r)
      BY <3>2 DEF PausePoint!LetGo
    <3> QED BY <3>3 DEF PausePoint!Next
  <2> QED BY <1>9, <2>1, <2>2, <2>3 DEF PageNext, ApplyDecision, GiveUp
<1> QED
  BY <1>1, <1>2, <1>3, <1>4, <1>6, <1>7, <1>8, <1>9 DEF Next, LaneNext, ReleaseNext

\* Whatever sessions, lanes and teardowns race for, the page's pause point is
\* one at which each pause is claimed at most once.
THEOREM ControlIsAPausePoint == Spec => FollowsPausePoint
<1>1. Init => PausePoint!Init
  BY DEF Init, DefaultConfig, PauseState, PausePoint!Init
<1>2. Spec => [](Typed /\ PausedSet)
  BY TypedInit, TypedStep, PausedSetInit, PausedSetStep, PTL DEF Spec
<1> QED BY <1>1, <1>2, PausesFollow, PTL DEF Spec, FollowsPausePoint, PausePoint!Spec
=============================================================================
