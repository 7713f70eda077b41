----------------------------- MODULE PageThread -----------------------------
(***************************************************************************)
(* A page thread and the handle drivers hold on it: the job channel with   *)
(* its deadlines and cancellation (`PageHandle::call_within`), the command *)
(* loop that runs, defers and drops jobs (`Page::run_command_loop` and the *)
(* waits nested in it), dialogs answered from another thread, closing and  *)
(* crashing.                                                               *)
(*                                                                         *)
(* The page thread is a stack of frames. The bottom one is the command     *)
(* loop; above it are the job, the queued navigation (`load`) and the      *)
(* dialog it is inside of. Each frame is running script, taking a turn of  *)
(* the loop, or parked in `wait_for_work`.                                 *)
(***************************************************************************)
EXTENDS Integers, Sequences, FiniteSets

CONSTANTS
  Callers,       \* driver threads that call or post
  Closers,       \* driver threads that close the page
  Answerers,     \* driver threads that answer dialogs
  MaxJobs,       \* bound: jobs ever sent
  MaxLoads,      \* bound: queued navigations ever started
  MaxDialogs,    \* bound: dialogs ever opened
  MaxOverruns,   \* bound: turns of the loop that reach their deadline
  CanPanic       \* whether script may hit a panic

Jobs == 1..MaxJobs
NoJob == 0
Nobody == "nobody"
CloseJob == 0
Kinds == {"ordinary", "suspend", "resume"}
Fates == {"unsent", "port", "parked", "running", "done", "skipped", "dropped"}

ASSUME PageThreadAssumption ==
  /\ MaxJobs \in Nat /\ MaxLoads \in Nat /\ MaxDialogs \in Nat
  /\ MaxOverruns \in Nat
  /\ CanPanic \in BOOLEAN
  /\ Nobody \notin Closers

VARIABLES
  sent,        \* jobs sent so far; job n is the n-th
  kind,        \* job -> what it is
  owner,       \* job -> the caller waiting for it, or Nobody for a post
  fate,        \* job -> where it is
  abandoned,   \* job -> its cancellation flag
  reply,       \* job -> whether its reply channel holds the answer
  port,        \* the job channel
  portOpen,    \* whether the page still holds the receiver
  pending,     \* `pending_jobs`: what nested waits deferred
  stack,       \* the page thread's frames, bottom first
  batch,       \* what is left of `drain_commands`' budget
  last,        \* what this turn of the command loop has done last
  loads,       \* queued navigations started
  overruns,    \* turns that reached their deadline
  closing, suspended,  \* the page's two flags
  thread,      \* "loop", then the epilogue: "left", "stored", "marked", "exited"
  panicked,    \* the thread unwound
  crash,       \* the published crash message
  closed,      \* what `is_closed` reads
  reported,    \* the copy of `suspended` all clones of the handle share
  crossed,     \* history: since the last clean `suspend`, one met a `resume`
  caller, call, result,   \* caller -> its phase, its job, its last answer
  closer,      \* closer -> its phase
  join,        \* whether the join handle is still there to take
  joinLock,    \* the closer holding the join mutex
  dialogUp,    \* the shared `dialog_open` flag
  dialogs,     \* dialogs opened so far
  answerer,    \* answerer -> the dialog its answer was given for, 0 when idle
  taken        \* pairs of the dialog meant and the dialog that took the answer

jobVars == <<sent, kind, owner, fate, abandoned, reply>>
loopVars == <<port, portOpen, pending, stack, batch, last, loads, overruns, closing, suspended>>
exitVars == <<thread, panicked, crash, closed>>
callVars == <<caller, call, result>>
closeVars == <<closer, join, joinLock>>
dialogVars == <<dialogUp, dialogs, answerer, taken>>
saidVars == <<reported, crossed>>
vars == <<jobVars, loopVars, exitVars, saidVars, callVars, closeVars, dialogVars>>

-----------------------------------------------------------------------------
(***************************************************************************)
(* The stack.                                                              *)
(***************************************************************************)

Frame(what, job, at) == [what |-> what, job |-> job, at |-> at]
Top == stack[Len(stack)]
AtTop(where) == stack # <<>> /\ Top.at = where
Below == SubSeq(stack, 1, Len(stack) - 1)
Push(frame) == Append(stack, frame)
MoveTo(where) == [stack EXCEPT ![Len(stack)].at = where]

InFrame(what) == \E i \in 1..Len(stack) : stack[i].what = what

(* can_run_jobs: no job on the stack and no document being loaded. *)
CanRunJobs == ~InFrame("job") /\ ~InFrame("load")

IsControl(j) == kind[j] # "ordinary"

(* A turn of the command loop is between two jobs of one batch. *)
MidBatch == Top.what = "loop" /\ batch > 0

(* stop_waiting: why a nested wait gives up. *)
StopWaiting == closing \/ suspended

-----------------------------------------------------------------------------
(***************************************************************************)
(* The driver's side: calls.                                               *)
(***************************************************************************)

(* PageHandle::send puts a job in the channel, if the page still has it. *)
Enqueue(k, who) ==
  /\ sent < MaxJobs
  /\ sent' = sent + 1
  /\ kind' = [kind EXCEPT ![sent + 1] = k]
  /\ owner' = [owner EXCEPT ![sent + 1] = who]
  /\ fate' = [fate EXCEPT ![sent + 1] = "port"]
  /\ port' = Append(port, sent + 1)
  /\ UNCHANGED <<abandoned, reply, portOpen, pending, stack, batch, last,
                 loads, overruns, closing, suspended>>

(* gone_now: whatever the thread has published so far. *)
GoneNow == IF crash THEN "crashed" ELSE "closed"

(* A call of `c` has been sent and has not returned.                       *)
Out(c) == caller[c] \notin {"idle", "raising"}
ResumeOut == \E c \in Callers : Out(c) /\ kind[call[c]] = "resume"

(* `suspend` raises the handle's copy before it sends anything.            *)
Raise(c) ==
  /\ caller[c] = "idle"
  /\ caller' = [caller EXCEPT ![c] = "raising"]
  /\ reported' = TRUE
  /\ crossed' = ResumeOut
  /\ UNCHANGED <<jobVars, loopVars, exitVars, call, result, closeVars, dialogVars>>

(* call_within up to its wait.                                             *)
Call(c, k) ==
  /\ caller[c] = IF k = "suspend" THEN "raising" ELSE "idle"
  /\ crossed' = (crossed \/ (k = "resume" /\ \E d \in Callers : caller[d] = "raising"))
  /\ \/ /\ portOpen
        /\ Enqueue(k, c)
        /\ caller' = [caller EXCEPT ![c] = "waiting"]
        /\ call' = [call EXCEPT ![c] = sent + 1]
        /\ result' = [result EXCEPT ![c] = "none"]
     \/ /\ ~portOpen
        /\ result' = [result EXCEPT ![c] = GoneNow]
        /\ caller' = [caller EXCEPT ![c] = "idle"]
        /\ UNCHANGED <<jobVars, loopVars, call>>
  /\ UNCHANGED <<exitVars, reported, closeVars, dialogVars>>

(* PageHandle::post: nobody waits for it. *)
Post(c) ==
  /\ caller[c] = "idle"
  /\ portOpen
  /\ Enqueue("ordinary", Nobody)
  /\ UNCHANGED <<exitVars, saidVars, callVars, closeVars, dialogVars>>

\* Mutant: the handle's copy is lowered whether or not the `resume` landed.
ReturnLowers(c, answer) ==
  /\ caller' = [caller EXCEPT ![c] = "idle"]
  /\ result' = [result EXCEPT ![c] = answer]
  /\ reported' = (reported /\ kind[call[c]] # "resume")
  /\ UNCHANGED <<call, crossed, jobVars, loopVars, exitVars, closeVars, dialogVars>>

(* A call returns; a `resume` that succeeded lowers the handle's copy. *)
Return(c, answer) ==
  /\ caller' = [caller EXCEPT ![c] = "idle"]
  /\ result' = [result EXCEPT ![c] = answer]
  /\ reported' = (reported /\ ~(answer = "ok" /\ kind[call[c]] = "resume"))
  /\ UNCHANGED <<call, crossed, jobVars, loopVars, exitVars, closeVars, dialogVars>>

GetReply(c) == caller[c] = "waiting" /\ reply[call[c]] /\ Return(c, "ok")

(* recv_timeout gives up. *)
TimeOut(c) ==
  /\ caller[c] = "waiting"
  /\ ~reply[call[c]]
  /\ caller' = [caller EXCEPT ![c] = "late"]
  /\ UNCHANGED <<jobVars, loopVars, exitVars, saidVars, call, result, closeVars, dialogVars>>

\* Mutant: the flag goes up only for a job that is still in the channel.
AbandonQueuedOnly(c) ==
  /\ caller[c] = "late"
  /\ abandoned' = [abandoned EXCEPT ![call[c]] = fate[call[c]] = "port"]
  /\ caller' = [caller EXCEPT ![c] = "looking"]
  /\ UNCHANGED <<sent, kind, owner, fate, reply, loopVars, exitVars, saidVars,
                 call, result, closeVars, dialogVars>>

(* abandon: the flag goes up ... *)
Abandon(c) ==
  /\ caller[c] = "late"
  /\ abandoned' = [abandoned EXCEPT ![call[c]] = TRUE]
  /\ caller' = [caller EXCEPT ![c] = "looking"]
  /\ UNCHANGED <<sent, kind, owner, fate, reply, loopVars, exitVars, saidVars,
                 call, result, closeVars, dialogVars>>

(* ... and then a reply that is there after all wins. *)
LastLook(c) ==
  /\ caller[c] = "looking"
  /\ Return(c, IF reply[call[c]] THEN "ok" ELSE "timeout")

(* The reply sender was dropped unanswered: `gone` waits for the thread. *)
Disconnected(c) ==
  /\ caller[c] = "waiting"
  /\ fate[call[c]] = "dropped"
  /\ ~reply[call[c]]
  /\ caller' = [caller EXCEPT ![c] = "asking"]
  /\ UNCHANGED <<jobVars, loopVars, exitVars, saidVars, call, result, closeVars, dialogVars>>

(* CRASH_REPORT_GRACE is taken to outlast the thread's epilogue. *)
Gone(c) == caller[c] = "asking" /\ thread = "exited" /\ Return(c, GoneNow)

-----------------------------------------------------------------------------
(***************************************************************************)
(* The driver's side: closing.                                             *)
(***************************************************************************)

(* PageHandle::close posts the request; a page that is gone ignores it. *)
Close(k) ==
  /\ closer[k] = "idle"
  /\ port' = IF portOpen THEN Append(port, CloseJob) ELSE port
  /\ closer' = [closer EXCEPT ![k] = "asked"]
  /\ UNCHANGED <<jobVars, portOpen, pending, stack, batch, last, loads, overruns,
                 closing, suspended, exitVars, saidVars, callVars, join, joinLock, dialogVars>>

(* join_bounded takes the handle under its mutex, which it keeps. *)
TakeJoin(k) ==
  /\ closer[k] = "asked"
  /\ joinLock = Nobody
  /\ \/ /\ join
        /\ join' = FALSE
        /\ joinLock' = k
        /\ closer' = [closer EXCEPT ![k] = "polling"]
     \/ /\ ~join
        /\ closer' = [closer EXCEPT ![k] = "done"]
        /\ UNCHANGED <<join, joinLock>>
  /\ UNCHANGED <<jobVars, loopVars, exitVars, saidVars, callVars, dialogVars>>

JoinExited(k) ==
  /\ closer[k] = "polling"
  /\ thread = "exited"
  /\ closer' = [closer EXCEPT ![k] = "done"]
  /\ joinLock' = Nobody
  /\ UNCHANGED <<jobVars, loopVars, exitVars, saidVars, callVars, join, dialogVars>>

\* Mutant: a wedged page is left behind without being marked.
DetachQuietly(k) ==
  /\ closer[k] = "polling"
  /\ thread # "exited"
  /\ closer' = [closer EXCEPT ![k] = "done"]
  /\ joinLock' = Nobody
  /\ UNCHANGED <<jobVars, loopVars, exitVars, saidVars, callVars, join, dialogVars>>

(* The close timeout: the thread is detached and the page marked closed. *)
Detach(k) ==
  /\ closer[k] = "polling"
  /\ thread # "exited"
  /\ closed' = TRUE
  /\ closer' = [closer EXCEPT ![k] = "done"]
  /\ joinLock' = Nobody
  /\ UNCHANGED <<jobVars, loopVars, thread, panicked, crash, saidVars, callVars,
                 join, dialogVars>>

-----------------------------------------------------------------------------
(***************************************************************************)
(* The driver's side: dialogs (`PageHandle::answer_dialog`).               *)
(***************************************************************************)

(* The flag is read, then the answer is offered for a rendezvous. *)
Offer(a) ==
  /\ answerer[a] = 0
  /\ dialogUp
  /\ answerer' = [answerer EXCEPT ![a] = dialogs]
  /\ UNCHANGED <<jobVars, loopVars, exitVars, saidVars, callVars, closeVars,
                 dialogUp, dialogs, taken>>

(* Nobody received it within DIALOG_ANSWER_GRACE, or the page is gone. *)
Withdraw(a) ==
  /\ answerer[a] # 0
  /\ answerer' = [answerer EXCEPT ![a] = 0]
  /\ UNCHANGED <<jobVars, loopVars, exitVars, saidVars, callVars, closeVars,
                 dialogUp, dialogs, taken>>

-----------------------------------------------------------------------------
(***************************************************************************)
(* The page thread: jobs.                                                  *)
(***************************************************************************)

PageOnly == UNCHANGED <<exitVars, saidVars, callVars, closeVars>>

(* run_job puts the job on the stack, its flag still to be checked. *)
Run(j, under) ==
  /\ fate' = [fate EXCEPT ![j] = "running"]
  /\ stack' = Append(under, Frame(IF IsControl(j) THEN "control" ELSE "job", j, "check"))

(* accept_job: run it if this is a place for it, else put it aside. The    *)
(* receiving frame takes another turn afterwards.                          *)
Accept(j) ==
  \/ /\ IsControl(j) \/ CanRunJobs
     /\ Run(j, MoveTo("turn"))
     /\ UNCHANGED pending
  \/ /\ ~IsControl(j) /\ ~CanRunJobs
     /\ pending' = Append(pending, j)
     /\ fate' = [fate EXCEPT ![j] = "parked"]
     /\ stack' = MoveTo("turn")

(* wait_for_work returns with a job; a request to close is a control job   *)
(* nobody waits for, and only sets the flag ...                            *)
ReceiveJob ==
  /\ AtTop("park")
  /\ port # <<>>
  /\ port' = Tail(port)
  /\ \/ /\ Head(port) = CloseJob
        /\ closing' = TRUE
        /\ stack' = MoveTo("turn")
        /\ UNCHANGED <<fate, pending>>
     \/ /\ Head(port) # CloseJob
        /\ Accept(Head(port))
        /\ UNCHANGED closing
  /\ PageOnly
  /\ UNCHANGED <<sent, kind, owner, abandoned, reply, portOpen, batch, last,
                 loads, overruns, suspended, dialogVars>>

(* ... or because of a net event, a timer, a waker. *)
Wake ==
  /\ AtTop("park")
  /\ stack' = MoveTo("turn")
  /\ PageOnly
  /\ UNCHANGED <<jobVars, port, portOpen, pending, batch, last, loads, overruns,
                 closing, suspended, dialogVars>>

(* The closure's one look at the flag. *)
CheckFlag ==
  /\ AtTop("check")
  /\ \/ /\ abandoned[Top.job]
        /\ fate' = [fate EXCEPT ![Top.job] = "skipped"]
        /\ stack' = Below
     \/ /\ ~abandoned[Top.job]
        /\ stack' = MoveTo("script")
        /\ UNCHANGED fate
  /\ PageOnly
  /\ UNCHANGED <<sent, kind, owner, abandoned, reply, port, portOpen, pending,
                 batch, last, loads, overruns, closing, suspended, dialogVars>>

(* The closure ends: its effect, if it is a control job, and its reply. *)
FinishJob ==
  /\ AtTop("script")
  /\ Top.what \in {"job", "control"}
  /\ LET j == Top.job IN
       /\ fate' = [fate EXCEPT ![j] = "done"]
       /\ reply' = [reply EXCEPT ![j] = owner[j] # Nobody]
       /\ suspended' = ((suspended \/ kind[j] = "suspend") /\ kind[j] # "resume")
  /\ stack' = Below
  /\ PageOnly
  /\ UNCHANGED <<sent, kind, owner, abandoned, port, portOpen, pending, batch,
                 last, loads, overruns, closing, dialogVars>>

-----------------------------------------------------------------------------
(***************************************************************************)
(* The page thread: turns of the loop (`run_until_stalled_until`).         *)
(***************************************************************************)

TurnOnly(s) ==
  /\ stack' = s
  /\ PageOnly
  /\ UNCHANGED <<port, portOpen, closing, suspended, dialogVars>>

(* Only what the command loop's own turn did is remembered. *)
Did(what) == last' = IF Top.what = "loop" THEN what ELSE last

(* A navigation that script queued; never of a suspended page, nor under   *)
(* a load that is already running. It comes before the jobs.               *)
StartLoad ==
  /\ AtTop("turn") /\ ~MidBatch
  /\ ~suspended /\ ~InFrame("load")
  /\ closing /\ Top.what = "loop" => last = "load"
  /\ loads < MaxLoads
  /\ loads' = loads + 1
  /\ Did("load")
  /\ TurnOnly(Push(Frame("load", NoJob, "script")))
  /\ UNCHANGED <<jobVars, pending, batch, overruns>>

\* Mutant: the budget is never loaded.
DrainUnbudgeted ==
  /\ AtTop("turn") /\ CanRunJobs /\ pending # <<>>
  /\ closing => last = "load"
  /\ Run(Head(pending), stack)
  /\ pending' = Tail(pending)
  /\ batch' = batch - 1
  /\ last' = "batch"
  /\ PageOnly
  /\ UNCHANGED <<sent, kind, owner, abandoned, reply, port, portOpen, loads,
                 overruns, closing, suspended, dialogVars>>

(* drain_commands: as many jobs as there were on entry. A close stops the  *)
(* batch, but is first looked at after one job of it.                      *)
DrainCommand ==
  /\ AtTop("turn")
  /\ CanRunJobs
  /\ pending # <<>>
  /\ closing => last = "load"
  /\ Run(Head(pending), stack)
  /\ pending' = Tail(pending)
  /\ batch' = (IF batch > 0 THEN batch ELSE Len(pending)) - 1
  /\ last' = "batch"
  /\ PageOnly
  /\ UNCHANGED <<sent, kind, owner, abandoned, reply, port, portOpen, loads,
                 overruns, closing, suspended, dialogVars>>

\* Mutant: the loop parks without having drained what was deferred.
StallOverJobs ==
  /\ AtTop("turn") /\ ~MidBatch
  /\ IF Top.what = "loop" THEN ~closing ELSE ~StopWaiting
  /\ Did("none")
  /\ TurnOnly(MoveTo("park"))
  /\ UNCHANGED <<jobVars, pending, batch, loads, overruns>>

(* The turn ends with nothing left to do: the frame parks. *)
Stall ==
  /\ AtTop("turn") /\ ~MidBatch
  /\ ~(CanRunJobs /\ pending # <<>>)
  /\ IF Top.what = "loop" THEN ~closing ELSE ~StopWaiting
  /\ Did("none")
  /\ TurnOnly(MoveTo("park"))
  /\ UNCHANGED <<jobVars, pending, batch, loads, overruns>>

(* The turn's wall-clock deadline passed in a navigation or a batch of     *)
(* jobs: it ends with whatever is still pending.                           *)
Overrun ==
  /\ AtTop("turn") /\ Top.what = "loop" /\ batch = 0
  /\ last # "none"
  /\ ~closing
  /\ overruns < MaxOverruns
  /\ overruns' = overruns + 1
  /\ Did("none")
  /\ TurnOnly(MoveTo("park"))
  /\ UNCHANGED <<jobVars, pending, batch, loads>>

(* Script runs the loop inside itself: `settle`, `await_subresources`. *)
BeginWait ==
  /\ AtTop("script")
  /\ Top.what \in {"job", "load"}
  /\ TurnOnly(MoveTo("turn"))
  /\ UNCHANGED <<jobVars, pending, batch, last, loads, overruns>>

(* wait_until returns: done, out of budget, or told to stop waiting. *)
EndWait ==
  /\ AtTop("turn") \/ AtTop("park")
  /\ Top.what \in {"job", "load"}
  /\ TurnOnly(MoveTo("script"))
  /\ UNCHANGED <<jobVars, pending, batch, last, loads, overruns>>

FinishLoad ==
  /\ AtTop("script")
  /\ Top.what = "load"
  /\ TurnOnly(Below)
  /\ UNCHANGED <<jobVars, pending, batch, last, loads, overruns>>

-----------------------------------------------------------------------------
(***************************************************************************)
(* The page thread: dialogs (`Page::run_dialog`).                          *)
(***************************************************************************)

DialogOnly(s) ==
  /\ stack' = s
  /\ PageOnly
  /\ UNCHANGED <<jobVars, port, portOpen, pending, batch, last, loads, overruns,
                 closing, suspended>>

(* Script of a job, of a loading document or of a task of the page's own   *)
(* opens a dialog: the flag first ...                                      *)
OpenDialog ==
  /\ \/ AtTop("script") /\ Top.what \in {"job", "load"}
     \/ AtTop("turn") /\ ~suspended /\ ~MidBatch
  /\ dialogs < MaxDialogs
  /\ dialogs' = dialogs + 1
  /\ dialogUp' = TRUE
  /\ DialogOnly(Push(Frame("dialog", NoJob, "raised")))
  /\ UNCHANGED <<answerer, taken>>

(* ... then the announcement ... *)
AnnounceDialog ==
  /\ AtTop("raised")
  /\ DialogOnly(MoveTo("asking"))
  /\ UNCHANGED dialogVars

\* Mutant: the wait for an answer has no timeout.
DialogWaitsForEver == FALSE /\ UNCHANGED vars

(* ... and the wait, which takes whichever answer is on offer. *)
TakeAnswer(a) ==
  /\ AtTop("asking")
  /\ answerer[a] # 0
  /\ taken' = taken \cup {<<answerer[a], dialogs>>}
  /\ answerer' = [answerer EXCEPT ![a] = 0]
  /\ DialogOnly(MoveTo("answered"))
  /\ UNCHANGED <<dialogUp, dialogs>>

DialogTimesOut ==
  /\ AtTop("asking")
  /\ DialogOnly(MoveTo("answered"))
  /\ UNCHANGED dialogVars

CloseDialog ==
  /\ AtTop("answered")
  /\ dialogUp' = FALSE
  /\ DialogOnly(Below)
  /\ UNCHANGED <<dialogs, answerer, taken>>

-----------------------------------------------------------------------------
(***************************************************************************)
(* The page thread: its end.                                               *)
(***************************************************************************)

(* The port, the deferred jobs and any job on the stack go; whoever waits  *)
(* for one finds its reply channel disconnected.                           *)
DropPage ==
  /\ fate' = [j \in Jobs |-> IF fate[j] \in {"port", "parked", "running"}
                             THEN "dropped" ELSE fate[j]]
  /\ port' = <<>> /\ portOpen' = FALSE
  /\ pending' = <<>>
  /\ stack' = <<>>
  /\ batch' = 0 /\ last' = "none"
  /\ thread' = "left"
  /\ UNCHANGED <<sent, kind, owner, abandoned, reply, loads, overruns, closing,
                 suspended, crash, closed, saidVars, callVars, closeVars>>

(* run_command_loop notices the close between two turns. *)
LeaveLoop ==
  /\ AtTop("turn") /\ Top.what = "loop"
  /\ closing
  /\ DropPage
  /\ UNCHANGED <<panicked, dialogVars>>

(* A panic unwinds through whatever is on the stack. *)
Panic ==
  /\ CanPanic
  /\ \/ AtTop("script") /\ Top.what # "control"
     \/ AtTop("turn")
  /\ DropPage
  /\ panicked' = TRUE
  /\ UNCHANGED dialogVars

EpilogueOnly == UNCHANGED <<jobVars, loopVars, panicked, saidVars, callVars, closeVars, dialogVars>>

(* The epilogue: the crash message, then `closed`, then `exited`. *)
StoreCrash ==
  /\ thread = "left"
  /\ crash' = panicked
  /\ thread' = "stored"
  /\ UNCHANGED closed
  /\ EpilogueOnly

MarkClosed ==
  /\ thread = "stored"
  /\ closed' = TRUE
  /\ thread' = "marked"
  /\ UNCHANGED crash
  /\ EpilogueOnly

Exit ==
  /\ thread = "marked"
  /\ thread' = "exited"
  /\ UNCHANGED <<crash, closed>>
  /\ EpilogueOnly

-----------------------------------------------------------------------------

Init ==
  /\ sent = 0
  /\ kind = [j \in Jobs |-> "ordinary"]
  /\ owner = [j \in Jobs |-> Nobody]
  /\ fate = [j \in Jobs |-> "unsent"]
  /\ abandoned = [j \in Jobs |-> FALSE]
  /\ reply = [j \in Jobs |-> FALSE]
  /\ port = <<>> /\ portOpen = TRUE
  /\ pending = <<>>
  /\ stack = <<Frame("loop", NoJob, "turn")>>
  /\ batch = 0 /\ last = "none" /\ loads = 0 /\ overruns = 0
  /\ closing = FALSE
  /\ suspended \in BOOLEAN
  /\ reported = suspended /\ crossed = FALSE
  /\ thread = "loop"
  /\ panicked = FALSE /\ crash = FALSE /\ closed = FALSE
  /\ caller = [c \in Callers |-> "idle"]
  /\ call = [c \in Callers |-> NoJob]
  /\ result = [c \in Callers |-> "none"]
  /\ closer = [k \in Closers |-> "idle"]
  /\ join = TRUE /\ joinLock = Nobody
  /\ dialogUp = FALSE /\ dialogs = 0
  /\ answerer = [a \in Answerers |-> 0]
  /\ taken = {}

CallerStep(c) == GetReply(c) \/ TimeOut(c) \/ Abandon(c) \/ LastLook(c) \/ Disconnected(c) \/ Gone(c)
CloserStep(k) == TakeJoin(k) \/ JoinExited(k) \/ Detach(k)
DialogStep == AnnounceDialog \/ DialogTimesOut \/ CloseDialog \/ \E a \in Answerers : TakeAnswer(a)
JobStep == CheckFlag \/ FinishJob
TurnStep == DrainCommand \/ Stall \/ LeaveLoop
Epilogue == StoreCrash \/ MarkClosed \/ Exit

Next ==
  \/ \E c \in Callers :
       \/ Raise(c) \/ \E k \in Kinds : Call(c, k)
       \/ Post(c)
       \/ CallerStep(c)
  \/ \E k \in Closers : Close(k) \/ CloserStep(k)
  \/ \E a \in Answerers : Offer(a) \/ Withdraw(a)
  \/ ReceiveJob \/ Wake \/ JobStep \/ TurnStep
  \/ StartLoad \/ Overrun \/ BeginWait \/ EndWait \/ FinishLoad
  \/ OpenDialog \/ DialogStep
  \/ Panic \/ Epilogue

(* Time passes for every deadline, the loop takes its turns, no closure    *)
(* waits for ever, and select is fair to the job channel.                  *)
Fairness ==
  /\ \A c \in Callers : WF_vars(CallerStep(c))
  /\ \A k \in Closers : WF_vars(CloserStep(k))
  /\ WF_vars(DialogStep)
  /\ WF_vars(CheckFlag) /\ SF_vars(FinishJob) /\ SF_vars(FinishLoad)
  /\ WF_vars(EndWait)
  /\ WF_vars(TurnStep) /\ SF_vars(ReceiveJob)
  /\ WF_vars(Epilogue)

Spec == Init /\ [][Next]_vars /\ Fairness

-----------------------------------------------------------------------------
(***************************************************************************)
(* Properties.                                                             *)
(***************************************************************************)

(* The channel, the pending queue and the stack name exactly the jobs      *)
(* whose fates say so.                                                     *)
FatesFit ==
  \A j \in Jobs :
    /\ fate[j] = "port" <=> \E i \in 1..Len(port) : port[i] = j
    /\ fate[j] = "parked" <=> \E i \in 1..Len(pending) : pending[i] = j
    /\ fate[j] = "running" <=> \E i \in 1..Len(stack) : stack[i].job = j

(* Every variable keeps its type, and a job is where its fate says it is.  *)
TypeOK ==
  /\ FatesFit
  /\ sent \in 0..MaxJobs
  /\ kind \in [Jobs -> Kinds]
  /\ owner \in [Jobs -> Callers \cup {Nobody}]
  /\ fate \in [Jobs -> Fates]
  /\ abandoned \in [Jobs -> BOOLEAN] /\ reply \in [Jobs -> BOOLEAN]
  /\ port \in Seq(Jobs \cup {CloseJob}) /\ pending \in Seq(Jobs)
  /\ stack \in Seq([what : {"loop", "job", "control", "load", "dialog"},
                    job : Jobs \cup {NoJob},
                    at : {"turn", "park", "check", "script", "raised", "asking", "answered"}])
  /\ {portOpen, closing, suspended, panicked, crash, closed, reported, crossed, join, dialogUp} \subseteq BOOLEAN
  /\ batch \in Nat /\ last \in {"none", "load", "batch"}
  /\ loads \in Nat /\ overruns \in Nat
  /\ thread \in {"loop", "left", "stored", "marked", "exited"}
  /\ caller \in [Callers -> {"idle", "raising", "waiting", "late", "looking", "asking"}]
  /\ call \in [Callers -> Jobs \cup {NoJob}]
  /\ result \in [Callers -> {"none", "ok", "timeout", "closed", "crashed"}]
  /\ closer \in [Closers -> {"idle", "asked", "polling", "done"}]
  /\ joinLock \in Closers \cup {Nobody}
  /\ dialogs \in Nat
  /\ answerer \in [Answerers -> Nat]
  /\ taken \subseteq Nat \X Nat

Begun(j) == fate[j] \in {"running", "done"}

(* A caller told Timeout has no finished job: had the answer come between  *)
(* its deadline and its flag, the answer would have won (`abandon`).       *)
TimeoutMeansUnanswered ==
  \A c \in Callers :
    result[c] # "timeout" /\ result'[c] = "timeout" => ~reply[call[c]]

(* Nobody waits for this job any more, and it did not begin while somebody *)
(* did.                                                                    *)
GivenUp(j) ==
  /\ owner[j] # Nobody
  /\ ~(Out(owner[j]) /\ call[owner[j]] = j)

(* A command its caller gave up on before it began never lands later, at a *)
(* moment nothing is expecting it.                                         *)
GivenUpNeverLands ==
  AtTop("check") /\ GivenUp(Top.job) => stack' \in {stack, Below, <<>>}

(* What a Timeout tells its caller: nothing was answered and, unless the   *)
(* job had begun by then, nothing will come of it.                         *)
TimeoutIsFinal == [][TimeoutMeansUnanswered /\ GivenUpNeverLands]_vars

(* Ordinary jobs begin in the order they were sent, however deep the waits *)
(* that received them, as long as no turn of the loop met its deadline.    *)
JobsRunInOrder ==
  \A j, k \in Jobs :
    /\ j < k /\ overruns = 0
    /\ ~IsControl(j) /\ ~IsControl(k)
    /\ Begun(k)
    => fate[j] \notin {"port", "parked"}

(* What waits for the page's turn does not wait for anything else: the     *)
(* loop never parks over a job it could run. The code does not keep this:  *)
(* a turn that overruns parks over what it deferred.                       *)
NoSleepOverJobs == AtTop("park") /\ CanRunJobs => pending = <<>>

(* When `close` has returned the page reads as closed, whichever closer it *)
(* was and whether the thread ended, crashed or was left behind.           *)
ClosedAfterClose == \A k \in Closers : closer[k] = "done" => closed

(* The handle does not say a suspended page is running: the driver would   *)
(* not send the command that releases it. The code does not keep this when *)
(* a `suspend` is on its way (the copy raised, the job not yet sent) while *)
(* another clone's `resume` is out: the `resume` lowers the copy of a page *)
(* that is being suspended again, and only the next `suspend` mends it.    *)
SuspendedIsReported == suspended /\ ~crossed => reported

(* An answer releases the dialog it was given for, never the next one. The *)
(* code does not keep this: an answer on offer outlives its dialog.        *)
AnswersMeetTheirDialog == \A pair \in taken : pair[1] = pair[2]

(* A close ends the thread, from inside any job, load and dialog. *)
CloseEndsThread ==
  \A k \in Closers : closer[k] # "idle" ~> thread = "exited"

(* What the thread can do by itself: some guard of a job, a dialog, a turn *)
(* or a wait's end holds, or there is a job to receive.                    *)
CanGoOn ==
  \/ AtTop("check") \/ AtTop("raised") \/ AtTop("asking") \/ AtTop("answered")
  \/ AtTop("script") /\ Top.what \in {"job", "control", "load"}
  \/ (AtTop("turn") \/ AtTop("park")) /\ Top.what \in {"job", "load"}
  \/ /\ AtTop("turn") /\ Top.what = "loop"
     /\ closing \/ (IF pending = <<>> THEN ~MidBatch ELSE CanRunJobs)
  \/ AtTop("park") /\ port # <<>>

(* Theorem only: once a close was asked for the thread has ended its loop, *)
(* or it has something to do and the request is in the channel or heard,   *)
(* with the command loop about to look at it when what is above it ends.   *)
CloseIsComing ==
  (\E k \in Closers : closer[k] # "idle") /\ thread = "loop" =>
    /\ CanGoOn
    /\ \/ \E i \in 1..Len(port) : port[i] = CloseJob
       \/ closing /\ stack[1].what = "loop" /\ stack[1].at = "turn"
=============================================================================
