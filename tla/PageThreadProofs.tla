-------------------------- MODULE PageThreadProofs --------------------------
(***************************************************************************)
(* Proofs about PageThread: type correctness, that a page that was closed  *)
(* reads as closed, that ordinary jobs begin in the order they were sent,  *)
(* that a suspended page is reported suspended, that a Timeout is final,   *)
(* and that a close that was asked for is on its way.                      *)
(***************************************************************************)
EXTENDS PageThread, SequenceTheorems, TLAPS

-----------------------------------------------------------------------------
(***************************************************************************)
(* Closing. The flag is up before the thread exits, and whoever takes the  *)
(* join handle either sees the thread out or raises the flag himself before*)
(* he gives the lock back: when the handle is gone and the lock is free    *)
(* the page reads as closed.                                               *)
(***************************************************************************)
ClosersOK ==
  /\ closer \in [Closers -> {"idle", "asked", "polling", "done"}]
  /\ joinLock \in Closers \cup {Nobody}

CloseInv ==
  /\ ClosersOK
  /\ thread \in {"marked", "exited"} => closed
  /\ ~join /\ joinLock = Nobody => closed
  /\ ClosedAfterClose

(* Everything but closing and the epilogue leaves what closing reads alone.*)
LEMMA CloseSteps ==
  ASSUME [Next]_vars
  PROVE  \/ \E k \in Closers : Close(k) \/ TakeJoin(k) \/ JoinExited(k) \/ Detach(k)
         \/ StoreCrash \/ MarkClosed \/ Exit
         \/ thread' = "left" /\ UNCHANGED <<closed, closer, join, joinLock>>
         \/ UNCHANGED <<thread, closed, closer, join, joinLock>>
<1> USE DEF vars, jobVars, loopVars, exitVars, callVars, closeVars, dialogVars
<1>1. ASSUME NEW c \in Callers, Raise(c) \/ (\E k \in Kinds : Call(c, k)) \/ Post(c) \/ CallerStep(c)
      PROVE  UNCHANGED <<thread, closed, closer, join, joinLock>>
  BY <1>1 DEF Raise, Call, Post, CallerStep, GetReply, TimeOut, Abandon, LastLook, Disconnected, Gone, Return
<1>2. ASSUME NEW a \in Answerers, Offer(a) \/ Withdraw(a)
      PROVE  UNCHANGED <<thread, closed, closer, join, joinLock>>
  BY <1>2 DEF Offer, Withdraw
<1>3. CASE ReceiveJob \/ Wake \/ JobStep \/ DrainCommand
  BY <1>3 DEF ReceiveJob, Wake, JobStep, CheckFlag, FinishJob, DrainCommand, PageOnly
<1>4. CASE Stall \/ StartLoad \/ Overrun \/ BeginWait \/ EndWait \/ FinishLoad
  BY <1>4 DEF Stall, StartLoad, Overrun, BeginWait, EndWait, FinishLoad, TurnOnly, PageOnly
<1>5. CASE OpenDialog \/ DialogStep
  BY <1>5 DEF OpenDialog, DialogStep, AnnounceDialog, DialogTimesOut, CloseDialog, TakeAnswer, DialogOnly, PageOnly
<1>6. CASE LeaveLoop \/ Panic
  BY <1>6 DEF LeaveLoop, Panic, DropPage
<1>7. CASE UNCHANGED vars
  BY <1>7
<1> HIDE DEF vars, jobVars, loopVars, exitVars, callVars, closeVars, dialogVars
<1> QED
  BY <1>1, <1>2, <1>3, <1>4, <1>5, <1>6, <1>7 DEF Next, CloserStep, TurnStep, Epilogue

LEMMA CloseInvStep == ASSUME CloseInv, [Next]_vars PROVE CloseInv'
<1> USE PageThreadAssumption DEF CloseInv, ClosersOK, ClosedAfterClose
<1>1. ASSUME NEW k \in Closers, Close(k) PROVE CloseInv'
  BY <1>1 DEF Close, exitVars
<1>2. ASSUME NEW k \in Closers, TakeJoin(k) PROVE CloseInv'
  BY <1>2 DEF TakeJoin, exitVars
<1>3. ASSUME NEW k \in Closers, JoinExited(k) PROVE CloseInv'
  BY <1>3 DEF JoinExited, exitVars
<1>4. ASSUME NEW k \in Closers, Detach(k) PROVE CloseInv'
  BY <1>4 DEF Detach
<1>5. CASE StoreCrash
  BY <1>5 DEF StoreCrash, EpilogueOnly, closeVars
<1>6. CASE MarkClosed
  BY <1>6 DEF MarkClosed, EpilogueOnly, closeVars
<1>7. CASE Exit
  BY <1>7 DEF Exit, EpilogueOnly, closeVars
<1>8. CASE thread' = "left" /\ UNCHANGED <<closed, closer, join, joinLock>>
  BY <1>8
<1>9. CASE UNCHANGED <<thread, closed, closer, join, joinLock>>
  BY <1>9
<1> QED
  BY <1>1, <1>2, <1>3, <1>4, <1>5, <1>6, <1>7, <1>8, <1>9, CloseSteps

(* `close` returns to every closer with the page reading as closed, for    *)
(* any number of closers and wherever the page's thread is.                *)
THEOREM CloseIsClosed == Spec => []ClosedAfterClose
<1>1. Init => CloseInv
  BY PageThreadAssumption DEF Init, CloseInv, ClosersOK, ClosedAfterClose
<1>2. CloseInv /\ [Next]_vars => CloseInv'
  BY CloseInvStep
<1>3. CloseInv => ClosedAfterClose
  BY DEF CloseInv
<1> QED BY <1>1, <1>2, <1>3, PTL DEF Spec

-----------------------------------------------------------------------------
(***************************************************************************)
(* Types.                                                                  *)
(***************************************************************************)
Frames ==
  [what : {"loop", "job", "control", "load", "dialog"},
   job : Jobs \cup {NoJob},
   at : {"turn", "park", "check", "script", "raised", "asking", "answered"}]
Places == {"turn", "park", "check", "script", "raised", "asking", "answered"}

JobsOK ==
  /\ sent \in 0..MaxJobs
  /\ kind \in [Jobs -> Kinds]
  /\ owner \in [Jobs -> Callers \cup {Nobody}]
  /\ fate \in [Jobs -> Fates]
  /\ abandoned \in [Jobs -> BOOLEAN] /\ reply \in [Jobs -> BOOLEAN]

QueuesOK == port \in Seq(Jobs \cup {CloseJob}) /\ pending \in Seq(Jobs)

StackOK == stack \in Seq(Frames)

FlagsOK ==
  /\ {portOpen, closing, suspended, panicked, crash, closed, reported, crossed, join, dialogUp} \subseteq BOOLEAN
  /\ batch \in Nat /\ last \in {"none", "load", "batch"}
  /\ loads \in Nat /\ overruns \in Nat
  /\ thread \in {"loop", "left", "stored", "marked", "exited"}

DriversOK ==
  /\ caller \in [Callers -> {"idle", "raising", "waiting", "late", "looking", "asking"}]
  /\ call \in [Callers -> Jobs \cup {NoJob}]
  /\ result \in [Callers -> {"none", "ok", "timeout", "closed", "crashed"}]
  /\ closer \in [Closers -> {"idle", "asked", "polling", "done"}]
  /\ joinLock \in Closers \cup {Nobody}

DialogsOK ==
  /\ dialogs \in Nat
  /\ answerer \in [Answerers -> Nat]
  /\ taken \subseteq Nat \X Nat

Types == JobsOK /\ QueuesOK /\ StackOK /\ FlagsOK /\ DriversOK /\ DialogsOK

LEMMA TypesAreTypeOK == Types /\ FatesFit <=> TypeOK
BY DEF Types, JobsOK, QueuesOK, StackOK, Frames, FlagsOK, DriversOK, DialogsOK, TypeOK

(* The three things that are done to a stack, frame by frame.              *)
LEMMA MoveFrames ==
  ASSUME StackOK, stack # <<>>, NEW where \in Places
  PROVE  /\ MoveTo(where) \in Seq(Frames) /\ Len(MoveTo(where)) = Len(stack)
         /\ Len(stack) \in Nat \ {0} /\ Top \in Frames
         /\ \A i \in 1..Len(stack) :
              MoveTo(where)[i] = IF i = Len(stack) THEN Frame(Top.what, Top.job, where) ELSE stack[i]
<1>1. Len(stack) \in Nat \ {0}
  BY EmptySeq DEF StackOK
<1>2. Top \in Frames
  BY <1>1, ElementOfSeq DEF StackOK, Top
<1> DEFINE moved == [Top EXCEPT !.at = where]
<1>3. moved \in Frames /\ moved = Frame(Top.what, Top.job, where)
  BY <1>2 DEF Frames, Frame, Places
<1>4. MoveTo(where) = [stack EXCEPT ![Len(stack)] = moved]
  BY DEF MoveTo, Top
<1> HIDE DEF moved
<1> QED BY <1>1, <1>2, <1>3, <1>4, ExceptSeq DEF StackOK

LEMMA MoveNames ==
  ASSUME StackOK, stack # <<>>, NEW where \in Places
  PROVE  /\ MoveTo(where) \in Seq(Frames) /\ Len(MoveTo(where)) = Len(stack) /\ Len(stack) \in Nat \ {0}
         /\ MoveTo(where)[Len(stack)].at = where
         /\ \A i \in 1..Len(stack) :
              MoveTo(where)[i].what = stack[i].what /\ MoveTo(where)[i].job = stack[i].job
<1> DEFINE m == MoveTo(where)
<1>1. /\ m \in Seq(Frames) /\ Len(m) = Len(stack) /\ Len(stack) \in Nat \ {0}
      /\ \A i \in 1..Len(stack) :
           m[i] = IF i = Len(stack) THEN Frame(Top.what, Top.job, where) ELSE stack[i]
  BY MoveFrames
<1>2. Top = stack[Len(stack)]
  BY DEF Top
<1> HIDE DEF m
<1>3. \A i \in 1..Len(stack) : m[i].what = stack[i].what /\ m[i].job = stack[i].job
  BY <1>1, <1>2 DEF Frame
<1>4. m[Len(stack)].at = where
  BY <1>1 DEF Frame
<1> QED BY <1>1, <1>3, <1>4 DEF m

LEMMA PushFrames ==
  ASSUME NEW under \in Seq(Frames), NEW frame \in Frames
  PROVE  /\ Append(under, frame) \in Seq(Frames) /\ Len(Append(under, frame)) = Len(under) + 1
         /\ Len(under) \in Nat
         /\ \A i \in 1..Len(under) : Append(under, frame)[i] = under[i]
         /\ Append(under, frame)[Len(under) + 1] = frame
BY AppendProperties, LenProperties

LEMMA PopFrames ==
  ASSUME StackOK, stack # <<>>
  PROVE  /\ Below \in Seq(Frames) /\ Len(Below) = Len(stack) - 1 /\ Len(stack) \in Nat \ {0}
         /\ \A i \in 1..(Len(stack) - 1) : Below[i] = stack[i]
<1>1. Len(stack) \in Nat \ {0}
  BY EmptySeq DEF StackOK
<1>2. \A i \in 1..(Len(stack) - 1) : stack[i] \in Frames
  BY <1>1, ElementOfSeq DEF StackOK
<1> DEFINE n == Len(stack) - 1
<1>3. n \in Int /\ \A i \in 1..n : stack[i] \in Frames
  BY <1>1, <1>2
<1>4. /\ SubSeq(stack, 1, n) \in Seq(Frames)
      /\ Len(SubSeq(stack, 1, n)) = IF 1 <= n THEN n - 1 + 1 ELSE 0
      /\ \A i \in 1..(n - 1 + 1) : SubSeq(stack, 1, n)[i] = stack[1 + i - 1]
  <2> HIDE DEF n
  <2> QED BY <1>3, SubSeqProperties
<1>5. Below = SubSeq(stack, 1, n)
  BY DEF Below
<1>6. n \in Nat /\ n = Len(stack) - 1
  BY <1>1
<1> HIDE DEF n
<1>7. /\ Below \in Seq(Frames) /\ Len(Below) = n
      /\ \A i \in 1..n : Below[i] = stack[i]
  BY <1>4, <1>5, <1>6
<1> QED BY <1>1, <1>6, <1>7

(***************************************************************************)
(* The shape of the stack: only the top frame checks a flag, is a control  *)
(* job, parks or asks; there is one ordinary job at most.                  *)
(***************************************************************************)
Asks == {"raised", "asking", "answered"}

Shape(s) ==
  /\ s \in Seq(Frames)
  /\ \A i \in 1..Len(s) :
       /\ i < Len(s) => s[i].at \in {"turn", "script"} /\ s[i].what # "control"
       /\ s[i].at = "check" => s[i].what \in {"job", "control"}
       /\ s[i].what = "control" => s[i].at \in {"check", "script"}
       /\ s[i].at \in Asks => s[i].what = "dialog"
       /\ s[i].what \notin {"job", "control"} => s[i].job = NoJob
  /\ \A i, k \in 1..Len(s) : s[i].what = "job" /\ s[k].what = "job" => i = k

LEMMA MoveKeepsShape ==
  ASSUME Shape(stack), stack # <<>>, NEW where \in Places \ {"check"},
         Top.what # "control" \/ where = "script", where \in Asks => Top.what = "dialog"
  PROVE  Shape(MoveTo(where))
<1>1. StackOK
  BY DEF Shape, StackOK
<1>2. /\ MoveTo(where) \in Seq(Frames) /\ Len(MoveTo(where)) = Len(stack)
      /\ \A i \in 1..Len(stack) :
           MoveTo(where)[i] = IF i = Len(stack) THEN Frame(Top.what, Top.job, where) ELSE stack[i]
      /\ Len(stack) \in Nat \ {0}
  BY <1>1, MoveFrames
<1> DEFINE m == MoveTo(where)
<1>3. /\ \A i \in 1..Len(stack) : i # Len(stack) => m[i] = stack[i]
      /\ \A i \in 1..Len(stack) : m[i].what = stack[i].what /\ m[i].job = stack[i].job
      /\ m[Len(stack)].at = where /\ m[Len(stack)].what = Top.what
  BY <1>2 DEF Frame, Top
<1> HIDE DEF m
<1>4. m \in Seq(Frames) /\ Len(m) = Len(stack)
  BY <1>2 DEF m
<1>5. Shape(m)
  BY <1>2, <1>3, <1>4 DEF Shape
<1> QED BY <1>5 DEF m

LEMMA PopKeepsShape ==
  ASSUME Shape(stack), stack # <<>>
  PROVE  Shape(Below)
BY PopFrames DEF Shape, StackOK

LEMMA PushKeepsShape ==
  ASSUME NEW under, Shape(under), NEW frame \in Frames,
         Len(under) > 0 => under[Len(under)].at \in {"turn", "script"} /\ under[Len(under)].what # "control",
         frame.at = "check" => frame.what \in {"job", "control"},
         frame.what = "control" => frame.at \in {"check", "script"},
         frame.at \in Asks => frame.what = "dialog",
         frame.what \notin {"job", "control"} => frame.job = NoJob,
         frame.what = "job" => \A i \in 1..Len(under) : under[i].what # "job"
  PROVE  Shape(Append(under, frame))
<1> DEFINE s == Append(under, frame)
<1>1. under \in Seq(Frames)
  BY DEF Shape
<1>2. /\ s \in Seq(Frames) /\ Len(s) = Len(under) + 1 /\ Len(under) \in Nat
      /\ \A i \in 1..Len(under) : s[i] = under[i]
      /\ s[Len(under) + 1] = frame
  BY <1>1, PushFrames
<1> HIDE DEF s
<1>3. \A i \in 1..Len(s) :
        /\ i < Len(s) => s[i].at \in {"turn", "script"} /\ s[i].what # "control"
        /\ s[i].at = "check" => s[i].what \in {"job", "control"}
        /\ s[i].what = "control" => s[i].at \in {"check", "script"}
        /\ s[i].at \in Asks => s[i].what = "dialog"
        /\ s[i].what \notin {"job", "control"} => s[i].job = NoJob
  BY <1>2 DEF Shape
<1>4. \A i, k \in 1..Len(s) : s[i].what = "job" /\ s[k].what = "job" => i = k
  BY <1>2 DEF Shape
<1>5. Shape(s)
  BY <1>2, <1>3, <1>4 DEF Shape
<1> QED BY <1>5 DEF s

-----------------------------------------------------------------------------
(***************************************************************************)
(* The queues. Both are in the order the jobs were sent, what is deferred  *)
(* was sent before what is still in the channel, and a loop that is parked *)
(* where it could run jobs has none deferred: so whichever of the two ways *)
(* a job begins, every older one has begun or will never.                  *)
(***************************************************************************)
Fresh ==
  \A j \in Jobs : j > sent => fate[j] = "unsent" /\ kind[j] = "ordinary"

PortFits ==
  \A i \in 1..Len(port) : port[i] # CloseJob => port[i] <= sent /\ fate[port[i]] = "port"

PortGrows ==
  \A i, k \in 1..Len(port) :
    i < k /\ port[i] # CloseJob /\ port[k] # CloseJob => port[i] < port[k]

PortHolds ==
  \A j \in Jobs : fate[j] = "port" => \E i \in 1..Len(port) : port[i] = j

PendingFits ==
  \A i \in 1..Len(pending) :
    pending[i] <= sent /\ kind[pending[i]] = "ordinary" /\ fate[pending[i]] = "parked"

PendingGrows ==
  \A i, k \in 1..Len(pending) : i < k => pending[i] < pending[k]

PendingHolds ==
  \A j \in Jobs : fate[j] = "parked" => \E i \in 1..Len(pending) : pending[i] = j

PendingFirst ==
  \A i \in 1..Len(pending), k \in 1..Len(port) : port[k] # CloseJob => pending[i] < port[k]

JobFrames ==
  \A i \in 1..Len(stack) : stack[i].what \in {"job", "control"} =>
    /\ stack[i].job \in Jobs /\ stack[i].job <= sent
    /\ fate[stack[i].job] = "running"
    /\ (stack[i].what = "control") = IsControl(stack[i].job)

RunningHolds ==
  \A j \in Jobs : fate[j] = "running" => \E i \in 1..Len(stack) : stack[i].job = j

ParkedIdle == AtTop("park") /\ CanRunJobs /\ overruns = 0 => pending = <<>>

QueueInv ==
  /\ Fresh /\ PortFits /\ PortGrows /\ PortHolds
  /\ PendingFits /\ PendingGrows /\ PendingHolds /\ PendingFirst
  /\ JobFrames /\ RunningHolds /\ ParkedIdle /\ JobsRunInOrder

(* A job is sent. *)
LEMMA SendKeepsQueues ==
  ASSUME Types, QueueInv, NEW k \in Kinds, NEW who \in Callers \cup {Nobody}, Enqueue(k, who)
  PROVE  QueueInv'
<1> DEFINE n == sent + 1
<1>1. n \in Jobs /\ sent' = n /\ sent \in Nat
  BY PageThreadAssumption DEF Types, JobsOK, Enqueue, Jobs
<1>2. /\ kind' = [kind EXCEPT ![n] = k] /\ fate' = [fate EXCEPT ![n] = "port"]
      /\ port' = Append(port, n)
      /\ UNCHANGED <<pending, stack, overruns>>
  BY DEF Enqueue
<1>3. /\ \A j \in Jobs \ {n} : kind'[j] = kind[j] /\ fate'[j] = fate[j]
      /\ kind'[n] = k /\ fate'[n] = "port"
  BY <1>1, <1>2 DEF Types, JobsOK
<1>4. /\ Len(port') = Len(port) + 1 /\ Len(port) \in Nat
      /\ \A i \in 1..Len(port) : port'[i] = port[i] /\ port[i] \in Jobs \cup {CloseJob}
      /\ port'[Len(port) + 1] = n
  BY <1>1, <1>2, AppendProperties, LenProperties, ElementOfSeq DEF Types, QueuesOK
<1>5. \A i \in 1..Len(pending) : pending[i] \in Jobs
  BY ElementOfSeq DEF Types, QueuesOK
<1>6. fate[n] = "unsent" /\ kind[n] = "ordinary"
  BY <1>1 DEF QueueInv, Fresh
<1>7. n > sent /\ \A j \in Jobs : j > n => j > sent
  BY <1>1 DEF Jobs
<1>8. (\A j \in Jobs : j \in Nat /\ j # 0) /\ CloseJob = 0
  BY DEF Jobs, CloseJob
<1>9. n \in Nat /\ n # CloseJob
  BY <1>1, <1>8
<1> HIDE DEF n
<1> USE DEF QueueInv
<1>10. \A i \in 1..Len(port) : port[i] # CloseJob =>
         port[i] \in Jobs \ {n} /\ port[i] < n /\ port[i] <= n /\ fate'[port[i]] = "port"
  <2> SUFFICES ASSUME NEW i \in 1..Len(port), port[i] # CloseJob
               PROVE  port[i] \in Jobs \ {n} /\ port[i] < n /\ port[i] <= n /\ fate'[port[i]] = "port"
    OBVIOUS
  <2>1. port[i] \in Jobs /\ port[i] <= sent /\ fate[port[i]] = "port"
    BY <1>4 DEF PortFits
  <2>2. port[i] # n
    BY <2>1, <1>6
  <2>4. port[i] < n
    BY <2>1, <1>1, <1>8 DEF n
  <2> QED BY <2>1, <2>2, <2>4, <1>3, <1>8, <1>9
<1>11. \A i \in 1..Len(pending) : pending[i] \in Jobs \ {n} /\ pending[i] < n /\ pending[i] <= n
  <2> SUFFICES ASSUME NEW i \in 1..Len(pending)
               PROVE  pending[i] \in Jobs \ {n} /\ pending[i] < n /\ pending[i] <= n
    OBVIOUS
  <2>1. pending[i] \in Jobs /\ pending[i] <= sent
    BY <1>5 DEF PendingFits
  <2>2. pending[i] < n
    BY <2>1, <1>1, <1>8 DEF n
  <2> QED BY <2>1, <2>2, <1>8, <1>9
<1>12. sent' = sent + 1
  BY <1>1 DEF n
<1>q1. Fresh'
  BY <1>1, <1>2, <1>3, <1>4, <1>5, <1>6, <1>7, <1>8, <1>9 DEF Fresh
<1>q2. PortFits'
  BY <1>1, <1>3, <1>4, <1>10, <1>12 DEF PortFits
<1>q3. PortGrows'
  BY <1>4, <1>10 DEF PortGrows
<1>q4. PortHolds'
  BY <1>1, <1>2, <1>3, <1>4, <1>5, <1>6, <1>7, <1>8, <1>9 DEF PortHolds
<1>q5. PendingFits'
  BY <1>1, <1>2, <1>3, <1>11, <1>12 DEF PendingFits
<1>q6. PendingGrows'
  BY <1>1, <1>2, <1>3, <1>4, <1>5, <1>6, <1>7, <1>8, <1>9 DEF PendingGrows
<1>q7. PendingHolds'
  BY <1>1, <1>2, <1>3, <1>4, <1>5, <1>6, <1>7, <1>8, <1>9 DEF PendingHolds
<1>q8. PendingFirst'
  BY <1>2, <1>4, <1>11 DEF PendingFirst
<1>q9. JobFrames'
  <2> SUFFICES ASSUME NEW i \in 1..Len(stack), stack[i].what \in {"job", "control"}
               PROVE  /\ stack[i].job \in Jobs /\ stack[i].job <= sent'
                      /\ fate'[stack[i].job] = "running"
                      /\ (stack[i].what = "control") = (kind'[stack[i].job] # "ordinary")
    BY <1>2 DEF JobFrames, IsControl
  <2> DEFINE j == stack[i].job
  <2>1. /\ j \in Jobs /\ j <= sent /\ fate[j] = "running"
        /\ (stack[i].what = "control") = (kind[j] # "ordinary")
    BY DEF JobFrames, IsControl
  <2> HIDE DEF j
  <2>2. j # n
    BY <2>1, <1>6
  <2>3. j <= sent'
    BY <2>1, <1>1, <1>8, <1>12
  <2>4. j \in Jobs /\ fate'[j] = "running" /\ (stack[i].what = "control") = (kind'[j] # "ordinary")
    BY <2>1, <2>2, <1>3
  <2> QED BY <2>3, <2>4 DEF j
<1>q9a. RunningHolds'
  BY <1>2, <1>3 DEF RunningHolds
<1>q10. ParkedIdle'
  BY <1>1, <1>2, <1>3, <1>4, <1>5, <1>6, <1>7, <1>8, <1>9 DEF ParkedIdle, AtTop, CanRunJobs, InFrame, Top
<1>q11. JobsRunInOrder'
  BY <1>1, <1>2, <1>3, <1>4, <1>5, <1>6, <1>7, <1>8, <1>9 DEF JobsRunInOrder, Begun, IsControl, Fresh
<1> QED BY <1>q1, <1>q2, <1>q3, <1>q4, <1>q5, <1>q6, <1>q7, <1>q8, <1>q9, <1>q9a, <1>q10, <1>q11 DEF QueueInv

LEMMA JobNumbers == (\A j \in Jobs : j \in Nat /\ j # 0) /\ CloseJob = 0
BY DEF Jobs, CloseJob

(* What the queues hold are jobs. *)
LEMMA Entries ==
  ASSUME Types
  PROVE  /\ Len(port) \in Nat /\ Len(pending) \in Nat
         /\ \A i \in 1..Len(port) : port[i] \in Jobs \cup {CloseJob}
         /\ \A i \in 1..Len(pending) : pending[i] \in Jobs
BY LenProperties, ElementOfSeq DEF Types, QueuesOK

(* The head of the channel and what is behind it. *)
LEMMA PortTail ==
  ASSUME Types, port # <<>>
  PROVE  /\ Tail(port) \in Seq(Jobs \cup {CloseJob})
         /\ Len(port) \in Nat \ {0} /\ Len(Tail(port)) = Len(port) - 1
         /\ \A i \in 1..Len(Tail(port)) : Tail(port)[i] = port[i + 1] /\ i + 1 \in 2..Len(port)
         /\ Head(port) = port[1] /\ Head(port) \in Jobs \cup {CloseJob}
<1>1. port \in Seq(Jobs \cup {CloseJob})
  BY DEF Types, QueuesOK
<1>2. Len(port) \in Nat \ {0}
  BY <1>1, EmptySeq
<1> QED BY <1>1, <1>2, HeadTailProperties

LEMMA PendingTail ==
  ASSUME Types, pending # <<>>
  PROVE  /\ Tail(pending) \in Seq(Jobs)
         /\ Len(pending) \in Nat \ {0} /\ Len(Tail(pending)) = Len(pending) - 1
         /\ \A i \in 1..Len(Tail(pending)) : Tail(pending)[i] = pending[i + 1] /\ i + 1 \in 2..Len(pending)
         /\ Head(pending) = pending[1] /\ Head(pending) \in Jobs
<1>1. pending \in Seq(Jobs)
  BY DEF Types, QueuesOK
<1>2. Len(pending) \in Nat \ {0}
  BY <1>1, EmptySeq
<1> QED BY <1>1, <1>2, HeadTailProperties

(* A request to close is in the channel like a job, and is nobody's. *)
LEMMA CloseKeepsQueues ==
  ASSUME Types, QueueInv, port' = Append(port, CloseJob),
         UNCHANGED <<sent, kind, fate, pending, stack, overruns>>
  PROVE  QueueInv'
<1>1. /\ Len(port') = Len(port) + 1
      /\ \A i \in 1..Len(port) : port'[i] = port[i]
      /\ port'[Len(port) + 1] = CloseJob
  BY AppendProperties DEF Types, QueuesOK
<1>2. Len(port) \in Nat
  BY Entries
<1> USE DEF QueueInv
<1>q1. Fresh'
  BY <1>1, <1>2 DEF Fresh
<1>q2. PortFits'
  BY <1>1, <1>2 DEF PortFits
<1>q3. PortGrows'
  BY <1>1, <1>2 DEF PortGrows, PortFits
<1>q4. PortHolds'
  BY <1>1, <1>2 DEF PortHolds
<1>q5. PendingFits'
  BY <1>1, <1>2 DEF PendingFits
<1>q6. PendingGrows'
  BY <1>1, <1>2 DEF PendingGrows
<1>q7. PendingHolds'
  BY <1>1, <1>2 DEF PendingHolds
<1>q8. PendingFirst'
  BY <1>1, <1>2 DEF PendingFirst, PortFits, PendingFits
<1>q9. JobFrames'
  BY <1>1, <1>2 DEF JobFrames, IsControl
<1>q9a. RunningHolds'
  BY DEF RunningHolds
<1>q10. ParkedIdle'
  BY <1>1, <1>2 DEF ParkedIdle, AtTop, CanRunJobs, InFrame, Top
<1>q11. JobsRunInOrder'
  BY <1>1, <1>2 DEF JobsRunInOrder, Begun, IsControl, Fresh
<1> QED BY <1>q1, <1>q2, <1>q3, <1>q4, <1>q5, <1>q6, <1>q7, <1>q8, <1>q9, <1>q9a, <1>q10, <1>q11 DEF QueueInv

(* The next entry of the channel is taken: a request to close ... *)
LEMMA ReceiveCloseKeepsQueues ==
  ASSUME Types, Shape(stack), QueueInv, port # <<>>, Head(port) = CloseJob,
         port' = Tail(port), stack # <<>>, stack' = MoveTo("turn"),
         UNCHANGED <<sent, kind, fate, pending, overruns>>
  PROVE  QueueInv'
<1>1. /\ Len(port) \in Nat \ {0} /\ Len(port') = Len(port) - 1 /\ port[1] = CloseJob
      /\ \A i \in 1..Len(port') : port'[i] = port[i + 1] /\ i + 1 \in 2..Len(port)
  BY PortTail
<1>2. /\ Len(stack) \in Nat \ {0} /\ Len(stack') = Len(stack)
      /\ \A i \in 1..Len(stack) : stack'[i].what = stack[i].what /\ stack'[i].job = stack[i].job
      /\ stack'[Len(stack)].at = "turn"
  <2>1. StackOK /\ "turn" \in Places
    BY DEF Types, Places
  <2> QED BY <2>1, MoveNames
<1> USE DEF QueueInv
<1>q1. Fresh'
  BY <1>1, <1>2 DEF Fresh
<1>q2. PortFits'
  BY <1>1, <1>2 DEF PortFits
<1>q3. PortGrows'
  BY <1>1, <1>2 DEF PortGrows, PortFits
<1>q4. PortHolds'
  <2> SUFFICES ASSUME NEW j \in Jobs, fate[j] = "port" PROVE \E i \in 1..Len(port') : port'[i] = j
    BY DEF PortHolds
  <2>1. PICK i \in 1..Len(port) : port[i] = j
    BY DEF PortHolds
  <2>2. i # 1
    BY <2>1, <1>1, JobNumbers
  <2>3. i - 1 \in 1..Len(port') /\ port'[i - 1] = port[i]
    BY <2>2, <1>1
  <2> QED BY <2>1, <2>3
<1>q5. PendingFits'
  BY <1>1, <1>2 DEF PendingFits
<1>q6. PendingGrows'
  BY <1>1, <1>2 DEF PendingGrows
<1>q7. PendingHolds'
  BY <1>1, <1>2 DEF PendingHolds
<1>q8. PendingFirst'
  BY <1>1, <1>2 DEF PendingFirst, PortFits, PendingFits
<1>q9. JobFrames'
  BY <1>1, <1>2 DEF JobFrames, IsControl
<1>q9a. RunningHolds'
  BY <1>2 DEF RunningHolds
<1>q10. ParkedIdle'
  BY <1>1, <1>2 DEF ParkedIdle, AtTop, CanRunJobs, InFrame, Top
<1>q11. JobsRunInOrder'
  BY <1>1, <1>2 DEF JobsRunInOrder, Begun, IsControl, Fresh
<1> QED BY <1>q1, <1>q2, <1>q3, <1>q4, <1>q5, <1>q6, <1>q7, <1>q8, <1>q9, <1>q9a, <1>q10, <1>q11 DEF QueueInv

(* ... or a job that may run here ... *)
LEMMA ReceiveRunKeepsQueues ==
  ASSUME Types, Shape(stack), QueueInv, port # <<>>, NEW j, j = Head(port), j # CloseJob,
         AtTop("park"), IsControl(j) \/ CanRunJobs,
         port' = Tail(port), Run(j, MoveTo("turn")),
         UNCHANGED <<sent, kind, pending, overruns>>
  PROVE  QueueInv'
<1>1. /\ Len(port) \in Nat \ {0} /\ Len(port') = Len(port) - 1 /\ port[1] = j
      /\ \A i \in 1..Len(port') : port'[i] = port[i + 1] /\ i + 1 \in 2..Len(port)
  BY PortTail
<1>2. stack # <<>> /\ j \in Jobs
  BY PortTail DEF AtTop
<1>3. fate[j] = "port" /\ j <= sent
  BY <1>1 DEF QueueInv, PortFits
<1>4. fate'[j] = "running" /\ \A a \in Jobs \ {j} : fate'[a] = fate[a]
  BY <1>2 DEF Run, Types, JobsOK
<1>5. /\ Len(stack) \in Nat \ {0} /\ Len(stack') = Len(stack) + 1
      /\ \A i \in 1..Len(stack) : stack'[i].what = stack[i].what /\ stack'[i].job = stack[i].job
      /\ stack'[Len(stack) + 1] = Frame(IF IsControl(j) THEN "control" ELSE "job", j, "check")
  <2>1. /\ MoveTo("turn") \in Seq(Frames) /\ Len(MoveTo("turn")) = Len(stack) /\ Len(stack) \in Nat \ {0}
        /\ \A i \in 1..Len(stack) :
              MoveTo("turn")[i].what = stack[i].what /\ MoveTo("turn")[i].job = stack[i].job
    <3>1. StackOK /\ "turn" \in Places
      BY DEF Types, Places
    <3> QED BY <1>2, <3>1, MoveNames
  <2>2. Frame(IF IsControl(j) THEN "control" ELSE "job", j, "check") \in Frames
    BY <1>2 DEF Frame, Frames
  <2> DEFINE m == MoveTo("turn")
             f == Frame(IF IsControl(j) THEN "control" ELSE "job", j, "check")
  <2>3. stack' = Append(m, f)
    BY DEF Run
  <2>4. m \in Seq(Frames) /\ f \in Frames
    BY <2>1, <2>2
  <2>5. /\ Len(m) = Len(stack) /\ Len(stack) \in Nat \ {0}
        /\ \A i \in 1..Len(stack) : m[i].what = stack[i].what /\ m[i].job = stack[i].job
    BY <2>1
  <2> HIDE DEF m, f
  <2>6. /\ Len(Append(m, f)) = Len(m) + 1 /\ Append(m, f)[Len(m) + 1] = f
        /\ \A i \in 1..Len(m) : Append(m, f)[i] = m[i]
    BY <2>4, PushFrames
  <2>7. /\ Len(stack') = Len(stack) + 1 /\ stack'[Len(stack) + 1] = f
        /\ \A i \in 1..Len(stack) : stack'[i].what = stack[i].what /\ stack'[i].job = stack[i].job
    BY <2>3, <2>5, <2>6
  <2> QED BY <2>5, <2>7 DEF f
<1>6. \A i \in 1..Len(port) : i # 1 /\ port[i] # CloseJob => port[i] \in Jobs \ {j} /\ j < port[i]
  <2> SUFFICES ASSUME NEW i \in 1..Len(port), i # 1, port[i] # CloseJob
               PROVE  port[i] \in Jobs \ {j} /\ j < port[i]
    OBVIOUS
  <2>1. port[1] < port[i]
    BY <1>1 DEF QueueInv, PortGrows
  <2> QED BY <2>1, <1>1, <1>2, Entries, JobNumbers
<1>7. \A a \in Jobs : fate[a] = "port" /\ a # j => j < a
  BY <1>1, <1>6, JobNumbers DEF QueueInv, PortHolds
<1>8. overruns = 0 /\ ~IsControl(j) => \A a \in Jobs : fate[a] # "parked"
  BY Entries DEF QueueInv, ParkedIdle, PendingHolds
<1>9. \A i \in 1..Len(pending) : pending[i] \in Jobs \ {j}
  BY <1>3, Entries DEF QueueInv, PendingFits
<1> USE DEF QueueInv
<1>q1. Fresh'
  BY <1>1, <1>2, <1>3, <1>4 DEF Fresh
<1>q2. PortFits'
  BY <1>1, <1>4, <1>6 DEF PortFits
<1>q3. PortGrows'
  BY <1>1 DEF PortGrows
<1>q4. PortHolds'
  <2> SUFFICES ASSUME NEW a \in Jobs, fate'[a] = "port" PROVE \E i \in 1..Len(port') : port'[i] = a
    BY DEF PortHolds
  <2>1. a # j /\ fate[a] = "port"
    BY <1>4
  <2>2. PICK i \in 1..Len(port) : port[i] = a
    BY <2>1 DEF PortHolds
  <2>3. i - 1 \in 1..Len(port') /\ port'[i - 1] = port[i]
    BY <2>1, <2>2, <1>1
  <2> QED BY <2>2, <2>3
<1>q5. PendingFits'
  BY <1>4, <1>9 DEF PendingFits
<1>q6. PendingGrows'
  BY DEF PendingGrows
<1>q7. PendingHolds'
  BY <1>4 DEF PendingHolds
<1>q8. PendingFirst'
  BY <1>1 DEF PendingFirst
<1>q9. JobFrames'
  <2>1. ASSUME NEW i \in 1..Len(stack), stack[i].what \in {"job", "control"}
        PROVE  /\ stack[i].job \in Jobs \ {j} /\ stack[i].job <= sent
               /\ fate'[stack[i].job] = "running"
               /\ (stack[i].what = "control") = IsControl(stack[i].job)
    BY <1>3, <1>4, <2>1 DEF JobFrames
  <2>2. /\ stack'[Len(stack) + 1].job = j
        /\ stack'[Len(stack) + 1].what = IF IsControl(j) THEN "control" ELSE "job"
    BY <1>5 DEF Frame
  <2> SUFFICES ASSUME NEW i \in 1..Len(stack'), stack'[i].what \in {"job", "control"}
               PROVE  /\ stack'[i].job \in Jobs /\ stack'[i].job <= sent
                      /\ fate'[stack'[i].job] = "running"
                      /\ (stack'[i].what = "control") = IsControl(stack'[i].job)
    BY DEF JobFrames, IsControl
  <2>3. CASE i = Len(stack) + 1
    <3>1. stack'[i].job = j /\ (stack'[i].what = "control") = IsControl(j)
      BY <2>2, <2>3 DEF IsControl
    <3> QED BY <3>1, <1>2, <1>3, <1>4
  <2>4. CASE i \in 1..Len(stack)
    BY <2>1, <2>4, <1>5
  <2> QED BY <2>3, <2>4, <1>5
<1>q9a. RunningHolds'
  <2> SUFFICES ASSUME NEW a \in Jobs, fate'[a] = "running"
               PROVE  \E i \in 1..Len(stack') : stack'[i].job = a
    BY DEF RunningHolds
  <2>1. CASE a = j
    BY <2>1, <1>5 DEF Frame
  <2>2. CASE a # j
    <3>1. PICK i \in 1..Len(stack) : stack[i].job = a
      BY <2>2, <1>4 DEF RunningHolds
    <3> QED BY <3>1, <1>5
  <2> QED BY <2>1, <2>2
<1>q10. ParkedIdle'
  BY <1>5 DEF ParkedIdle, AtTop, Top, Frame
<1>q11. JobsRunInOrder'
  <2> SUFFICES ASSUME NEW a \in Jobs, NEW k \in Jobs, a < k, overruns = 0,
                      ~IsControl(a), ~IsControl(k), fate'[k] \in {"running", "done"}
               PROVE  fate'[a] \notin {"port", "parked"}
    BY DEF JobsRunInOrder, Begun, IsControl
  <2>1. CASE k = j
    <3>1. fate[a] # "parked"
      BY <2>1, <1>8
    <3>2. fate[a] # "port"
      BY <2>1, <1>2, <1>7, JobNumbers
    <3> QED BY <3>1, <3>2, <1>4
  <2>2. CASE k # j
    BY <2>2, <1>4 DEF JobsRunInOrder, Begun
  <2> QED BY <2>1, <2>2
<1> QED BY <1>q1, <1>q2, <1>q3, <1>q4, <1>q5, <1>q6, <1>q7, <1>q8, <1>q9, <1>q9a, <1>q10, <1>q11 DEF QueueInv
(* ... or one that has to wait for the page's turn.                        *)
LEMMA ReceiveParkKeepsQueues ==
  ASSUME Types, Shape(stack), QueueInv, port # <<>>, NEW j, j = Head(port), j # CloseJob,
         AtTop("park"), ~IsControl(j), ~CanRunJobs,
         port' = Tail(port), pending' = Append(pending, j),
         fate' = [fate EXCEPT ![j] = "parked"], stack' = MoveTo("turn"),
         UNCHANGED <<sent, kind, overruns>>
  PROVE  QueueInv'
<1>1. /\ Len(port) \in Nat \ {0} /\ Len(port') = Len(port) - 1 /\ port[1] = j
      /\ \A i \in 1..Len(port') : port'[i] = port[i + 1] /\ i + 1 \in 2..Len(port)
  BY PortTail
<1>2. stack # <<>> /\ j \in Jobs
  BY PortTail DEF AtTop
<1>3. fate[j] = "port" /\ j <= sent
  BY <1>1 DEF QueueInv, PortFits
<1>4. fate'[j] = "parked" /\ \A a \in Jobs \ {j} : fate'[a] = fate[a]
  BY <1>2 DEF Types, JobsOK
<1>5. /\ Len(stack) \in Nat \ {0} /\ Len(stack') = Len(stack)
      /\ \A i \in 1..Len(stack) : stack'[i].what = stack[i].what /\ stack'[i].job = stack[i].job
      /\ stack'[Len(stack)].at = "turn"
  <2>1. StackOK /\ "turn" \in Places
    BY DEF Types, Places
  <2> QED BY <1>2, <2>1, MoveNames
<1>6. \A i \in 1..Len(port) : i # 1 /\ port[i] # CloseJob => port[i] \in Jobs \ {j} /\ j < port[i]
  <2> SUFFICES ASSUME NEW i \in 1..Len(port), i # 1, port[i] # CloseJob
               PROVE  port[i] \in Jobs \ {j} /\ j < port[i]
    OBVIOUS
  <2>1. port[1] < port[i]
    BY <1>1 DEF QueueInv, PortGrows
  <2> QED BY <2>1, <1>1, <1>2, Entries, JobNumbers
<1>7. /\ Len(pending) \in Nat /\ Len(pending') = Len(pending) + 1
      /\ \A i \in 1..Len(pending) : pending'[i] = pending[i]
      /\ pending'[Len(pending) + 1] = j
  BY <1>2, AppendProperties, Entries DEF Types, QueuesOK
<1>8. \A i \in 1..Len(pending) : pending[i] \in Jobs \ {j} /\ pending[i] < j
  <2> SUFFICES ASSUME NEW i \in 1..Len(pending) PROVE pending[i] \in Jobs \ {j} /\ pending[i] < j
    OBVIOUS
  <2>1. pending[i] < port[1]
    BY <1>1 DEF QueueInv, PendingFirst
  <2> QED BY <2>1, <1>1, <1>2, Entries, JobNumbers
<1> USE DEF QueueInv
<1>q1. Fresh'
  BY <1>2, <1>3, <1>4, JobNumbers DEF Fresh, Types, JobsOK
<1>q2. PortFits'
  BY <1>1, <1>4, <1>6 DEF PortFits
<1>q3. PortGrows'
  BY <1>1 DEF PortGrows
<1>q4. PortHolds'
  <2> SUFFICES ASSUME NEW a \in Jobs, fate'[a] = "port" PROVE \E i \in 1..Len(port') : port'[i] = a
    BY DEF PortHolds
  <2>1. a # j /\ fate[a] = "port"
    BY <1>4
  <2>2. PICK i \in 1..Len(port) : port[i] = a
    BY <2>1 DEF PortHolds
  <2>3. i - 1 \in 1..Len(port') /\ port'[i - 1] = port[i]
    BY <2>1, <2>2, <1>1
  <2> QED BY <2>2, <2>3
<1>q5. PendingFits'
  BY <1>2, <1>3, <1>4, <1>7, <1>8 DEF PendingFits, IsControl
<1>q6. PendingGrows'
  <2> SUFFICES ASSUME NEW i \in 1..Len(pending'), NEW k \in 1..Len(pending'), i < k
               PROVE  pending'[i] < pending'[k]
    BY DEF PendingGrows
  <2>1. i \in 1..Len(pending)
    BY <1>7
  <2>2. CASE k = Len(pending) + 1
    BY <2>1, <2>2, <1>7, <1>8
  <2>3. CASE k \in 1..Len(pending)
    BY <2>1, <2>3, <1>7 DEF PendingGrows
  <2> QED BY <2>2, <2>3, <1>7
<1>q7. PendingHolds'
  <2> SUFFICES ASSUME NEW a \in Jobs, fate'[a] = "parked" PROVE \E i \in 1..Len(pending') : pending'[i] = a
    BY DEF PendingHolds
  <2>1. CASE a = j
    BY <2>1, <1>7
  <2>2. CASE a # j
    <3>1. PICK i \in 1..Len(pending) : pending[i] = a
      BY <2>2, <1>4 DEF PendingHolds
    <3> QED BY <3>1, <1>7
  <2> QED BY <2>1, <2>2
<1>q8. PendingFirst'
  <2> SUFFICES ASSUME NEW i \in 1..Len(pending'), NEW k \in 1..Len(port'), port'[k] # CloseJob
               PROVE  pending'[i] < port'[k]
    BY DEF PendingFirst
  <2>1. port'[k] = port[k + 1] /\ k + 1 \in 1..Len(port) /\ k + 1 # 1
    BY <1>1
  <2>2. CASE i = Len(pending) + 1
    BY <2>1, <2>2, <1>6, <1>7
  <2>3. CASE i \in 1..Len(pending)
    BY <2>1, <2>3, <1>7 DEF PendingFirst
  <2> QED BY <2>2, <2>3, <1>7
<1>q9. JobFrames'
  BY <1>2, <1>3, <1>4, <1>5 DEF JobFrames, IsControl
<1>q9a. RunningHolds'
  BY <1>4, <1>5 DEF RunningHolds
<1>q10. ParkedIdle'
  BY <1>5 DEF ParkedIdle, AtTop, Top
<1>q11. JobsRunInOrder'
  BY <1>3, <1>4 DEF JobsRunInOrder, Begun, IsControl
<1> QED BY <1>q1, <1>q2, <1>q3, <1>q4, <1>q5, <1>q6, <1>q7, <1>q8, <1>q9, <1>q9a, <1>q10, <1>q11

(* The oldest deferred job gets its turn.                                  *)
LEMMA DrainKeepsQueues ==
  ASSUME Types, Shape(stack), QueueInv, pending # <<>>, AtTop("turn"), CanRunJobs,
         Run(Head(pending), stack), pending' = Tail(pending),
         UNCHANGED <<sent, kind, port, overruns>>
  PROVE  QueueInv'
<1> DEFINE j == Head(pending)
<1>1. /\ Len(pending) \in Nat \ {0} /\ Len(pending') = Len(pending) - 1 /\ pending[1] = j
      /\ \A i \in 1..Len(pending') : pending'[i] = pending[i + 1] /\ i + 1 \in 2..Len(pending)
      /\ j \in Jobs
  BY PendingTail
<1> HIDE DEF j
<1>2. fate[j] = "parked" /\ j <= sent /\ ~IsControl(j)
  BY <1>1 DEF QueueInv, PendingFits, IsControl
<1>3. fate'[j] = "running" /\ \A a \in Jobs \ {j} : fate'[a] = fate[a]
  BY <1>1 DEF Run, Types, JobsOK, j
<1>4. /\ Len(stack) \in Nat /\ Len(stack') = Len(stack) + 1
      /\ \A i \in 1..Len(stack) : stack'[i] = stack[i]
      /\ stack'[Len(stack) + 1] = Frame("job", j, "check")
  <2>1. Frame("job", j, "check") \in Frames /\ stack \in Seq(Frames)
    BY <1>1 DEF Frame, Frames, Types, StackOK
  <2>2. stack' = Append(stack, Frame("job", j, "check"))
    BY <1>2 DEF Run, j
  <2> QED BY <2>1, <2>2, PushFrames
<1>5. \A i \in 1..Len(pending) : i # 1 => pending[i] \in Jobs \ {j} /\ j < pending[i]
  <2> SUFFICES ASSUME NEW i \in 1..Len(pending), i # 1 PROVE pending[i] \in Jobs \ {j} /\ j < pending[i]
    OBVIOUS
  <2>1. pending[1] < pending[i]
    BY <1>1 DEF QueueInv, PendingGrows
  <2> QED BY <2>1, <1>1, Entries, JobNumbers
<1>6. \A i \in 1..Len(port) : port[i] # CloseJob => port[i] \in Jobs \ {j} /\ j < port[i]
  <2> SUFFICES ASSUME NEW i \in 1..Len(port), port[i] # CloseJob PROVE port[i] \in Jobs \ {j} /\ j < port[i]
    OBVIOUS
  <2>1. pending[1] < port[i]
    BY <1>1 DEF QueueInv, PendingFirst
  <2> QED BY <2>1, <1>1, Entries, JobNumbers
<1>7. \A a \in Jobs : a # j /\ fate[a] \in {"port", "parked"} => j < a
  BY <1>1, <1>5, <1>6, JobNumbers DEF QueueInv, PortHolds, PendingHolds
<1> USE DEF QueueInv
<1>q1. Fresh'
  BY <1>1, <1>2, <1>3, JobNumbers DEF Fresh, Types, JobsOK
<1>q2. PortFits'
  BY <1>3, <1>6 DEF PortFits
<1>q3. PortGrows'
  BY DEF PortGrows
<1>q4. PortHolds'
  BY <1>2, <1>3 DEF PortHolds
<1>q5. PendingFits'
  BY <1>1, <1>3, <1>5 DEF PendingFits
<1>q6. PendingGrows'
  BY <1>1 DEF PendingGrows
<1>q7. PendingHolds'
  <2> SUFFICES ASSUME NEW a \in Jobs, fate'[a] = "parked" PROVE \E i \in 1..Len(pending') : pending'[i] = a
    BY DEF PendingHolds
  <2>1. a # j /\ fate[a] = "parked"
    BY <1>3
  <2>2. PICK i \in 1..Len(pending) : pending[i] = a
    BY <2>1 DEF PendingHolds
  <2>3. i - 1 \in 1..Len(pending') /\ pending'[i - 1] = pending[i]
    BY <2>1, <2>2, <1>1
  <2> QED BY <2>2, <2>3
<1>q8. PendingFirst'
  BY <1>1 DEF PendingFirst
<1>q9. JobFrames'
  <2>1. ASSUME NEW i \in 1..Len(stack), stack[i].what \in {"job", "control"}
        PROVE  /\ stack[i].job \in Jobs \ {j} /\ stack[i].job <= sent
               /\ fate'[stack[i].job] = "running"
               /\ (stack[i].what = "control") = IsControl(stack[i].job)
    BY <1>2, <1>3, <2>1 DEF JobFrames
  <2>2. /\ stack'[Len(stack) + 1].job = j /\ stack'[Len(stack) + 1].what = "job"
    BY <1>4 DEF Frame
  <2> SUFFICES ASSUME NEW i \in 1..Len(stack'), stack'[i].what \in {"job", "control"}
               PROVE  /\ stack'[i].job \in Jobs /\ stack'[i].job <= sent
                      /\ fate'[stack'[i].job] = "running"
                      /\ (stack'[i].what = "control") = IsControl(stack'[i].job)
    BY DEF JobFrames, IsControl
  <2>3. CASE i = Len(stack) + 1
    <3>1. stack'[i].job = j /\ stack'[i].what = "job"
      BY <2>2, <2>3
    <3>2. (stack'[i].what = "control") = FALSE /\ IsControl(stack'[i].job) = FALSE
      BY <3>1, <1>2 DEF IsControl
    <3> QED BY <3>1, <3>2, <1>1, <1>2, <1>3
  <2>4. CASE i \in 1..Len(stack)
    BY <2>1, <2>4, <1>4
  <2> QED BY <2>3, <2>4, <1>4
<1>q9a. RunningHolds'
  <2> SUFFICES ASSUME NEW a \in Jobs, fate'[a] = "running"
               PROVE  \E i \in 1..Len(stack') : stack'[i].job = a
    BY DEF RunningHolds
  <2>1. CASE a = j
    BY <2>1, <1>4 DEF Frame
  <2>2. CASE a # j
    <3>1. PICK i \in 1..Len(stack) : stack[i].job = a
      BY <2>2, <1>3 DEF RunningHolds
    <3> QED BY <3>1, <1>4
  <2> QED BY <2>1, <2>2
<1>q10. ParkedIdle'
  BY <1>4 DEF ParkedIdle, AtTop, Top, Frame
<1>q11. JobsRunInOrder'
  <2> SUFFICES ASSUME NEW a \in Jobs, NEW k \in Jobs, a < k, overruns = 0,
                      ~IsControl(a), ~IsControl(k), fate'[k] \in {"running", "done"}
               PROVE  fate'[a] \notin {"port", "parked"}
    BY DEF JobsRunInOrder, Begun, IsControl
  <2>1. CASE k = j
    BY <2>1, <1>1, <1>3, <1>7, JobNumbers
  <2>2. CASE k # j
    BY <2>2, <1>3 DEF JobsRunInOrder, Begun
  <2> QED BY <2>1, <2>2
<1> QED BY <1>q1, <1>q2, <1>q3, <1>q4, <1>q5, <1>q6, <1>q7, <1>q8, <1>q9, <1>q9a, <1>q10, <1>q11

(* A step that only moves the top frame, pushes a frame that is no job's   *)
(* or pops one, keeps the queues if the frames still fit.                  *)
LEMMA StackKeepsQueues ==
  ASSUME QueueInv, JobFrames', RunningHolds', ParkedIdle', overruns' = 0 => overruns = 0,
         UNCHANGED <<sent, kind, fate, port, pending>>
  PROVE  QueueInv'
<1> USE DEF QueueInv
<1>q1. Fresh'
  BY DEF Fresh
<1>q2. PortFits' /\ PortGrows' /\ PortHolds'
  BY DEF PortFits, PortGrows, PortHolds
<1>q5. PendingFits' /\ PendingGrows' /\ PendingHolds' /\ PendingFirst'
  BY DEF PendingFits, PendingGrows, PendingHolds, PendingFirst
<1>q11. JobsRunInOrder'
  BY DEF JobsRunInOrder, Begun, IsControl
<1> QED BY <1>q1, <1>q2, <1>q5, <1>q11

LEMMA MoveKeepsQueues ==
  ASSUME Types, Shape(stack), QueueInv, stack # <<>>, NEW where \in Places, stack' = MoveTo(where),
         where = "park" /\ CanRunJobs => pending = <<>> \/ overruns' # 0,
         overruns' = 0 => overruns = 0, UNCHANGED <<sent, kind, fate, port, pending>>
  PROVE  QueueInv'
<1>1. /\ Len(stack) \in Nat \ {0} /\ Len(stack') = Len(stack)
      /\ \A i \in 1..Len(stack) : stack'[i].what = stack[i].what /\ stack'[i].job = stack[i].job
      /\ stack'[Len(stack)].at = where
  <2>1. StackOK
    BY DEF Types
  <2> QED BY <2>1, MoveNames
<1>2. JobFrames' /\ RunningHolds'
  BY <1>1 DEF QueueInv, JobFrames, RunningHolds, IsControl
<1>3. ParkedIdle'
  BY <1>1 DEF ParkedIdle, AtTop, Top, CanRunJobs, InFrame
<1> QED BY <1>2, <1>3, StackKeepsQueues

LEMMA PushKeepsQueues ==
  ASSUME Types, Shape(stack), QueueInv, NEW frame \in Frames,
         frame.what \in {"load", "dialog"}, frame.at # "park", stack' = Push(frame),
         UNCHANGED <<sent, kind, fate, port, pending, overruns>>
  PROVE  QueueInv'
<1>1. /\ Len(stack) \in Nat /\ Len(stack') = Len(stack) + 1
      /\ \A i \in 1..Len(stack) : stack'[i] = stack[i]
      /\ stack'[Len(stack) + 1] = frame
  <2>1. stack \in Seq(Frames) /\ stack' = Append(stack, frame)
    BY DEF Types, StackOK, Push
  <2> QED BY <2>1, PushFrames
<1>2. JobFrames' /\ RunningHolds'
  BY <1>1 DEF QueueInv, JobFrames, RunningHolds, IsControl
<1>3. ParkedIdle'
  BY <1>1 DEF ParkedIdle, AtTop, Top
<1> QED BY <1>2, <1>3, StackKeepsQueues

LEMMA PopKeepsQueues ==
  ASSUME Types, Shape(stack), QueueInv, stack # <<>>, Top.what \notin {"job", "control"}, stack' = Below,
         UNCHANGED <<sent, kind, fate, port, pending, overruns>>
  PROVE  QueueInv'
<1>1. /\ Len(stack) \in Nat \ {0} /\ Len(stack') = Len(stack) - 1
      /\ \A i \in 1..(Len(stack) - 1) : stack'[i] = stack[i]
  <2>1. StackOK
    BY DEF Types
  <2> QED BY <2>1, PopFrames
<1>2. JobFrames'
  BY <1>1 DEF QueueInv, JobFrames, IsControl
<1>2a. RunningHolds'
  <2>1. Top.job = NoJob /\ Top = stack[Len(stack)]
    BY <1>1 DEF Shape, Top
  <2> SUFFICES ASSUME NEW a \in Jobs, fate[a] = "running"
               PROVE  \E i \in 1..Len(stack') : stack'[i].job = a
    BY DEF RunningHolds
  <2>2. PICK i \in 1..Len(stack) : stack[i].job = a
    BY DEF QueueInv, RunningHolds
  <2>3. i # Len(stack)
    BY <2>1, <2>2, JobNumbers DEF NoJob
  <2> QED BY <2>2, <2>3, <1>1
<1>3. ParkedIdle'
  <2> SUFFICES ASSUME stack' # <<>>, stack'[Len(stack')].at = "park" PROVE FALSE
    BY DEF ParkedIdle, AtTop, Top
  <2>1. Len(stack') # 0
    <3>1. stack' \in Seq(Frames)
      BY PopKeepsShape DEF Shape
    <3> QED BY <3>1, EmptySeq
  <2>2. Len(stack') \in 1..(Len(stack) - 1) /\ stack'[Len(stack')] = stack[Len(stack) - 1]
    BY <1>1, <2>1
  <2> QED BY <1>1, <2>2 DEF Shape
<1> QED BY <1>2, <1>2a, <1>3, StackKeepsQueues

(* The job on top ends, one way or the other: no other frame is its.       *)
LEMMA EndKeepsQueues ==
  ASSUME Types, Shape(stack), QueueInv, stack # <<>>, Top.what \in {"job", "control"},
         NEW f \in {"done", "skipped"}, fate' = [fate EXCEPT ![Top.job] = f], stack' = Below,
         UNCHANGED <<sent, kind, port, pending, overruns>>
  PROVE  QueueInv'
<1> DEFINE j == Top.job
<1>1. /\ Len(stack) \in Nat \ {0} /\ Len(stack') = Len(stack) - 1
      /\ \A i \in 1..(Len(stack) - 1) : stack'[i] = stack[i]
  <2>1. StackOK
    BY DEF Types
  <2> QED BY <2>1, PopFrames
<1>2. /\ j \in Jobs /\ j <= sent /\ fate[j] = "running"
      /\ (Top.what = "control") = IsControl(j)
  BY <1>1 DEF QueueInv, JobFrames, Top
<1>3. fate'[j] = f /\ \A a \in Jobs \ {j} : fate'[a] = fate[a]
  BY <1>2 DEF Types, JobsOK
<1>4. \A i \in 1..(Len(stack) - 1) : stack[i].what \in {"job", "control"} => stack[i].job # j
  <2> SUFFICES ASSUME NEW i \in 1..(Len(stack) - 1), stack[i].what \in {"job", "control"}, stack[i].job = j
               PROVE  FALSE
    OBVIOUS
  <2>1. i \in 1..Len(stack) /\ i < Len(stack) /\ Len(stack) \in 1..Len(stack)
    BY <1>1
  <2>2. stack[i].what = "job"
    BY <2>1 DEF Shape
  <2>3. ~IsControl(stack[i].job)
    BY <2>1, <2>2 DEF QueueInv, JobFrames
  <2>4. Top.what = "job"
    BY <2>3, <1>2
  <2> QED BY <2>1, <2>2, <2>4 DEF Shape, Top
<1> HIDE DEF j
<1> USE DEF QueueInv
<1>q1. Fresh'
  BY <1>2, <1>3, JobNumbers DEF Fresh, Types, JobsOK
<1>q2. PortFits'
  BY <1>2, <1>3, Entries DEF PortFits
<1>q3. PortGrows'
  BY DEF PortGrows
<1>q4. PortHolds'
  BY <1>3 DEF PortHolds
<1>q5. PendingFits'
  BY <1>2, <1>3, Entries DEF PendingFits
<1>q6. PendingGrows'
  BY DEF PendingGrows
<1>q7. PendingHolds'
  BY <1>3 DEF PendingHolds
<1>q8. PendingFirst'
  BY DEF PendingFirst
<1>q9. JobFrames'
  BY <1>1, <1>3, <1>4 DEF JobFrames, IsControl
<1>q9a. RunningHolds'
  <2> SUFFICES ASSUME NEW a \in Jobs, fate'[a] = "running"
               PROVE  \E i \in 1..Len(stack') : stack'[i].job = a
    BY DEF RunningHolds
  <2>1. a # j /\ fate[a] = "running"
    BY <1>3
  <2>2. PICK i \in 1..Len(stack) : stack[i].job = a
    BY <2>1 DEF RunningHolds
  <2>3. i # Len(stack)
    BY <2>1, <2>2 DEF j, Top
  <2> QED BY <2>2, <2>3, <1>1
<1>q10. ParkedIdle'
  <2> SUFFICES ASSUME stack' # <<>>, stack'[Len(stack')].at = "park" PROVE FALSE
    BY DEF ParkedIdle, AtTop, Top
  <2>1. Len(stack') # 0
    <3>1. stack' \in Seq(Frames)
      BY PopKeepsShape DEF Shape
    <3> QED BY <3>1, EmptySeq
  <2>2. Len(stack') \in 1..(Len(stack) - 1) /\ stack'[Len(stack')] = stack[Len(stack) - 1]
    BY <1>1, <2>1
  <2> QED BY <1>1, <2>2 DEF Shape
<1>q11. JobsRunInOrder'
  BY <1>2, <1>3 DEF JobsRunInOrder, Begun, IsControl
<1> QED BY <1>q1, <1>q2, <1>q3, <1>q4, <1>q5, <1>q6, <1>q7, <1>q8, <1>q9, <1>q9a, <1>q10, <1>q11

(* The thread unwinds: nothing is queued, nothing is on the stack.         *)
LEMMA DropKeepsQueues ==
  ASSUME Types, QueueInv, DropPage
  PROVE  QueueInv'
<1>1. /\ port' = <<>> /\ pending' = <<>> /\ stack' = <<>> /\ UNCHANGED <<sent, kind, overruns>>
      /\ fate' = [j \in Jobs |-> IF fate[j] \in {"port", "parked", "running"} THEN "dropped" ELSE fate[j]]
  BY DEF DropPage
<1>2. Len(port') = 0 /\ Len(pending') = 0 /\ Len(stack') = 0
  BY <1>1, EmptySeq
<1>3. \A j \in Jobs : /\ fate'[j] \notin {"port", "parked", "running"}
                      /\ fate[j] = "unsent" => fate'[j] = "unsent"
  BY <1>1
<1> USE DEF QueueInv
<1>q1. Fresh'
  BY <1>1, <1>3 DEF Fresh
<1>q2. PortFits' /\ PortGrows' /\ PortHolds'
  BY <1>2, <1>3 DEF PortFits, PortGrows, PortHolds
<1>q3. PendingFits' /\ PendingGrows' /\ PendingHolds' /\ PendingFirst'
  BY <1>2, <1>3 DEF PendingFits, PendingGrows, PendingHolds, PendingFirst
<1>q4. JobFrames' /\ RunningHolds' /\ ParkedIdle'
  BY <1>1, <1>2, <1>3 DEF JobFrames, RunningHolds, ParkedIdle, AtTop
<1>q5. JobsRunInOrder'
  BY <1>3 DEF JobsRunInOrder
<1> QED BY <1>q1, <1>q2, <1>q3, <1>q4, <1>q5

-----------------------------------------------------------------------------
(***************************************************************************)
(* The drivers' steps, and the epilogue's, leave the page's own state      *)
(* alone, but for what they send.                                          *)
(***************************************************************************)
PageState == <<sent, kind, fate, port, pending, stack, overruns>>

LEMMA QuietKeepsQueues == ASSUME QueueInv, UNCHANGED PageState PROVE QueueInv'
<1> USE DEF QueueInv, PageState
<1>1. JobFrames' /\ RunningHolds' /\ ParkedIdle'
  BY DEF JobFrames, RunningHolds, ParkedIdle, IsControl, AtTop, Top, CanRunJobs, InFrame
<1> QED BY <1>1, StackKeepsQueues

LEMMA DriverSteps ==
  ASSUME NEW c \in Callers, Types
  PROVE  /\ \A k \in Kinds : Call(c, k) => Enqueue(k, c) \/ UNCHANGED PageState
         /\ Raise(c) => UNCHANGED PageState
         /\ Post(c) => Enqueue("ordinary", Nobody)
         /\ CallerStep(c) => UNCHANGED PageState
BY DEF Raise, Call, Post, CallerStep, GetReply, TimeOut, Abandon, LastLook, Disconnected, Gone, Return,
       PageState, jobVars, loopVars

LEMMA OtherSteps ==
  /\ \A k \in Closers : CloserStep(k) => UNCHANGED PageState
  /\ \A a \in Answerers : Offer(a) \/ Withdraw(a) => UNCHANGED PageState
  /\ Epilogue => UNCHANGED PageState
BY DEF CloserStep, TakeJoin, JoinExited, Detach, Offer, Withdraw, Epilogue, StoreCrash, MarkClosed,
       Exit, EpilogueOnly, PageState, jobVars, loopVars

-----------------------------------------------------------------------------
(***************************************************************************)
(* Every step keeps the stack's shape.                                     *)
(***************************************************************************)
LEMMA TopOfShape ==
  ASSUME Shape(stack), stack # <<>>
  PROVE  /\ Len(stack) \in Nat \ {0} /\ Top \in Frames /\ Top = stack[Len(stack)]
         /\ Top.at \notin {"check", "script"} => Top.what # "control"
         /\ Top.at = "check" => Top.what \in {"job", "control"}
         /\ Top.at \in Asks => Top.what = "dialog"
<1>1. Len(stack) \in Nat \ {0}
  BY EmptySeq DEF Shape
<1>2. Top = stack[Len(stack)] /\ Len(stack) \in 1..Len(stack) /\ stack[Len(stack)] \in Frames
  BY <1>1, ElementOfSeq DEF Shape, Top
<1> QED BY <1>1, <1>2 DEF Shape, Frames, Asks

LEMMA RunKeepsShape ==
  ASSUME NEW j \in Jobs, NEW under, Shape(under), Run(j, under),
         Len(under) > 0 => under[Len(under)].at \in {"turn", "script"} /\ under[Len(under)].what # "control",
         ~IsControl(j) => \A i \in 1..Len(under) : under[i].what # "job"
  PROVE  Shape(stack')
<1> DEFINE f == Frame(IF IsControl(j) THEN "control" ELSE "job", j, "check")
<1>1. /\ f \in Frames /\ f.at = "check" /\ f.what \in {"job", "control"}
      /\ f.what = "job" => ~IsControl(j)
      /\ f.at \notin Asks
  BY DEF Frame, Frames, Asks
<1>2. stack' = Append(under, f)
  BY DEF Run
<1> HIDE DEF f
<1> QED BY <1>1, <1>2, PushKeepsShape

LEMMA ShapeStep ==
  ASSUME Types, Shape(stack), QueueInv, [Next]_vars
  PROVE  Shape(stack')
<1> USE DEF AtTop
<1>0. CASE UNCHANGED stack
  BY <1>0
<1>1. ASSUME NEW c \in Callers, Raise(c) \/ (\E k \in Kinds : Call(c, k)) \/ Post(c) \/ CallerStep(c)
      PROVE  UNCHANGED stack
  BY <1>1, DriverSteps DEF PageState, Enqueue
<1>2. ASSUME NEW k \in Closers, Close(k) \/ CloserStep(k) PROVE UNCHANGED stack
  BY <1>2, OtherSteps DEF PageState, Close
<1>3. ASSUME (\E a \in Answerers : Offer(a) \/ Withdraw(a)) \/ Epilogue PROVE UNCHANGED stack
  BY <1>3, OtherSteps DEF PageState
<1>4. ASSUME AtTop("park") PROVE Shape(MoveTo("turn")) /\ stack # <<>>
  BY <1>4, TopOfShape, MoveKeepsShape DEF Places, Asks
<1>5. CASE ReceiveJob
  <2>1. AtTop("park") /\ port # <<>> /\ Head(port) \in Jobs \cup {CloseJob}
    BY <1>5, PortTail DEF ReceiveJob
  <2>2. CASE stack' = MoveTo("turn")
    BY <2>1, <2>2, <1>4
  <2>3. CASE Head(port) # CloseJob /\ (IsControl(Head(port)) \/ CanRunJobs) /\ Run(Head(port), MoveTo("turn"))
    <3>1. /\ Len(stack) \in Nat \ {0} /\ Len(MoveTo("turn")) = Len(stack)
          /\ MoveTo("turn")[Len(stack)].at = "turn" /\ MoveTo("turn")[Len(stack)].what = Top.what
          /\ \A i \in 1..Len(stack) : MoveTo("turn")[i].what = stack[i].what
      <4>1. StackOK /\ "turn" \in Places
        BY DEF Types, Places
      <4>2. Len(stack) \in 1..Len(stack) /\ Top = stack[Len(stack)]
        BY <2>1, TopOfShape
      <4> QED BY <2>1, <4>1, <4>2, MoveNames
    <3>2. Top.what # "control"
      BY <2>1, TopOfShape
    <3>3. ~IsControl(Head(port)) => \A i \in 1..Len(MoveTo("turn")) : MoveTo("turn")[i].what # "job"
      BY <2>3, <3>1 DEF CanRunJobs, InFrame
    <3>4. Shape(MoveTo("turn"))
      BY <2>1, <1>4
    <3>5. Head(port) \in Jobs
      BY <2>1, <2>3
    <3> DEFINE m == MoveTo("turn")
               j == Head(port)
    <3>6. /\ Shape(m) /\ j \in Jobs /\ Run(j, m)
          /\ Len(m) > 0 => m[Len(m)].at \in {"turn", "script"} /\ m[Len(m)].what # "control"
          /\ ~IsControl(j) => \A i \in 1..Len(m) : m[i].what # "job"
      BY <2>3, <3>1, <3>2, <3>3, <3>4, <3>5
    <3> HIDE DEF m, j
    <3> QED BY <3>6, RunKeepsShape
  <2> QED BY <1>5, <2>2, <2>3 DEF ReceiveJob, Accept
<1>6. CASE Wake
  BY <1>6, <1>4 DEF Wake
<1>7. CASE CheckFlag
  <2>1. AtTop("check") /\ (stack' = Below \/ stack' = MoveTo("script"))
    BY <1>7 DEF CheckFlag
  <2>2. "script" \in Places \ {"check"} /\ "script" \notin Asks
    BY DEF Places, Asks
  <2> QED BY <2>1, <2>2, PopKeepsShape, MoveKeepsShape
<1>8. CASE FinishJob
  BY <1>8, PopKeepsShape DEF FinishJob
<1>9. CASE DrainCommand
  <2>1. AtTop("turn") /\ CanRunJobs /\ pending # <<>> /\ Run(Head(pending), stack)
    BY <1>9 DEF DrainCommand
  <2>2. Head(pending) \in Jobs
    BY <2>1, PendingTail
  <2>3. stack[Len(stack)].at = "turn" /\ stack[Len(stack)].what # "control"
    BY <2>1, TopOfShape
  <2>4. \A i \in 1..Len(stack) : stack[i].what # "job"
    BY <2>1 DEF CanRunJobs, InFrame
  <2> QED BY <2>1, <2>2, <2>3, <2>4, RunKeepsShape
<1>10. CASE Stall \/ Overrun
  <2>1. AtTop("turn") /\ stack' = MoveTo("park")
    BY <1>10 DEF Stall, Overrun, TurnOnly
  <2> QED BY <2>1, TopOfShape, MoveKeepsShape DEF Places, Asks
<1>11. CASE StartLoad \/ OpenDialog
  <2>1. PICK f \in {Frame("load", NoJob, "script"), Frame("dialog", NoJob, "raised")} : stack' = Append(stack, f)
    BY <1>11 DEF StartLoad, OpenDialog, TurnOnly, DialogOnly, Push
  <2>2. stack # <<>> /\ Top.at \in {"turn", "script"} /\ Top.what # "control"
    BY <1>11, TopOfShape DEF StartLoad, OpenDialog
  <2>3. /\ f \in Frames /\ f.at # "check" /\ f.what \notin {"control", "job"} /\ f.job = NoJob
        /\ f.at \in Asks => f.what = "dialog"
    BY DEF Frame, Frames, Asks
  <2>4. stack[Len(stack)].at \in {"turn", "script"} /\ stack[Len(stack)].what # "control"
    BY <2>2 DEF Top
  <2> QED BY <2>1, <2>3, <2>4, PushKeepsShape
<1>12. CASE BeginWait \/ EndWait
  <2>1. PICK where \in {"turn", "script"} : stack' = MoveTo(where)
    BY <1>12 DEF BeginWait, EndWait, TurnOnly
  <2>2. stack # <<>> /\ Top.what # "control"
    BY <1>12 DEF BeginWait, EndWait
  <2> QED BY <2>1, <2>2, MoveKeepsShape DEF Places, Asks
<1>13. CASE FinishLoad
  BY <1>13, PopKeepsShape DEF FinishLoad, TurnOnly
<1>14. CASE DialogStep
  <2>1. CASE CloseDialog
    BY <2>1, PopKeepsShape DEF CloseDialog, DialogOnly
  <2>2. CASE ~CloseDialog
    <3>1. stack # <<>> /\ Top.at \in {"raised", "asking"}
      BY <1>14, <2>2 DEF DialogStep, AnnounceDialog, DialogTimesOut, TakeAnswer
    <3>2. PICK where \in {"asking", "answered"} : stack' = MoveTo(where)
      BY <1>14, <2>2 DEF DialogStep, AnnounceDialog, DialogTimesOut, TakeAnswer, DialogOnly
    <3>3. Top.what = "dialog"
      BY <3>1, TopOfShape DEF Asks
    <3> QED BY <3>1, <3>2, <3>3, MoveKeepsShape DEF Places
  <2> QED BY <2>1, <2>2
<1>15. CASE LeaveLoop \/ Panic
  <2>1. stack' = <<>> /\ <<>> \in Seq(Frames) /\ Len(<<>>) = 0
    BY <1>15, EmptySeq DEF LeaveLoop, Panic, DropPage
  <2> QED BY <2>1 DEF Shape
<1>16. CASE UNCHANGED vars
  BY <1>16 DEF vars, loopVars
<1> QED
  BY <1>0, <1>1, <1>2, <1>3, <1>5, <1>6, <1>7, <1>8, <1>9, <1>10, <1>11, <1>12, <1>13, <1>14,
     <1>15, <1>16 DEF Next, JobStep, TurnStep

-----------------------------------------------------------------------------
(***************************************************************************)
(* Every step keeps the queues.                                            *)
(***************************************************************************)
LEMMA QueueStep ==
  ASSUME Types, Shape(stack), QueueInv, [Next]_vars
  PROVE  QueueInv'
<1> USE DEF AtTop, PageOnly
<1>1. ASSUME NEW c \in Callers, Raise(c) \/ (\E k \in Kinds : Call(c, k)) \/ Post(c) \/ CallerStep(c)
      PROVE  QueueInv'
  BY <1>1, DriverSteps, SendKeepsQueues, QuietKeepsQueues DEF Kinds
<1>2. ASSUME NEW k \in Closers, Close(k) \/ CloserStep(k) PROVE QueueInv'
  <2>1. CASE Close(k) /\ portOpen
    BY <2>1, CloseKeepsQueues DEF Close, jobVars
  <2>2. CASE (Close(k) /\ ~portOpen) \/ CloserStep(k)
    <3>1. UNCHANGED PageState
      BY <2>2, OtherSteps DEF Close, jobVars, PageState
    <3> QED BY <3>1, QuietKeepsQueues
  <2> QED BY <1>2, <2>1, <2>2
<1>3. ASSUME (\E a \in Answerers : Offer(a) \/ Withdraw(a)) \/ Epilogue PROVE QueueInv'
  BY <1>3, OtherSteps, QuietKeepsQueues
<1>4. CASE ReceiveJob
  <2>1. /\ AtTop("park") /\ port # <<>> /\ port' = Tail(port)
        /\ UNCHANGED <<sent, kind, overruns>>
    BY <1>4 DEF ReceiveJob
  <2>2. CASE Head(port) = CloseJob
    BY <1>4, <2>1, <2>2, ReceiveCloseKeepsQueues DEF ReceiveJob
  <2>3. CASE Head(port) # CloseJob
    <3>1. Accept(Head(port))
      BY <1>4, <2>3 DEF ReceiveJob
    <3>2. CASE IsControl(Head(port)) \/ CanRunJobs
      BY <2>1, <2>3, <3>1, <3>2, ReceiveRunKeepsQueues DEF Accept
    <3>3. CASE ~IsControl(Head(port)) /\ ~CanRunJobs
      BY <2>1, <2>3, <3>1, <3>3, ReceiveParkKeepsQueues DEF Accept
    <3> QED BY <3>2, <3>3
  <2> QED BY <2>2, <2>3
<1>5. CASE Wake \/ BeginWait \/ EndWait
  <2>1. PICK where \in {"turn", "script"} : stack' = MoveTo(where)
    BY <1>5 DEF Wake, BeginWait, EndWait, TurnOnly
  <2>2. stack # <<>> /\ UNCHANGED <<sent, kind, fate, port, pending, overruns>>
    BY <1>5 DEF Wake, BeginWait, EndWait, TurnOnly, jobVars
  <2> QED BY <2>1, <2>2, MoveKeepsQueues DEF Places
<1>6. CASE CheckFlag
  <2>1. stack # <<>> /\ Top.at = "check" /\ UNCHANGED <<sent, kind, port, pending, overruns>>
    BY <1>6 DEF CheckFlag
  <2>2. CASE stack' = Below /\ fate' = [fate EXCEPT ![Top.job] = "skipped"]
    BY <2>1, <2>2, TopOfShape, EndKeepsQueues
  <2>3. CASE stack' = MoveTo("script") /\ UNCHANGED fate
    BY <2>1, <2>3, MoveKeepsQueues DEF Places
  <2> QED BY <1>6, <2>2, <2>3 DEF CheckFlag
<1>7. CASE FinishJob
  BY <1>7, EndKeepsQueues DEF FinishJob
<1>8. CASE DrainCommand
  BY <1>8, DrainKeepsQueues DEF DrainCommand
<1>9. CASE Stall
  <2>1. /\ stack # <<>> /\ stack' = MoveTo("park") /\ ~(CanRunJobs /\ pending # <<>>)
        /\ UNCHANGED <<sent, kind, fate, port, pending, overruns>>
    BY <1>9 DEF Stall, TurnOnly, jobVars
  <2> QED BY <2>1, MoveKeepsQueues DEF Places
<1>10. CASE Overrun
  <2>1. /\ stack # <<>> /\ stack' = MoveTo("park") /\ overruns' = overruns + 1
        /\ UNCHANGED <<sent, kind, fate, port, pending>>
    BY <1>10 DEF Overrun, TurnOnly, jobVars
  <2>2. overruns' # 0
    BY <2>1 DEF Types, FlagsOK
  <2> QED BY <2>1, <2>2, MoveKeepsQueues DEF Places
<1>11. CASE StartLoad \/ OpenDialog
  <2>1. PICK f \in {Frame("load", NoJob, "script"), Frame("dialog", NoJob, "raised")} : stack' = Push(f)
    BY <1>11 DEF StartLoad, OpenDialog, TurnOnly, DialogOnly
  <2>2. f \in Frames /\ f.what \in {"load", "dialog"} /\ f.at # "park"
    BY DEF Frame, Frames
  <2>3. UNCHANGED <<sent, kind, fate, port, pending, overruns>>
    BY <1>11 DEF StartLoad, OpenDialog, TurnOnly, DialogOnly, jobVars
  <2> QED BY <2>1, <2>2, <2>3, PushKeepsQueues
<1>12. CASE FinishLoad \/ CloseDialog
  <2>1. /\ stack # <<>> /\ stack' = Below
        /\ UNCHANGED <<sent, kind, fate, port, pending, overruns>>
    BY <1>12 DEF FinishLoad, CloseDialog, TurnOnly, DialogOnly, jobVars
  <2>2. Top.what \notin {"job", "control"}
    BY <1>12, <2>1, TopOfShape DEF FinishLoad, CloseDialog, Asks
  <2> QED BY <2>1, <2>2, PopKeepsQueues
<1>13. CASE AnnounceDialog \/ DialogTimesOut \/ \E a \in Answerers : TakeAnswer(a)
  <2>1. PICK where \in {"asking", "answered"} : stack' = MoveTo(where)
    BY <1>13 DEF AnnounceDialog, DialogTimesOut, TakeAnswer, DialogOnly
  <2>2. stack # <<>> /\ UNCHANGED <<sent, kind, fate, port, pending, overruns>>
    BY <1>13 DEF AnnounceDialog, DialogTimesOut, TakeAnswer, DialogOnly, jobVars
  <2> QED BY <2>1, <2>2, MoveKeepsQueues DEF Places
<1>14. CASE LeaveLoop \/ Panic
  BY <1>14, DropKeepsQueues DEF LeaveLoop, Panic
<1>15. CASE UNCHANGED vars
  BY <1>15, QuietKeepsQueues DEF vars, jobVars, loopVars, PageState
<1> QED
  BY <1>1, <1>2, <1>3, <1>4, <1>5, <1>6, <1>7, <1>8, <1>9, <1>10, <1>11, <1>12, <1>13, <1>14,
     <1>15 DEF Next, JobStep, TurnStep, DialogStep

-----------------------------------------------------------------------------
(***************************************************************************)
(* Every step keeps the types.                                             *)
(***************************************************************************)
LEMMA SendKeepsTypes ==
  ASSUME Types, NEW k \in Kinds, NEW who \in Callers \cup {Nobody}, Enqueue(k, who)
  PROVE  JobsOK' /\ QueuesOK' /\ sent' \in Jobs /\ sent' = sent + 1
<1>1. sent + 1 \in Jobs /\ sent' = sent + 1 /\ sent' \in 0..MaxJobs
  BY PageThreadAssumption DEF Types, JobsOK, Enqueue, Jobs
<1>2. JobsOK'
  BY <1>1 DEF Types, JobsOK, Enqueue, Fates
<1>3. QueuesOK'
  BY <1>1, AppendProperties DEF Types, QueuesOK, Enqueue
<1> QED BY <1>1, <1>2, <1>3

LEMMA DriversKeepTypes ==
  ASSUME Types, NEW c \in Callers, Raise(c) \/ (\E k \in Kinds : Call(c, k)) \/ Post(c) \/ CallerStep(c)
  PROVE  Types'
<1>0. ASSUME NEW k \in Kinds, Call(c, k) PROVE crossed' \in BOOLEAN
  <2>1. crossed \in BOOLEAN /\ crossed' = (crossed \/ (k = "resume" /\ \E d \in Callers : caller[d] = "raising"))
    BY <1>0 DEF Call, Types, FlagsOK
  <2> QED BY <2>1
<1>1. ASSUME NEW k \in Kinds, Call(c, k) PROVE Types'
  <2>1. CASE Enqueue(k, c) /\ call' = [call EXCEPT ![c] = sent + 1]
             /\ caller' = [caller EXCEPT ![c] = "waiting"] /\ result' = [result EXCEPT ![c] = "none"]
    <3>1. JobsOK' /\ QueuesOK' /\ sent + 1 \in Jobs
      BY <2>1, SendKeepsTypes
    <3>2. DriversOK'
      BY <1>1, <2>1, <3>1 DEF Call, Types, DriversOK, closeVars
    <3>3. StackOK' /\ FlagsOK' /\ DialogsOK'
      BY <1>1, <2>1, <1>0 DEF Call, Enqueue, Types, StackOK, FlagsOK, DialogsOK, exitVars, saidVars, closeVars, dialogVars
    <3> QED BY <3>1, <3>2, <3>3 DEF Types
  <2>2. CASE /\ UNCHANGED <<jobVars, loopVars, call>> /\ result' = [result EXCEPT ![c] = GoneNow]
             /\ caller' = [caller EXCEPT ![c] = "idle"]
    BY <1>1, <2>2, <1>0 DEF Call, GoneNow, Types, JobsOK, QueuesOK, StackOK, FlagsOK, DriversOK, DialogsOK,
                      jobVars, loopVars, exitVars, saidVars, closeVars, dialogVars
  <2> QED BY <1>1, <2>1, <2>2 DEF Call
<1>1a. CASE Raise(c)
  <2>1. crossed' = ResumeOut /\ ResumeOut \in BOOLEAN
    BY <1>1a DEF Raise, ResumeOut
  <2> QED BY <1>1a, <2>1 DEF Raise, Types, JobsOK, QueuesOK, StackOK, FlagsOK, DriversOK, DialogsOK,
                      jobVars, loopVars, exitVars, saidVars, closeVars, dialogVars
<1>2. CASE Post(c)
  <2>1. Enqueue("ordinary", Nobody)
    BY <1>2 DEF Post
  <2>2. JobsOK' /\ QueuesOK'
    BY <2>1, SendKeepsTypes DEF Kinds
  <2>3. StackOK' /\ FlagsOK' /\ DriversOK' /\ DialogsOK'
    BY <1>2, <2>1 DEF Post, Enqueue, Types, StackOK, FlagsOK, DriversOK, DialogsOK, exitVars, saidVars, callVars,
                      closeVars, dialogVars
  <2> QED BY <2>2, <2>3 DEF Types
<1>3. CASE CallerStep(c)
  <2>1. CASE TimeOut(c) \/ Disconnected(c)
    BY <2>1 DEF TimeOut, Disconnected, Types, JobsOK, QueuesOK, StackOK, FlagsOK, DriversOK, DialogsOK,
                jobVars, loopVars, exitVars, saidVars, closeVars, dialogVars
  <2>2. CASE Abandon(c)
    BY <2>2 DEF Abandon, Types, JobsOK, QueuesOK, StackOK, FlagsOK, DriversOK, DialogsOK,
                loopVars, exitVars, saidVars, closeVars, dialogVars
  <2>3. CASE GetReply(c) \/ LastLook(c) \/ Gone(c)
    <3>1. PICK answer \in {"ok", "timeout", "closed", "crashed"} : Return(c, answer)
      BY <2>3 DEF GetReply, LastLook, Gone, GoneNow
    <3> QED BY <3>1 DEF Return, Types, JobsOK, QueuesOK, StackOK, FlagsOK, DriversOK, DialogsOK,
                        jobVars, loopVars, exitVars, saidVars, closeVars, dialogVars
  <2> QED BY <1>3, <2>1, <2>2, <2>3 DEF CallerStep
<1> QED BY <1>1, <1>1a, <1>2, <1>3

LEMMA OthersKeepTypes ==
  ASSUME Types,
         \/ \E k \in Closers : Close(k) \/ CloserStep(k)
         \/ \E a \in Answerers : Offer(a) \/ Withdraw(a)
         \/ Epilogue
  PROVE  Types'
<1> USE DEF Types, JobsOK, StackOK, FlagsOK, DriversOK, DialogsOK,
            jobVars, loopVars, exitVars, saidVars, callVars, closeVars, dialogVars
<1>1. ASSUME NEW k \in Closers, Close(k) PROVE Types'
  <2>1. QueuesOK'
    BY <1>1, AppendProperties DEF Close, QueuesOK
  <2> QED BY <1>1, <2>1 DEF Close
<1>2. ASSUME NEW k \in Closers, CloserStep(k) PROVE Types'
  BY <1>2 DEF CloserStep, TakeJoin, JoinExited, Detach, QueuesOK
<1>3. ASSUME NEW a \in Answerers, Offer(a) \/ Withdraw(a) PROVE Types'
  <2>1. answerer' \in [Answerers -> Nat]
    BY <1>3 DEF Offer, Withdraw
  <2>2. UNCHANGED <<jobVars, loopVars, exitVars, saidVars, callVars, closeVars, dialogUp, dialogs, taken>>
    BY <1>3 DEF Offer, Withdraw
  <2> QED BY <2>1, <2>2 DEF QueuesOK
<1>4. CASE Epilogue
  BY <1>4 DEF Epilogue, StoreCrash, MarkClosed, Exit, EpilogueOnly, QueuesOK
<1> QED BY <1>1, <1>2, <1>3, <1>4

LEMMA PageKeepsTypes ==
  ASSUME Types, QueueInv, StackOK',
         \/ ReceiveJob \/ Wake \/ JobStep \/ TurnStep \/ StartLoad \/ Overrun
         \/ BeginWait \/ EndWait \/ FinishLoad \/ OpenDialog \/ DialogStep \/ Panic
  PROVE  Types'
<1> USE DEF Types, JobsOK, FlagsOK, DriversOK, DialogsOK, PageOnly,
            jobVars, exitVars, saidVars, callVars, closeVars, dialogVars
<1>1. CASE ReceiveJob
  <2>1. QueuesOK' /\ fate' \in [Jobs -> Fates]
    <3>1. port' \in Seq(Jobs \cup {CloseJob})
      BY <1>1, PortTail DEF ReceiveJob
    <3>2. CASE Head(port) = CloseJob
      BY <1>1, <3>1, <3>2 DEF ReceiveJob, QueuesOK
    <3>3. CASE Head(port) # CloseJob
      <4>1. Accept(Head(port)) /\ Head(port) \in Jobs
        BY <1>1, <3>3, PortTail DEF ReceiveJob
      <4>2. fate' \in [Jobs -> Fates]
        BY <4>1 DEF Accept, Run, Fates
      <4>3. pending' \in Seq(Jobs)
        <5>1. pending \in Seq(Jobs) /\ (pending' = pending \/ pending' = Append(pending, Head(port)))
          BY <4>1 DEF Accept, QueuesOK
        <5>2. \A j \in Jobs : Append(pending, j) \in Seq(Jobs)
          BY <5>1, AppendProperties
        <5> QED BY <4>1, <5>1, <5>2
      <4> QED BY <3>1, <4>2, <4>3 DEF QueuesOK
    <3> QED BY <3>2, <3>3
  <2> QED BY <1>1, <2>1 DEF ReceiveJob
<1>2. CASE JobStep
  <2>1. fate' \in [Jobs -> Fates]
    BY <1>2 DEF JobStep, CheckFlag, FinishJob, Fates
  <2>2. reply' \in [Jobs -> BOOLEAN] /\ suspended' \in BOOLEAN
    <3>1. CASE CheckFlag
      BY <3>1 DEF CheckFlag
    <3>2. CASE FinishJob
      <4>1. suspended' = ((suspended \/ kind[Top.job] = "suspend") /\ kind[Top.job] # "resume")
        BY <3>2 DEF FinishJob
      <4>2. \E b \in BOOLEAN : reply' = [reply EXCEPT ![Top.job] = b]
        BY <3>2 DEF FinishJob
      <4> QED BY <4>1, <4>2
    <3> QED BY <1>2, <3>1, <3>2 DEF JobStep
  <2>3. UNCHANGED <<sent, kind, owner, abandoned, port, portOpen, pending, batch, last, loads, overruns,
                    closing, exitVars, saidVars, callVars, closeVars, dialogVars>>
    BY <1>2 DEF JobStep, CheckFlag, FinishJob
  <2> QED BY <2>1, <2>2, <2>3 DEF QueuesOK
<1>3. CASE DrainCommand
  <2>1. QueuesOK' /\ Len(pending) \in Nat \ {0}
    BY <1>3, PendingTail DEF DrainCommand, QueuesOK
  <2>2. fate' \in [Jobs -> Fates]
    BY <1>3 DEF DrainCommand, Run, Fates
  <2>3. batch' \in Nat
    BY <1>3, <2>1 DEF DrainCommand
  <2> QED BY <1>3, <2>1, <2>2, <2>3 DEF DrainCommand
<1>4. CASE Wake \/ Stall \/ StartLoad \/ Overrun \/ BeginWait \/ EndWait \/ FinishLoad
  BY <1>4 DEF Wake, Stall, StartLoad, Overrun, BeginWait, EndWait, FinishLoad, TurnOnly, Did, QueuesOK
<1>5. CASE OpenDialog \/ DialogStep
  <2>1. taken' \subseteq Nat \X Nat /\ answerer' \in [Answerers -> Nat] /\ dialogs' \in Nat
    BY <1>5 DEF OpenDialog, DialogStep, AnnounceDialog, DialogTimesOut, CloseDialog, TakeAnswer
  <2>2. UNCHANGED <<jobVars, port, portOpen, pending, batch, last, loads, overruns, closing, suspended,
                    exitVars, saidVars, callVars, closeVars>>
    BY <1>5 DEF OpenDialog, DialogStep, AnnounceDialog, DialogTimesOut, CloseDialog, TakeAnswer, DialogOnly
  <2>3. dialogUp' \in BOOLEAN
    BY <1>5 DEF OpenDialog, DialogStep, AnnounceDialog, DialogTimesOut, CloseDialog, TakeAnswer
  <2> QED BY <2>1, <2>2, <2>3 DEF QueuesOK
<1>6. CASE LeaveLoop \/ Panic
  <2>1. QueuesOK'
    <3>1. port' = <<>> /\ pending' = <<>>
      BY <1>6 DEF LeaveLoop, Panic, DropPage
    <3> QED BY <3>1, EmptySeq DEF QueuesOK
  <2>2. fate' \in [Jobs -> Fates]
    BY <1>6 DEF LeaveLoop, Panic, DropPage, Fates
  <2>3. JobsOK'
    BY <1>6, <2>2 DEF LeaveLoop, Panic, DropPage
  <2>4. FlagsOK'
    <3>1. batch' = 0 /\ last' = "none" /\ thread' = "left" /\ portOpen' = FALSE
      BY <1>6 DEF LeaveLoop, Panic, DropPage
    <3>2. UNCHANGED <<loads, overruns, closing, suspended, crash, closed, reported, crossed, join, dialogUp>>
      BY <1>6 DEF LeaveLoop, Panic, DropPage
    <3>3. panicked' = panicked \/ panicked' = TRUE
      BY <1>6 DEF LeaveLoop, Panic
    <3> QED BY <3>1, <3>2, <3>3
  <2>5. DriversOK' /\ DialogsOK'
    BY <1>6 DEF LeaveLoop, Panic, DropPage
  <2> QED BY <2>1, <2>3, <2>4, <2>5
<1> QED BY <1>1, <1>2, <1>3, <1>4, <1>5, <1>6 DEF TurnStep

-----------------------------------------------------------------------------
(***************************************************************************)
(* The theorems.                                                           *)
(***************************************************************************)
PageInv == Types /\ Shape(stack) /\ QueueInv

LEMMA PageInvInit == Init => PageInv
<1> SUFFICES ASSUME Init PROVE PageInv
  OBVIOUS
<1> DEFINE f == Frame("loop", NoJob, "turn")
<1>1. f \in Frames /\ f.at = "turn" /\ f.what = "loop" /\ f.job = NoJob /\ "turn" \notin Asks
  BY DEF f, Frame, Frames, Asks
<1>2. stack = <<f>> /\ port = <<>> /\ pending = <<>> /\ sent = 0
  BY DEF Init
<1> HIDE DEF f
<1>3. stack \in Seq(Frames) /\ Len(stack) = 1 /\ stack[1] = f
  BY <1>1, <1>2
<1>4. Len(port) = 0 /\ Len(pending) = 0
  BY <1>2, EmptySeq
<1>5. \A j \in Jobs : fate[j] = "unsent" /\ kind[j] = "ordinary"
  BY DEF Init
<1>6. Types
  <2>1. JobsOK
    BY PageThreadAssumption DEF Init, JobsOK, Kinds, Fates
  <2>2. QueuesOK
    BY <1>2 DEF QueuesOK
  <2>3. FlagsOK /\ DriversOK /\ DialogsOK
    BY DEF Init, FlagsOK, DriversOK, DialogsOK
  <2> QED BY <1>3, <2>1, <2>2, <2>3 DEF Types, StackOK
<1>7. Shape(stack)
  BY <1>1, <1>3 DEF Shape
<1>8. QueueInv
  BY <1>1, <1>2, <1>3, <1>4, <1>5
  DEF QueueInv, Fresh, PortFits, PortGrows, PortHolds, PendingFits, PendingGrows, PendingHolds,
      PendingFirst, JobFrames, RunningHolds, ParkedIdle, JobsRunInOrder, Begun
<1> QED BY <1>6, <1>7, <1>8 DEF PageInv

LEMMA PageInvStep == PageInv /\ [Next]_vars => PageInv'
<1> SUFFICES ASSUME Types, Shape(stack), QueueInv, [Next]_vars
             PROVE  Types' /\ Shape(stack)' /\ QueueInv'
  BY DEF PageInv
<1>1. Shape(stack')
  BY ShapeStep
<1>2. StackOK'
  BY <1>1 DEF Shape, StackOK
<1>3. QueueInv'
  BY QueueStep
<1>4. Types'
  <2>1. CASE UNCHANGED vars
    BY <2>1 DEF vars, jobVars, loopVars, exitVars, saidVars, callVars, closeVars, dialogVars,
                Types, JobsOK, QueuesOK, StackOK, FlagsOK, DriversOK, DialogsOK
  <2>2. CASE Next
    BY <2>2, <1>2, DriversKeepTypes, OthersKeepTypes, PageKeepsTypes DEF Next
  <2> QED BY <2>1, <2>2
<1> QED BY <1>1, <1>3, <1>4 DEF Shape

(* Every variable keeps its type, however many jobs, loads and dialogs.    *)
THEOREM TypeCorrect == Spec => []TypeOK
<1>1. PageInv => TypeOK
  <2> SUFFICES ASSUME PageInv PROVE FatesFit
    BY TypesAreTypeOK DEF PageInv
  <2> USE DEF PageInv, QueueInv
  <2>1. \A j \in Jobs : fate[j] = "port" <=> \E i \in 1..Len(port) : port[i] = j
    BY JobNumbers DEF PortFits, PortHolds
  <2>2. \A j \in Jobs : fate[j] = "parked" <=> \E i \in 1..Len(pending) : pending[i] = j
    BY DEF PendingFits, PendingHolds
  <2>3. \A j \in Jobs : fate[j] = "running" <=> \E i \in 1..Len(stack) : stack[i].job = j
    BY JobNumbers DEF JobFrames, RunningHolds, Shape, NoJob
  <2> QED BY <2>1, <2>2, <2>3 DEF FatesFit
<1> QED BY <1>1, PageInvInit, PageInvStep, PTL DEF Spec

(* Ordinary jobs begin in the order they were sent, for any number of      *)
(* callers and jobs, and however deep the waits are nested, as long as no  *)
(* turn of the loop met its deadline.                                      *)
THEOREM JobsBeginInOrder == Spec => []JobsRunInOrder
<1>1. PageInv => JobsRunInOrder
  BY DEF PageInv, QueueInv
<1> QED BY <1>1, PageInvInit, PageInvStep, PTL DEF Spec

-----------------------------------------------------------------------------
(***************************************************************************)
(* What the handle says of a suspended page. Control jobs never nest, so   *)
(* they begin and end in the order they were sent. While no `suspend` was  *)
(* on its way when a `resume` was out, every suspension was asked for      *)
(* before the `resume`s that are out, and when one of those is answered is *)
(* over, or will never be.                                                 *)
(***************************************************************************)

(* A control job that runs is the top frame: nothing runs inside it.       *)
ControlOnTop ==
  \A j \in Jobs : IsControl(j) /\ fate[j] = "running" =>
    stack # <<>> /\ Top.what = "control" /\ Top.job = j

(* Control jobs begin and end in the order they were sent.                 *)
ControlsInOrder ==
  \A a, b \in Jobs :
    a < b /\ IsControl(a) /\ IsControl(b) /\ fate[b] \in {"running", "done"}
      => fate[a] \notin {"port", "parked", "running"}

CallsFit ==
  \A c \in Callers :
    /\ call[c] <= sent
    /\ Out(c) => call[c] \in Jobs

AnsweredIsDone == \A j \in Jobs : reply[j] => fate[j] = "done"

(* A `resume` no suspension has followed left the page running.            *)
LastResumeHolds ==
  \A j \in Jobs :
    /\ kind[j] = "resume" /\ fate[j] = "done"
    /\ \A k \in Jobs : j < k /\ kind[k] = "suspend" => fate[k] # "done"
    => ~suspended

(* Nobody asks for a suspension while a `resume` is out.                   *)
ResumesAreLast ==
  \A c \in Callers : Out(c) /\ kind[call[c]] = "resume" =>
    /\ \A d \in Callers : caller[d] # "raising"
    /\ \A k \in Jobs : kind[k] = "suspend" => k < call[c]

(* A suspension on its way is reported already.                            *)
ComingIsReported ==
  /\ \A d \in Callers : caller[d] = "raising" => reported
  /\ \A j \in Jobs : kind[j] = "suspend" /\ fate[j] \in {"port", "running"} => reported

ReportsFit == ~crossed => ResumesAreLast /\ ComingIsReported /\ (suspended => reported)

ReportInv ==
  /\ ControlOnTop /\ ControlsInOrder /\ CallsFit
  /\ AnsweredIsDone /\ LastResumeHolds /\ ReportsFit

LEMMA NoControlRuns ==
  ASSUME ControlOnTop, Top.what # "control", NEW j \in Jobs, IsControl(j)
  PROVE  fate[j] # "running"
BY DEF ControlOnTop

(* Steps that touch neither a job nor a call, and send nobody out.         *)
Calls == <<sent, kind, fate, reply, suspended, reported, crossed, call>>

StaysOut ==
  \A c \in Callers :
    /\ Out(c)' => Out(c)
    /\ caller'[c] = "raising" => caller[c] = "raising"

LEMMA QuietKeepsReport ==
  ASSUME ReportInv, UNCHANGED Calls, ControlOnTop', StaysOut
  PROVE  ReportInv'
<1> USE DEF ReportInv, Calls, StaysOut
<1>1. ControlsInOrder' /\ AnsweredIsDone' /\ LastResumeHolds'
  BY DEF ControlsInOrder, AnsweredIsDone, LastResumeHolds, IsControl
<1>2. CallsFit'
  BY DEF CallsFit
<1>3. ReportsFit'
  BY DEF ReportsFit, ResumesAreLast, ComingIsReported
<1> QED BY <1>1, <1>2, <1>3

(* A call, or a job nobody waits for, is sent.                             *)
LEMMA SendKeepsReport ==
  ASSUME Types, QueueInv, ReportInv, NEW k \in Kinds, NEW who, Enqueue(k, who), CallsFit', ReportsFit'
  PROVE  ReportInv'
<1> DEFINE n == sent + 1
<1>1. n \in Jobs /\ sent' = n /\ sent \in Nat
  BY PageThreadAssumption DEF Types, JobsOK, Enqueue, Jobs
<1>2. /\ kind'[n] = k /\ fate'[n] = "port"
      /\ \A j \in Jobs \ {n} : kind'[j] = kind[j] /\ fate'[j] = fate[j]
      /\ UNCHANGED <<reply, suspended, stack>>
  BY <1>1 DEF Types, JobsOK, Enqueue
<1>3. fate[n] = "unsent" /\ kind[n] = "ordinary" /\ \A j \in Jobs : j > n => fate[j] = "unsent"
  BY <1>1, JobNumbers DEF QueueInv, Fresh
<1> HIDE DEF n
<1> USE DEF ReportInv
<1>q1. ControlOnTop'
  BY <1>2 DEF ControlOnTop, IsControl, Top
<1>q2. ControlsInOrder'
  BY <1>1, <1>2, <1>3, JobNumbers DEF ControlsInOrder, IsControl
<1>q4. AnsweredIsDone'
  BY <1>2, <1>3 DEF AnsweredIsDone
<1>q5. LastResumeHolds'
  <2> SUFFICES ASSUME NEW j \in Jobs, kind'[j] = "resume", fate'[j] = "done",
                      \A b \in Jobs : j < b /\ kind'[b] = "suspend" => fate'[b] # "done"
               PROVE  ~suspended
    BY <1>2 DEF LastResumeHolds
  <2>1. j # n /\ kind[j] = "resume" /\ fate[j] = "done"
    BY <1>2
  <2>2. \A b \in Jobs : j < b /\ kind[b] = "suspend" => fate[b] # "done"
    BY <1>2, <1>3
  <2> QED BY <2>1, <2>2 DEF LastResumeHolds
<1> QED BY <1>q1, <1>q2, <1>q4, <1>q5

(* `suspend` raises the copy: from here on it is on its way.               *)
LEMMA RaiseKeepsReport ==
  ASSUME Types, ReportInv, NEW c \in Callers, Raise(c)
  PROVE  ReportInv'
<1>1. UNCHANGED <<sent, kind, fate, reply, suspended, call, stack>> /\ reported' = TRUE /\ crossed' = ResumeOut
  BY DEF Raise, jobVars, loopVars
<1>2. caller'[c] = "raising" /\ \A d \in Callers \ {c} : caller'[d] = caller[d]
  BY DEF Raise, Types, DriversOK
<1>3. \A d \in Callers : Out(d)' => Out(d)
  BY <1>2 DEF Out
<1>4. ControlOnTop' /\ ControlsInOrder' /\ CallsFit' /\ AnsweredIsDone' /\ LastResumeHolds'
  BY <1>1, <1>3 DEF ReportInv, ControlOnTop, ControlsInOrder, CallsFit, AnsweredIsDone, LastResumeHolds,
                    IsControl, Top
<1>5. ~crossed' => ResumesAreLast'
  BY <1>1, <1>3 DEF ResumeOut, ResumesAreLast
<1>6. ReportsFit'
  BY <1>1, <1>5 DEF ReportsFit, ComingIsReported
<1> QED BY <1>4, <1>6 DEF ReportInv

LEMMA CallKeepsReport ==
  ASSUME Types, QueueInv, ReportInv, NEW c \in Callers, NEW k \in Kinds, Call(c, k)
  PROVE  ReportInv'
<1>0. /\ caller[c] = (IF k = "suspend" THEN "raising" ELSE "idle") /\ UNCHANGED reported
      /\ crossed' = (crossed \/ (k = "resume" /\ \E d \in Callers : caller[d] = "raising"))
  BY DEF Call
<1>1. ~crossed' => ~crossed /\ (k = "resume" => \A d \in Callers : caller[d] # "raising")
  BY <1>0
<1>2. CASE Enqueue(k, c) /\ caller' = [caller EXCEPT ![c] = "waiting"]
           /\ call' = [call EXCEPT ![c] = sent + 1]
  <2> DEFINE n == sent + 1
  <2>1. n \in Jobs /\ sent' = n /\ sent \in Nat /\ fate[n] = "unsent"
    BY <1>2, PageThreadAssumption, JobNumbers DEF Types, JobsOK, Enqueue, Jobs, QueueInv, Fresh
  <2>2. /\ call'[c] = n /\ caller'[c] = "waiting"
        /\ \A d \in Callers \ {c} : call'[d] = call[d] /\ caller'[d] = caller[d]
    BY <1>2 DEF Types, DriversOK
  <2>3. \A d \in Callers : call[d] <= sent /\ call[d] \in Nat /\ (Out(d) => call[d] \in Jobs)
    BY JobNumbers DEF ReportInv, CallsFit, Types, DriversOK, NoJob
  <2>4. /\ kind'[n] = k /\ fate'[n] = "port" /\ UNCHANGED suspended
        /\ \A j \in Jobs \ {n} : kind'[j] = kind[j] /\ fate'[j] = fate[j]
    BY <1>2, <2>1 DEF Types, JobsOK, Enqueue
  <2>5. \A j \in Jobs : kind[j] # "ordinary" => j < n
    BY <2>1, JobNumbers DEF QueueInv, Fresh
  <2>6. \A d \in Callers : call[d] # n /\ call[d] < n
    BY <2>1, <2>3
  <2> HIDE DEF n
  <2>7. CallsFit'
    BY <2>1, <2>2, <2>3, <2>6, JobNumbers DEF CallsFit, Out
  <2>8. ReportsFit'
    <3> SUFFICES ASSUME ~crossed' PROVE ResumesAreLast' /\ ComingIsReported' /\ (suspended' => reported')
      BY DEF ReportsFit
    <3>1. ~crossed /\ (k = "resume" => \A d \in Callers : caller[d] # "raising")
      BY <1>1
    <3>2. ResumesAreLast /\ ComingIsReported /\ (suspended => reported)
      BY <3>1 DEF ReportInv, ReportsFit
    <3>3. ResumesAreLast'
      <4> SUFFICES ASSUME NEW d \in Callers, Out(d)', kind'[call'[d]] = "resume"
                   PROVE  /\ \A e \in Callers : caller'[e] # "raising"
                          /\ \A j \in Jobs : kind'[j] = "suspend" => j < call'[d]
        BY DEF ResumesAreLast
      <4>1. CASE d = c
        <5>1. k = "resume" /\ call'[d] = n
          BY <4>1, <2>2, <2>4
        <5>2. \A e \in Callers : caller'[e] # "raising"
          BY <5>1, <3>1, <2>2
        <5>3. \A j \in Jobs : kind'[j] = "suspend" => j < n
          BY <5>1, <2>4, <2>5
        <5> QED BY <5>1, <5>2, <5>3
      <4>2. CASE d # c
        <5>1. Out(d) /\ call'[d] = call[d] /\ call[d] \in Jobs \ {n}
          BY <4>2, <2>2, <2>3, <2>6 DEF Out
        <5>2. kind[call[d]] = "resume"
          BY <5>1, <2>4
        <5>3. /\ \A e \in Callers : caller[e] # "raising"
              /\ \A j \in Jobs : kind[j] = "suspend" => j < call[d]
          BY <5>1, <5>2, <3>2 DEF ResumesAreLast
        <5>4. k # "suspend"
          BY <5>3, <1>0
        <5>5. \A e \in Callers : caller'[e] # "raising"
          BY <5>3, <2>2
        <5>6. \A j \in Jobs : kind'[j] = "suspend" => j < call[d]
          BY <5>3, <5>4, <2>4
        <5> QED BY <5>1, <5>5, <5>6
      <4> QED BY <4>1, <4>2
    <3>4. ComingIsReported'
      <4>1. k = "suspend" => reported
        BY <3>2, <1>0 DEF ComingIsReported
      <4>2. \A d \in Callers : caller'[d] = "raising" => reported'
        BY <3>2, <1>0, <2>2 DEF ComingIsReported
      <4>3. \A j \in Jobs : kind'[j] = "suspend" /\ fate'[j] \in {"port", "running"} => reported'
        BY <3>2, <4>1, <1>0, <2>4 DEF ComingIsReported
      <4> QED BY <4>2, <4>3 DEF ComingIsReported
    <3>5. suspended' => reported'
      BY <3>2, <1>0, <2>4
    <3> QED BY <3>3, <3>4, <3>5
  <2> QED BY <1>2, <2>7, <2>8, SendKeepsReport
<1>3. CASE UNCHANGED <<jobVars, loopVars, call>> /\ caller' = [caller EXCEPT ![c] = "idle"]
  <2>1. UNCHANGED <<sent, kind, fate, reply, suspended, call, stack>>
    BY <1>3 DEF jobVars, loopVars
  <2>2. \A d \in Callers : (Out(d)' => Out(d)) /\ (caller'[d] = "raising" => caller[d] = "raising")
    BY <1>3 DEF Types, DriversOK, Out
  <2>3. ControlOnTop' /\ ControlsInOrder' /\ CallsFit' /\ AnsweredIsDone' /\ LastResumeHolds'
    BY <2>1, <2>2 DEF ReportInv, ControlOnTop, ControlsInOrder, CallsFit, AnsweredIsDone, LastResumeHolds,
                      IsControl, Top
  <2>4. ReportsFit'
    BY <2>1, <2>2, <1>0, <1>1 DEF ReportInv, ReportsFit, ResumesAreLast, ComingIsReported
  <2> QED BY <2>3, <2>4 DEF ReportInv
<1> QED BY <1>2, <1>3 DEF Call

LEMMA PostKeepsReport ==
  ASSUME Types, QueueInv, ReportInv, NEW c \in Callers, Post(c)
  PROVE  ReportInv'
<1> DEFINE n == sent + 1
<1>1. Enqueue("ordinary", Nobody) /\ UNCHANGED <<caller, call, reported, crossed>> /\ "ordinary" \in Kinds
  BY DEF Post, callVars, saidVars, Kinds
<1>2. n \in Jobs /\ sent' = n /\ sent \in Nat
  BY <1>1, PageThreadAssumption DEF Types, JobsOK, Enqueue, Jobs
<1>3. /\ kind'[n] = "ordinary" /\ UNCHANGED suspended
      /\ \A j \in Jobs \ {n} : kind'[j] = kind[j] /\ fate'[j] = fate[j]
  BY <1>1, <1>2 DEF Types, JobsOK, Enqueue
<1>4. \A d \in Callers : call[d] <= sent /\ call[d] \in Nat /\ call[d] # n /\ call[d] <= n
  BY <1>2, JobNumbers DEF ReportInv, CallsFit, Types, DriversOK, NoJob
<1> HIDE DEF n
<1>5. CallsFit'
  BY <1>1, <1>2, <1>4 DEF ReportInv, CallsFit, Out
<1>6. \A d \in Callers : Out(d)' = Out(d) /\ (Out(d) => call[d] \in Jobs \ {n})
  BY <1>1, <1>4 DEF ReportInv, CallsFit, Out
<1>7. ReportsFit'
  BY <1>1, <1>3, <1>6 DEF ReportInv, ReportsFit, ResumesAreLast, ComingIsReported
<1> QED BY <1>1, <1>5, <1>7, SendKeepsReport

(* A call returns: only an answered `resume` lowers the handle's copy, and *)
(* nothing suspends the page any more.                                     *)
LEMMA ReturnKeepsReport ==
  ASSUME Types, QueueInv, ReportInv, NEW c \in Callers, Out(c),
         NEW answer, Return(c, answer), answer = "ok" => reply[call[c]]
  PROVE  ReportInv'
<1>1. UNCHANGED <<sent, kind, fate, reply, suspended, crossed, call, stack>>
  BY DEF Return, jobVars, loopVars
<1>2. \A d \in Callers : (Out(d)' => Out(d)) /\ (caller'[d] = "raising" => caller[d] = "raising")
  BY DEF Return, Types, DriversOK, Out
<1>3. ControlOnTop'
  BY <1>1 DEF ReportInv, ControlOnTop, IsControl, Top
<1>4. CASE reported' = reported
  BY <1>1, <1>2, <1>3, <1>4, QuietKeepsReport DEF Calls, StaysOut
<1>5. CASE answer = "ok" /\ kind[call[c]] = "resume"
  <2> DEFINE r == call[c]
  <2>1. r \in Jobs /\ IsControl(r)
    BY <1>5 DEF ReportInv, CallsFit, IsControl
  <2>2. fate[r] = "done" /\ kind[r] = "resume"
    BY <1>5, <2>1 DEF ReportInv, AnsweredIsDone
  <2>3. ControlsInOrder' /\ AnsweredIsDone' /\ CallsFit' /\ LastResumeHolds'
    BY <1>1, <1>2 DEF ReportInv, ControlsInOrder, AnsweredIsDone, CallsFit, LastResumeHolds, IsControl
  <2>4. ASSUME ~crossed' PROVE ResumesAreLast' /\ ComingIsReported' /\ ~suspended'
    <3>1. ResumesAreLast
      BY <1>1, <2>4 DEF ReportInv, ReportsFit
    <3>2. \A d \in Callers : caller[d] # "raising"
      BY <3>1, <2>2 DEF ResumesAreLast
    <3>3. \A k \in Jobs : kind[k] = "suspend" => k < r /\ fate[k] \notin {"port", "running"}
      BY <3>1, <2>1, <2>2 DEF ResumesAreLast, ReportInv, ControlsInOrder, IsControl
    <3>4. ~suspended
      BY <3>3, <2>1, <2>2, JobNumbers DEF ReportInv, LastResumeHolds
    <3>5. ResumesAreLast'
      BY <3>1, <1>1, <1>2 DEF ResumesAreLast
    <3>6. ComingIsReported'
      BY <3>2, <3>3, <1>1, <1>2 DEF ComingIsReported
    <3> QED BY <3>4, <3>5, <3>6, <1>1
  <2> QED BY <1>3, <2>3, <2>4 DEF ReportInv, ReportsFit
<1>6. reported' = (reported /\ ~(answer = "ok" /\ kind[call[c]] = "resume")) /\ reported \in BOOLEAN
  BY DEF Return, Types, FlagsOK
<1> QED BY <1>4, <1>5, <1>6

(* A job comes out of the channel, the pending queue or off the stack, and *)
(* is no control job: nothing the report speaks of changes.                *)
LEMMA OrdinaryKeepsReport ==
  ASSUME Types, ReportInv, NEW j \in Jobs, ~IsControl(j), NEW f, f \notin {"unsent"},
         fate' = [fate EXCEPT ![j] = f], \A a \in Jobs \ {j} : reply'[a] = reply[a],
         reply'[j] => f = "done", Top.what # "control",
         UNCHANGED <<sent, kind, suspended, reported, crossed, caller, call>>
  PROVE  ReportInv'
<1>1. fate'[j] = f /\ \A a \in Jobs \ {j} : fate'[a] = fate[a]
  BY DEF Types, JobsOK
<1>2. \A a \in Jobs : IsControl(a) => a # j /\ fate'[a] = fate[a]
  BY <1>1
<1> USE DEF ReportInv
<1>3. ControlOnTop'
  <2>1. \A a \in Jobs : IsControl(a) => fate'[a] # "running"
    BY <1>2, NoControlRuns
  <2> QED BY <2>1 DEF ControlOnTop, IsControl
<1>4. ControlsInOrder'
  BY <1>2 DEF ControlsInOrder, IsControl
<1>5. CallsFit'
  BY DEF CallsFit, Out
<1>6. AnsweredIsDone'
  BY <1>1 DEF AnsweredIsDone
<1>7. LastResumeHolds'
  BY <1>2 DEF LastResumeHolds, IsControl
<1>8. ReportsFit'
  BY <1>2 DEF ReportsFit, ResumesAreLast, ComingIsReported, Out, IsControl
<1> QED BY <1>3, <1>4, <1>5, <1>6, <1>7, <1>8

(* A control job is received: it runs at once, over a frame that waits.    *)
LEMMA ControlBegins ==
  ASSUME Types, Shape(stack), QueueInv, ReportInv, AtTop("park"), port # <<>>,
         NEW j \in Jobs, j = Head(port), IsControl(j), Run(j, MoveTo("turn")),
         UNCHANGED <<sent, kind, reply, suspended, reported, crossed, caller, call>>
  PROVE  ReportInv'
<1>1. fate'[j] = "running" /\ \A a \in Jobs \ {j} : fate'[a] = fate[a]
  BY DEF Run, Types, JobsOK
<1>2. fate[j] = "port"
  BY PortTail, JobNumbers DEF QueueInv, PortFits
<1>3. Top.what # "control"
  BY TopOfShape DEF AtTop
<1>4. \A a \in Jobs : IsControl(a) => fate[a] \notin {"running", "parked"}
  BY <1>3, NoControlRuns, Entries DEF ReportInv, QueueInv, PendingHolds, PendingFits, IsControl
<1>5. \A a \in Jobs : fate[a] = "port" /\ a # j => j < a
  <2> SUFFICES ASSUME NEW a \in Jobs, fate[a] = "port", a # j PROVE j < a
    OBVIOUS
  <2>1. PICK i \in 1..Len(port) : port[i] = a
    BY DEF QueueInv, PortHolds
  <2>2. port[1] = j /\ Len(port) \in Nat \ {0}
    BY PortTail
  <2>3. i # 1 /\ 1 \in 1..Len(port)
    BY <2>1, <2>2
  <2> QED BY <2>1, <2>2, <2>3, JobNumbers DEF QueueInv, PortGrows
<1> USE DEF ReportInv
<1>6. ControlOnTop'
  <2>1. stack' # <<>> /\ stack'[Len(stack')] = Frame("control", j, "check")
    <3>1. MoveTo("turn") \in Seq(Frames)
      <4>1. StackOK /\ "turn" \in Places /\ stack # <<>>
        BY DEF Types, Places, AtTop
      <4> QED BY <4>1, MoveNames
    <3> DEFINE m == MoveTo("turn")
               f == Frame("control", j, "check")
    <3>2. f \in Frames /\ m \in Seq(Frames) /\ stack' = Append(m, f)
      BY <3>1 DEF Frame, Frames, Run
    <3> HIDE DEF m, f
    <3>3. Len(stack') = Len(m) + 1 /\ stack'[Len(m) + 1] = f /\ Len(m) \in Nat /\ stack' \in Seq(Frames)
      BY <3>2, PushFrames
    <3>4. stack' # <<>>
      BY <3>3, EmptySeq
    <3> QED BY <3>3, <3>4 DEF f
  <2>2. stack' # <<>> /\ Top'.what = "control" /\ Top'.job = j
    BY <2>1 DEF Top, Frame
  <2>3. \A a \in Jobs : IsControl(a) /\ fate'[a] = "running" => a = j
    BY <1>1, <1>4
  <2> QED BY <2>2, <2>3 DEF ControlOnTop, IsControl
<1>7. ControlsInOrder'
  <2> SUFFICES ASSUME NEW a \in Jobs, NEW b \in Jobs, a < b, IsControl(a), IsControl(b),
                      fate'[b] \in {"running", "done"}
               PROVE  fate'[a] \notin {"port", "parked", "running"}
    BY DEF ControlsInOrder, IsControl
  <2>1. CASE b = j
    BY <2>1, <1>1, <1>4, <1>5, JobNumbers
  <2>2. CASE b # j
    BY <2>2, <1>1, <1>2 DEF ControlsInOrder
  <2> QED BY <2>1, <2>2
<1>8. CallsFit'
  BY DEF CallsFit, Out
<1>9. AnsweredIsDone'
  BY <1>1, <1>2 DEF AnsweredIsDone
<1>10. LastResumeHolds'
  <2> SUFFICES ASSUME NEW r \in Jobs, kind[r] = "resume", fate'[r] = "done",
                      \A b \in Jobs : r < b /\ kind[b] = "suspend" => fate'[b] # "done"
               PROVE  ~suspended
    BY DEF LastResumeHolds
  <2>1. r # j /\ fate[r] = "done"
    BY <1>1
  <2>2. \A b \in Jobs : r < b /\ kind[b] = "suspend" => fate[b] # "done"
    BY <1>1, <1>2
  <2> QED BY <2>1, <2>2 DEF LastResumeHolds
<1>11. ReportsFit'
  BY <1>1, <1>2 DEF ReportsFit, ResumesAreLast, ComingIsReported, Out
<1> QED BY <1>6, <1>7, <1>8, <1>9, <1>10, <1>11

(* The control job on top ends, with its effect or skipped without one.    *)
LEMMA ControlEnds ==
  ASSUME Types, QueueInv, ReportInv, NEW j \in Jobs, IsControl(j), fate[j] = "running",
         \/ /\ fate' = [fate EXCEPT ![j] = "done"]
            /\ suspended' = (kind[j] = "suspend")
            /\ \A a \in Jobs \ {j} : reply'[a] = reply[a]
         \/ /\ fate' = [fate EXCEPT ![j] = "skipped"]
            /\ UNCHANGED <<suspended, reply>>,
         UNCHANGED <<sent, kind, reported, crossed, caller, call>>
  PROVE  ReportInv'
<1>1. /\ fate'[j] \in {"done", "skipped"} /\ \A a \in Jobs \ {j} : fate'[a] = fate[a]
      /\ \A a \in Jobs \ {j} : reply'[a] = reply[a]
      /\ fate'[j] = "skipped" => reply'[j] = reply[j]
      /\ fate'[j] = "done" => suspended' = (kind[j] = "suspend")
      /\ fate'[j] = "skipped" => suspended' = suspended
  BY DEF Types, JobsOK
<1> USE DEF ReportInv
<1>2. \A a \in Jobs : IsControl(a) => fate'[a] # "running"
  BY <1>1 DEF ControlOnTop
<1>3. ControlOnTop'
  BY <1>2 DEF ControlOnTop, IsControl
<1>4. ControlsInOrder'
  <2> SUFFICES ASSUME NEW a \in Jobs, NEW b \in Jobs, a < b, IsControl(a), IsControl(b),
                      fate'[b] \in {"running", "done"}
               PROVE  fate'[a] \notin {"port", "parked", "running"}
    BY DEF ControlsInOrder, IsControl
  <2>1. fate[b] \in {"running", "done"}
    BY <1>1
  <2> QED BY <2>1, <1>1 DEF ControlsInOrder
<1>5. CallsFit'
  BY DEF CallsFit, Out
<1>6. AnsweredIsDone'
  BY <1>1 DEF AnsweredIsDone
<1>7. LastResumeHolds'
  <2> SUFFICES ASSUME NEW r \in Jobs, kind[r] = "resume", fate'[r] = "done",
                      \A b \in Jobs : r < b /\ kind[b] = "suspend" => fate'[b] # "done"
               PROVE  ~suspended'
    BY DEF LastResumeHolds
  <2>1. CASE fate'[j] = "skipped"
    <3>1. r # j /\ fate[r] = "done" /\ suspended' = suspended
      BY <2>1, <1>1
    <3>2. \A b \in Jobs : r < b /\ kind[b] = "suspend" => fate[b] # "done"
      BY <1>1
    <3> QED BY <3>1, <3>2 DEF LastResumeHolds
  <2>2. CASE fate'[j] = "done"
    <3>1. CASE r = j
      BY <3>1, <2>2, <1>1
    <3>2. CASE r # j
      <4>1. fate[r] = "done" /\ IsControl(r)
        BY <3>2, <1>1 DEF IsControl
      <4>2. ~(j < r)
        BY <4>1 DEF ControlsInOrder
      <4>3. r < j
        BY <3>2, <4>2, JobNumbers
      <4>4. kind[j] # "suspend"
        BY <4>3, <2>2
      <4> QED BY <4>4, <2>2, <1>1
    <3> QED BY <3>1, <3>2
  <2> QED BY <1>1, <2>1, <2>2
<1>8. ReportsFit'
  <2> SUFFICES ASSUME ~crossed, ReportsFit PROVE ResumesAreLast' /\ ComingIsReported' /\ (suspended' => reported)
    BY DEF ReportsFit
  <2>1. ResumesAreLast' /\ ComingIsReported'
    BY <1>1 DEF ReportsFit, ResumesAreLast, ComingIsReported, Out
  <2>2. fate'[j] = "done" => (suspended' => reported)
    BY <1>1 DEF ReportsFit, ComingIsReported
  <2>3. fate'[j] = "skipped" => (suspended' => reported)
    BY <1>1 DEF ReportsFit
  <2> QED BY <1>1, <2>1, <2>2, <2>3
<1> QED BY <1>3, <1>4, <1>5, <1>6, <1>7, <1>8

LEMMA DropKeepsReport ==
  ASSUME Types, ReportInv, DropPage
  PROVE  ReportInv'
<1>1. /\ UNCHANGED <<sent, kind, reply, suspended, reported, crossed, caller, call>>
      /\ \A j \in Jobs : fate'[j] = IF fate[j] \in {"port", "parked", "running"} THEN "dropped" ELSE fate[j]
  BY DEF DropPage, saidVars, callVars
<1> USE DEF ReportInv
<1>2. ControlOnTop' /\ ControlsInOrder'
  BY <1>1 DEF ControlOnTop, ControlsInOrder, IsControl
<1>3. CallsFit' /\ AnsweredIsDone'
  BY <1>1 DEF CallsFit, AnsweredIsDone, Out
<1>4. LastResumeHolds' /\ ReportsFit'
  BY <1>1 DEF LastResumeHolds, ReportsFit, ResumesAreLast, ComingIsReported, Out
<1> QED BY <1>2, <1>3, <1>4

(* A step over a frame that is no control job's, which leaves the jobs be. *)
LEMMA FrameKeepsReport ==
  ASSUME ReportInv, Top.what # "control", UNCHANGED <<Calls, caller>>
  PROVE  ReportInv'
<1>1. \A j \in Jobs : IsControl(j) => fate[j] # "running"
  BY NoControlRuns DEF ReportInv
<1>2. ControlOnTop'
  BY <1>1 DEF ControlOnTop, IsControl, Calls
<1>3. StaysOut
  BY DEF StaysOut, Out
<1> QED BY <1>2, <1>3, QuietKeepsReport DEF Calls

LEMMA ReportStep ==
  ASSUME Types, Shape(stack), QueueInv, ReportInv, [Next]_vars
  PROVE  ReportInv'
<1> USE DEF AtTop, PageOnly
<1>0. ASSUME UNCHANGED <<Calls, stack>>, StaysOut
      PROVE  ReportInv'
  <2>1. ControlOnTop'
    BY <1>0 DEF ReportInv, ControlOnTop, IsControl, Top, Calls
  <2> QED BY <1>0, <2>1, QuietKeepsReport
<1>1. ASSUME NEW c \in Callers, Raise(c) \/ (\E k \in Kinds : Call(c, k)) \/ Post(c) PROVE ReportInv'
  BY <1>1, RaiseKeepsReport, CallKeepsReport, PostKeepsReport
<1>2. ASSUME NEW c \in Callers, CallerStep(c) PROVE ReportInv'
  <2>1. CASE TimeOut(c) \/ Abandon(c) \/ Disconnected(c)
    <3>1. UNCHANGED <<Calls, stack>>
      BY <2>1 DEF TimeOut, Abandon, Disconnected, Calls, saidVars, jobVars, loopVars
    <3>2. StaysOut
      BY <2>1 DEF TimeOut, Abandon, Disconnected, Types, DriversOK, StaysOut, Out
    <3> QED BY <3>1, <3>2, <1>0
  <2>2. CASE GetReply(c) \/ LastLook(c) \/ Gone(c)
    <3>1. Out(c) /\ \E answer \in {"ok", "timeout", "closed", "crashed"} :
            Return(c, answer) /\ (answer = "ok" => reply[call[c]])
      BY <2>2 DEF GetReply, LastLook, Gone, GoneNow, Out
    <3> QED BY <3>1, ReturnKeepsReport
  <2> QED BY <1>2, <2>1, <2>2 DEF CallerStep
<1>3. ASSUME \/ \E k \in Closers : Close(k) \/ CloserStep(k)
             \/ (\E a \in Answerers : Offer(a) \/ Withdraw(a)) \/ Epilogue \/ UNCHANGED vars
      PROVE  ReportInv'
  <2>1. UNCHANGED <<Calls, stack, caller>>
    BY <1>3 DEF Close, CloserStep, TakeJoin, JoinExited, Detach, Offer, Withdraw, Epilogue, StoreCrash,
                MarkClosed, Exit, EpilogueOnly, Calls, vars, saidVars, jobVars, loopVars, callVars
  <2>2. StaysOut
    BY <2>1 DEF StaysOut, Out
  <2> QED BY <2>1, <2>2, <1>0
<1>4. CASE ReceiveJob
  <2>1. /\ AtTop("park") /\ port # <<>> /\ Head(port) \in Jobs \cup {CloseJob} /\ Top.what # "control"
        /\ UNCHANGED <<sent, kind, reply, suspended, reported, crossed, caller, call>>
    BY <1>4, PortTail, TopOfShape DEF ReceiveJob, saidVars, callVars
  <2>2. CASE Head(port) = CloseJob
    BY <1>4, <2>1, <2>2, FrameKeepsReport DEF ReceiveJob, Calls, saidVars
  <2>3. CASE Head(port) # CloseJob
    <3> DEFINE j == Head(port)
    <3>1. j \in Jobs /\ Accept(j)
      BY <1>4, <2>1, <2>3 DEF ReceiveJob
    <3>2. CASE IsControl(j)
      <4>1. Run(j, MoveTo("turn"))
        BY <3>1, <3>2 DEF Accept
      <4> QED BY <2>1, <3>1, <3>2, <4>1, ControlBegins
    <3>3. CASE ~IsControl(j)
      <4>1. PICK f \in {"running", "parked"} : fate' = [fate EXCEPT ![j] = f]
        BY <3>1, <3>3 DEF Accept, Run
      <4>2. fate[j] = "port"
        BY <2>1, <2>3, <3>1, PortTail, JobNumbers DEF QueueInv, PortFits
      <4>3. ~reply'[j]
        BY <2>1, <3>1, <4>2 DEF ReportInv, AnsweredIsDone
      <4> HIDE DEF j
      <4> QED BY <2>1, <3>1, <3>3, <4>1, <4>3, OrdinaryKeepsReport
    <3> QED BY <3>2, <3>3
  <2> QED BY <2>2, <2>3
<1>5. CASE JobStep
  <2>1. CASE CheckFlag /\ UNCHANGED fate
    <3>1. stack # <<>> /\ stack' = MoveTo("script") /\ UNCHANGED <<Calls, caller>>
      <4>1. stack # <<>> /\ UNCHANGED <<Calls, caller>>
        BY <2>1 DEF CheckFlag, Calls, saidVars, callVars
      <4>2. abandoned[Top.job] => fate[Top.job] = "skipped" \/ Top.job \notin Jobs
        BY <2>1 DEF CheckFlag, Types, JobsOK
      <4>3. Top.at = "check" /\ Top.what \in {"job", "control"} /\ Len(stack) \in 1..Len(stack)
        BY <2>1, TopOfShape DEF CheckFlag
      <4>4. Top.job \in Jobs /\ fate[Top.job] = "running"
        BY <4>3 DEF QueueInv, JobFrames, Top
      <4> QED BY <2>1, <4>1, <4>2, <4>4 DEF CheckFlag
    <3>2. Top'.what = Top.what /\ Top'.job = Top.job /\ stack' # <<>>
      <4>1. StackOK /\ "script" \in Places
        BY DEF Types, Places
      <4>2. /\ stack' \in Seq(Frames) /\ Len(stack') = Len(stack) /\ Len(stack) \in Nat \ {0}
            /\ \A i \in 1..Len(stack) : stack'[i].what = stack[i].what /\ stack'[i].job = stack[i].job
        BY <3>1, <4>1, MoveNames
      <4>3. stack' # <<>>
        BY <4>2, EmptySeq
      <4> QED BY <4>2, <4>3 DEF Top
    <3>3. ControlOnTop'
      BY <3>1, <3>2 DEF ReportInv, ControlOnTop, IsControl, Calls
    <3>4. StaysOut
      BY <3>1 DEF StaysOut, Out
    <3> QED BY <3>1, <3>3, <3>4, QuietKeepsReport
  <2>2. CASE FinishJob \/ (CheckFlag /\ fate' # fate)
    <3> DEFINE j == Top.job
    <3>1. /\ stack # <<>> /\ Top.what \in {"job", "control"} /\ Len(stack) \in 1..Len(stack)
          /\ UNCHANGED <<sent, kind, reported, crossed, caller, call>>
      BY <2>2, TopOfShape DEF CheckFlag, FinishJob, saidVars, callVars
    <3>2. j \in Jobs /\ fate[j] = "running" /\ (Top.what = "control") = IsControl(j)
      BY <3>1 DEF QueueInv, JobFrames, Top
    <3>3. \/ /\ fate' = [fate EXCEPT ![j] = "done"]
             /\ suspended' = ((suspended \/ kind[j] = "suspend") /\ kind[j] # "resume")
             /\ \A a \in Jobs \ {j} : reply'[a] = reply[a]
          \/ fate' = [fate EXCEPT ![j] = "skipped"] /\ UNCHANGED <<suspended, reply>>
      BY <2>2 DEF CheckFlag, FinishJob, Types, JobsOK
    <3>4. CASE IsControl(j)
      <4>1. kind[j] \in {"suspend", "resume"}
        BY <3>2, <3>4 DEF IsControl, Types, JobsOK, Kinds
      <4>2. ((suspended \/ kind[j] = "suspend") /\ kind[j] # "resume") = (kind[j] = "suspend")
        BY <4>1
      <4>3. \/ /\ fate' = [fate EXCEPT ![j] = "done"]
               /\ suspended' = (kind[j] = "suspend")
               /\ \A a \in Jobs \ {j} : reply'[a] = reply[a]
            \/ fate' = [fate EXCEPT ![j] = "skipped"] /\ UNCHANGED <<suspended, reply>>
        BY <3>3, <4>2
      <4> HIDE DEF j
      <4> QED BY <3>1, <3>2, <3>4, <4>3, ControlEnds
    <3>5. CASE ~IsControl(j)
      <4>1. Top.what # "control" /\ kind[j] = "ordinary" /\ suspended \in BOOLEAN
        BY <3>2, <3>5 DEF IsControl, Types, FlagsOK
      <4>2. suspended' = suspended
        BY <3>3, <4>1
      <4>3. ~reply[j]
        BY <3>2 DEF ReportInv, AnsweredIsDone
      <4>4. PICK f \in {"done", "skipped"} :
              /\ fate' = [fate EXCEPT ![j] = f]
              /\ \A a \in Jobs \ {j} : reply'[a] = reply[a]
              /\ reply'[j] => f = "done"
        BY <3>3, <4>3
      <4> HIDE DEF j
      <4> QED BY <3>1, <3>2, <3>5, <4>1, <4>2, <4>4, OrdinaryKeepsReport
    <3> QED BY <3>4, <3>5
  <2> QED BY <1>5, <2>1, <2>2 DEF JobStep
<1>6. CASE DrainCommand
  <2> DEFINE j == Head(pending)
  <2>1. /\ AtTop("turn") /\ Top.what # "control" /\ pending # <<>> /\ fate' = [fate EXCEPT ![j] = "running"]
        /\ UNCHANGED <<sent, kind, reply, suspended, reported, crossed, caller, call>>
    BY <1>6, TopOfShape DEF DrainCommand, Run, saidVars, callVars
  <2>2. j \in Jobs /\ ~IsControl(j) /\ fate[j] = "parked"
    BY <2>1, PendingTail DEF QueueInv, PendingFits, IsControl
  <2>3. ~reply'[j]
    BY <2>1, <2>2 DEF ReportInv, AnsweredIsDone
  <2> HIDE DEF j
  <2> QED BY <2>1, <2>2, <2>3, OrdinaryKeepsReport
<1>7. CASE Wake \/ Stall \/ StartLoad \/ Overrun \/ BeginWait \/ EndWait \/ FinishLoad
  <2>1. Top.what # "control"
    BY <1>7, TopOfShape DEF Wake, Stall, StartLoad, Overrun, BeginWait, EndWait, FinishLoad
  <2>2. UNCHANGED <<Calls, caller>>
    BY <1>7 DEF Wake, Stall, StartLoad, Overrun, BeginWait, EndWait, FinishLoad, TurnOnly, Calls, saidVars, jobVars, callVars
  <2> QED BY <2>1, <2>2, FrameKeepsReport
<1>8. CASE OpenDialog \/ DialogStep
  <2>1. Top.what # "control"
    BY <1>8, TopOfShape DEF OpenDialog, DialogStep, AnnounceDialog, DialogTimesOut, CloseDialog, TakeAnswer
  <2>2. UNCHANGED <<Calls, caller>>
    BY <1>8 DEF OpenDialog, DialogStep, AnnounceDialog, DialogTimesOut, CloseDialog, TakeAnswer, DialogOnly,
                Calls, saidVars, jobVars, callVars
  <2> QED BY <2>1, <2>2, FrameKeepsReport
<1>9. CASE LeaveLoop \/ Panic
  BY <1>9, DropKeepsReport DEF LeaveLoop, Panic
<1> QED
  BY <1>1, <1>2, <1>3, <1>4, <1>5, <1>6, <1>7, <1>8, <1>9 DEF Next, TurnStep

LEMMA ReportInit == Init => ReportInv
<1> SUFFICES ASSUME Init PROVE ReportInv
  OBVIOUS
<1>1. \A j \in Jobs : kind[j] = "ordinary" /\ fate[j] = "unsent" /\ ~reply[j]
  BY DEF Init
<1>2. ControlOnTop /\ ControlsInOrder /\ AnsweredIsDone
  BY <1>1 DEF ControlOnTop, ControlsInOrder, AnsweredIsDone, IsControl
<1>3. CallsFit /\ LastResumeHolds /\ ReportsFit
  BY <1>1 DEF Init, NoJob, CallsFit, LastResumeHolds, ReportsFit, ResumesAreLast, ComingIsReported, Out
<1> QED BY <1>2, <1>3 DEF ReportInv

(* Unless a `suspend` of one clone of the handle overlapped a `resume` of  *)
(* another, no clone says a suspended page is running: not after a lost    *)
(* `suspend`, a late `resume`, a timeout or a crash, however many callers. *)
THEOREM SuspensionIsReported == Spec => []SuspendedIsReported
<1>1. Init => ReportInv
  BY ReportInit
<1>2. PageInv /\ ReportInv /\ [Next]_vars => ReportInv'
  BY ReportStep DEF PageInv
<1>3. ReportInv => SuspendedIsReported
  BY DEF ReportInv, ReportsFit, SuspendedIsReported
<1> QED BY <1>1, <1>2, <1>3, PageInvInit, PageInvStep, PTL DEF Spec

-----------------------------------------------------------------------------
(***************************************************************************)
(* What a Timeout means. A job that may still begin has somebody waiting   *)
(* for it or has its flag up, and the closure reads the flag before        *)
(* anything else.                                                          *)
(***************************************************************************)
Pending(j) == fate[j] \in {"port", "parked", "running"}

GivenUpIsFlagged == \A j \in Jobs : Pending(j) /\ GivenUp(j) => abandoned[j]

LookingIsFlagged == \A c \in Callers : caller[c] = "looking" => abandoned[call[c]]

AskingIsDropped == \A c \in Callers : caller[c] = "asking" => fate[call[c]] = "dropped"

TimeoutInv == GivenUpIsFlagged /\ LookingIsFlagged /\ AskingIsDropped

(* No step of the page makes a job pending again or takes back a drop.     *)
LEMMA FatesOnlyEnd ==
  ASSUME Types, TimeoutInv, ReportInv, UNCHANGED <<owner, abandoned, caller, call>>,
         \A j \in Jobs : /\ fate'[j] \in {"port", "parked", "running"} => Pending(j)
                         /\ fate[j] = "dropped" => fate'[j] = "dropped"
  PROVE  TimeoutInv'
<1>1. \A c \in Callers : Out(c) => call[c] \in Jobs
  BY DEF ReportInv, CallsFit
<1>2. GivenUpIsFlagged'
  BY DEF TimeoutInv, GivenUpIsFlagged, GivenUp, Pending, Out
<1>3. LookingIsFlagged'
  BY DEF TimeoutInv, LookingIsFlagged
<1>4. AskingIsDropped'
  BY <1>1 DEF TimeoutInv, AskingIsDropped, Out
<1> QED BY <1>2, <1>3, <1>4 DEF TimeoutInv

LEMMA SendKeepsTimeouts ==
  ASSUME Types, QueueInv, ReportInv, TimeoutInv, NEW k \in Kinds, NEW who \in Callers \cup {Nobody},
         Enqueue(k, who),
         \/ who = Nobody /\ UNCHANGED <<caller, call>>
         \/ /\ who # Nobody => who \in Callers
            /\ ~Out(who)
            /\ caller' = [caller EXCEPT ![who] = "waiting"]
            /\ call' = [call EXCEPT ![who] = sent + 1]
  PROVE  TimeoutInv'
<1> DEFINE n == sent + 1
<1>1. n \in Jobs /\ sent' = n /\ sent \in Nat
  BY PageThreadAssumption DEF Types, JobsOK, Enqueue, Jobs
<1>2. /\ owner'[n] = who /\ fate'[n] = "port" /\ abandoned' = abandoned
      /\ \A j \in Jobs \ {n} : owner'[j] = owner[j] /\ fate'[j] = fate[j]
  BY <1>1 DEF Types, JobsOK, Enqueue
<1>3. fate[n] = "unsent"
  BY <1>1 DEF QueueInv, Fresh
<1>4. \A c \in Callers : Out(c) => call[c] \in Jobs \ {n}
  BY <1>1, JobNumbers DEF ReportInv, CallsFit
<1>5. /\ \A c \in Callers \ {who} : caller'[c] = caller[c] /\ call'[c] = call[c]
      /\ who # Nobody => ~Out(who) /\ caller'[who] = "waiting" /\ call'[who] = n /\ who \in Callers
      /\ who \in Callers => caller'[who] \in {"waiting", caller[who]}
  BY DEF Types, DriversOK
<1>5a. who \in Callers => \/ caller'[who] = caller[who] /\ call'[who] = call[who]
                          \/ ~Out(who) /\ caller'[who] = "waiting" /\ call'[who] = n
  BY DEF Types, DriversOK
<1> HIDE DEF n
<1>6. GivenUpIsFlagged'
  <2> SUFFICES ASSUME NEW j \in Jobs, fate'[j] \in {"port", "parked", "running"}, owner'[j] # Nobody,
                      ~(caller'[owner'[j]] \notin {"idle", "raising"} /\ call'[owner'[j]] = j)
               PROVE  abandoned[j]
    BY <1>2 DEF GivenUpIsFlagged, GivenUp, Pending, Out
  <2>1. j # n
    BY <1>2, <1>5
  <2>2. owner'[j] = owner[j] /\ fate'[j] = fate[j] /\ owner[j] \in Callers
    BY <2>1, <1>2 DEF Types, JobsOK
  <2>3. ~(Out(owner[j]) /\ call[owner[j]] = j)
    BY <2>2, <1>5, <1>5a DEF Out
  <2> QED BY <2>2, <2>3 DEF TimeoutInv, GivenUpIsFlagged, GivenUp, Pending
<1>7. LookingIsFlagged'
  BY <1>2, <1>5, <1>5a DEF TimeoutInv, LookingIsFlagged
<1>8. AskingIsDropped'
  BY <1>2, <1>4, <1>5, <1>5a DEF TimeoutInv, AskingIsDropped, Out
<1> QED BY <1>6, <1>7, <1>8 DEF TimeoutInv

LEMMA CallersKeepTimeouts ==
  ASSUME Types, ReportInv, TimeoutInv, NEW c \in Callers, CallerStep(c)
  PROVE  TimeoutInv'
<1> DEFINE j == call[c]
<1>1. Out(c) /\ j \in Jobs /\ UNCHANGED <<owner, fate, call>>
  BY DEF CallerStep, GetReply, TimeOut, Abandon, LastLook, Disconnected, Gone, Return, jobVars,
         ReportInv, CallsFit, Out
<1>2. \A d \in Callers \ {c} : caller'[d] = caller[d]
  BY DEF CallerStep, GetReply, TimeOut, Abandon, LastLook, Disconnected, Gone, Return, Types, DriversOK
<1>3. \A d \in Callers : Out(d) => call[d] \in Jobs
  BY DEF ReportInv, CallsFit
<1>4. \A i \in Jobs : abandoned[i] => abandoned'[i]
  <2>1. abandoned' = abandoned \/ abandoned' = [abandoned EXCEPT ![j] = TRUE]
    BY DEF CallerStep, GetReply, TimeOut, Abandon, LastLook, Disconnected, Gone, Return, jobVars
  <2> QED BY <2>1, <1>1 DEF Types, JobsOK
<1>5. \/ caller'[c] \in {"late", "asking"} /\ caller'[c] # "looking"
      \/ caller'[c] = "looking" /\ abandoned'[j]
      \/ caller'[c] = "idle" /\ (abandoned[j] \/ ~Pending(j))
  <2>1. CASE GetReply(c)
    BY <2>1, <1>1 DEF GetReply, Return, ReportInv, AnsweredIsDone, Types, DriversOK, Pending
  <2>2. CASE TimeOut(c) \/ Disconnected(c)
    BY <2>2 DEF TimeOut, Disconnected, Types, DriversOK
  <2>3. CASE Abandon(c)
    BY <2>3, <1>1 DEF Abandon, Types, DriversOK, JobsOK
  <2>4. CASE LastLook(c)
    BY <2>4 DEF LastLook, Return, TimeoutInv, LookingIsFlagged, Types, DriversOK
  <2>5. CASE Gone(c)
    BY <2>5 DEF Gone, Return, TimeoutInv, AskingIsDropped, Types, DriversOK, Pending
  <2> QED BY <2>1, <2>2, <2>3, <2>4, <2>5 DEF CallerStep
<1>6. caller'[c] = "asking" => fate[j] = "dropped"
  BY <1>1 DEF CallerStep, GetReply, TimeOut, Abandon, LastLook, Disconnected, Gone, Return, Types, DriversOK
<1>7. GivenUpIsFlagged'
  <2> SUFFICES ASSUME NEW i \in Jobs, Pending(i), owner[i] # Nobody,
                      ~(caller'[owner[i]] \notin {"idle", "raising"} /\ call[owner[i]] = i)
               PROVE  abandoned'[i]
    BY <1>1 DEF GivenUpIsFlagged, GivenUp, Pending, Out
  <2>1. CASE owner[i] = c /\ call[c] = i
    BY <2>1, <1>4, <1>5
  <2>2. CASE ~(owner[i] = c /\ call[c] = i)
    <3>1. owner[i] \in Callers
      BY DEF Types, JobsOK
    <3>2. ~(Out(owner[i]) /\ call[owner[i]] = i)
      BY <2>2, <3>1, <1>2 DEF Out
    <3>3. abandoned[i]
      BY <3>2 DEF TimeoutInv, GivenUpIsFlagged, GivenUp
    <3> QED BY <3>3, <1>4
  <2> QED BY <2>1, <2>2
<1>8. LookingIsFlagged'
  BY <1>1, <1>2, <1>3, <1>4, <1>5 DEF TimeoutInv, LookingIsFlagged, Out
<1>9. AskingIsDropped'
  BY <1>1, <1>2, <1>6 DEF TimeoutInv, AskingIsDropped
<1> QED BY <1>7, <1>8, <1>9 DEF TimeoutInv

(* A caller with no call out raises the copy, or finds the page gone.      *)
LEMMA IdleKeepsTimeouts ==
  ASSUME Types, TimeoutInv, NEW c \in Callers, caller[c] \in {"idle", "raising"},
         NEW phase \in {"idle", "raising"}, caller' = [caller EXCEPT ![c] = phase],
         UNCHANGED <<owner, fate, abandoned, call>>
  PROVE  TimeoutInv'
<1>1. \A d \in Callers : (Out(d)' <=> Out(d)) /\ (Out(d)' => caller'[d] = caller[d])
  BY DEF Types, DriversOK, Out
<1>2. \A j \in Jobs : owner[j] # Nobody => owner[j] \in Callers
  BY DEF Types, JobsOK
<1>3. GivenUpIsFlagged'
  BY <1>1, <1>2 DEF TimeoutInv, GivenUpIsFlagged, GivenUp, Pending
<1>4. LookingIsFlagged' /\ AskingIsDropped'
  BY <1>1 DEF TimeoutInv, LookingIsFlagged, AskingIsDropped, Out
<1> QED BY <1>3, <1>4 DEF TimeoutInv

LEMMA TimeoutStep ==
  ASSUME PageInv, ReportInv, TimeoutInv, [Next]_vars
  PROVE  TimeoutInv'
<1> USE DEF PageInv, PageOnly, AtTop
<1>0. ASSUME UNCHANGED <<owner, fate, abandoned, caller, call>> PROVE TimeoutInv'
  BY <1>0, FatesOnlyEnd DEF Pending
<1>1. ASSUME NEW c \in Callers, NEW k \in Kinds, Call(c, k) PROVE TimeoutInv'
  <2>1. CASE UNCHANGED <<jobVars, loopVars, call>> /\ caller' = [caller EXCEPT ![c] = "idle"]
    BY <1>1, <2>1, IdleKeepsTimeouts DEF Call, jobVars
  <2>2. CASE ~(UNCHANGED <<jobVars, loopVars, call>> /\ caller' = [caller EXCEPT ![c] = "idle"])
    <3>1. /\ Enqueue(k, c) /\ ~Out(c) /\ caller' = [caller EXCEPT ![c] = "waiting"]
          /\ call' = [call EXCEPT ![c] = sent + 1]
      BY <1>1, <2>2 DEF Call, Out
    <3> QED BY <3>1, SendKeepsTimeouts
  <2> QED BY <2>1, <2>2
<1>1a. ASSUME NEW c \in Callers, Raise(c) PROVE TimeoutInv'
  BY <1>1a, IdleKeepsTimeouts DEF Raise, jobVars
<1>2. ASSUME NEW c \in Callers, Post(c) PROVE TimeoutInv'
  BY <1>2, SendKeepsTimeouts DEF Post, callVars, Kinds
<1>3. ASSUME NEW c \in Callers, CallerStep(c) PROVE TimeoutInv'
  BY <1>3, CallersKeepTimeouts
<1>4. ASSUME \/ \E k \in Closers : Close(k) \/ CloserStep(k)
             \/ (\E a \in Answerers : Offer(a) \/ Withdraw(a)) \/ Epilogue \/ UNCHANGED vars
      PROVE  TimeoutInv'
  <2>1. UNCHANGED <<owner, fate, abandoned, caller, call>>
    BY <1>4 DEF Close, CloserStep, TakeJoin, JoinExited, Detach, Offer, Withdraw, Epilogue, StoreCrash,
                MarkClosed, Exit, EpilogueOnly, vars, jobVars, callVars
  <2> QED BY <2>1, <1>0
<1>5. CASE Wake \/ Stall \/ StartLoad \/ Overrun \/ BeginWait \/ EndWait \/ FinishLoad \/ OpenDialog \/ DialogStep
  <2>1. UNCHANGED <<owner, fate, abandoned, caller, call>>
    BY <1>5 DEF Wake, Stall, StartLoad, Overrun, BeginWait, EndWait, FinishLoad, TurnOnly, OpenDialog,
                DialogStep, AnnounceDialog, DialogTimesOut, CloseDialog, TakeAnswer, DialogOnly,
                jobVars, callVars
  <2> QED BY <2>1, <1>0
<1>6. CASE ReceiveJob
  <2>1. port # <<>> /\ UNCHANGED <<owner, abandoned, caller, call>>
    BY <1>6 DEF ReceiveJob, callVars
  <2>2. CASE UNCHANGED fate
    BY <2>1, <2>2, <1>0
  <2>3. CASE Head(port) # CloseJob /\ Accept(Head(port))
    <3> DEFINE j == Head(port)
    <3>1. j \in Jobs /\ fate[j] = "port"
      BY <2>1, <2>3, PortTail, JobNumbers DEF QueueInv, PortFits
    <3>2. \E f \in {"running", "parked"} : fate' = [fate EXCEPT ![j] = f]
      BY <2>3 DEF Accept, Run
    <3> HIDE DEF j
    <3>3. \A i \in Jobs \ {j} : fate'[i] = fate[i]
      BY <3>2 DEF Types, JobsOK
    <3> QED BY <2>1, <3>1, <3>3, FatesOnlyEnd DEF Pending
  <2> QED BY <1>6, <2>2, <2>3 DEF ReceiveJob
<1>7. CASE JobStep
  <2>1. UNCHANGED <<owner, abandoned, caller, call>>
    BY <1>7 DEF JobStep, CheckFlag, FinishJob, callVars
  <2>2. CASE UNCHANGED fate
    BY <2>1, <2>2, <1>0
  <2>3. CASE ~UNCHANGED fate
    <3> DEFINE j == Top.job
    <3>1. stack # <<>> /\ Top.what \in {"job", "control"} /\ Len(stack) \in 1..Len(stack)
      BY <1>7, TopOfShape DEF JobStep, CheckFlag, FinishJob
    <3>2. j \in Jobs /\ fate[j] = "running"
      BY <3>1 DEF QueueInv, JobFrames, Top
    <3>3. \E f \in {"done", "skipped"} : fate' = [fate EXCEPT ![j] = f]
      BY <1>7, <2>3 DEF JobStep, CheckFlag, FinishJob
    <3> HIDE DEF j
    <3>4. fate'[j] \in {"done", "skipped"} /\ \A i \in Jobs \ {j} : fate'[i] = fate[i]
      BY <3>2, <3>3 DEF Types, JobsOK
    <3> QED BY <2>1, <3>2, <3>4, FatesOnlyEnd DEF Pending
  <2> QED BY <2>2, <2>3
<1>8. CASE DrainCommand
  <2> DEFINE j == Head(pending)
  <2>1. /\ pending # <<>> /\ fate' = [fate EXCEPT ![j] = "running"] /\ UNCHANGED <<owner, abandoned, caller, call>>
    BY <1>8 DEF DrainCommand, Run, callVars
  <2>2. j \in Jobs /\ fate[j] = "parked"
    BY <2>1, PendingTail DEF QueueInv, PendingFits
  <2> HIDE DEF j
  <2>3. \A i \in Jobs \ {j} : fate'[i] = fate[i]
    BY <2>1 DEF Types, JobsOK
  <2> QED BY <2>1, <2>2, <2>3, FatesOnlyEnd DEF Pending
<1>9. CASE LeaveLoop \/ Panic
  <2>1. /\ \A i \in Jobs : fate'[i] = IF fate[i] \in {"port", "parked", "running"} THEN "dropped" ELSE fate[i]
        /\ UNCHANGED <<owner, abandoned, caller, call>>
    BY <1>9 DEF LeaveLoop, Panic, DropPage, callVars
  <2> QED BY <2>1, FatesOnlyEnd DEF Pending
<1> QED
  BY <1>1, <1>1a, <1>2, <1>3, <1>4, <1>5, <1>6, <1>7, <1>8, <1>9 DEF Next, TurnStep

(* A caller that was told Timeout had no answer, and unless its job had    *)
(* begun by then it never will.                                            *)
THEOREM TimeoutsAreFinal == Spec => TimeoutIsFinal
<1> DEFINE I == PageInv /\ ReportInv /\ TimeoutInv
           Act == TimeoutMeansUnanswered /\ GivenUpNeverLands
<1>1. Init => TimeoutInv
  BY DEF Init, TimeoutInv, GivenUpIsFlagged, LookingIsFlagged, AskingIsDropped, Pending
<1>2. I /\ [Next]_vars => I'
  BY PageInvStep, ReportStep, TimeoutStep DEF PageInv
<1>3. I /\ [Next]_vars => [Act]_vars
  <2> SUFFICES ASSUME PageInv, ReportInv, TimeoutInv, Next PROVE Act
    BY DEF PageInv
  <2>1. TimeoutMeansUnanswered
    <3> SUFFICES ASSUME NEW c \in Callers, result[c] # "timeout", result'[c] = "timeout"
                 PROVE  ~reply[call[c]]
      BY DEF TimeoutMeansUnanswered
    <3>1. result \in [Callers -> {"none", "ok", "timeout", "closed", "crashed"}] /\ result' # result
      BY DEF PageInv, Types, DriversOK
    <3>2. ASSUME NEW d \in Callers, NEW k \in Kinds, Call(d, k) PROVE FALSE
      BY <3>1, <3>2 DEF Call, GoneNow
    <3>3. ASSUME NEW d \in Callers, CallerStep(d) PROVE ~reply[call[c]]
      BY <3>1, <3>3 DEF CallerStep, GetReply, TimeOut, Abandon, LastLook, Disconnected, Gone, GoneNow, Return
    <3>4. PICK d \in Callers : (\E k \in Kinds : Call(d, k)) \/ CallerStep(d)
      BY <3>1 DEF Next, Raise, Post, Close, CloserStep, TakeJoin, JoinExited, Detach, Offer, Withdraw, ReceiveJob,
                  Wake, JobStep, CheckFlag, FinishJob, TurnStep, DrainCommand, Stall, LeaveLoop, StartLoad,
                  Overrun, BeginWait, EndWait, FinishLoad, OpenDialog, DialogStep, AnnounceDialog,
                  DialogTimesOut, CloseDialog, TakeAnswer, DialogOnly, TurnOnly, PageOnly, Panic, DropPage,
                  Epilogue, StoreCrash, MarkClosed, Exit, EpilogueOnly, callVars
    <3> QED BY <3>2, <3>3, <3>4
  <2>2. GivenUpNeverLands
    <3> SUFFICES ASSUME AtTop("check"), GivenUp(Top.job)
                 PROVE  stack' \in {stack, Below, <<>>}
      BY DEF GivenUpNeverLands
    <3>1. abandoned[Top.job]
      <4>1. stack # <<>> /\ Top.what \in {"job", "control"} /\ Len(stack) \in 1..Len(stack)
        BY TopOfShape DEF PageInv, AtTop
      <4>2. Top.job \in Jobs /\ fate[Top.job] = "running"
        BY <4>1 DEF PageInv, QueueInv, JobFrames, Top
      <4> QED BY <4>2 DEF TimeoutInv, GivenUpIsFlagged, Pending
    <3>2. \/ stack' = stack \/ CheckFlag
          \/ \E where \in {"park", "script", "turn", "raised", "asking", "answered"} : AtTop(where)
      BY DriverSteps, OtherSteps
      DEF Next, Close, Enqueue, PageState, PageInv, ReceiveJob,
          Wake, JobStep, FinishJob, TurnStep, DrainCommand, Stall, LeaveLoop, StartLoad,
          Overrun, BeginWait, EndWait, FinishLoad, OpenDialog, DialogStep, AnnounceDialog,
          DialogTimesOut, CloseDialog, TakeAnswer, Panic
    <3> QED BY <3>1, <3>2 DEF CheckFlag, AtTop
  <2> QED BY <2>1, <2>2
<1> QED BY <1>1, <1>2, <1>3, PageInvInit, PageInvStep, ReportInit, PTL DEF Spec, TimeoutIsFinal

-----------------------------------------------------------------------------
(***************************************************************************)
(* A close is on its way until the thread has left its loop.  The bottom   *)
(* frame is the command loop and no other is; it is never parked once the  *)
(* flag is up, because a nested wait that hears the request leaves it at a *)
(* turn.  And a batch is never longer than what it takes jobs from, or the *)
(* loop could neither go on with it nor park.                              *)
(***************************************************************************)
Framed(s) ==
  /\ Len(s) >= 1 /\ s[1].at \in {"turn", "park"}
  /\ \A i \in 1..Len(s) :
       /\ s[i].what = "loop" <=> i = 1
       /\ s[i].what = "dialog" <=> s[i].at \in Asks

Running == Framed(stack) /\ (closing => stack[1].at = "turn")

Requested == \E i \in 1..Len(port) : port[i] = CloseJob
Asked == \E k \in Closers : closer[k] # "idle"

ComingInv ==
  /\ portOpen <=> thread = "loop"
  /\ thread = "loop" => Running
  /\ batch <= Len(pending)
  /\ Asked /\ thread = "loop" => closing \/ Requested

(* The three things done to a stack, and what they leave of its bottom.    *)
LEMMA MoveKeepsFrames ==
  ASSUME Shape(stack), Framed(stack), NEW where \in Places,
         Top.what = "loop" => where \in {"turn", "park"},
         Top.what = "dialog" <=> where \in Asks
  PROVE  /\ Framed(MoveTo(where))
         /\ MoveTo(where)[1].at = "turn" \/ (Top.what = "loop" /\ MoveTo(where)[1].at = where)
<1> DEFINE m == MoveTo(where)
<1>1. StackOK /\ stack # <<>>
  BY EmptySeq DEF Shape, StackOK, Framed
<1>2. /\ Len(m) = Len(stack) /\ Len(stack) \in Nat \ {0}
      /\ \A i \in 1..Len(stack) : m[i] = IF i = Len(stack) THEN Frame(Top.what, Top.job, where) ELSE stack[i]
  BY <1>1, MoveFrames
<1>3. Top = stack[Len(stack)] /\ Len(stack) \in 1..Len(stack) /\ 1 \in 1..Len(stack)
  BY <1>2 DEF Top
<1> HIDE DEF m
<1>4. /\ \A i \in 1..Len(stack) : i # Len(stack) => m[i] = stack[i]
      /\ m[Len(stack)].what = Top.what /\ m[Len(stack)].at = where
  BY <1>2, <1>3 DEF Frame
<1>5. Top.what = "loop" <=> Len(stack) = 1
  BY <1>3 DEF Framed
<1>6. \A i \in 1..Len(m) : (m[i].what = "loop" <=> i = 1) /\ (m[i].what = "dialog" <=> m[i].at \in Asks)
  BY <1>2, <1>3, <1>4, <1>5 DEF Framed
<1>7. IF Len(stack) = 1 THEN m[1].at = where ELSE m[1].at = "turn"
  <2>1. Len(stack) # 1 => 1 < Len(stack) /\ stack[1].at \in {"turn", "script"}
    BY <1>2, <1>3 DEF Shape
  <2> QED BY <1>3, <1>4, <2>1 DEF Framed
<1>8. Framed(m)
  BY <1>2, <1>5, <1>6, <1>7 DEF Framed
<1> QED BY <1>5, <1>7, <1>8 DEF m

LEMMA PushKeepsFrames ==
  ASSUME NEW under \in Seq(Frames), Framed(under), NEW frame \in Frames, frame.what # "loop",
         frame.what = "dialog" <=> frame.at \in Asks
  PROVE  Framed(Append(under, frame)) /\ Append(under, frame)[1] = under[1]
<1> DEFINE s == Append(under, frame)
<1>1. /\ Len(s) = Len(under) + 1 /\ Len(under) \in Nat
      /\ \A i \in 1..Len(under) : s[i] = under[i]
      /\ s[Len(under) + 1] = frame
  BY PushFrames
<1> HIDE DEF s
<1>2. Framed(s) /\ s[1] = under[1]
  BY <1>1 DEF Framed
<1> QED BY <1>2 DEF s

LEMMA PopKeepsFrames ==
  ASSUME Shape(stack), Framed(stack), Top.what # "loop"
  PROVE  Framed(Below) /\ Below[1] = stack[1]
<1>1. StackOK /\ stack # <<>>
  BY EmptySeq DEF Shape, StackOK, Framed
<1>2. /\ Len(Below) = Len(stack) - 1 /\ Len(stack) \in Nat \ {0}
      /\ \A i \in 1..(Len(stack) - 1) : Below[i] = stack[i]
  BY <1>1, PopFrames
<1>3. Len(stack) > 1
  BY <1>2 DEF Framed, Top
<1> QED BY <1>2, <1>3 DEF Framed

(* What the top frame is, by where it is.                                  *)
LEMMA TopIs ==
  ASSUME Shape(stack), Framed(stack)
  PROVE  /\ stack # <<>> /\ Len(stack) \in Nat \ {0} /\ Top = stack[Len(stack)] /\ Top \in Frames
         /\ Top.what = "loop" <=> Len(stack) = 1
         /\ Top.what = "loop" => Top.at \in {"turn", "park"}
         /\ Top.what = "dialog" <=> Top.at \in Asks
         /\ Top.what = "control" => Top.at \in {"check", "script"}
         /\ Top.at = "check" => Top.what \in {"job", "control"}
<1>1. stack # <<>>
  BY EmptySeq DEF Framed
<1>2. Len(stack) \in Nat \ {0} /\ Top = stack[Len(stack)] /\ Top \in Frames
  BY <1>1, TopOfShape
<1>3. Len(stack) \in 1..Len(stack)
  BY <1>2
<1> QED BY <1>1, <1>2, <1>3 DEF Framed, Shape

(* Steps of others than the page thread, and of a thread past its loop.    *)
Outside == UNCHANGED <<thread, portOpen, stack, closing, batch, pending>>

LEMMA OutsideSteps ==
  /\ \A c \in Callers : Raise(c) \/ (\E k \in Kinds : Call(c, k)) \/ Post(c) \/ CallerStep(c) => Outside
  /\ \A k \in Closers : Close(k) \/ CloserStep(k) => Outside
  /\ \A a \in Answerers : Offer(a) \/ Withdraw(a) => Outside
<1> USE DEF Outside, jobVars, loopVars, exitVars
<1>1. ASSUME NEW c \in Callers, Raise(c) \/ (\E k \in Kinds : Call(c, k)) \/ Post(c) \/ CallerStep(c) PROVE Outside
  BY <1>1 DEF Raise, Call, Post, Enqueue, CallerStep, GetReply, TimeOut, Abandon, LastLook, Disconnected, Gone, Return
<1>2. ASSUME NEW k \in Closers, Close(k) \/ CloserStep(k) PROVE Outside
  BY <1>2 DEF Close, CloserStep, TakeJoin, JoinExited, Detach
<1>3. ASSUME NEW a \in Answerers, Offer(a) \/ Withdraw(a) PROVE Outside
  BY <1>3 DEF Offer, Withdraw
<1> QED BY <1>1, <1>2, <1>3

(* The thread's own steps keep it running: whatever they do to the stack,  *)
(* the loop parks only with the flag down, and hears it at a turn.         *)
LEMMA RunningStep ==
  ASSUME Types, Shape(stack), Running, [Next]_vars, thread' = "loop"
  PROVE  Running'
<1> USE DEF AtTop
<1>0. /\ Framed(stack) /\ (closing => stack[1].at = "turn")
      /\ stack # <<>> /\ Len(stack) \in Nat \ {0} /\ Top \in Frames
      /\ stack \in Seq(Frames)
  BY TopIs DEF Running, Shape
<1>1. CASE UNCHANGED <<stack, closing>>
  BY <1>0, <1>1 DEF Running, Framed
<1>2. ASSUME Framed(stack'), stack'[1] = stack[1], closing' = closing PROVE Running'
  BY <1>0, <1>2 DEF Running, Framed
<1>3. ASSUME AtTop("park") PROVE Framed(MoveTo("turn")) /\ MoveTo("turn")[1].at = "turn" /\ MoveTo("turn") \in Seq(Frames)
  <2>1. Top.what # "dialog" /\ "turn" \in Places /\ "turn" \notin Asks
    BY <1>0, <1>3, TopIs DEF Asks, Places
  <2>2. StackOK
    BY <1>0 DEF StackOK
  <2> QED BY <1>0, <2>1, <2>2, MoveKeepsFrames, MoveFrames
<1>4. CASE ReceiveJob \/ Wake
  <2>1. AtTop("park") /\ (stack' = MoveTo("turn") \/ \E f \in Frames : stack' = Append(MoveTo("turn"), f) /\ f.what \in {"job", "control"} /\ f.at = "check")
    <3>1. CASE Wake
      BY <3>1 DEF Wake
    <3>2. CASE ReceiveJob
      <4>1. AtTop("park") /\ port # <<>>
        BY <3>2 DEF ReceiveJob
      <4>2. CASE Head(port) = CloseJob
        BY <3>2, <4>1, <4>2 DEF ReceiveJob
      <4>3. CASE Head(port) # CloseJob
        <5>1. Head(port) \in Jobs /\ Accept(Head(port))
          BY <3>2, <4>1, <4>3, PortTail DEF ReceiveJob
        <5> QED BY <4>1, <5>1 DEF Accept, Run, Frame, Frames
      <4> QED BY <4>2, <4>3
    <3> QED BY <1>4, <3>1, <3>2
  <2>2. Framed(stack') /\ stack'[1].at = "turn"
    <3>1. CASE stack' = MoveTo("turn")
      BY <1>3, <2>1, <3>1
    <3>2. ASSUME NEW f \in Frames, stack' = Append(MoveTo("turn"), f), f.what \in {"job", "control"}, f.at = "check"
          PROVE  Framed(stack') /\ stack'[1].at = "turn"
      <4> DEFINE m == MoveTo("turn")
      <4>1. m \in Seq(Frames) /\ Framed(m) /\ m[1].at = "turn" /\ stack' = Append(m, f)
        BY <1>3, <2>1, <3>2
      <4>2. f.what # "loop" /\ (f.what = "dialog" <=> f.at \in Asks)
        BY <3>2 DEF Asks
      <4> HIDE DEF m
      <4> QED BY <4>1, <4>2, PushKeepsFrames
    <3> QED BY <2>1, <3>1, <3>2
  <2> QED BY <2>2 DEF Running, Framed
<1>5. CASE CheckFlag
  <2>1. AtTop("check") /\ (stack' = Below \/ stack' = MoveTo("script")) /\ closing' = closing
    BY <1>5 DEF CheckFlag
  <2>2. Top.what \in {"job", "control"} /\ "script" \in Places \ Asks
    BY <1>0, <2>1, TopIs DEF Places, Asks
  <2>3. CASE stack' = Below
    BY <1>0, <1>2, <2>1, <2>2, <2>3, PopKeepsFrames
  <2>4. CASE stack' = MoveTo("script")
    BY <1>0, <2>1, <2>2, <2>4, MoveKeepsFrames DEF Running, Framed
  <2> QED BY <2>1, <2>3, <2>4
<1>6. CASE FinishJob \/ FinishLoad \/ CloseDialog
  <2>1. stack' = Below /\ closing' = closing /\ (Top.what \in {"job", "control", "load"} \/ Top.at \in Asks)
    BY <1>6 DEF FinishJob, FinishLoad, CloseDialog, TurnOnly, DialogOnly, Asks
  <2>2. Top.what # "loop"
    BY <1>0, <2>1, TopIs DEF Asks
  <2> QED BY <1>0, <1>2, <2>1, <2>2, PopKeepsFrames
<1>7. CASE DrainCommand
  <2>1. pending # <<>> /\ Run(Head(pending), stack) /\ closing' = closing
    BY <1>7 DEF DrainCommand
  <2>2. Head(pending) \in Jobs
    BY <2>1, PendingTail
  <2>3. PICK f \in Frames : stack' = Append(stack, f) /\ f.what \in {"job", "control"} /\ f.at = "check"
    BY <2>1, <2>2 DEF Run, Frame, Frames
  <2> QED BY <1>0, <1>2, <2>1, <2>3, PushKeepsFrames DEF Asks
<1>8. CASE StartLoad \/ OpenDialog
  <2>1. PICK f \in {Frame("load", NoJob, "script"), Frame("dialog", NoJob, "raised")} :
          stack' = Append(stack, f) /\ closing' = closing
    BY <1>8 DEF StartLoad, OpenDialog, TurnOnly, DialogOnly, Push
  <2>2. f \in Frames /\ f.what # "loop" /\ (f.what = "dialog" <=> f.at \in Asks)
    BY DEF Frame, Frames, Asks
  <2> QED BY <1>0, <1>2, <2>1, <2>2, PushKeepsFrames
<1>9. CASE Stall \/ Overrun
  <2>1. AtTop("turn") /\ stack' = MoveTo("park") /\ closing' = closing /\ (Top.what = "loop" => ~closing)
    BY <1>9 DEF Stall, Overrun, TurnOnly
  <2>2. Top.what # "dialog" /\ "park" \in Places /\ "park" \notin Asks
    BY <1>0, <2>1, TopIs DEF Asks, Places
  <2> QED BY <1>0, <2>1, <2>2, MoveKeepsFrames DEF Running, Framed
<1>10. CASE BeginWait \/ EndWait
  <2>1. PICK where \in {"turn", "script"} : stack' = MoveTo(where) /\ closing' = closing
    BY <1>10 DEF BeginWait, EndWait, TurnOnly
  <2>2. Top.what \in {"job", "load"} /\ where \in Places \ Asks
    BY <1>10 DEF BeginWait, EndWait, Places, Asks
  <2> QED BY <1>0, <2>1, <2>2, MoveKeepsFrames DEF Running, Framed
<1>11. CASE AnnounceDialog \/ DialogTimesOut \/ \E a \in Answerers : TakeAnswer(a)
  <2>1. PICK where \in {"asking", "answered"} : stack' = MoveTo(where) /\ closing' = closing /\ Top.at \in Asks
    BY <1>11 DEF AnnounceDialog, DialogTimesOut, TakeAnswer, DialogOnly, Asks
  <2>2. Top.what = "dialog" /\ where \in Places /\ where \in Asks
    BY <1>0, <2>1, TopIs DEF Places, Asks
  <2> QED BY <1>0, <2>1, <2>2, MoveKeepsFrames DEF Running, Framed
<1>12. CASE LeaveLoop \/ Panic
  BY <1>12 DEF LeaveLoop, Panic, DropPage
<1>13. CASE Epilogue
  BY <1>1, <1>13 DEF Epilogue, StoreCrash, MarkClosed, Exit, EpilogueOnly, loopVars
<1>14. CASE UNCHANGED vars
  BY <1>1, <1>14 DEF vars, loopVars
<1>15. CASE Outside
  BY <1>1, <1>15 DEF Outside
<1> QED
  BY <1>4, <1>5, <1>6, <1>7, <1>8, <1>9, <1>10, <1>11, <1>12, <1>13, <1>14, <1>15, OutsideSteps
  DEF Next, JobStep, TurnStep, DialogStep

(* Whoever asked has his request in the channel, until it is heard.        *)
LEMMA RequestStep ==
  ASSUME Types, ComingInv, [Next]_vars, Asked', thread' = "loop"
  PROVE  (closing \/ Requested)'
<1>1. /\ Asked /\ thread = "loop" => closing \/ Requested
      /\ portOpen <=> thread = "loop"
  BY DEF ComingInv
<1>2. port \in Seq(Jobs \cup {CloseJob}) /\ Len(port) \in Nat
  BY Entries DEF Types, QueuesOK
<1>3. ASSUME UNCHANGED <<port, closing>>, thread = "loop", Asked PROVE (closing \/ Requested)'
  BY <1>1, <1>3 DEF Requested
<1>4. ASSUME NEW x \in Jobs \cup {CloseJob}, port' = Append(port, x), closing' = closing
      PROVE  /\ Requested => Requested'
             /\ x = CloseJob => Requested'
  <2>1. /\ Len(port') = Len(port) + 1 /\ port'[Len(port) + 1] = x
        /\ \A i \in 1..Len(port) : port'[i] = port[i]
    BY <1>2, <1>4, AppendProperties
  <2> QED BY <1>2, <2>1 DEF Requested
<1>5. ASSUME NEW c \in Callers, Raise(c) \/ (\E k \in Kinds : Call(c, k)) \/ Post(c) \/ CallerStep(c) PROVE (closing \/ Requested)'
  <2>1. UNCHANGED <<thread, closing, closer>>
    BY <1>5, OutsideSteps DEF Outside, Raise, Call, Post, CallerStep, GetReply, TimeOut, Abandon, LastLook,
                              Disconnected, Gone, Return, closeVars
  <2>2. port' = port \/ \E x \in Jobs : port' = Append(port, x)
    <3>1. sent < MaxJobs => sent + 1 \in Jobs
      BY PageThreadAssumption DEF Types, JobsOK, Jobs
    <3> QED BY <1>5, <3>1 DEF Raise, Call, Post, Enqueue, CallerStep, GetReply, TimeOut, Abandon, LastLook,
                              Disconnected, Gone, Return, loopVars
  <2>3. thread = "loop" /\ Asked
    BY <2>1 DEF Asked
  <2> QED BY <1>1, <1>3, <1>4, <2>1, <2>2, <2>3
<1>6. ASSUME NEW k \in Closers, Close(k) PROVE (closing \/ Requested)'
  <2>1. thread = "loop" /\ closing' = closing
    BY <1>6 DEF Close, exitVars
  <2>2. port' = Append(port, CloseJob)
    BY <1>1, <1>6, <2>1 DEF Close
  <2> QED BY <1>4, <2>1, <2>2
<1>7. ASSUME NEW k \in Closers, CloserStep(k) PROVE (closing \/ Requested)'
  <2>1. thread = "loop" /\ UNCHANGED <<port, closing>>
    BY <1>7 DEF CloserStep, TakeJoin, JoinExited, Detach, exitVars, loopVars
  <2>2. Asked
    BY <1>7 DEF CloserStep, TakeJoin, JoinExited, Detach, Asked
  <2> QED BY <1>3, <2>1, <2>2
<1>8. CASE ReceiveJob
  <2>1. port # <<>> /\ port' = Tail(port) /\ UNCHANGED <<thread, closer>>
    BY <1>8 DEF ReceiveJob, PageOnly, exitVars, closeVars
  <2>2. CASE Head(port) = CloseJob
    <3>1. Head(port) # CloseJob => closing' = closing
      BY <2>2
    <3>2. closing' = TRUE
      BY <1>8, <2>2 DEF ReceiveJob
    <3> QED BY <3>2
  <2>3. CASE Head(port) # CloseJob
    <3>1. closing' = closing /\ Asked /\ thread = "loop"
      BY <1>8, <2>1, <2>3 DEF ReceiveJob, Asked
    <3>2. Requested => Requested'
      <4>1. SUFFICES ASSUME NEW i \in 1..Len(port), port[i] = CloseJob PROVE Requested'
        BY DEF Requested
      <4>2. /\ Len(Tail(port)) = Len(port) - 1 /\ Head(port) = port[1]
            /\ \A j \in 1..Len(Tail(port)) : Tail(port)[j] = port[j + 1]
        BY <2>1, PortTail
      <4>3. i # 1
        BY <2>3, <4>1, <4>2
      <4>4. i - 1 \in 1..Len(Tail(port)) /\ Tail(port)[i - 1] = port[i]
        BY <1>2, <4>2, <4>3
      <4> QED BY <2>1, <4>1, <4>4 DEF Requested
    <3> QED BY <1>1, <3>1, <3>2
  <2> QED BY <2>2, <2>3
<1>9. ASSUME UNCHANGED <<port, closing, thread, closer>> PROVE (closing \/ Requested)'
  BY <1>1, <1>9 DEF Requested, Asked
<1>10. CASE Wake \/ JobStep \/ DrainCommand \/ Stall \/ StartLoad \/ Overrun \/ BeginWait \/ EndWait \/ FinishLoad
  BY <1>9, <1>10 DEF Wake, JobStep, CheckFlag, FinishJob, DrainCommand, Stall, StartLoad, Overrun, BeginWait,
                     EndWait, FinishLoad, TurnOnly, PageOnly, exitVars, closeVars
<1>11. CASE OpenDialog \/ DialogStep
  BY <1>9, <1>11 DEF OpenDialog, DialogStep, AnnounceDialog, DialogTimesOut, CloseDialog, TakeAnswer,
                     DialogOnly, PageOnly, exitVars, closeVars
<1>12. CASE LeaveLoop \/ Panic \/ Epilogue
  BY <1>12 DEF LeaveLoop, Panic, DropPage, Epilogue, StoreCrash, MarkClosed, Exit
<1>13. CASE (\E a \in Answerers : Offer(a) \/ Withdraw(a)) \/ UNCHANGED vars
  BY <1>9, <1>13 DEF Offer, Withdraw, vars, loopVars, exitVars, closeVars
<1> QED
  BY <1>5, <1>6, <1>7, <1>8, <1>10, <1>11, <1>12, <1>13 DEF Next, TurnStep

(* The receiver goes when the thread leaves its loop, and a batch shrinks  *)
(* with what it takes from.                                                *)
LEMMA LoopStateStep ==
  ASSUME Types, ComingInv, [Next]_vars
  PROVE  (portOpen <=> thread = "loop")' /\ (batch <= Len(pending))'
<1>1. /\ portOpen <=> thread = "loop"
      /\ batch <= Len(pending) /\ batch \in Nat /\ Len(pending) \in Nat /\ pending \in Seq(Jobs)
  BY Entries DEF ComingInv, Types, FlagsOK, QueuesOK
<1>2. ASSUME UNCHANGED <<thread, portOpen, batch, pending>>
      PROVE  (portOpen <=> thread = "loop")' /\ (batch <= Len(pending))'
  BY <1>1, <1>2
<1>3. CASE ReceiveJob
  <2>1. UNCHANGED <<thread, portOpen, batch>> /\ port # <<>>
    BY <1>3 DEF ReceiveJob, PageOnly, exitVars
  <2>2. pending' = pending \/ \E j \in Jobs : pending' = Append(pending, j)
    <3>1. Head(port) \in Jobs \cup {CloseJob}
      BY <2>1, PortTail
    <3> QED BY <1>3, <3>1 DEF ReceiveJob, Accept
  <2>3. Len(pending') >= Len(pending) /\ Len(pending') \in Nat
    BY <1>1, <2>2, AppendProperties
  <2> QED BY <1>1, <2>1, <2>3
<1>4. CASE DrainCommand
  <2>1. /\ UNCHANGED <<thread, portOpen>> /\ pending # <<>> /\ pending' = Tail(pending)
        /\ batch' = (IF batch > 0 THEN batch ELSE Len(pending)) - 1
    BY <1>4 DEF DrainCommand, PageOnly, exitVars
  <2>2. Len(pending') = Len(pending) - 1
    BY <2>1, PendingTail
  <2> QED BY <1>1, <2>1, <2>2
<1>5. CASE LeaveLoop \/ Panic
  <2>1. thread' = "left" /\ portOpen' = FALSE /\ batch' = 0 /\ pending' = <<>>
    BY <1>5 DEF LeaveLoop, Panic, DropPage
  <2> QED BY <2>1, EmptySeq
<1>6. CASE Epilogue
  <2>1. UNCHANGED <<portOpen, batch, pending>> /\ thread # "loop" /\ thread' # "loop"
    BY <1>6 DEF Epilogue, StoreCrash, MarkClosed, Exit, EpilogueOnly, loopVars
  <2> QED BY <1>1, <2>1
<1>7. CASE Wake \/ JobStep \/ Stall \/ StartLoad \/ Overrun \/ BeginWait \/ EndWait \/ FinishLoad
  BY <1>2, <1>7 DEF Wake, JobStep, CheckFlag, FinishJob, Stall, StartLoad, Overrun, BeginWait,
                    EndWait, FinishLoad, TurnOnly, PageOnly, exitVars
<1>8. CASE OpenDialog \/ DialogStep
  BY <1>2, <1>8 DEF OpenDialog, DialogStep, AnnounceDialog, DialogTimesOut, CloseDialog, TakeAnswer,
                    DialogOnly, PageOnly, exitVars
<1>9. CASE Outside \/ UNCHANGED vars
  BY <1>2, <1>9 DEF Outside, vars, loopVars, exitVars
<1> QED
  BY <1>3, <1>4, <1>5, <1>6, <1>7, <1>8, <1>9, OutsideSteps DEF Next, TurnStep

LEMMA ComingInvStep ==
  ASSUME PageInv, ComingInv, [Next]_vars
  PROVE  ComingInv'
<1>1. Types /\ Shape(stack) /\ Types'
  BY PageInvStep DEF PageInv
<1>2. thread' = "loop" => thread = "loop"
  BY DEF Next, Raise, Call, Post, Close, CallerStep, GetReply, TimeOut, Abandon, LastLook, Disconnected, Gone, Return,
         CloserStep, TakeJoin, JoinExited, Detach, Offer, Withdraw, ReceiveJob,
         Wake, JobStep, CheckFlag, FinishJob, TurnStep, DrainCommand, Stall, LeaveLoop, StartLoad,
         Overrun, BeginWait, EndWait, FinishLoad, OpenDialog, DialogStep, AnnounceDialog,
         DialogTimesOut, CloseDialog, TakeAnswer, DialogOnly, TurnOnly, PageOnly, Panic, DropPage,
         Epilogue, StoreCrash, MarkClosed, Exit, EpilogueOnly, exitVars, vars
<1>3. thread' = "loop" => Running'
  BY <1>1, <1>2, RunningStep DEF ComingInv
<1> QED BY <1>1, <1>3, RequestStep, LoopStateStep DEF ComingInv

(* A thread in its loop has a step of its own to take, unless the loop is  *)
(* asleep over an empty channel with nobody asking.                        *)
LEMMA LoopGoesOn ==
  ASSUME PageInv, ComingInv, thread = "loop", Asked
  PROVE  CanGoOn
<1> USE DEF AtTop
<1>1. Types /\ Shape(stack) /\ Framed(stack) /\ (closing => stack[1].at = "turn") /\ (closing \/ Requested)
  BY DEF PageInv, ComingInv, Running
<1>2. stack # <<>> /\ Len(stack) \in Nat \ {0} /\ Top = stack[Len(stack)] /\ Top \in Frames
  BY <1>1, TopIs
<1>3. CASE Top.what \in {"dialog", "control"}
  <2>1. Top.at \in Asks \cup {"check", "script"}
    BY <1>1, <1>3, TopIs
  <2> QED BY <1>2, <1>1, <1>3, <2>1, TopIs DEF CanGoOn, Asks
<1>4. CASE Top.what \in {"job", "load"}
  <2>1. Top.at \in {"turn", "park", "check", "script"}
    BY <1>1, <1>2, <1>4, TopIs DEF Frames, Asks
  <2> QED BY <1>2, <1>4, <2>1 DEF CanGoOn
<1>5. CASE Top.what = "loop"
  <2>1. Len(stack) = 1 /\ Top.at \in {"turn", "park"}
    BY <1>1, <1>5, TopIs
  <2>2. CanRunJobs
    BY <1>2, <1>5, <2>1 DEF CanRunJobs, InFrame
  <2>3. CASE Top.at = "turn"
    <3>1. pending = <<>> => ~MidBatch
      <4>1. batch <= Len(pending) /\ batch \in Nat
        BY <1>1 DEF ComingInv, Types, FlagsOK
      <4>2. pending = <<>> => Len(pending) = 0
        BY EmptySeq
      <4> QED BY <4>1, <4>2 DEF MidBatch
    <3> QED BY <1>2, <1>5, <2>2, <2>3, <3>1 DEF CanGoOn
  <2>4. CASE Top.at = "park"
    <3>1. Requested
      BY <1>1, <1>2, <2>1, <2>4
    <3>2. port # <<>>
      BY <3>1, EmptySeq DEF Requested
    <3> QED BY <1>2, <2>4, <3>2 DEF CanGoOn
  <2> QED BY <2>1, <2>3, <2>4
<1> QED BY <1>2, <1>3, <1>4, <1>5 DEF Frames

(* From the moment a driver asks for a close, and from inside any job,     *)
(* load or dialog, the thread has a step of its own to take until it has   *)
(* left its loop, and the request is in the channel or has been heard.     *)
THEOREM ClosesAreComing == Spec => []CloseIsComing
<1>1. Init => ComingInv
  <2> SUFFICES ASSUME Init PROVE ComingInv
    OBVIOUS
  <2> DEFINE f == Frame("loop", NoJob, "turn")
  <2>1. f.what = "loop" /\ f.at = "turn" /\ stack = <<f>>
    BY DEF Init, Frame
  <2> HIDE DEF f
  <2>2. Framed(stack)
    BY <2>1 DEF Framed, Asks
  <2>3. Len(pending) = 0 /\ ~Asked /\ batch = 0 /\ ~closing /\ portOpen /\ thread = "loop"
    BY EmptySeq DEF Init, Asked
  <2> QED BY <2>2, <2>3 DEF ComingInv, Running
<1>2. PageInv /\ ComingInv /\ [Next]_vars => ComingInv'
  BY ComingInvStep
<1>3. PageInv /\ ComingInv => CloseIsComing
  <2> SUFFICES ASSUME PageInv, ComingInv, Asked, thread = "loop"
               PROVE  /\ CanGoOn
                      /\ Requested \/ (closing /\ stack[1].what = "loop" /\ stack[1].at = "turn")
    BY DEF CloseIsComing, Asked, Requested
  <2>1. CanGoOn
    BY LoopGoesOn
  <2>2. (closing \/ Requested) /\ Running
    BY DEF ComingInv
  <2>3. 1 \in 1..Len(stack) /\ stack[1].what = "loop"
    <3>1. Shape(stack) /\ Framed(stack)
      BY <2>2 DEF PageInv, Running
    <3>2. Len(stack) \in Nat \ {0}
      BY <3>1, TopIs
    <3> QED BY <3>1, <3>2 DEF Framed
  <2> QED BY <2>1, <2>2, <2>3 DEF Running
<1> QED BY <1>1, <1>2, <1>3, PageInvInit, PageInvStep, PTL DEF Spec
=============================================================================
