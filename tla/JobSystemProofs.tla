-------------------------- MODULE JobSystemProofs ---------------------------
(***************************************************************************)
(* Proofs about JobSystem, for any number of workers and clients, any set  *)
(* of jobs with any dependencies and priorities, and any bound on the      *)
(* queue.                                                                  *)
(*                                                                         *)
(* Part 1 has the types, where each thread may stand, and the count of the *)
(* queued tasks.  Part 2 says where each task is: every scheduled task is  *)
(* in one place, and goes through its stages once.  Part 3 proves the      *)
(* counters that tell when work is done, unfinishedJobs and a task's       *)
(* remainingDependencies, and the order of a job after the job it depends  *)
(* on.                                                                     *)
(***************************************************************************)
EXTENDS JobSystem, FiniteSetTheorems, TLAPS

-----------------------------------------------------------------------------
(* Part 1.  Types, and where a thread may stand                            *)

\* TypeOK in parts, without the signs of the two counters that are counted
\* down: that these never pass below zero is what the counting is for.
StopTypes ==
  /\ running \in BOOLEAN /\ stopRequested \in BOOLEAN /\ cancelPending \in BOOLEAN
  /\ stpc \in {"idle", "cancel", "settle", "notify", "join", "stopped"}
  /\ drained \in 0..NumWorkers /\ victims \in Seq(Tasks)
  /\ idler \in {"out", "check", "held", "blocked", "returned"}

QueueTypes ==
  /\ queues \in [Workers -> Seq(Tasks)] /\ cursor \in 0..(NumWorkers - 1)
  /\ queuedJobs \in Int /\ unfinished \in Int

TaskTypes ==
  /\ remaining \in [Tasks -> Int]
  /\ scheduled \in [Tasks -> BOOLEAN] /\ completed \in [Tasks -> BOOLEAN]
  /\ dependents \in [Tasks -> Seq(Tasks)]
  /\ handle \in [Tasks -> BOOLEAN] /\ outcome \in [Tasks -> Outcomes]
  /\ settles \in [Tasks -> Nat] /\ ran \in [Tasks -> Nat]
  /\ submitted \subseteq Tasks

WorkerTypes ==
  /\ wpc \in [Workers -> WPCs] /\ cur \in [Workers -> Tasks \cup {NoTask}]
  /\ scan \in [Workers -> 0..(NumWorkers - 1)]

ThreadTypes ==
  /\ spc \in [Threads -> SPCs] /\ sub \in [Threads -> Tasks \cup {NoTask}]
  /\ dep \in [Threads -> Nat]
  /\ frames \in [Threads -> Seq(Frame)]

Typed == StopTypes /\ QueueTypes /\ TaskTypes /\ WorkerTypes /\ ThreadTypes

\* A submitter has a task and no SettleTask on its stack; below the innermost
\* SettleTask every other one is in NotifyDependents.
Standing ==
  /\ \A x \in Threads : spc[x] # "idle" =>
       x # Stopper /\ sub[x] \in Tasks /\ frames[x] = <<>>
  /\ \A x \in Threads : spc[x] \in {"register", "attach", "undo"} =>
       dep[x] \in 1..Len(Deps[sub[x]])
  /\ \A w \in Workers : wpc[w] \in {"popped", "run", "settling"} => cur[w] \in Tasks
  /\ \A x \in Threads : \A i \in 1..Len(frames[x]) :
       /\ frames[x][i].phase = "sched" => frames[x][i].todo # <<>>
       /\ i > 1 => frames[x][i].phase = "notify"

-----------------------------------------------------------------------------
(* Sequences                                                               *)

\* What prepending does.
LEMMA Consed ==
  ASSUME NEW S, NEW s \in Seq(S), NEW e \in S
  PROVE  /\ <<e>> \o s \in Seq(S)
         /\ Len(<<e>> \o s) = Len(s) + 1
         /\ (<<e>> \o s)[1] = e /\ Head(<<e>> \o s) = e
         /\ <<e>> \o s # <<>>
         /\ \A i \in 1..Len(s) : (<<e>> \o s)[i + 1] = s[i]
         /\ \A i \in 2..(Len(s) + 1) : i - 1 \in 1..Len(s) /\ (<<e>> \o s)[i] = s[i - 1]
  OBVIOUS

\* What dropping the first element does.
LEMMA Tailed ==
  ASSUME NEW S, NEW s \in Seq(S), s # <<>>
  PROVE  /\ Tail(s) \in Seq(S) /\ Head(s) \in S /\ Head(s) = s[1]
         /\ Len(s) \in Nat /\ Len(s) >= 1 /\ 1 \in 1..Len(s)
         /\ Len(Tail(s)) = Len(s) - 1
         /\ \A i \in 1..(Len(s) - 1) : i + 1 \in 1..Len(s) /\ Tail(s)[i] = s[i + 1]
  OBVIOUS

\* What keeping the first n elements does.
LEMMA Prefixed ==
  ASSUME NEW S, NEW s \in Seq(S), NEW n \in Nat, n <= Len(s)
  PROVE  SubSeq(s, 1, n) \in Seq(S) /\ Len(SubSeq(s, 1, n)) = n
  OBVIOUS

\* What replacing the first element does.
LEMMA Headed ==
  ASSUME NEW S, NEW s \in Seq(S), s # <<>>, NEW e \in S
  PROVE  /\ <<e>> \o Tail(s) \in Seq(S)
         /\ Len(<<e>> \o Tail(s)) = Len(s)
         /\ (<<e>> \o Tail(s))[1] = e
         /\ <<e>> \o Tail(s) # <<>>
         /\ \A i \in 2..Len(s) : (<<e>> \o Tail(s))[i] = s[i]
<1>1. /\ Tail(s) \in Seq(S) /\ Len(Tail(s)) = Len(s) - 1 /\ Len(s) \in Nat
      /\ \A i \in 1..(Len(s) - 1) : Tail(s)[i] = s[i + 1]
  BY Tailed
<1>2. \A i \in 2..(Len(Tail(s)) + 1) : (<<e>> \o Tail(s))[i] = Tail(s)[i - 1]
  BY <1>1, Consed
<1>3. \A i \in 2..Len(s) : i - 1 \in 1..(Len(s) - 1) /\ (i - 1) + 1 = i
  BY <1>1
<1>4. \A i \in 2..Len(s) : (<<e>> \o Tail(s))[i] = s[i]
  BY <1>1, <1>2, <1>3
<1> QED
  BY <1>1, <1>4, Consed

-----------------------------------------------------------------------------
(* Types                                                                   *)

\* The threads and the constants.
LEMMA Sizes ==
  /\ NumWorkers \in Nat /\ NumWorkers >= 1 /\ NumClients \in Nat /\ MaxQueued \in Nat
  /\ Workers \subseteq Threads /\ Stopper \in Threads /\ Stopper \notin Workers
  /\ \A i \in 0..(NumWorkers - 1) : i + 1 \in Workers
  /\ \A t \in Tasks : Deps[t] \in Seq(Tasks)
  /\ NoTask \notin Tasks
  BY SizeAssumption, TaskAssumption DEF Workers, Threads, Stopper

\* A new call of SettleTask.
LEMMA FreshFrame ==
  ASSUME NEW t \in Tasks, NEW out \in Outcomes \ {"none"}
  PROVE  /\ SettleFrame(t, out) \in Frame
         /\ SettleFrame(t, out).task = t
         /\ SettleFrame(t, out).out = out
         /\ SettleFrame(t, out).phase = "complete"
         /\ SettleFrame(t, out).todo = <<>>
  BY DEF SettleFrame, Frame

\* The fields of a call.
LEMMA FrameFields ==
  ASSUME NEW f \in Frame
  PROVE  /\ f.task \in Tasks /\ f.out \in Outcomes \ {"none"}
         /\ f.phase \in {"complete", "swap", "notify", "sched"}
         /\ f.todo \in Seq(Tasks)
  BY DEF Frame

\* What becomes of the queues when a task is inserted.
LEMMA Inserting ==
  ASSUME Typed, NEW x \in Threads, NEW t \in Tasks, PushTask(x, t)
  PROVE  /\ \E i \in Workers : \E q \in Seq(Tasks) :
              /\ queues' = [queues EXCEPT ![i] = q]
              /\ q = Append(queues[i], t) \/ q = <<t>> \o queues[i]
         /\ queues' \in [Workers -> Seq(Tasks)]
         /\ cursor' \in 0..(NumWorkers - 1)
         /\ queuedJobs' = queuedJobs + 1
<1> DEFINE i == IF x \in Workers THEN x ELSE cursor + 1
           q == IF Prio[t] >= 2 \/ x \in Workers THEN <<t>> \o queues[i]
                ELSE Append(queues[i], t)
<1>1. i \in Workers /\ queues \in [Workers -> Seq(Tasks)] /\ cursor \in 0..(NumWorkers - 1)
  BY Sizes DEF Typed, StopTypes, QueueTypes, TaskTypes, WorkerTypes, ThreadTypes
<1>2. queues[i] \in Seq(Tasks)
  BY <1>1
<1>3. q \in Seq(Tasks) /\ (q = Append(queues[i], t) \/ q = <<t>> \o queues[i])
  BY <1>2
<1>4. queues' = [queues EXCEPT ![i] = q]
  BY DEF PushTask
<1>5. cursor' \in 0..(NumWorkers - 1)
  BY <1>1, Sizes DEF PushTask
<1>6. queuedJobs' = queuedJobs + 1
  BY DEF PushTask
<1> HIDE DEF i, q
<1> QED
  BY <1>1, <1>3, <1>4, <1>5, <1>6

\* Whom the insertion wakes.
LEMMA Waking ==
  ASSUME Typed, NEW x \in Threads, NEW t \in Tasks, PushTask(x, t)
  PROVE  /\ wpc' \in [Workers -> WPCs]
         /\ \A w \in Workers :
              wpc'[w] = wpc[w] \/ (wpc[w] = "asleep" /\ wpc'[w] = "wait")
         /\ (\E w \in Workers : wpc[w] = "asleep")
              => \E w \in Workers : wpc'[w] = "wait"
<1>1. NotifyWorker /\ wpc \in [Workers -> WPCs] /\ "wait" \in WPCs
  BY DEF PushTask, Typed, StopTypes, QueueTypes, TaskTypes, WorkerTypes, ThreadTypes, WPCs
<1>2. CASE {w \in Workers : wpc[w] = "asleep"} = {}
  BY <1>1, <1>2 DEF NotifyWorker
<1>3. CASE {w \in Workers : wpc[w] = "asleep"} # {}
  <2>1. PICK v \in {w \in Workers : wpc[w] = "asleep"} : wpc' = [wpc EXCEPT ![v] = "wait"]
    BY <1>1, <1>3 DEF NotifyWorker
  <2> QED
    BY <1>1, <2>1
<1> QED
  BY <1>2, <1>3

\* A step of the innermost SettleTask changes that call only.
LEMMA TopFrame ==
  ASSUME Typed, NEW x \in Threads, NEW f \in Frame, frames[x] # <<>>, Top(x, f)
  PROVE  /\ frames' \in [Threads -> Seq(Frame)]
         /\ \A y \in Threads : y # x => frames'[y] = frames[y]
         /\ frames'[x] # <<>>
         /\ Len(frames'[x]) = Len(frames[x])
         /\ frames'[x][1] = f
         /\ \A i \in 2..Len(frames[x]) : frames'[x][i] = frames[x][i]
<1>1. frames \in [Threads -> Seq(Frame)] /\ frames[x] \in Seq(Frame)
  BY DEF Typed, StopTypes, QueueTypes, TaskTypes, WorkerTypes, ThreadTypes
<1> DEFINE g == <<f>> \o Tail(frames[x])
<1>2. /\ g \in Seq(Frame) /\ g # <<>> /\ Len(g) = Len(frames[x]) /\ g[1] = f
      /\ \A i \in 2..Len(frames[x]) : g[i] = frames[x][i]
  BY <1>1, Headed
<1>3. frames' = [frames EXCEPT ![x] = g]
  BY DEF Top
<1> HIDE DEF g
<1> QED
  BY <1>1, <1>2, <1>3

\* A new call comes on top of the stack.
LEMMA NewFrame ==
  ASSUME Typed, NEW x \in Threads, NEW f \in Frame,
         frames' = [frames EXCEPT ![x] = <<f>> \o @]
  PROVE  /\ frames' \in [Threads -> Seq(Frame)]
         /\ \A y \in Threads : y # x => frames'[y] = frames[y]
         /\ frames'[x] # <<>>
         /\ Len(frames'[x]) = Len(frames[x]) + 1
         /\ frames'[x][1] = f
         /\ \A i \in 2..(Len(frames[x]) + 1) :
              i - 1 \in 1..Len(frames[x]) /\ frames'[x][i] = frames[x][i - 1]
<1>1. frames \in [Threads -> Seq(Frame)] /\ frames[x] \in Seq(Frame)
  BY DEF Typed, StopTypes, QueueTypes, TaskTypes, WorkerTypes, ThreadTypes
<1> DEFINE g == <<f>> \o frames[x]
<1>2. /\ g \in Seq(Frame) /\ g # <<>> /\ Len(g) = Len(frames[x]) + 1 /\ g[1] = f
      /\ \A i \in 2..(Len(frames[x]) + 1) :
           i - 1 \in 1..Len(frames[x]) /\ g[i] = frames[x][i - 1]
  BY <1>1, Consed
<1>3. frames' = [frames EXCEPT ![x] = g]
  OBVIOUS
<1> HIDE DEF g
<1> QED
  BY <1>1, <1>2, <1>3

\* A call returns.
LEMMA FrameGone ==
  ASSUME Typed, NEW x \in Threads, frames[x] # <<>>,
         frames' = [frames EXCEPT ![x] = Tail(@)]
  PROVE  /\ frames' \in [Threads -> Seq(Frame)]
         /\ \A y \in Threads : y # x => frames'[y] = frames[y]
         /\ Len(frames'[x]) = Len(frames[x]) - 1
         /\ \A i \in 1..(Len(frames[x]) - 1) :
              i + 1 \in 1..Len(frames[x]) /\ frames'[x][i] = frames[x][i + 1]
<1>1. frames \in [Threads -> Seq(Frame)] /\ frames[x] \in Seq(Frame)
  BY DEF Typed, StopTypes, QueueTypes, TaskTypes, WorkerTypes, ThreadTypes
<1> DEFINE g == Tail(frames[x])
<1>2. /\ g \in Seq(Frame) /\ Len(g) = Len(frames[x]) - 1
      /\ \A i \in 1..(Len(frames[x]) - 1) :
           i + 1 \in 1..Len(frames[x]) /\ g[i] = frames[x][i + 1]
  BY <1>1, Tailed
<1>3. frames' = [frames EXCEPT ![x] = g]
  OBVIOUS
<1> HIDE DEF g
<1> QED
  BY <1>1, <1>2, <1>3

\* The innermost call of a thread that settles.
LEMMA Innermost ==
  ASSUME Typed, NEW x \in Threads, frames[x] # <<>>
  PROVE  /\ Head(frames[x]) \in Frame /\ Head(frames[x]) = frames[x][1]
         /\ Len(frames[x]) \in Nat /\ Len(frames[x]) >= 1 /\ 1 \in 1..Len(frames[x])
<1>1. frames[x] \in Seq(Frame)
  BY DEF Typed, StopTypes, QueueTypes, TaskTypes, WorkerTypes, ThreadTypes
<1> QED
  BY <1>1, Tailed

\* The state is of its types and every thread stands where it may.
TypedInv == Typed /\ Standing

\* Init establishes both.
LEMMA InitTyped == Init => TypedInv
<1> SUFFICES ASSUME Init PROVE TypedInv
  OBVIOUS
<1>1. Typed
  <2>1. 0 \in 0..(NumWorkers - 1) /\ 0 \in 0..NumWorkers
    BY Sizes
  <2>2. StopTypes
    <3>1. <<>> \in Seq(Tasks)
      OBVIOUS
    <3> QED
      BY <2>1, <3>1 DEF Init, StopTypes
  <2>5. QueueTypes
    <3>1. <<>> \in Seq(Tasks)
      OBVIOUS
    <3> QED
      BY <2>1, <3>1 DEF Init, QueueTypes
  <2>3. TaskTypes
    BY DEF Init, TaskTypes, Outcomes
  <2>4. WorkerTypes /\ ThreadTypes
    BY <2>1 DEF Init, WorkerTypes, ThreadTypes, WPCs, SPCs
  <2> QED
    BY <2>2, <2>3, <2>4, <2>5 DEF Typed
<1>2. Standing
  BY DEF Init, Standing
<1> QED
  BY <1>1, <1>2 DEF TypedInv

\* A thread that registers dependencies goes on to the next.
LEMMA RegisterNext ==
  ASSUME TypedInv, NEW x \in Threads, spc[x] \in {"register", "attach", "undo"},
         NextDep(x), UNCHANGED <<sub, frames, wpc, cur>>
  PROVE  ThreadTypes' /\ Standing'
<1>0. ThreadTypes /\ Standing
  BY DEF TypedInv, Typed
<1>1. sub[x] \in Tasks /\ dep[x] \in 1..Len(Deps[sub[x]]) /\ Len(Deps[sub[x]]) \in Nat
  BY <1>0, Sizes DEF Standing
<1>2. ThreadTypes'
  BY <1>0 DEF NextDep, ThreadTypes, SPCs
<1>3. Standing'
  BY <1>0, <1>1 DEF NextDep, ThreadTypes, Standing
<1> QED
  BY <1>2, <1>3

\* A thread that registers dependencies stays at the same one.
LEMMA RegisterSame ==
  ASSUME TypedInv, NEW x \in Threads, spc[x] \in {"register", "attach", "undo"},
         NEW v \in {"register", "attach", "undo"}, spc' = [spc EXCEPT ![x] = v],
         UNCHANGED <<sub, dep, frames, wpc, cur>>
  PROVE  ThreadTypes' /\ Standing'
<1>0. ThreadTypes /\ Standing
  BY DEF TypedInv, Typed
<1>2. ThreadTypes'
  BY <1>0 DEF ThreadTypes, SPCs
<1>3. Standing'
  BY <1>0 DEF ThreadTypes, Standing
<1> QED
  BY <1>2, <1>3

\* Every step keeps the types: the submissions.
LEMMA TypedSubmit ==
  ASSUME TypedInv,
         \/ \E x \in Threads, t \in Tasks : Submit(x, t)
         \/ \E t \in Tasks : DropHandle(t)
         \/ \E x \in Threads : SubmitStep(x)
  PROVE  TypedInv'
<1>0. Typed /\ Standing
  BY DEF TypedInv
<1>1. ASSUME NEW x \in Threads, NEW t \in Tasks, Submit(x, t) PROVE TypedInv'
  <2>1. Typed'
    <3>1. StopTypes' /\ QueueTypes' /\ WorkerTypes'
      BY <1>0, <1>1 DEF Submit, Typed, StopTypes, QueueTypes, WorkerTypes,
                        flagVars, queueVars, workerVars, stopVars
    <3>2. TaskTypes'
      BY <1>0, <1>1 DEF Submit, Typed, TaskTypes, taskVars
    <3>3. ThreadTypes'
      BY <1>0, <1>1 DEF Submit, Typed, ThreadTypes, SPCs
    <3> QED
      BY <3>1, <3>2, <3>3 DEF Typed
  <2>2. Standing'
    <3>1. Deps[t] # <<>> => 1 \in 1..Len(Deps[t])
      BY Sizes
    <3>2. x # Stopper
      BY <1>1, Sizes DEF Submit, Clients, Stopper
    <3> QED
      BY <1>0, <1>1, <3>1, <3>2 DEF Submit, Typed, ThreadTypes, Standing, workerVars
  <2> QED
    BY <2>1, <2>2 DEF TypedInv
<1>2. ASSUME NEW t \in Tasks, DropHandle(t) PROVE TypedInv'
  <2>1. Typed'
    <3>1. StopTypes' /\ QueueTypes' /\ WorkerTypes' /\ ThreadTypes'
      BY <1>0, <1>2 DEF DropHandle, Typed, StopTypes, QueueTypes, WorkerTypes, ThreadTypes,
                        flagVars, queueVars, workerVars, submitVars, stopVars
    <3>2. TaskTypes'
      BY <1>0, <1>2 DEF DropHandle, Typed, TaskTypes, taskVars
    <3> QED
      BY <3>1, <3>2 DEF Typed
  <2>2. Standing'
    BY <1>0, <1>2 DEF DropHandle, Standing, workerVars, submitVars
  <2> QED
    BY <2>1, <2>2 DEF TypedInv
<1>3. ASSUME NEW x \in Threads, Register(x) PROVE TypedInv'
  <2>1. /\ spc[x] \in {"register", "attach", "undo"}
        /\ UNCHANGED <<sub, frames, wpc, cur>>
    BY <1>3 DEF Register, workerVars
  <2>2. StopTypes' /\ QueueTypes' /\ WorkerTypes'
    BY <1>0, <1>3 DEF Register, Typed, StopTypes, QueueTypes, WorkerTypes,
                      flagVars, queueVars, workerVars, stopVars
  <2>3. UNCHANGED <<scheduled, completed, dependents, ghostVars>>
    BY <1>3 DEF Register
  <2>4. CASE NextDep(x) /\ UNCHANGED remaining
    <3>1. ThreadTypes' /\ Standing'
      BY <2>1, <2>4, RegisterNext
    <3>2. TaskTypes'
      BY <1>0, <2>3, <2>4 DEF Typed, TaskTypes, ghostVars
    <3> QED
      BY <2>2, <3>1, <3>2 DEF Typed, TypedInv
  <2>5. CASE /\ remaining' = [remaining EXCEPT ![sub[x]] = @ + 1]
             /\ spc' = [spc EXCEPT ![x] = "attach"] /\ UNCHANGED dep
    <3>1. ThreadTypes' /\ Standing'
      BY <2>1, <2>5, RegisterSame
    <3>2. sub[x] \in Tasks
      BY <1>0, <2>1 DEF Standing
    <3>3. remaining' \in [Tasks -> Int]
      BY <1>0, <2>5, <3>2 DEF Typed, TaskTypes
    <3>4. TaskTypes'
      BY <1>0, <2>3, <3>3 DEF Typed, TaskTypes, ghostVars
    <3> QED
      BY <2>2, <3>1, <3>4 DEF Typed, TypedInv
  <2> QED
    BY <1>3, <2>4, <2>5 DEF Register
<1>4. ASSUME NEW x \in Threads, Attach(x) PROVE TypedInv'
  <2>1. /\ spc[x] \in {"register", "attach", "undo"}
        /\ UNCHANGED <<sub, frames, wpc, cur>>
    BY <1>4 DEF Attach, workerVars
  <2>2. StopTypes' /\ QueueTypes' /\ WorkerTypes'
    BY <1>0, <1>4 DEF Attach, Typed, StopTypes, QueueTypes, WorkerTypes,
                      flagVars, queueVars, workerVars, stopVars
  <2>3. UNCHANGED <<remaining, scheduled, completed, ghostVars>>
    BY <1>4 DEF Attach
  <2>4. CASE /\ dependents' = [dependents EXCEPT ![Deps[sub[x]][dep[x]]] = Append(@, sub[x])]
             /\ NextDep(x)
    <3>1. ThreadTypes' /\ Standing'
      BY <2>1, <2>4, RegisterNext
    <3>2. sub[x] \in Tasks /\ Deps[sub[x]][dep[x]] \in Tasks
      BY <1>0, <2>1, Sizes DEF Standing
    <3>3. dependents' \in [Tasks -> Seq(Tasks)]
      BY <1>0, <2>4, <3>2 DEF Typed, TaskTypes
    <3>4. TaskTypes'
      BY <1>0, <2>3, <3>3 DEF Typed, TaskTypes, ghostVars
    <3> QED
      BY <2>2, <3>1, <3>4 DEF Typed, TypedInv
  <2>5. CASE spc' = [spc EXCEPT ![x] = "undo"] /\ UNCHANGED <<dependents, dep>>
    <3>1. ThreadTypes' /\ Standing'
      BY <2>1, <2>5, RegisterSame
    <3>2. TaskTypes'
      BY <1>0, <2>3, <2>5 DEF Typed, TaskTypes, ghostVars
    <3> QED
      BY <2>2, <3>1, <3>2 DEF Typed, TypedInv
  <2> QED
    BY <1>4, <2>4, <2>5 DEF Attach
<1>5. ASSUME NEW x \in Threads, Undo(x) PROVE TypedInv'
  <2>1. StopTypes' /\ QueueTypes' /\ WorkerTypes'
    BY <1>0, <1>5 DEF Undo, Typed, StopTypes, QueueTypes, WorkerTypes,
                      flagVars, queueVars, workerVars, stopVars
  <2>2. TaskTypes'
    <3>1. sub[x] \in Tasks
      BY <1>0, <1>5 DEF Undo, Standing
    <3>2. remaining' \in [Tasks -> Int]
      BY <1>0, <1>5, <3>1 DEF Undo, Typed, TaskTypes
    <3> QED
      BY <1>0, <1>5, <3>2 DEF Undo, Typed, TaskTypes, ghostVars
  <2>3. ThreadTypes' /\ Standing'
    BY <1>5, RegisterSame DEF Undo, workerVars
  <2> QED
    BY <2>1, <2>2, <2>3 DEF Typed, TypedInv
<1>6. ASSUME NEW x \in Threads, Schedule(x) \/ WakeForSpace(x) PROVE TypedInv'
  <2>0. x # Stopper /\ sub[x] \in Tasks /\ frames[x] = <<>>
    BY <1>0, <1>6 DEF Schedule, WakeForSpace, Standing
  <2>1. /\ queues' \in [Workers -> Seq(Tasks)] /\ cursor' \in 0..(NumWorkers - 1)
        /\ queuedJobs' \in Int /\ wpc' \in [Workers -> WPCs]
        /\ \A w \in Workers :
             wpc'[w] = wpc[w] \/ (wpc[w] = "asleep" /\ wpc'[w] = "wait")
    <3>1. CASE PushTask(x, sub[x])
      <4>1. /\ queues' \in [Workers -> Seq(Tasks)] /\ cursor' \in 0..(NumWorkers - 1)
            /\ queuedJobs' = queuedJobs + 1
        BY <1>0, <2>0, <3>1, Inserting
      <4>2. /\ wpc' \in [Workers -> WPCs]
            /\ \A w \in Workers :
                 wpc'[w] = wpc[w] \/ (wpc[w] = "asleep" /\ wpc'[w] = "wait")
        BY <1>0, <2>0, <3>1, Waking
      <4> QED
        BY <1>0, <4>1, <4>2 DEF Typed, QueueTypes
    <3>2. CASE UNCHANGED <<queueVars, wpc>>
      BY <1>0, <3>2 DEF Typed, QueueTypes, WorkerTypes, queueVars
    <3> QED
      BY <1>6, <3>1, <3>2 DEF Schedule, WakeForSpace
  <2>2. /\ frames' \in [Threads -> Seq(Frame)]
        /\ \A y \in Threads : y # x => frames'[y] = frames[y]
        /\ \/ frames' = frames
           \/ /\ spc'[x] = "idle" /\ Len(frames'[x]) = 1
              /\ frames'[x][1].phase = "complete"
    <3>1. CASE frames' = frames
      BY <1>0, <3>1 DEF Typed, ThreadTypes
    <3>2. CASE frames' = [frames EXCEPT ![x] = <<SettleFrame(sub[x], "refused")>> \o @]
      <4>1. SettleFrame(sub[x], "refused") \in Frame
        BY <2>0, FreshFrame DEF Outcomes
      <4>2. Len(frames[x]) = 0
        BY <2>0
      <4>3. CASE frames' # frames
        <5>1. spc' = [spc EXCEPT ![x] = "idle"]
          BY <1>6, <4>3 DEF Schedule, WakeForSpace, Returned
        <5> QED
          BY <1>0, <2>0, <3>2, <4>1, <4>2, <5>1, NewFrame, FreshFrame DEF Typed, ThreadTypes, Outcomes
      <4> QED
        BY <3>1, <4>3
    <3> QED
      BY <1>6, <3>1, <3>2 DEF Schedule, WakeForSpace
  <2>3. /\ spc' \in [Threads -> SPCs] /\ sub' \in [Threads -> Tasks \cup {NoTask}]
        /\ \A y \in Threads : y # x => spc'[y] = spc[y] /\ sub'[y] = sub[y]
        /\ spc'[x] # "idle" => sub'[x] = sub[x]
        /\ spc'[x] \notin {"register", "attach", "undo"}
    BY <1>0, <1>6 DEF Schedule, WakeForSpace, Returned, Typed, ThreadTypes, SPCs
  <2>4. /\ scheduled' \in [Tasks -> BOOLEAN]
        /\ cur' = cur /\ dep' = dep
    BY <1>0, <1>6, <2>0 DEF Schedule, WakeForSpace, Typed, TaskTypes, taskVars
  <2>5. Typed'
    <3>1. StopTypes' /\ QueueTypes'
      BY <1>0, <1>6, <2>1 DEF Schedule, WakeForSpace, Typed, StopTypes, QueueTypes,
                              flagVars, stopVars
    <3>2. TaskTypes'
      BY <1>0, <1>6, <2>4 DEF Schedule, WakeForSpace, Typed, TaskTypes, taskVars, ghostVars
    <3>3. WorkerTypes' /\ ThreadTypes'
      BY <1>0, <1>6, <2>1, <2>2, <2>3, <2>4
         DEF Schedule, WakeForSpace, Typed, WorkerTypes, ThreadTypes
    <3> QED
      BY <3>1, <3>2, <3>3 DEF Typed
  <2>6. Standing'
    <3>1. \A y \in Threads : spc'[y] # "idle" => y # Stopper /\ sub'[y] \in Tasks /\ frames'[y] = <<>>
      BY <1>0, <2>0, <2>2, <2>3 DEF Standing
    <3>2. \A y \in Threads : spc'[y] \in {"register", "attach", "undo"} =>
            dep'[y] \in 1..Len(Deps[sub'[y]])
      BY <1>0, <2>3, <2>4 DEF Standing
    <3>3. \A w \in Workers : wpc'[w] \in {"popped", "run", "settling"} => cur'[w] \in Tasks
      BY <1>0, <2>1, <2>4 DEF Standing
    <3>4. \A y \in Threads : \A i \in 1..Len(frames'[y]) :
            /\ frames'[y][i].phase = "sched" => frames'[y][i].todo # <<>>
            /\ i > 1 => frames'[y][i].phase = "notify"
      <4> SUFFICES ASSUME NEW y \in Threads, NEW i \in 1..Len(frames'[y])
                   PROVE  /\ frames'[y][i].phase = "sched" => frames'[y][i].todo # <<>>
                          /\ i > 1 => frames'[y][i].phase = "notify"
        OBVIOUS
      <4>1. CASE frames'[y] = frames[y]
        BY <1>0, <4>1 DEF Standing
      <4>2. CASE Len(frames'[y]) = 1 /\ frames'[y][1].phase = "complete"
        <5>1. i = 1
          BY <4>2
        <5> QED
          BY <4>2, <5>1
      <4> QED
        BY <2>2, <4>1, <4>2
    <3> QED
      BY <3>1, <3>2, <3>3, <3>4 DEF Standing
  <2> QED
    BY <2>5, <2>6 DEF TypedInv
<1>7. ASSUME NEW x \in Threads, BlockForSpace(x) PROVE TypedInv'
  <2>1. Typed'
    <3>1. StopTypes' /\ QueueTypes' /\ WorkerTypes'
      BY <1>0, <1>7 DEF BlockForSpace, Typed, StopTypes, QueueTypes, WorkerTypes,
                        flagVars, queueVars, workerVars, stopVars
    <3>2. TaskTypes' /\ ThreadTypes'
      BY <1>0, <1>7 DEF BlockForSpace, Typed, TaskTypes, ThreadTypes, taskVars, ghostVars, SPCs
    <3> QED
      BY <3>1, <3>2 DEF Typed
  <2>2. Standing'
    BY <1>0, <1>7 DEF BlockForSpace, Typed, ThreadTypes, Standing, workerVars
  <2> QED
    BY <2>1, <2>2 DEF TypedInv
<1> QED
  BY <1>1, <1>2, <1>3, <1>4, <1>5, <1>6, <1>7 DEF SubmitStep

\* A call puts another one on top of itself.
LEMMA DeeperFrame ==
  ASSUME Typed, NEW x \in Threads, NEW f \in Frame, NEW g \in Frame, frames[x] # <<>>,
         frames' = [frames EXCEPT ![x] = <<f, g>> \o Tail(@)]
  PROVE  /\ frames' \in [Threads -> Seq(Frame)]
         /\ \A y \in Threads : y # x => frames'[y] = frames[y]
         /\ frames'[x] # <<>>
         /\ Len(frames'[x]) = Len(frames[x]) + 1
         /\ frames'[x][1] = f /\ frames'[x][2] = g
         /\ \A i \in 3..(Len(frames[x]) + 1) :
              i - 1 \in 2..Len(frames[x]) /\ frames'[x][i] = frames[x][i - 1]
<1>1. frames \in [Threads -> Seq(Frame)] /\ frames[x] \in Seq(Frame)
  BY DEF Typed, ThreadTypes
<1> DEFINE r == Tail(frames[x])
           h == <<f, g>> \o r
<1>2. /\ r \in Seq(Frame) /\ Len(r) = Len(frames[x]) - 1 /\ Len(frames[x]) \in Nat
      /\ \A i \in 1..(Len(frames[x]) - 1) : r[i] = frames[x][i + 1]
  BY <1>1, Tailed
<1>3. /\ h \in Seq(Frame) /\ h # <<>> /\ Len(h) = Len(r) + 2
      /\ h[1] = f /\ h[2] = g
      /\ \A i \in 3..(Len(r) + 2) : i - 2 \in 1..Len(r) /\ h[i] = r[i - 2]
  <2> HIDE DEF r
  <2> QED
    BY <1>2
<1>4. \A i \in 3..(Len(frames[x]) + 1) :
        i - 1 \in 2..Len(frames[x]) /\ h[i] = frames[x][i - 1]
  <2> HIDE DEF h, r
  <2> SUFFICES ASSUME NEW i \in 3..(Len(frames[x]) + 1)
               PROVE  i - 1 \in 2..Len(frames[x]) /\ h[i] = frames[x][i - 1]
    OBVIOUS
  <2>1. /\ i \in 3..(Len(r) + 2) /\ i - 2 \in 1..(Len(frames[x]) - 1)
        /\ (i - 2) + 1 = i - 1 /\ i - 1 \in 2..Len(frames[x])
    BY <1>2
  <2>2. h[i] = r[i - 2] /\ r[i - 2] = frames[x][(i - 2) + 1]
    BY <1>2, <1>3, <2>1
  <2> QED
    BY <2>1, <2>2
<1>5. frames' = [frames EXCEPT ![x] = h]
  OBVIOUS
<1>6. Len(h) = Len(frames[x]) + 1
  BY <1>2, <1>3
<1> HIDE DEF h, r
<1> QED
  BY <1>1, <1>3, <1>4, <1>5, <1>6

\* Workers that were only woken stand where they may.
Woken == \A w \in Workers :
           wpc'[w] = wpc[w] \/ (wpc[w] = "asleep" /\ wpc'[w] = "wait")

\* A thread that settles stands where it may: the innermost call moves on, ...
LEMMA StandTop ==
  ASSUME TypedInv, NEW x \in Threads, NEW f \in Frame, frames[x] # <<>>, Top(x, f),
         f.phase = "sched" => f.todo # <<>>,
         UNCHANGED <<spc, sub, dep, cur>>, Woken
  PROVE  frames' \in [Threads -> Seq(Frame)] /\ Standing'
<1>0. Typed /\ Standing
  BY DEF TypedInv
<1>1. /\ frames' \in [Threads -> Seq(Frame)]
      /\ \A y \in Threads : y # x => frames'[y] = frames[y]
      /\ Len(frames'[x]) = Len(frames[x])
      /\ frames'[x][1] = f
      /\ \A i \in 2..Len(frames[x]) : frames'[x][i] = frames[x][i]
  BY <1>0, TopFrame
<1>2. \A y \in Threads : \A i \in 1..Len(frames'[y]) :
        /\ frames'[y][i].phase = "sched" => frames'[y][i].todo # <<>>
        /\ i > 1 => frames'[y][i].phase = "notify"
  <2> SUFFICES ASSUME NEW y \in Threads, NEW i \in 1..Len(frames'[y])
               PROVE  /\ frames'[y][i].phase = "sched" => frames'[y][i].todo # <<>>
                      /\ i > 1 => frames'[y][i].phase = "notify"
    OBVIOUS
  <2>1. CASE y # x
    BY <1>0, <1>1, <2>1 DEF Standing
  <2>2. CASE y = x /\ i = 1
    BY <1>1, <2>2
  <2>3. CASE y = x /\ i # 1
    <3>1. i \in 2..Len(frames[x]) /\ i \in 1..Len(frames[x])
      BY <1>1, <2>3
    <3> QED
      BY <1>0, <1>1, <2>3, <3>1 DEF Standing
  <2> QED
    BY <2>1, <2>2, <2>3
<1>3. \A y \in Threads : spc'[y] # "idle" => y # Stopper /\ sub'[y] \in Tasks /\ frames'[y] = <<>>
  BY <1>0, <1>1 DEF Standing
<1> QED
  BY <1>0, <1>1, <1>2, <1>3 DEF Standing, Woken

\* ... it settles another task first, ...
LEMMA StandDeeper ==
  ASSUME TypedInv, NEW x \in Threads, NEW f \in Frame, NEW g \in Frame, frames[x] # <<>>,
         frames' = [frames EXCEPT ![x] = <<f, g>> \o Tail(@)],
         f.phase = "complete", g.phase = "notify",
         UNCHANGED <<spc, sub, dep, cur>>, Woken
  PROVE  frames' \in [Threads -> Seq(Frame)] /\ Standing'
<1>0. Typed /\ Standing
  BY DEF TypedInv
<1>1. /\ frames' \in [Threads -> Seq(Frame)]
      /\ \A y \in Threads : y # x => frames'[y] = frames[y]
      /\ Len(frames'[x]) = Len(frames[x]) + 1
      /\ frames'[x][1] = f /\ frames'[x][2] = g
      /\ \A i \in 3..(Len(frames[x]) + 1) :
           i - 1 \in 2..Len(frames[x]) /\ frames'[x][i] = frames[x][i - 1]
  BY <1>0, DeeperFrame
<1>2. \A y \in Threads : \A i \in 1..Len(frames'[y]) :
        /\ frames'[y][i].phase = "sched" => frames'[y][i].todo # <<>>
        /\ i > 1 => frames'[y][i].phase = "notify"
  <2> SUFFICES ASSUME NEW y \in Threads, NEW i \in 1..Len(frames'[y])
               PROVE  /\ frames'[y][i].phase = "sched" => frames'[y][i].todo # <<>>
                      /\ i > 1 => frames'[y][i].phase = "notify"
    OBVIOUS
  <2>1. CASE y # x
    BY <1>0, <1>1, <2>1 DEF Standing
  <2>2. CASE y = x /\ i \in {1, 2}
    BY <1>1, <2>2
  <2>3. CASE y = x /\ i \notin {1, 2}
    <3>1. i \in 3..(Len(frames[x]) + 1)
      BY <1>1, <2>3
    <3>2. i - 1 \in 1..Len(frames[x]) /\ i - 1 > 1
      BY <1>1, <3>1
    <3> QED
      BY <1>0, <1>1, <2>3, <3>1, <3>2 DEF Standing
  <2> QED
    BY <2>1, <2>2, <2>3
<1>3. \A y \in Threads : spc'[y] # "idle" => y # Stopper /\ sub'[y] \in Tasks /\ frames'[y] = <<>>
  BY <1>0, <1>1 DEF Standing
<1> QED
  BY <1>0, <1>1, <1>2, <1>3 DEF Standing, Woken

\* ... or returns.
LEMMA StandGone ==
  ASSUME TypedInv, NEW x \in Threads, frames[x] # <<>>,
         frames' = [frames EXCEPT ![x] = Tail(@)],
         UNCHANGED <<spc, sub, dep, wpc, cur>>
  PROVE  frames' \in [Threads -> Seq(Frame)] /\ Standing'
<1>0. Typed /\ Standing
  BY DEF TypedInv
<1>1. /\ frames' \in [Threads -> Seq(Frame)]
      /\ \A y \in Threads : y # x => frames'[y] = frames[y]
      /\ Len(frames'[x]) = Len(frames[x]) - 1
      /\ \A i \in 1..(Len(frames[x]) - 1) :
           i + 1 \in 1..Len(frames[x]) /\ frames'[x][i] = frames[x][i + 1]
  BY <1>0, FrameGone
<1>2. \A y \in Threads : \A i \in 1..Len(frames'[y]) :
        /\ frames'[y][i].phase = "sched" => frames'[y][i].todo # <<>>
        /\ i > 1 => frames'[y][i].phase = "notify"
  <2> SUFFICES ASSUME NEW y \in Threads, NEW i \in 1..Len(frames'[y])
               PROVE  /\ frames'[y][i].phase = "sched" => frames'[y][i].todo # <<>>
                      /\ i > 1 => frames'[y][i].phase = "notify"
    OBVIOUS
  <2>1. CASE y # x
    BY <1>0, <1>1, <2>1 DEF Standing
  <2>2. CASE y = x
    <3>1. i \in 1..(Len(frames[x]) - 1) /\ i + 1 \in 1..Len(frames[x]) /\ i + 1 > 1
      BY <1>1, <2>2
    <3>2. frames'[x][i].phase = "notify"
      BY <1>0, <1>1, <3>1 DEF Standing
    <3> QED
      BY <2>2, <3>2
  <2> QED
    BY <2>1, <2>2
<1>3. \A y \in Threads : spc'[y] # "idle" => y # Stopper /\ sub'[y] \in Tasks /\ frames'[y] = <<>>
  BY <1>0, <1>1 DEF Standing
<1> QED
  BY <1>0, <1>1, <1>2, <1>3 DEF Standing

\* Every step keeps the types: SettleTask.
LEMMA TypedSettle ==
  ASSUME TypedInv, NEW x \in Threads, SettleStep(x)
  PROVE  TypedInv'
<1>0. Typed /\ Standing
  BY DEF TypedInv
<1> DEFINE f == Head(frames[x])
<1>a. frames[x] # <<>>
  BY DEF SettleStep, SettleComplete, SettleSwap, Resolve, ResolveSchedule, SettleDone
<1>b. /\ f \in Frame /\ f = frames[x][1] /\ 1 \in 1..Len(frames[x])
      /\ f.task \in Tasks /\ f.out \in Outcomes /\ f.todo \in Seq(Tasks)
      /\ f.todo # <<>> => Head(f.todo) \in Tasks /\ Tail(f.todo) \in Seq(Tasks)
  <2>1. f \in Frame /\ f = frames[x][1] /\ 1 \in 1..Len(frames[x])
    BY <1>0, <1>a, Innermost
  <2>2. f.task \in Tasks /\ f.out \in Outcomes /\ f.todo \in Seq(Tasks)
    BY <2>1, FrameFields
  <2>3. f.todo # <<>> => Head(f.todo) \in Tasks /\ Tail(f.todo) \in Seq(Tasks)
    BY <2>2, Tailed
  <2> QED
    BY <2>1, <2>2, <2>3
<1>c. f.phase = "sched" => f.todo # <<>>
  BY <1>0, <1>b DEF Standing
<1>1. ASSUME SettleComplete(x) PROVE TypedInv'
  <2>1. [f EXCEPT !.phase = "swap"] \in Frame
        /\ [f EXCEPT !.phase = "swap"].phase = "swap"
    BY <1>b DEF Frame
  <2>2. Top(x, [f EXCEPT !.phase = "swap"]) /\ UNCHANGED <<spc, sub, dep, wpc, cur>>
    BY <1>1 DEF SettleComplete, submitVars, workerVars
  <2>3. frames' \in [Threads -> Seq(Frame)] /\ Standing'
    BY <1>a, <2>1, <2>2, StandTop DEF Woken
  <2>4. StopTypes' /\ QueueTypes' /\ WorkerTypes' /\ ThreadTypes'
    BY <1>0, <1>1, <2>3 DEF SettleComplete, Typed, StopTypes, QueueTypes, WorkerTypes,
         ThreadTypes, flagVars, queueVars, workerVars, submitVars, stopVars
  <2>5. TaskTypes'
    <3> HIDE DEF f
    <3>1. /\ outcome' = [outcome EXCEPT ![f.task] = f.out]
          /\ settles' = [settles EXCEPT ![f.task] = @ + 1]
          /\ completed' = [completed EXCEPT ![f.task] = TRUE]
          /\ UNCHANGED <<remaining, scheduled, dependents, ran, submitted, handle>>
      BY <1>1 DEF SettleComplete, f
    <3> QED
      BY <1>0, <1>b, <3>1 DEF Typed, TaskTypes
  <2> QED
    BY <2>3, <2>4, <2>5 DEF TypedInv, Typed
<1>2. ASSUME SettleSwap(x) PROVE TypedInv'
  <2> DEFINE g == [f EXCEPT !.phase = "notify", !.todo = dependents[f.task]]
  <2>0. dependents \in [Tasks -> Seq(Tasks)]
    BY <1>0 DEF Typed, TaskTypes
  <2>1. g \in Frame /\ g.phase = "notify"
    BY <1>b, <2>0 DEF Frame
  <2>2. Top(x, g) /\ UNCHANGED <<spc, sub, dep, wpc, cur>>
    BY <1>2 DEF SettleSwap, submitVars, workerVars
  <2>3. frames' \in [Threads -> Seq(Frame)] /\ Standing'
    <3> HIDE DEF g
    <3> QED
      BY <1>a, <2>1, <2>2, StandTop DEF Woken
  <2>4. StopTypes' /\ QueueTypes' /\ WorkerTypes' /\ ThreadTypes'
    BY <1>0, <1>2, <2>3 DEF SettleSwap, Typed, StopTypes, QueueTypes, WorkerTypes,
         ThreadTypes, flagVars, queueVars, workerVars, submitVars, stopVars
  <2>5. TaskTypes'
    <3>1. dependents' = [dependents EXCEPT ![f.task] = <<>>] /\ <<>> \in Seq(Tasks)
      BY <1>2 DEF SettleSwap
    <3>2. UNCHANGED <<remaining, scheduled, completed, outcome, settles, ran, submitted, handle>>
      BY <1>2 DEF SettleSwap, ghostVars
    <3>3. dependents' \in [Tasks -> Seq(Tasks)]
      BY <2>0, <3>1
    <3> QED
      BY <1>0, <3>2, <3>3 DEF Typed, TaskTypes
  <2> QED
    BY <2>3, <2>4, <2>5 DEF TypedInv, Typed
<1>3. ASSUME Resolve(x) PROVE TypedInv'
  <2> DEFINE g == [f EXCEPT !.todo = Tail(@)]
             h == [f EXCEPT !.phase = "sched"]
  <2>0. f.todo # <<>> /\ f.phase = "notify"
    BY <1>3 DEF Resolve
  <2>1. g \in Frame /\ h \in Frame /\ g.phase = "notify" /\ h.phase = "sched" /\ h.todo # <<>>
    BY <1>b, <2>0 DEF Frame
  <2>2. (Top(x, g) \/ Top(x, h)) /\ UNCHANGED <<spc, sub, dep, wpc, cur>>
    BY <1>3 DEF Resolve, submitVars, workerVars
  <2>3. frames' \in [Threads -> Seq(Frame)] /\ Standing'
    <3> HIDE DEF g, h
    <3>1. CASE Top(x, g)
      BY <1>a, <2>1, <2>2, <3>1, StandTop DEF Woken
    <3>2. CASE Top(x, h)
      BY <1>a, <2>1, <2>2, <3>2, StandTop DEF Woken
    <3> QED
      BY <2>2, <3>1, <3>2
  <2>4. StopTypes' /\ QueueTypes' /\ WorkerTypes' /\ ThreadTypes'
    BY <1>0, <1>3, <2>3 DEF Resolve, Typed, StopTypes, QueueTypes, WorkerTypes,
         ThreadTypes, flagVars, queueVars, workerVars, submitVars, stopVars
  <2>5. TaskTypes'
    <3>1. \/ UNCHANGED remaining
          \/ remaining' = [remaining EXCEPT ![Head(f.todo)] = @ - 1]
      BY <1>3 DEF Resolve
    <3>2. UNCHANGED <<scheduled, completed, dependents, outcome, settles, ran, submitted, handle>>
      BY <1>3 DEF Resolve, ghostVars
    <3>3. Head(f.todo) \in Tasks
      BY <1>b, <2>0
    <3>4. remaining' \in [Tasks -> Int]
      <4>1. remaining \in [Tasks -> Int]
        BY <1>0 DEF Typed, TaskTypes
      <4>2. CASE remaining' = [remaining EXCEPT ![Head(f.todo)] = @ - 1]
        <5> HIDE DEF f
        <5> QED
          BY <3>3, <4>1, <4>2
      <4> QED
        BY <3>1, <4>1, <4>2
    <3> QED
      BY <1>0, <3>2, <3>4 DEF Typed, TaskTypes
  <2> QED
    BY <2>3, <2>4, <2>5 DEF TypedInv, Typed
<1>4. ASSUME ResolveSchedule(x) PROVE TypedInv'
  <2> DEFINE d == Head(f.todo)
             g == [f EXCEPT !.phase = "notify", !.todo = Tail(@)]
  <2>0. f.todo # <<>> /\ d \in Tasks
    BY <1>4, <1>b, <1>c DEF ResolveSchedule
  <2>1. g \in Frame /\ g.phase = "notify"
    BY <1>b, <2>0 DEF Frame
  <2>2. /\ queues' \in [Workers -> Seq(Tasks)] /\ cursor' \in 0..(NumWorkers - 1)
        /\ queuedJobs' \in Int /\ wpc' \in [Workers -> WPCs] /\ Woken
    <3>1. CASE PushTask(x, d)
      <4> HIDE DEF d
      <4>1. /\ queues' \in [Workers -> Seq(Tasks)] /\ cursor' \in 0..(NumWorkers - 1)
            /\ queuedJobs' = queuedJobs + 1
        BY <1>0, <2>0, <3>1, Inserting
      <4>2. wpc' \in [Workers -> WPCs] /\ Woken
        BY <1>0, <2>0, <3>1, Waking DEF Woken
      <4> QED
        BY <1>0, <4>1, <4>2 DEF Typed, QueueTypes
    <3>2. CASE UNCHANGED <<queueVars, wpc>>
      BY <1>0, <3>2 DEF Typed, QueueTypes, WorkerTypes, queueVars, Woken
    <3> QED
      BY <1>4, <3>1, <3>2 DEF ResolveSchedule
  <2>3. UNCHANGED <<spc, sub, dep, cur, scan>>
    BY <1>4 DEF ResolveSchedule, submitVars
  <2>4. frames' \in [Threads -> Seq(Frame)] /\ Standing'
    <3>1. CASE Top(x, g)
      <4> HIDE DEF g
      <4> QED
        BY <1>a, <2>1, <2>2, <2>3, <3>1, StandTop
    <3>2. CASE frames' = [frames EXCEPT ![x] = <<SettleFrame(d, "refused"), g>> \o Tail(@)]
      <4>1. SettleFrame(d, "refused") \in Frame /\ SettleFrame(d, "refused").phase = "complete"
        BY <2>0, FreshFrame DEF Outcomes
      <4> HIDE DEF g, d
      <4> QED
        BY <1>a, <2>1, <2>2, <2>3, <3>2, <4>1, StandDeeper
    <3> QED
      BY <1>4, <3>1, <3>2 DEF ResolveSchedule
  <2>5. StopTypes' /\ QueueTypes' /\ WorkerTypes' /\ ThreadTypes'
    BY <1>0, <1>4, <2>2, <2>3, <2>4 DEF ResolveSchedule, Typed, StopTypes, QueueTypes,
         WorkerTypes, ThreadTypes, flagVars, stopVars
  <2>6. TaskTypes'
    <3>1. UNCHANGED scheduled \/ scheduled' = [scheduled EXCEPT ![d] = TRUE]
      BY <1>4 DEF ResolveSchedule
    <3>2. UNCHANGED <<remaining, completed, dependents, outcome, settles, ran, submitted, handle>>
      BY <1>4 DEF ResolveSchedule, ghostVars
    <3>3. scheduled' \in [Tasks -> BOOLEAN]
      BY <1>0, <3>1 DEF Typed, TaskTypes
    <3> QED
      BY <1>0, <3>2, <3>3 DEF Typed, TaskTypes
  <2> QED
    BY <2>4, <2>5, <2>6 DEF TypedInv, Typed
<1>5. ASSUME SettleDone(x) PROVE TypedInv'
  <2>1. frames' = [frames EXCEPT ![x] = Tail(@)] /\ UNCHANGED <<spc, sub, dep, wpc, cur>>
    BY <1>5 DEF SettleDone, submitVars, workerVars
  <2>2. frames' \in [Threads -> Seq(Frame)] /\ Standing'
    BY <1>a, <2>1, StandGone
  <2>3. StopTypes'
    BY <1>0, <1>5 DEF SettleDone, IdlerNotified, Typed, StopTypes, flagVars, stopVars
  <2>4. QueueTypes'
    BY <1>0, <1>5 DEF SettleDone, Typed, QueueTypes, queueVars
  <2>5. TaskTypes' /\ WorkerTypes' /\ ThreadTypes'
    BY <1>0, <1>5, <2>2 DEF SettleDone, Typed, TaskTypes, WorkerTypes, ThreadTypes,
         taskVars, ghostVars, workerVars, submitVars
  <2> QED
    BY <2>2, <2>3, <2>4, <2>5 DEF TypedInv, Typed
<1> QED
  BY <1>1, <1>2, <1>3, <1>4, <1>5 DEF SettleStep

\* Every step keeps the types: the workers.
LEMMA TypedWorker ==
  ASSUME TypedInv, NEW w \in Workers, WorkerStep(w)
  PROVE  TypedInv'
<1>0. Typed /\ Standing /\ w \in Threads
  BY Sizes DEF TypedInv
<1>1. ASSUME BeginClaim(w) \/ WaitForWork(w) PROVE TypedInv'
  <2>1. \E v \in {"wait", "scan", "asleep", "exited", "claim"} :
          wpc' = [wpc EXCEPT ![w] = v]
    BY <1>1 DEF BeginClaim, WaitForWork
  <2>2. UNCHANGED <<flagVars, queueVars, unfinished, taskVars, ghostVars, cur,
                    scan, submitVars, frames, stopVars, idler>>
    BY <1>1 DEF BeginClaim, WaitForWork
  <2>3. StopTypes' /\ QueueTypes' /\ TaskTypes' /\ ThreadTypes'
    BY <1>0, <2>2 DEF Typed, StopTypes, QueueTypes, TaskTypes, ThreadTypes,
         flagVars, queueVars, taskVars, ghostVars, submitVars, stopVars
  <2>4. WorkerTypes'
    BY <1>0, <2>1, <2>2 DEF Typed, WorkerTypes, WPCs
  <2>5. Standing'
    BY <1>0, <2>1, <2>2 DEF Typed, WorkerTypes, Standing, submitVars
  <2> QED
    BY <2>3, <2>4, <2>5 DEF TypedInv, Typed
<1>2. ASSUME TryPop(w) PROVE TypedInv'
  <2> DEFINE v == Victim(w)
             q == queues[v]
  <2>0. v \in Workers
    BY <1>0, Sizes DEF Typed, WorkerTypes, Victim, Workers
  <2>1. q \in Seq(Tasks)
    BY <1>0, <2>0 DEF Typed, QueueTypes
  <2>2. UNCHANGED <<flagVars, cursor, queuedJobs, unfinished, taskVars, ghostVars,
                 submitVars, frames, stopVars, idler>>
    BY <1>2 DEF TryPop
  <2>3. StopTypes' /\ TaskTypes' /\ ThreadTypes'
    BY <1>0, <2>2 DEF Typed, StopTypes, TaskTypes, ThreadTypes,
         flagVars, taskVars, ghostVars, submitVars, stopVars
  <2>4. CASE q # <<>>
    <3>1. /\ Head(q) \in Tasks /\ q[Len(q)] \in Tasks
          /\ Tail(q) \in Seq(Tasks) /\ SubSeq(q, 1, Len(q) - 1) \in Seq(Tasks)
      <4> HIDE DEF q
      <4> QED
        BY <2>1, <2>4
    <3>2. \E t \in Tasks : \E r \in Seq(Tasks) :
            cur' = [cur EXCEPT ![w] = t] /\ queues' = [queues EXCEPT ![v] = r]
      <4>1. /\ cur' = [cur EXCEPT ![w] = IF scan[w] = 0 THEN Head(q) ELSE q[Len(q)]]
            /\ queues' = [queues EXCEPT ![v] =
                 IF scan[w] = 0 THEN Tail(q) ELSE SubSeq(q, 1, Len(q) - 1)]
        BY <1>2, <2>4 DEF TryPop
      <4> HIDE DEF q, v
      <4> QED
        BY <3>1, <4>1
    <3>3. /\ wpc' = [wpc EXCEPT ![w] = "popped"]
          /\ scan' = [scan EXCEPT ![w] = 0]
      BY <1>2, <2>4 DEF TryPop
    <3>4. QueueTypes'
      <4> HIDE DEF q, v
      <4>1. queues' \in [Workers -> Seq(Tasks)]
        BY <1>0, <2>0, <3>2 DEF Typed, QueueTypes
      <4> QED
        BY <1>0, <2>2, <4>1 DEF Typed, QueueTypes
    <3>5. WorkerTypes'
      <4> HIDE DEF q, v
      <4>1. 0 \in 0..(NumWorkers - 1)
        BY Sizes
      <4> QED
        BY <1>0, <3>2, <3>3, <4>1 DEF Typed, WorkerTypes, WPCs
    <3>6. Standing'
      <4> HIDE DEF q, v
      <4> QED
        BY <1>0, <2>2, <3>2, <3>3 DEF Typed, WorkerTypes, Standing, submitVars
    <3> QED
      BY <2>3, <3>4, <3>5, <3>6 DEF TypedInv, Typed
  <2>5. CASE q = <<>>
    <3>1. UNCHANGED <<cur, queues>>
      BY <1>2, <2>5 DEF TryPop
    <3>2. \/ /\ scan[w] < NumWorkers - 1
             /\ scan' = [scan EXCEPT ![w] = @ + 1] /\ UNCHANGED wpc
          \/ wpc' = [wpc EXCEPT ![w] = "wait"] /\ scan' = [scan EXCEPT ![w] = 0]
      BY <1>2, <2>5 DEF TryPop
    <3>3. QueueTypes'
      BY <1>0, <2>2, <3>1 DEF Typed, QueueTypes
    <3>4. WorkerTypes'
      <4>1. /\ scan \in [Workers -> 0..(NumWorkers - 1)] /\ wpc \in [Workers -> WPCs]
            /\ scan[w] \in 0..(NumWorkers - 1) /\ "wait" \in WPCs
            /\ 0 \in 0..(NumWorkers - 1)
        BY <1>0, Sizes DEF Typed, WorkerTypes, WPCs
      <4>2. scan[w] < NumWorkers - 1 => scan[w] + 1 \in 0..(NumWorkers - 1)
        BY <4>1, Sizes
      <4>3. scan' \in [Workers -> 0..(NumWorkers - 1)]
        BY <3>2, <4>1, <4>2
      <4>4. wpc' \in [Workers -> WPCs]
        BY <3>2, <4>1
      <4> QED
        BY <1>0, <3>1, <4>3, <4>4 DEF Typed, WorkerTypes
    <3>5. Standing'
      BY <1>0, <2>2, <3>1, <3>2 DEF Typed, WorkerTypes, Standing, submitVars
    <3> QED
      BY <2>3, <3>3, <3>4, <3>5 DEF TypedInv, Typed
  <2> QED
    BY <2>4, <2>5
<1>3. ASSUME StartJob(w) PROVE TypedInv'
  <2>0. cur[w] \in Tasks
    BY <1>0, <1>3 DEF StartJob, Standing
  <2>1. \/ UNCHANGED spc
        \/ \E x \in Threads : spc[x] = "spaceBlocked" /\ spc' = [spc EXCEPT ![x] = "space"]
    BY <1>3 DEF StartJob
  <2>2. StopTypes' /\ QueueTypes'
    BY <1>0, <1>3 DEF StartJob, Typed, StopTypes, QueueTypes, flagVars, stopVars
  <2>3. TaskTypes'
    <3>1. ran' = [ran EXCEPT ![cur[w]] = @ + 1]
      BY <1>3 DEF StartJob
    <3>2. UNCHANGED <<taskVars, outcome, settles, submitted, handle>>
      BY <1>3 DEF StartJob
    <3>3. ran' \in [Tasks -> Nat]
      BY <1>0, <2>0, <3>1 DEF Typed, TaskTypes
    <3> QED
      BY <1>0, <3>2, <3>3 DEF Typed, TaskTypes, taskVars
  <2>4. wpc' = [wpc EXCEPT ![w] = "run"] /\ UNCHANGED <<cur, scan, sub, dep, frames>>
    BY <1>3 DEF StartJob
  <2>5. WorkerTypes' /\ ThreadTypes'
    BY <1>0, <2>1, <2>4 DEF Typed, WorkerTypes, ThreadTypes, WPCs, SPCs
  <2>6. Standing'
    BY <1>0, <2>0, <2>1, <2>4 DEF Typed, WorkerTypes, ThreadTypes, Standing
  <2> QED
    BY <2>2, <2>3, <2>5, <2>6 DEF TypedInv, Typed
<1>4. ASSUME FinishJob(w) PROVE TypedInv'
  <2>0. cur[w] \in Tasks /\ spc[w] = "idle"
    BY <1>0, <1>4 DEF FinishJob, Standing
  <2>1. PICK out \in {"ok", "failed"} :
          frames' = [frames EXCEPT ![w] = <<SettleFrame(cur[w], out)>>]
    BY <1>4 DEF FinishJob
  <2>2. SettleFrame(cur[w], out) \in Frame /\ SettleFrame(cur[w], out).phase = "complete"
    BY <2>0, FreshFrame DEF Outcomes
  <2>3. UNCHANGED <<flagVars, queueVars, unfinished, taskVars, ghostVars, cur,
                    scan, submitVars, stopVars, idler>>
    BY <1>4 DEF FinishJob
  <2>4. StopTypes' /\ QueueTypes' /\ TaskTypes'
    BY <1>0, <2>3 DEF Typed, StopTypes, QueueTypes, TaskTypes,
         flagVars, queueVars, taskVars, ghostVars, stopVars
  <2>5. WorkerTypes'
    BY <1>0, <1>4, <2>3 DEF FinishJob, Typed, WorkerTypes, WPCs
  <2> DEFINE s == <<SettleFrame(cur[w], out)>>
  <2>6. s \in Seq(Frame) /\ Len(s) = 1 /\ s[1].phase = "complete"
    BY <2>2
  <2>7. frames' = [frames EXCEPT ![w] = s]
    BY <2>1
  <2> HIDE DEF s
  <2>8. ThreadTypes'
    BY <1>0, <2>3, <2>6, <2>7 DEF Typed, ThreadTypes, submitVars
  <2>9. Standing'
    <3>1. \A x \in Threads : spc'[x] # "idle" => x # Stopper /\ sub'[x] \in Tasks /\ frames'[x] = <<>>
      BY <1>0, <2>0, <2>3, <2>7 DEF Standing, submitVars, Typed, ThreadTypes
    <3>2. \A x \in Threads : \A i \in 1..Len(frames'[x]) :
            /\ frames'[x][i].phase = "sched" => frames'[x][i].todo # <<>>
            /\ i > 1 => frames'[x][i].phase = "notify"
      <4> SUFFICES ASSUME NEW x \in Threads, NEW i \in 1..Len(frames'[x])
                   PROVE  /\ frames'[x][i].phase = "sched" => frames'[x][i].todo # <<>>
                          /\ i > 1 => frames'[x][i].phase = "notify"
        OBVIOUS
      <4>1. CASE x # w
        BY <1>0, <2>7, <4>1 DEF Standing, Typed, ThreadTypes
      <4>2. CASE x = w
        <5>1. frames'[x] = s
          BY <1>0, <2>7, <4>2 DEF Typed, ThreadTypes
        <5>2. Len(frames'[x]) = 1
          BY <2>6, <5>1
        <5>3. i = 1
          BY <5>2
        <5> QED
          BY <2>6, <5>1, <5>3
      <4> QED
        BY <4>1, <4>2
    <3>3. \A v \in Workers : wpc'[v] \in {"popped", "run", "settling"} => cur'[v] \in Tasks
      BY <1>0, <1>4, <2>0, <2>3 DEF FinishJob, Standing, Typed, WorkerTypes
    <3> QED
      BY <1>0, <2>3, <3>1, <3>2, <3>3 DEF Standing, submitVars
  <2> QED
    BY <2>4, <2>5, <2>8, <2>9 DEF TypedInv, Typed
<1>5. ASSUME NextRound(w) PROVE TypedInv'
  <2>1. UNCHANGED <<flagVars, queueVars, unfinished, taskVars, ghostVars, scan,
                    submitVars, frames, stopVars, idler>>
    BY <1>5 DEF NextRound
  <2>2. StopTypes' /\ QueueTypes' /\ TaskTypes' /\ ThreadTypes'
    BY <1>0, <2>1 DEF Typed, StopTypes, QueueTypes, TaskTypes, ThreadTypes,
         flagVars, queueVars, taskVars, ghostVars, submitVars, stopVars
  <2>3. WorkerTypes'
    BY <1>0, <1>5, <2>1 DEF NextRound, Typed, WorkerTypes, WPCs
  <2>4. Standing'
    BY <1>0, <1>5, <2>1 DEF NextRound, Typed, WorkerTypes, Standing, submitVars
  <2> QED
    BY <2>2, <2>3, <2>4 DEF TypedInv, Typed
<1> QED
  BY <1>1, <1>2, <1>3, <1>4, <1>5 DEF WorkerStep

\* Every step keeps the types: Stop and WaitIdle.
LEMMA TypedStop ==
  ASSUME TypedInv,
         \/ \E mode \in StopModes : RequestStop(mode)
         \/ StopStep \/ CheckIdle \/ BlockIdle
  PROVE  TypedInv'
<1>0. Typed /\ Standing
  BY DEF TypedInv
<1>1. ASSUME NEW mode \in StopModes, RequestStop(mode) PROVE TypedInv'
  <2>1. StopTypes'
    BY <1>0, <1>1 DEF RequestStop, Typed, StopTypes
  <2>2. QueueTypes' /\ TaskTypes' /\ WorkerTypes' /\ ThreadTypes'
    BY <1>0, <1>1 DEF RequestStop, Typed, QueueTypes, TaskTypes, WorkerTypes, ThreadTypes,
         queueVars, taskVars, ghostVars, workerVars, submitVars
  <2>3. Standing'
    BY <1>0, <1>1 DEF RequestStop, Standing, workerVars, submitVars
  <2> QED
    BY <2>1, <2>2, <2>3 DEF TypedInv, Typed
<1>2. ASSUME DrainQueue PROVE TypedInv'
  <2> DEFINE w == drained + 1
  <2>0. w \in Workers /\ w \in 0..NumWorkers
    BY <1>0, <1>2, Sizes DEF DrainQueue, Typed, StopTypes, Workers
  <2>1. /\ victims' = victims \o queues[w]
        /\ queues' = [queues EXCEPT ![w] = <<>>]
        /\ drained' = w
        /\ UNCHANGED <<flagVars, cursor, queuedJobs, unfinished, taskVars, ghostVars,
                       workerVars, submitVars, frames, stpc, idler>>
    BY <1>2 DEF DrainQueue
  <2> HIDE DEF w
  <2>2. queues \in [Workers -> Seq(Tasks)] /\ queues[w] \in Seq(Tasks) /\ victims \in Seq(Tasks)
    BY <1>0, <2>0 DEF Typed, QueueTypes, StopTypes
  <2>3. victims' \in Seq(Tasks) /\ queues' \in [Workers -> Seq(Tasks)]
    <3>1. <<>> \in Seq(Tasks) /\ victims \o queues[w] \in Seq(Tasks)
      BY <2>2
    <3>2. queues' \in [Workers -> Seq(Tasks)]
      BY <2>1, <2>2, <3>1
    <3> QED
      BY <2>1, <3>1, <3>2
  <2>4. StopTypes' /\ QueueTypes'
    BY <1>0, <2>0, <2>1, <2>3 DEF Typed, StopTypes, QueueTypes, flagVars
  <2>5. TaskTypes' /\ WorkerTypes' /\ ThreadTypes'
    BY <1>0, <2>1 DEF Typed, TaskTypes, WorkerTypes, ThreadTypes,
         taskVars, ghostVars, workerVars, submitVars
  <2>6. Standing'
    BY <1>0, <2>1 DEF Standing, workerVars, submitVars
  <2> QED
    BY <2>4, <2>5, <2>6 DEF TypedInv, Typed
<1>3. ASSUME \/ spc' = AllSpaceNotified
             \/ UNCHANGED spc,
             Woken, wpc' \in [Workers -> WPCs],
             UNCHANGED <<cur, sub, dep, frames>>
      PROVE  ThreadTypes' /\ Standing'
  <2>1. spc' \in [Threads -> SPCs] /\ \A x \in Threads :
          spc'[x] = spc[x] \/ (spc[x] = "spaceBlocked" /\ spc'[x] = "space")
    BY <1>0, <1>3 DEF AllSpaceNotified, Typed, ThreadTypes, SPCs
  <2>2. ThreadTypes'
    BY <1>0, <1>3, <2>1 DEF Typed, ThreadTypes
  <2>3. Standing'
    BY <1>0, <1>3, <2>1 DEF Standing, Woken
  <2> QED
    BY <2>2, <2>3
<1>4. ASSUME CancelQueued PROVE TypedInv'
  <2>1. (spc' = AllSpaceNotified \/ UNCHANGED spc) /\ UNCHANGED <<wpc, cur, scan, sub, dep, frames>>
    BY <1>4 DEF CancelQueued, workerVars
  <2>2. ThreadTypes' /\ Standing' /\ WorkerTypes'
    BY <1>0, <1>3, <2>1 DEF Woken, Typed, WorkerTypes
  <2>3. StopTypes' /\ TaskTypes'
    BY <1>0, <1>4 DEF CancelQueued, Typed, StopTypes, TaskTypes, flagVars, taskVars, ghostVars
  <2>4. QueueTypes'
    <3>1. Len(victims) \in Nat
      BY <1>0 DEF Typed, StopTypes
    <3> QED
      BY <1>0, <1>4, <3>1 DEF CancelQueued, Typed, QueueTypes
  <2> QED
    BY <2>2, <2>3, <2>4 DEF TypedInv, Typed
<1>5. ASSUME SettleVictim PROVE TypedInv'
  <2>1. UNCHANGED <<flagVars, queueVars, unfinished, taskVars, ghostVars,
                    workerVars, submitVars, drained, idler>>
    BY <1>5 DEF SettleVictim
  <2>2. QueueTypes' /\ TaskTypes' /\ WorkerTypes'
    BY <1>0, <2>1 DEF Typed, QueueTypes, TaskTypes, WorkerTypes,
         queueVars, taskVars, ghostVars, workerVars
  <2>3. CASE victims = <<>>
    <3>1. stpc' = "notify" /\ UNCHANGED <<frames, victims>>
      BY <1>5, <2>3 DEF SettleVictim
    <3>2. StopTypes' /\ ThreadTypes'
      BY <1>0, <2>1, <3>1 DEF Typed, StopTypes, ThreadTypes, flagVars, submitVars
    <3>3. Standing'
      BY <1>0, <2>1, <3>1 DEF Standing, workerVars, submitVars
    <3> QED
      BY <2>2, <3>2, <3>3 DEF TypedInv, Typed
  <2>4. CASE victims # <<>>
    <3>0. victims \in Seq(Tasks) /\ Head(victims) \in Tasks /\ Tail(victims) \in Seq(Tasks)
      BY <1>0, <2>4, Tailed DEF Typed, StopTypes
    <3> DEFINE s == <<SettleFrame(Head(victims), "canceled")>>
    <3>1. /\ frames' = [frames EXCEPT ![Stopper] = s]
          /\ victims' = Tail(victims) /\ UNCHANGED stpc /\ frames[Stopper] = <<>>
      BY <1>5, <2>4 DEF SettleVictim
    <3>2. /\ SettleFrame(Head(victims), "canceled") \in Frame
          /\ SettleFrame(Head(victims), "canceled").phase = "complete"
      BY <3>0, FreshFrame DEF Outcomes
    <3>3. s \in Seq(Frame) /\ Len(s) = 1 /\ s[1].phase = "complete" /\ s # <<>>
      BY <3>2
    <3> HIDE DEF s
    <3>4. StopTypes' /\ ThreadTypes'
      BY <1>0, <2>1, <3>0, <3>1, <3>3 DEF Typed, StopTypes, ThreadTypes, flagVars, submitVars
    <3>5. Standing'
      <4>1. \A x \in Threads : spc'[x] # "idle" => x # Stopper /\ sub'[x] \in Tasks /\ frames'[x] = <<>>
        BY <1>0, <2>1, <3>1 DEF Standing, submitVars, Typed, ThreadTypes
      <4>2. \A x \in Threads : \A i \in 1..Len(frames'[x]) :
              /\ frames'[x][i].phase = "sched" => frames'[x][i].todo # <<>>
              /\ i > 1 => frames'[x][i].phase = "notify"
        <5> SUFFICES ASSUME NEW x \in Threads, NEW i \in 1..Len(frames'[x])
                     PROVE  /\ frames'[x][i].phase = "sched" => frames'[x][i].todo # <<>>
                            /\ i > 1 => frames'[x][i].phase = "notify"
          OBVIOUS
        <5>1. CASE x # Stopper
          BY <1>0, <3>1, <5>1 DEF Standing, Typed, ThreadTypes
        <5>2. CASE x = Stopper
          <6>1. frames'[x] = s
            BY <1>0, <3>1, <5>2 DEF Typed, ThreadTypes
          <6>2. Len(frames'[x]) = 1
            BY <3>3, <6>1
          <6>3. i = 1
            BY <6>2
          <6> QED
            BY <3>3, <6>1, <6>3
        <5> QED
          BY <5>1, <5>2
      <4> QED
        BY <1>0, <2>1, <4>1, <4>2 DEF Standing, submitVars, workerVars
    <3> QED
      BY <2>2, <3>4, <3>5 DEF TypedInv, Typed
  <2> QED
    BY <2>3, <2>4
<1>6. ASSUME StopNotify PROVE TypedInv'
  <2>1. /\ wpc' = [w \in Workers |-> IF wpc[w] = "asleep" THEN "wait" ELSE wpc[w]]
        /\ spc' = AllSpaceNotified
        /\ UNCHANGED <<cur, scan, sub, dep, frames>>
    BY <1>6 DEF StopNotify
  <2>2. Woken /\ wpc' \in [Workers -> WPCs]
    BY <1>0, <2>1 DEF Woken, Typed, WorkerTypes, WPCs
  <2>3. ThreadTypes' /\ Standing' /\ WorkerTypes'
    BY <1>0, <1>3, <2>1, <2>2 DEF Typed, WorkerTypes
  <2>4. StopTypes' /\ QueueTypes' /\ TaskTypes'
    BY <1>0, <1>6 DEF StopNotify, IdlerNotified, Typed, StopTypes, QueueTypes, TaskTypes,
         flagVars, queueVars, taskVars, ghostVars
  <2> QED
    BY <2>3, <2>4 DEF TypedInv, Typed
<1>7. ASSUME StopReset PROVE TypedInv'
  <2>1. StopTypes'
    BY <1>0, <1>7 DEF StopReset, Typed, StopTypes
  <2>2. QueueTypes'
    <3>1. <<>> \in Seq(Tasks)
      OBVIOUS
    <3> QED
      BY <1>0, <1>7, <3>1 DEF StopReset, Typed, QueueTypes
  <2>3. TaskTypes' /\ WorkerTypes' /\ ThreadTypes'
    BY <1>0, <1>7 DEF StopReset, Typed, TaskTypes, WorkerTypes, ThreadTypes,
         taskVars, ghostVars, workerVars, submitVars
  <2>4. Standing'
    BY <1>0, <1>7 DEF StopReset, Standing, workerVars, submitVars
  <2> QED
    BY <2>1, <2>2, <2>3, <2>4 DEF TypedInv, Typed
<1>8. ASSUME CheckIdle \/ BlockIdle PROVE TypedInv'
  <2>1. StopTypes'
    BY <1>0, <1>8 DEF CheckIdle, BlockIdle, Typed, StopTypes, flagVars, stopVars
  <2>2. QueueTypes' /\ TaskTypes' /\ WorkerTypes' /\ ThreadTypes'
    BY <1>0, <1>8 DEF CheckIdle, BlockIdle, Typed, QueueTypes, TaskTypes, WorkerTypes,
         ThreadTypes, queueVars, taskVars, ghostVars, workerVars, submitVars
  <2>3. Standing'
    BY <1>0, <1>8 DEF CheckIdle, BlockIdle, Standing, workerVars, submitVars
  <2> QED
    BY <2>1, <2>2, <2>3 DEF TypedInv, Typed
<1> QED
  BY <1>1, <1>2, <1>4, <1>5, <1>6, <1>7, <1>8 DEF StopStep

\* The dependent that the innermost SettleTask goes on to schedule.
LEMMA NextDependent ==
  ASSUME TypedInv, NEW x \in Threads, frames[x] # <<>>,
         Head(frames[x]).phase = "sched" \/ Head(frames[x]).todo # <<>>
  PROVE  Head(Head(frames[x]).todo) \in Tasks /\ Head(frames[x]).todo # <<>>
<1> DEFINE f == Head(frames[x])
<1>1. f \in Frame /\ f = frames[x][1] /\ 1 \in 1..Len(frames[x])
  BY Innermost DEF TypedInv
<1>2. f.todo \in Seq(Tasks)
  BY <1>1, FrameFields
<1>3. f.todo # <<>>
  BY <1>1 DEF TypedInv, Standing
<1> QED
  BY <1>2, <1>3, Tailed

\* Every step keeps the types.
LEMMA StepTyped ==
  ASSUME TypedInv, [Next]_vars
  PROVE  TypedInv'
<1>1. CASE UNCHANGED vars
  <2>1. StopTypes' /\ QueueTypes' /\ TaskTypes'
    BY <1>1 DEF TypedInv, Typed, StopTypes, QueueTypes, TaskTypes, vars,
         flagVars, queueVars, taskVars, ghostVars, stopVars
  <2>2. WorkerTypes' /\ ThreadTypes' /\ Standing'
    BY <1>1 DEF TypedInv, Typed, WorkerTypes, ThreadTypes, Standing, vars,
         workerVars, submitVars
  <2> QED
    BY <2>1, <2>2 DEF TypedInv, Typed
<1>2. CASE Next
  BY <1>1, <1>2, TypedSubmit, TypedSettle, TypedWorker, TypedStop DEF Next, Done
<1> QED
  BY <1>1, <1>2

-----------------------------------------------------------------------------
(* The count of the queued tasks                                           *)

\* The places of one queue.
LEMMA SlotsOf ==
  ASSUME NEW q, NEW w, NEW i
  PROVE  <<w, i>> \in Slots(q) <=> w \in Workers /\ i \in 1..Len(q[w])
  BY DEF Slots

\* The places are pairs.
LEMMA SlotPairs ==
  ASSUME NEW q, NEW p \in Slots(q)
  PROVE  p = <<p[1], p[2]>> /\ p[1] \in Workers /\ p[2] \in 1..Len(q[p[1]])
  BY DEF Slots

\* There are finitely many workers.
LEMMA WorkersFinite == IsFiniteSet(Workers)
  BY Sizes, FS_Interval DEF Workers

\* A queue that grows by one task has one more place.
LEMMA SlotAdded ==
  ASSUME NEW q \in [Workers -> Seq(Tasks)], NEW w \in Workers, NEW s \in Seq(Tasks),
         Len(s) = Len(q[w]) + 1
  PROVE  Slots([q EXCEPT ![w] = s]) = Slots(q) \cup {<<w, Len(s)>>}
         /\ <<w, Len(s)>> \notin Slots(q)
<1>0. Len(s) \in Nat /\ Len(q[w]) \in Nat
  OBVIOUS
<1> DEFINE r == [q EXCEPT ![w] = s]
<1>1. r \in [Workers -> Seq(Tasks)] /\ r[w] = s /\ \A v \in Workers : v # w => r[v] = q[v]
  OBVIOUS
<1> HIDE DEF r
<1>2. \A p : p \in Slots(r) <=> p \in Slots(q) \cup {<<w, Len(s)>>}
  <2> SUFFICES ASSUME NEW p PROVE p \in Slots(r) <=> p \in Slots(q) \cup {<<w, Len(s)>>}
    OBVIOUS
  <2>1. ASSUME p \in Slots(r) PROVE p \in Slots(q) \cup {<<w, Len(s)>>}
    <3>1. p = <<p[1], p[2]>> /\ p[1] \in Workers /\ p[2] \in 1..Len(r[p[1]])
      BY <2>1, SlotPairs
    <3>2. CASE p[1] # w
      BY <1>1, <3>1, <3>2, SlotsOf
    <3>3. CASE p[1] = w /\ p[2] = Len(s)
      BY <3>1, <3>3
    <3>4. CASE p[1] = w /\ p[2] # Len(s)
      <4>1. p[2] \in 1..Len(q[w])
        BY <1>0, <1>1, <3>1, <3>4
      <4> QED
        BY <3>1, <3>4, <4>1, SlotsOf
    <3> QED
      BY <3>2, <3>3, <3>4
  <2>2. ASSUME p \in Slots(q) PROVE p \in Slots(r)
    <3>1. p = <<p[1], p[2]>> /\ p[1] \in Workers /\ p[2] \in 1..Len(q[p[1]])
      BY <2>2, SlotPairs
    <3>2. p[2] \in 1..Len(r[p[1]])
      <4>1. CASE p[1] = w
        BY <1>0, <1>1, <3>1, <4>1
      <4>2. CASE p[1] # w
        BY <1>1, <3>1, <4>2
      <4> QED
        BY <4>1, <4>2
    <3> QED
      BY <3>1, <3>2, SlotsOf
  <2>3. <<w, Len(s)>> \in Slots(r)
    <3>1. Len(s) \in 1..Len(r[w])
      BY <1>0, <1>1
    <3> QED
      BY <3>1, SlotsOf
  <2> QED
    BY <2>1, <2>2, <2>3
<1>3. <<w, Len(s)>> \notin Slots(q)
  BY <1>0, SlotsOf
<1> QED
  BY <1>2, <1>3 DEF r

\* A queue that is emptied loses its places.
LEMMA SlotsEmptied ==
  ASSUME NEW q \in [Workers -> Seq(Tasks)], NEW w \in Workers
  PROVE  /\ Slots(q) = Slots([q EXCEPT ![w] = <<>>]) \cup ({w} \X (1..Len(q[w])))
         /\ Slots([q EXCEPT ![w] = <<>>]) \cap ({w} \X (1..Len(q[w]))) = {}
<1> DEFINE r == [q EXCEPT ![w] = <<>>]
<1>1. r[w] = <<>> /\ Len(r[w]) = 0 /\ \A v \in Workers : v # w => r[v] = q[v]
  OBVIOUS
<1> HIDE DEF r
<1>2. \A p : p \in Slots(q) <=> p \in Slots(r) \cup ({w} \X (1..Len(q[w])))
  <2> SUFFICES ASSUME NEW p
               PROVE  p \in Slots(q) <=> p \in Slots(r) \cup ({w} \X (1..Len(q[w])))
    OBVIOUS
  <2>1. ASSUME p \in Slots(q) PROVE p \in Slots(r) \cup ({w} \X (1..Len(q[w])))
    <3>1. p = <<p[1], p[2]>> /\ p[1] \in Workers /\ p[2] \in 1..Len(q[p[1]])
      BY <2>1, SlotPairs
    <3>2. CASE p[1] # w
      BY <1>1, <3>1, <3>2, SlotsOf
    <3>3. CASE p[1] = w
      BY <3>1, <3>3
    <3> QED
      BY <3>2, <3>3
  <2>2. ASSUME p \in Slots(r) PROVE p \in Slots(q)
    <3>1. p = <<p[1], p[2]>> /\ p[1] \in Workers /\ p[2] \in 1..Len(r[p[1]])
      BY <2>2, SlotPairs
    <3>2. p[1] # w
      BY <1>1, <3>1
    <3> QED
      BY <1>1, <3>1, <3>2, SlotsOf
  <2>3. ASSUME p \in {w} \X (1..Len(q[w])) PROVE p \in Slots(q)
    <3>1. p = <<w, p[2]>> /\ p[2] \in 1..Len(q[w])
      BY <2>3
    <3> QED
      BY <3>1, SlotsOf
  <2> QED
    BY <2>1, <2>2, <2>3
<1>3. \A p : p \in Slots(r) => p \notin {w} \X (1..Len(q[w]))
  <2> SUFFICES ASSUME NEW p \in Slots(r) PROVE p[1] # w
    OBVIOUS
  <2>1. p[1] \in Workers /\ p[2] \in 1..Len(r[p[1]])
    BY SlotPairs
  <2> QED
    BY <1>1, <2>1
<1> QED
  BY <1>2, <1>3 DEF r

\* The places are finitely many.
LEMMA SlotsFinite ==
  ASSUME NEW q \in [Workers -> Seq(Tasks)]
  PROVE  IsFiniteSet(Slots(q)) /\ Cardinality(Slots(q)) \in Nat
<1>1. IsFiniteSet({{w} \X (1..Len(q[w])) : w \in Workers})
  <2> DEFINE T == {{w} \X (1..Len(q[w])) : w \in Workers}
             f == [w \in Workers |-> {w} \X (1..Len(q[w]))]
  <2>1. f \in Surjection(Workers, T)
    BY DEF Surjection
  <2> HIDE DEF f, T
  <2>2. IsFiniteSet(T)
    BY <2>1, WorkersFinite, FS_Surjection
  <2> QED
    BY <2>2 DEF T
<1>2. \A T \in {{w} \X (1..Len(q[w])) : w \in Workers} : IsFiniteSet(T)
  <2> SUFFICES ASSUME NEW w \in Workers PROVE IsFiniteSet({w} \X (1..Len(q[w])))
    OBVIOUS
  <2>1. Len(q[w]) \in Nat
    OBVIOUS
  <2>2. IsFiniteSet(1..Len(q[w]))
    BY <2>1, FS_Interval
  <2>3. IsFiniteSet({w})
    BY FS_Singleton
  <2> QED
    BY <2>2, <2>3, FS_Product
<1>3. IsFiniteSet(Slots(q))
  BY <1>1, <1>2, FS_UNION DEF Slots
<1> QED
  BY <1>3, FS_CardinalityType

\* What the two changes do to the number of places.
LEMMA CountAdded ==
  ASSUME NEW q \in [Workers -> Seq(Tasks)], NEW w \in Workers, NEW s \in Seq(Tasks),
         Len(s) = Len(q[w]) + 1
  PROVE  Cardinality(Slots([q EXCEPT ![w] = s])) = Cardinality(Slots(q)) + 1
<1>1. /\ Slots([q EXCEPT ![w] = s]) = Slots(q) \cup {<<w, Len(s)>>}
      /\ <<w, Len(s)>> \notin Slots(q)
  BY SlotAdded
<1>2. IsFiniteSet(Slots(q))
  BY SlotsFinite
<1> QED
  BY <1>1, <1>2, FS_AddElement

\* One task is taken from a queue.
LEMMA CountTaken ==
  ASSUME NEW q \in [Workers -> Seq(Tasks)], NEW w \in Workers, NEW s \in Seq(Tasks),
         Len(q[w]) = Len(s) + 1
  PROVE  Cardinality(Slots([q EXCEPT ![w] = s])) = Cardinality(Slots(q)) - 1
<1> DEFINE r == [q EXCEPT ![w] = s]
<1>1. r \in [Workers -> Seq(Tasks)] /\ r[w] = s /\ q[w] \in Seq(Tasks)
  OBVIOUS
<1>2. [r EXCEPT ![w] = q[w]] = q
  OBVIOUS
<1> HIDE DEF r
<1>3. Cardinality(Slots([r EXCEPT ![w] = q[w]])) = Cardinality(Slots(r)) + 1
  BY <1>1, CountAdded
<1>4. Cardinality(Slots(q)) = Cardinality(Slots(r)) + 1
  BY <1>2, <1>3
<1>5. Cardinality(Slots(r)) \in Nat
  BY <1>1, SlotsFinite
<1>6. Cardinality(Slots(r)) = Cardinality(Slots(q)) - 1
  BY <1>4, <1>5
<1> QED
  BY <1>6 DEF r

\* A queue is emptied.
LEMMA CountEmptied ==
  ASSUME NEW q \in [Workers -> Seq(Tasks)], NEW w \in Workers
  PROVE  Cardinality(Slots([q EXCEPT ![w] = <<>>])) = Cardinality(Slots(q)) - Len(q[w])
<1> DEFINE r == [q EXCEPT ![w] = <<>>]
           B == {w} \X (1..Len(q[w]))
<1>1. Len(q[w]) \in Nat
  OBVIOUS
<1>2. IsFiniteSet(B) /\ Cardinality(B) = Len(q[w])
  <2>1. IsFiniteSet(1..Len(q[w])) /\ Cardinality(1..Len(q[w])) = Len(q[w])
    <3>1. 1 \in Int /\ Len(q[w]) \in Int
      BY <1>1
    <3>2. /\ IsFiniteSet(1..Len(q[w]))
          /\ Cardinality(1..Len(q[w])) = IF 1 > Len(q[w]) THEN 0 ELSE Len(q[w]) - 1 + 1
      BY <3>1, FS_Interval
    <3> QED
      BY <1>1, <3>2
  <2>2. IsFiniteSet({w}) /\ Cardinality({w}) = 1
    BY FS_Singleton
  <2>3. IsFiniteSet(B) /\ Cardinality(B) = Cardinality({w}) * Cardinality(1..Len(q[w]))
    BY <2>1, <2>2, FS_Product
  <2> QED
    BY <1>1, <2>1, <2>2, <2>3
<1>3. r \in [Workers -> Seq(Tasks)]
  <2>1. <<>> \in Seq(Tasks)
    OBVIOUS
  <2> QED
    BY <2>1
<1>4. IsFiniteSet(Slots(r)) /\ Cardinality(Slots(r)) \in Nat
  BY <1>3, SlotsFinite
<1>5. Slots(q) = Slots(r) \cup B /\ Slots(r) \cap B = {}
  BY SlotsEmptied
<1> HIDE DEF r, B
<1>6. Cardinality(Slots(q)) = Cardinality(Slots(r)) + Cardinality(B) - Cardinality({})
  BY <1>2, <1>4, <1>5, FS_Union
<1>7. Cardinality({}) = 0
  BY FS_EmptySet
<1>8. Cardinality(Slots(r)) = Cardinality(Slots(q)) - Len(q[w])
  BY <1>1, <1>2, <1>4, <1>6, <1>7
<1> QED
  BY <1>8 DEF r

\* No place, no task.
LEMMA NoSlots ==
  ASSUME NEW q \in [Workers -> Seq(Tasks)]
  PROVE  Cardinality(Slots(q)) = 0 <=> \A w \in Workers : q[w] = <<>>
<1>1. Cardinality(Slots(q)) = 0 <=> Slots(q) = {}
  BY SlotsFinite, FS_EmptySet
<1>2. ASSUME Slots(q) = {}, NEW w \in Workers PROVE q[w] = <<>>
  <2>1. <<w, 1>> \notin Slots(q)
    BY <1>2
  <2>2. 1 \notin 1..Len(q[w])
    BY <2>1, SlotsOf
  <2> QED
    BY <2>2
<1>3. ASSUME \A w \in Workers : q[w] = <<>> PROVE Slots(q) = {}
  <2> SUFFICES ASSUME NEW p \in Slots(q) PROVE FALSE
    OBVIOUS
  <2>1. p[1] \in Workers /\ p[2] \in 1..Len(q[p[1]])
    BY SlotPairs
  <2>2. Len(q[p[1]]) = 0
    BY <1>3, <2>1
  <2> QED
    BY <2>1, <2>2
<1> QED
  BY <1>1, <1>2, <1>3

-----------------------------------------------------------------------------
(* The invariant of the count                                              *)

\* The flags follow the place of Stop.
StopPhases ==
  /\ running <=> stpc # "stopped"
  /\ stopRequested <=> stpc \notin {"idle", "stopped"}
  /\ stpc = "idle" => victims = <<>>

\* Once a worker has left, nothing is queued and nothing will be.
LeftEmpty ==
  (\E w \in Workers : wpc[w] = "exited") =>
    /\ stpc # "idle"
    /\ \A w \in Workers : queues[w] = <<>>

\* How a step can touch the queues and their count: a task is inserted, ...
Inserts ==
  /\ stpc = "idle" /\ ~stopRequested /\ running
  /\ \E x \in Threads, t \in Tasks : PushTask(x, t)
  /\ UNCHANGED <<stpc, victims>>

\* ... or they are left alone.
LeavesQueues ==
  /\ UNCHANGED <<queues, queuedJobs>>
  /\ \A w \in Workers : wpc'[w] = "popped" <=> wpc[w] = "popped"
  /\ Uncounted' = Uncounted

\* Apart from these two, the steps that touch them are five.
LEMMA QueueSteps ==
  ASSUME TypedInv, StopPhases, [Next]_vars
  PROVE  \/ Inserts \/ LeavesQueues
         \/ \E w \in Workers : (TryPop(w) /\ queues[Victim(w)] # <<>>) \/ StartJob(w)
         \/ DrainQueue \/ CancelQueued \/ StopReset
<1>0. Typed /\ Standing
  BY DEF TypedInv
<1>1. CASE UNCHANGED vars
  BY <1>1 DEF vars, queueVars, workerVars, stopVars, LeavesQueues, Uncounted
<1>2. ASSUME NEW x \in Threads, NEW t \in Tasks, Submit(x, t) PROVE LeavesQueues
  BY <1>2 DEF Submit, queueVars, workerVars, stopVars, LeavesQueues, Uncounted
<1>3. ASSUME NEW t \in Tasks, DropHandle(t) PROVE LeavesQueues
  BY <1>3 DEF DropHandle, queueVars, workerVars, stopVars, LeavesQueues, Uncounted
<1>4. ASSUME NEW x \in Threads, SubmitStep(x) PROVE Inserts \/ LeavesQueues
  <2>1. CASE Register(x) \/ Attach(x) \/ Undo(x) \/ BlockForSpace(x)
    BY <2>1 DEF Register, Attach, Undo, BlockForSpace, queueVars, workerVars, stopVars,
         LeavesQueues, Uncounted
  <2>2. CASE Schedule(x) \/ WakeForSpace(x)
    <3>1. UNCHANGED <<stpc, victims>> /\ sub[x] \in Tasks
      BY <1>0, <2>2 DEF Schedule, WakeForSpace, stopVars, Standing
    <3>2. \/ PushTask(x, sub[x]) /\ running /\ ~stopRequested
          \/ UNCHANGED <<queues, queuedJobs, wpc>>
      BY <2>2 DEF Schedule, WakeForSpace, queueVars
    <3>3. running /\ ~stopRequested => stpc = "idle"
      BY <1>0 DEF StopPhases, Typed, StopTypes
    <3>4. CASE PushTask(x, sub[x]) /\ running /\ ~stopRequested
      BY <3>1, <3>3, <3>4 DEF Inserts
    <3>5. CASE UNCHANGED <<queues, queuedJobs, wpc>>
      BY <3>1, <3>5 DEF LeavesQueues, Uncounted
    <3> QED
      BY <3>2, <3>4, <3>5
  <2> QED
    BY <1>4, <2>1, <2>2 DEF SubmitStep
<1>5. ASSUME NEW x \in Threads, SettleStep(x) PROVE Inserts \/ LeavesQueues
  <2>1. CASE SettleComplete(x) \/ SettleSwap(x) \/ Resolve(x) \/ SettleDone(x)
    BY <2>1 DEF SettleComplete, SettleSwap, Resolve, SettleDone, queueVars, workerVars,
         stopVars, LeavesQueues, Uncounted
  <2>2. CASE ResolveSchedule(x)
    <3> DEFINE f == Head(frames[x])
               d == Head(f.todo)
    <3>1. UNCHANGED <<stpc, victims>>
      BY <2>2 DEF ResolveSchedule, stopVars
    <3>2. \/ PushTask(x, d) /\ running /\ ~stopRequested
          \/ UNCHANGED <<queues, queuedJobs, wpc>>
      BY <2>2 DEF ResolveSchedule, queueVars
    <3>3. running /\ ~stopRequested => stpc = "idle"
      BY <1>0 DEF StopPhases, Typed, StopTypes
    <3>4. d \in Tasks
      BY <2>2, NextDependent DEF ResolveSchedule
    <3> HIDE DEF d, f
    <3>5. CASE PushTask(x, d) /\ running /\ ~stopRequested
      BY <3>1, <3>3, <3>4, <3>5 DEF Inserts
    <3>6. CASE UNCHANGED <<queues, queuedJobs, wpc>>
      BY <3>1, <3>6 DEF LeavesQueues, Uncounted
    <3> QED
      BY <3>2, <3>5, <3>6
  <2> QED
    BY <1>5, <2>1, <2>2 DEF SettleStep
<1>6. ASSUME NEW w \in Workers, WorkerStep(w)
      PROVE  LeavesQueues \/ (TryPop(w) /\ queues[Victim(w)] # <<>>) \/ StartJob(w)
  <2>1. CASE BeginClaim(w) \/ FinishJob(w) \/ NextRound(w) \/ WaitForWork(w)
    <3>1. /\ UNCHANGED <<queues, queuedJobs, stpc, victims>>
          /\ \E v \in WPCs \ {"popped"} : wpc' = [wpc EXCEPT ![w] = v]
          /\ wpc[w] # "popped"
      BY <2>1 DEF BeginClaim, FinishJob, NextRound, WaitForWork, queueVars, stopVars, WPCs
    <3> QED
      BY <1>0, <3>1 DEF LeavesQueues, Uncounted, Typed, WorkerTypes
  <2>2. CASE TryPop(w) /\ queues[Victim(w)] = <<>>
    <3>1. /\ UNCHANGED <<queues, queuedJobs, stpc, victims>>
          /\ UNCHANGED wpc \/ (wpc' = [wpc EXCEPT ![w] = "wait"] /\ wpc[w] = "scan")
      BY <2>2 DEF TryPop, stopVars
    <3> QED
      BY <1>0, <3>1 DEF LeavesQueues, Uncounted, Typed, WorkerTypes
  <2> QED
    BY <1>6, <2>1, <2>2 DEF WorkerStep
<1>7. ASSUME NEW mode \in StopModes, RequestStop(mode) PROVE LeavesQueues
  <2>1. Uncounted' = Uncounted
    <3>1. stpc = "idle" /\ victims' = victims
      BY <1>7 DEF RequestStop
    <3>2. victims = <<>>
      BY <3>1 DEF StopPhases
    <3>3. Len(victims') = 0
      BY <3>1, <3>2
    <3> QED
      BY <3>1, <3>3 DEF Uncounted
  <2> QED
    BY <1>7, <2>1 DEF RequestStop, queueVars, workerVars, LeavesQueues
<1>8. ASSUME SettleVictim PROVE LeavesQueues
  BY <1>8 DEF SettleVictim, queueVars, workerVars, LeavesQueues, Uncounted
<1>9. ASSUME StopNotify PROVE LeavesQueues
  <2>1. UNCHANGED <<queues, queuedJobs, victims>> /\ stpc = "notify" /\ stpc' = "join"
    BY <1>9 DEF StopNotify, queueVars
  <2>2. wpc' = [w \in Workers |-> IF wpc[w] = "asleep" THEN "wait" ELSE wpc[w]]
    BY <1>9 DEF StopNotify
  <2> QED
    BY <2>1, <2>2 DEF LeavesQueues, Uncounted
<1>10. ASSUME CheckIdle \/ BlockIdle PROVE LeavesQueues
  BY <1>10 DEF CheckIdle, BlockIdle, queueVars, workerVars, stopVars, LeavesQueues, Uncounted
<1> QED
  BY <1>1, <1>2, <1>3, <1>4, <1>5, <1>6, <1>7, <1>8, <1>9, <1>10
     DEF Next, Done, StopStep

\* The numbers the count is made of.
LEMMA CountTerms ==
  ASSUME TypedInv
  PROVE  /\ IsFiniteSet(Popped) /\ Cardinality(Popped) \in Nat
         /\ IsFiniteSet(Slots(queues)) /\ Cardinality(Slots(queues)) \in Nat
         /\ Uncounted \in Nat /\ queuedJobs \in Int
<1>1. IsFiniteSet(Popped)
  BY WorkersFinite, FS_Subset DEF Popped
<1>2. Cardinality(Popped) \in Nat
  BY <1>1, FS_CardinalityType
<1>3. queues \in [Workers -> Seq(Tasks)] /\ victims \in Seq(Tasks) /\ queuedJobs \in Int
  BY DEF TypedInv, Typed, QueueTypes, StopTypes
<1> QED
  BY <1>1, <1>2, <1>3, SlotsFinite DEF Uncounted

\* A task that is inserted takes one place more.
LEMMA InsertCounted ==
  ASSUME TypedInv, NEW x \in Threads, NEW t \in Tasks, PushTask(x, t)
  PROVE  /\ Cardinality(Slots(queues')) = Cardinality(Slots(queues)) + 1
         /\ queuedJobs' = queuedJobs + 1
         /\ Popped' = Popped
<1>1. Typed
  BY DEF TypedInv
<1>2. PICK i \in Workers, q \in Seq(Tasks) :
        /\ queues' = [queues EXCEPT ![i] = q]
        /\ q = Append(queues[i], t) \/ q = <<t>> \o queues[i]
  BY <1>1, Inserting
<1>3. queues \in [Workers -> Seq(Tasks)] /\ queues[i] \in Seq(Tasks)
  BY <1>1 DEF Typed, QueueTypes
<1>4. Len(q) = Len(queues[i]) + 1
  BY <1>2, <1>3, Consed
<1>5. Cardinality(Slots(queues')) = Cardinality(Slots(queues)) + 1
  BY <1>2, <1>3, <1>4, CountAdded
<1>6. queuedJobs' = queuedJobs + 1
  BY <1>1, Inserting
<1>7. \A w \in Workers : wpc'[w] = "popped" <=> wpc[w] = "popped"
  BY <1>1, Waking
<1> QED
  BY <1>5, <1>6, <1>7 DEF Popped

\* A task that is taken leaves a place, and is counted by its worker.
LEMMA PopCounted ==
  ASSUME TypedInv, NEW w \in Workers, TryPop(w), queues[Victim(w)] # <<>>
  PROVE  /\ Cardinality(Slots(queues')) = Cardinality(Slots(queues)) - 1
         /\ queuedJobs' = queuedJobs
         /\ Popped' = Popped \cup {w} /\ w \notin Popped
<1> DEFINE v == Victim(w)
           q == queues[v]
           r == IF scan[w] = 0 THEN Tail(q) ELSE SubSeq(q, 1, Len(q) - 1)
<1>1. v \in Workers /\ queues \in [Workers -> Seq(Tasks)]
  BY Sizes DEF TypedInv, Typed, WorkerTypes, QueueTypes, Victim, Workers
<1>2. queues' = [queues EXCEPT ![v] = r] /\ wpc' = [wpc EXCEPT ![w] = "popped"]
      /\ wpc[w] = "scan" /\ queuedJobs' = queuedJobs
  BY DEF TryPop
<1>3. q \in Seq(Tasks) /\ q # <<>>
  BY <1>1
<1>4. r \in Seq(Tasks) /\ Len(q) = Len(r) + 1
  <2> HIDE DEF q
  <2>1. Len(q) \in Nat /\ Len(q) >= 1
    BY <1>3
  <2>2. Tail(q) \in Seq(Tasks) /\ Len(Tail(q)) = Len(q) - 1
    BY <1>3
  <2>3. Len(q) - 1 \in Nat /\ Len(q) - 1 <= Len(q)
    BY <2>1
  <2>4. SubSeq(q, 1, Len(q) - 1) \in Seq(Tasks) /\ Len(SubSeq(q, 1, Len(q) - 1)) = Len(q) - 1
    BY <1>3, <2>3, Prefixed
  <2> QED
    BY <2>1, <2>2, <2>3, <2>4
<1>5. Cardinality(Slots(queues')) = Cardinality(Slots(queues)) - 1
  <2> HIDE DEF r, v
  <2> QED
    BY <1>1, <1>2, <1>4, CountTaken
<1>6. wpc \in [Workers -> WPCs]
  BY DEF TypedInv, Typed, WorkerTypes
<1>7. Popped' = Popped \cup {w} /\ w \notin Popped
  BY <1>2, <1>6 DEF Popped
<1> QED
  BY <1>2, <1>5, <1>7

\* The count stays exact.
LEMMA StepExact ==
  ASSUME TypedInv, StopPhases, QueuedJobsExact, [Next]_vars
  PROVE  QueuedJobsExact'
<1>0. /\ IsFiniteSet(Popped) /\ Cardinality(Popped) \in Nat
      /\ Cardinality(Slots(queues)) \in Nat /\ Uncounted \in Nat
      /\ queuedJobs = Cardinality(Slots(queues)) + Cardinality(Popped) + Uncounted
  BY CountTerms DEF QueuedJobsExact
<1>1. CASE Inserts
  <2>1. PICK x \in Threads, t \in Tasks : PushTask(x, t)
    BY <1>1 DEF Inserts
  <2>2. /\ Cardinality(Slots(queues')) = Cardinality(Slots(queues)) + 1
        /\ queuedJobs' = queuedJobs + 1 /\ Popped' = Popped
    BY <2>1, InsertCounted
  <2>3. Uncounted' = Uncounted
    BY <1>1 DEF Inserts, Uncounted
  <2> QED
    BY <1>0, <2>2, <2>3 DEF QueuedJobsExact
<1>2. CASE LeavesQueues
  <2>1. Popped' = Popped
    BY <1>2 DEF LeavesQueues, Popped
  <2> QED
    BY <1>2, <2>1 DEF LeavesQueues, QueuedJobsExact
<1>3. ASSUME NEW w \in Workers, TryPop(w), queues[Victim(w)] # <<>>
      PROVE  QueuedJobsExact'
  <2>1. /\ Cardinality(Slots(queues')) = Cardinality(Slots(queues)) - 1
        /\ queuedJobs' = queuedJobs
        /\ Popped' = Popped \cup {w} /\ w \notin Popped
    BY <1>3, PopCounted
  <2>2. Cardinality(Popped') = Cardinality(Popped) + 1
    BY <1>0, <2>1, FS_AddElement
  <2>3. Uncounted' = Uncounted
    BY <1>3 DEF TryPop, stopVars, Uncounted
  <2> QED
    BY <1>0, <2>1, <2>2, <2>3 DEF QueuedJobsExact
<1>4. ASSUME NEW w \in Workers, StartJob(w) PROVE QueuedJobsExact'
  <2>1. /\ queuedJobs' = queuedJobs - 1 /\ UNCHANGED <<queues, stpc, victims>>
        /\ wpc[w] = "popped" /\ wpc' = [wpc EXCEPT ![w] = "run"]
    BY <1>4 DEF StartJob, stopVars
  <2>2. Popped' = Popped \ {w} /\ w \in Popped
    <3>1. wpc \in [Workers -> WPCs]
      BY DEF TypedInv, Typed, WorkerTypes
    <3> QED
      BY <2>1, <3>1 DEF Popped
  <2>3. Cardinality(Popped') = Cardinality(Popped) - 1
    BY <1>0, <2>2, FS_RemoveElement
  <2> QED
    BY <1>0, <2>1, <2>3 DEF QueuedJobsExact, Uncounted
<1>5. CASE DrainQueue
  <2> DEFINE w == drained + 1
  <2>1. w \in Workers /\ queues \in [Workers -> Seq(Tasks)] /\ victims \in Seq(Tasks)
    BY <1>5, Sizes DEF DrainQueue, TypedInv, Typed, StopTypes, QueueTypes, Workers
  <2>2. /\ stpc = "cancel" /\ stpc' = stpc /\ victims' = victims \o queues[w]
        /\ queues' = [queues EXCEPT ![w] = <<>>] /\ UNCHANGED <<queuedJobs, wpc>>
    BY <1>5 DEF DrainQueue, workerVars
  <2> HIDE DEF w
  <2>3. Cardinality(Slots(queues')) = Cardinality(Slots(queues)) - Len(queues[w])
    BY <2>1, <2>2, CountEmptied
  <2>4. Uncounted' = Uncounted + Len(queues[w]) /\ Len(queues[w]) \in Nat
    BY <2>1, <2>2 DEF Uncounted
  <2>5. Popped' = Popped
    BY <2>2 DEF Popped
  <2> QED
    BY <1>0, <2>2, <2>3, <2>4, <2>5 DEF QueuedJobsExact
<1>6. CASE CancelQueued
  <2>1. /\ stpc = "cancel" /\ stpc' = "settle" /\ queuedJobs' = queuedJobs - Len(victims)
        /\ UNCHANGED <<queues, wpc, victims>>
    BY <1>6 DEF CancelQueued, workerVars
  <2>2. Uncounted = Len(victims) /\ Uncounted' = 0
    BY <2>1 DEF Uncounted
  <2>3. Popped' = Popped
    BY <2>1 DEF Popped
  <2> QED
    BY <1>0, <2>1, <2>2, <2>3 DEF QueuedJobsExact
<1>7. CASE StopReset
  <2>1. /\ queues' = [w \in Workers |-> <<>>] /\ queuedJobs' = 0 /\ stpc' = "stopped"
        /\ \A w \in Workers : wpc'[w] = "exited"
    BY <1>7 DEF StopReset, workerVars
  <2>2. queues' \in [Workers -> Seq(Tasks)] /\ \A w \in Workers : queues'[w] = <<>>
    <3>1. <<>> \in Seq(Tasks)
      OBVIOUS
    <3> QED
      BY <2>1, <3>1
  <2>3. Cardinality(Slots(queues')) = 0
    BY <2>2, NoSlots
  <2>4. Popped' = {} /\ Uncounted' = 0
    BY <2>1 DEF Popped, Uncounted
  <2>5. Cardinality({}) = 0
    BY FS_EmptySet
  <2> QED
    BY <2>1, <2>3, <2>4, <2>5 DEF QueuedJobsExact
<1> QED
  BY <1>1, <1>2, <1>3, <1>4, <1>5, <1>6, <1>7, QueueSteps

\* The flags follow the place of Stop.
LEMMA StepPhases ==
  ASSUME TypedInv, StopPhases, [Next]_vars
  PROVE  StopPhases'
<1>0. StopTypes
  BY DEF TypedInv, Typed
<1>1. CASE UNCHANGED <<flagVars, stpc, victims>>
  BY <1>1 DEF StopPhases, flagVars
<1>2. CASE UNCHANGED vars
  BY <1>1, <1>2 DEF vars, stopVars
<1>3. ASSUME NEW x \in Threads, SubmitStep(x) \/ SettleStep(x) PROVE StopPhases'
  BY <1>1, <1>3 DEF SubmitStep, SettleStep, Register, Attach, Undo, Schedule, BlockForSpace,
       WakeForSpace, SettleComplete, SettleSwap, Resolve, ResolveSchedule, SettleDone, stopVars
<1>4. ASSUME NEW w \in Workers, WorkerStep(w) PROVE StopPhases'
  BY <1>1, <1>4 DEF WorkerStep, BeginClaim, TryPop, StartJob, FinishJob, NextRound,
       WaitForWork, stopVars
<1>5. ASSUME NEW x \in Threads, NEW t \in Tasks, Submit(x, t) PROVE StopPhases'
  BY <1>1, <1>5 DEF Submit, stopVars
<1>6. ASSUME NEW t \in Tasks, DropHandle(t) PROVE StopPhases'
  BY <1>1, <1>6 DEF DropHandle, stopVars
<1>7. ASSUME NEW mode \in StopModes, RequestStop(mode) PROVE StopPhases'
  BY <1>0, <1>7 DEF RequestStop, StopPhases, StopTypes
<1>8. CASE DrainQueue
  BY <1>8 DEF DrainQueue, StopPhases, flagVars
<1>9. CASE CancelQueued
  BY <1>9 DEF CancelQueued, StopPhases, flagVars
<1>10. CASE SettleVictim
  BY <1>10 DEF SettleVictim, StopPhases, flagVars
<1>11. CASE StopNotify
  BY <1>11 DEF StopNotify, StopPhases, flagVars
<1>12. CASE StopReset
  BY <1>12 DEF StopReset, StopPhases
<1>13. CASE CheckIdle \/ BlockIdle
  BY <1>1, <1>13 DEF CheckIdle, BlockIdle, stopVars
<1> QED
  BY <1>2, <1>3, <1>4, <1>5, <1>6, <1>7, <1>8, <1>9, <1>10, <1>11, <1>12, <1>13
     DEF Next, Done, StopStep

\* A queue that is empty stays so unless a task is inserted.
LEMMA QueuesShrink ==
  ASSUME TypedInv, StopPhases, [Next]_vars, ~Inserts, NEW v \in Workers, queues[v] = <<>>
  PROVE  queues'[v] = <<>>
<1>0. queues \in [Workers -> Seq(Tasks)]
  BY DEF TypedInv, Typed, QueueTypes
<1>1. ASSUME NEW w \in Workers, TryPop(w), queues[Victim(w)] # <<>> PROVE queues'[v] = <<>>
  <2>1. PICK r : queues' = [queues EXCEPT ![Victim(w)] = r]
    BY <1>1 DEF TryPop
  <2> QED
    BY <1>0, <1>1, <2>1
<1>2. ASSUME NEW w \in Workers, StartJob(w) PROVE queues'[v] = <<>>
  BY <1>2 DEF StartJob
<1>3. CASE DrainQueue
  BY <1>0, <1>3 DEF DrainQueue
<1>4. CASE CancelQueued
  BY <1>4 DEF CancelQueued
<1>5. CASE StopReset
  BY <1>5 DEF StopReset
<1>6. CASE LeavesQueues
  BY <1>6 DEF LeavesQueues
<1> QED
  BY <1>1, <1>2, <1>3, <1>4, <1>5, <1>6, QueueSteps

\* A worker falls asleep or leaves in WaitForWork only.
LEMMA SleepSteps ==
  ASSUME TypedInv, [Next]_vars, NEW v \in Workers, wpc'[v] \in {"asleep", "exited"}
  PROVE  wpc'[v] = wpc[v] \/ WaitForWork(v)
<1>0. wpc \in [Workers -> WPCs] /\ Typed /\ Standing
  BY DEF TypedInv, Typed, WorkerTypes
<1>1. ASSUME UNCHANGED workerVars PROVE wpc'[v] = wpc[v]
  BY <1>1 DEF workerVars
<1>2. ASSUME NEW x \in Threads, NEW t \in Tasks, PushTask(x, t) PROVE wpc'[v] = wpc[v]
  BY <1>0, <1>2, Waking
<1>3. ASSUME UNCHANGED vars PROVE wpc'[v] = wpc[v]
  BY <1>1, <1>3 DEF vars
<1>4. ASSUME NEW x \in Threads, NEW t \in Tasks, Submit(x, t) PROVE wpc'[v] = wpc[v]
  BY <1>1, <1>4 DEF Submit
<1>5. ASSUME NEW t \in Tasks, DropHandle(t) PROVE wpc'[v] = wpc[v]
  BY <1>1, <1>5 DEF DropHandle
<1>6. ASSUME NEW x \in Threads, SubmitStep(x) PROVE wpc'[v] = wpc[v]
  <2>1. ASSUME Register(x) \/ Attach(x) \/ Undo(x) \/ BlockForSpace(x)
        PROVE  wpc'[v] = wpc[v]
    BY <1>1, <2>1 DEF Register, Attach, Undo, BlockForSpace
  <2>2. CASE Schedule(x) \/ WakeForSpace(x)
    <3>1. sub[x] \in Tasks
      BY <1>0, <2>2 DEF Schedule, WakeForSpace, Standing
    <3>2. PushTask(x, sub[x]) \/ UNCHANGED wpc
      BY <2>2 DEF Schedule, WakeForSpace
    <3> QED
      BY <1>2, <3>1, <3>2
  <2> QED
    BY <1>6, <2>1, <2>2 DEF SubmitStep
<1>7. ASSUME NEW x \in Threads, SettleStep(x) PROVE wpc'[v] = wpc[v]
  <2>1. ASSUME SettleComplete(x) \/ SettleSwap(x) \/ Resolve(x) \/ SettleDone(x)
        PROVE  wpc'[v] = wpc[v]
    BY <1>1, <2>1 DEF SettleComplete, SettleSwap, Resolve, SettleDone
  <2>2. CASE ResolveSchedule(x)
    BY <1>2, <2>2, NextDependent DEF ResolveSchedule
  <2> QED
    BY <1>7, <2>1, <2>2 DEF SettleStep
<1>8. ASSUME NEW w \in Workers, WorkerStep(w) PROVE wpc'[v] = wpc[v] \/ WaitForWork(v)
  <2>1. CASE BeginClaim(w) \/ TryPop(w) \/ StartJob(w) \/ FinishJob(w) \/ NextRound(w)
    <3>1. UNCHANGED wpc \/ \E p \in WPCs \ {"asleep", "exited"} : wpc' = [wpc EXCEPT ![w] = p]
      BY <2>1 DEF BeginClaim, TryPop, StartJob, FinishJob, NextRound, WPCs
    <3> QED
      BY <1>0, <3>1
  <2>2. CASE WaitForWork(w)
    BY <1>0, <2>2 DEF WaitForWork
  <2> QED
    BY <1>8, <2>1, <2>2 DEF WorkerStep
<1>9. ASSUME NEW mode \in StopModes, RequestStop(mode) PROVE wpc'[v] = wpc[v]
  BY <1>1, <1>9 DEF RequestStop
<1>10. CASE StopStep
  <2>1. CASE DrainQueue \/ CancelQueued \/ SettleVictim \/ StopReset
    BY <1>1, <2>1 DEF DrainQueue, CancelQueued, SettleVictim, StopReset
  <2>2. CASE StopNotify
    BY <1>0, <2>2 DEF StopNotify
  <2> QED
    BY <1>10, <2>1, <2>2 DEF StopStep
<1>11. CASE CheckIdle \/ BlockIdle
  BY <1>1, <1>11 DEF CheckIdle, BlockIdle
<1> QED
  BY <1>3, <1>4, <1>5, <1>6, <1>7, <1>8, <1>9, <1>10, <1>11 DEF Next, Done

\* Nobody takes a Stop back.
LEMMA StopStays ==
  ASSUME [Next]_vars, stpc # "idle"
  PROVE  stpc' # "idle"
<1>1. CASE UNCHANGED stpc
  BY <1>1
<1>2. CASE UNCHANGED vars
  BY <1>1, <1>2 DEF vars, stopVars
<1>3. ASSUME NEW x \in Threads, SubmitStep(x) \/ SettleStep(x) PROVE UNCHANGED stpc
  BY <1>3 DEF SubmitStep, SettleStep, Register, Attach, Undo, Schedule, BlockForSpace,
       WakeForSpace, SettleComplete, SettleSwap, Resolve, ResolveSchedule, SettleDone, stopVars
<1>4. ASSUME NEW w \in Workers, WorkerStep(w) PROVE UNCHANGED stpc
  BY <1>4 DEF WorkerStep, BeginClaim, TryPop, StartJob, FinishJob, NextRound,
       WaitForWork, stopVars
<1>5. ASSUME NEW x \in Threads, NEW t \in Tasks, Submit(x, t) PROVE UNCHANGED stpc
  BY <1>5 DEF Submit, stopVars
<1>6. ASSUME NEW t \in Tasks, DropHandle(t) PROVE UNCHANGED stpc
  BY <1>6 DEF DropHandle, stopVars
<1>7. ASSUME NEW mode \in StopModes, RequestStop(mode) PROVE FALSE
  BY <1>7 DEF RequestStop
<1>8. CASE StopStep
  BY <1>8 DEF StopStep, DrainQueue, CancelQueued, SettleVictim, StopNotify, StopReset
<1>9. CASE CheckIdle \/ BlockIdle
  BY <1>9 DEF CheckIdle, BlockIdle, stopVars
<1> QED
  BY <1>1, <1>2, <1>3, <1>4, <1>5, <1>6, <1>7, <1>8, <1>9 DEF Next, Done

\* What all of it says together.
CountInv == TypedInv /\ StopPhases /\ QueuedJobsExact /\ LeftEmpty /\ NoSleepOverWork

\* A worker that goes to sleep or leaves has seen a count of zero, so there is
\* no task in any queue.
LEMMA LeavesNothing ==
  ASSUME CountInv, NEW w \in Workers, WaitForWork(w),
         wpc'[w] \in {"asleep", "exited"}
  PROVE  \A v \in Workers : queues[v] = <<>>
<1>1. wpc \in [Workers -> WPCs] /\ queues \in [Workers -> Seq(Tasks)] /\ queuedJobs \in Int
  BY DEF CountInv, TypedInv, Typed, WorkerTypes, QueueTypes
<1>2. queuedJobs <= 0
  BY <1>1 DEF WaitForWork, MayExit
<1>3. Cardinality(Slots(queues)) = 0
  BY <1>2, CountTerms DEF CountInv, QueuedJobsExact
<1> QED
  BY <1>1, <1>3, NoSlots

\* Init establishes the invariant.
LEMMA InitCount == Init => CountInv
<1> SUFFICES ASSUME Init PROVE CountInv
  OBVIOUS
<1>1. TypedInv
  BY InitTyped
<1>2. StopPhases
  BY DEF Init, StopPhases
<1>3. queues \in [Workers -> Seq(Tasks)] /\ \A w \in Workers : queues[w] = <<>>
  BY <1>1 DEF Init, TypedInv, Typed, QueueTypes
<1>4. Cardinality(Slots(queues)) = 0
  BY <1>3, NoSlots
<1>5. Popped = {} /\ Uncounted = 0 /\ queuedJobs = 0
  BY DEF Init, Popped, Uncounted
<1>6. Cardinality({}) = 0
  BY FS_EmptySet
<1>7. QueuedJobsExact
  BY <1>4, <1>5, <1>6 DEF QueuedJobsExact
<1>8. \A w \in Workers : wpc[w] = "claim"
  BY DEF Init
<1>9. LeftEmpty /\ NoSleepOverWork
  BY <1>3, <1>8 DEF LeftEmpty, NoSleepOverWork
<1> QED
  BY <1>1, <1>2, <1>7, <1>9 DEF CountInv

\* Once a worker has left, the queues stay empty.
LEMMA StepLeft ==
  ASSUME CountInv, [Next]_vars
  PROVE  LeftEmpty'
<1> SUFFICES ASSUME NEW w \in Workers, wpc'[w] = "exited"
             PROVE  stpc' # "idle" /\ \A v \in Workers : queues'[v] = <<>>
  BY DEF LeftEmpty
<1>1. stpc # "idle" /\ \A v \in Workers : queues[v] = <<>>
  <2>1. CASE wpc[w] = "exited"
    BY <2>1 DEF CountInv, LeftEmpty
  <2>2. CASE WaitForWork(w)
    <3>1. stopRequested /\ stpc # "idle"
      BY <2>2 DEF WaitForWork, MayExit, CountInv, TypedInv, Typed, WorkerTypes, StopPhases
    <3> QED
      BY <2>2, <3>1, LeavesNothing
  <2> QED
    BY <2>1, <2>2, SleepSteps DEF CountInv
<1>2. ~Inserts
  BY <1>1 DEF Inserts
<1> QED
  BY <1>1, <1>2, StopStays, QueuesShrink DEF CountInv

\* Somebody stays awake over a queued task.
LEMMA StepAwake ==
  ASSUME CountInv, [Next]_vars
  PROVE  NoSleepOverWork'
<1> SUFFICES ASSUME NEW v \in Workers, queues'[v] # <<>>,
                    \A w \in Workers : wpc'[w] \in {"asleep", "exited"}
             PROVE  FALSE
  BY DEF NoSleepOverWork
<1>1. CASE Inserts
  <2>1. PICK x \in Threads, t \in Tasks : PushTask(x, t)
    BY <1>1 DEF Inserts
  <2>2. Typed
    BY DEF CountInv, TypedInv
  <2>3. \A w \in Workers : wpc[w] # "exited"
    BY <1>1 DEF Inserts, CountInv, LeftEmpty
  <2>4. \A w \in Workers : wpc'[w] = wpc[w] /\ wpc[w] = "asleep"
    BY <2>1, <2>2, <2>3, Waking
  <2>5. \E w \in Workers : wpc'[w] = "wait"
    BY <2>1, <2>2, <2>4, Waking
  <2> QED
    BY <2>5
<1>2. CASE ~Inserts
  <2>1. queues[v] # <<>>
    BY <1>2, QueuesShrink DEF CountInv
  <2>2. PICK w \in Workers : wpc[w] \notin {"asleep", "exited"}
    BY <2>1 DEF CountInv, NoSleepOverWork
  <2>3. WaitForWork(w)
    BY <2>2, SleepSteps DEF CountInv
  <2> QED
    BY <2>1, <2>3, LeavesNothing
<1> QED
  BY <1>1, <1>2

\* Every step keeps the invariant.
LEMMA StepCount == CountInv /\ [Next]_vars => CountInv'
<1> SUFFICES ASSUME CountInv, [Next]_vars PROVE CountInv'
  OBVIOUS
<1>1. TypedInv /\ StopPhases /\ QueuedJobsExact
  BY DEF CountInv
<1> QED
  BY <1>1, StepTyped, StepPhases, StepExact, StepLeft, StepAwake DEF CountInv

\* The counter the workers and the submitters wait on (queuedJobs, counted up
\* by QueueReadyTask and down by ClaimTask and CancelQueuedTasks outside
\* stateMutex) is at all times the number of tasks in the queues and of those
\* just taken out of them.
THEOREM QueueCountExact == Spec => []QueuedJobsExact
<1>1. CountInv => QueuedJobsExact
  BY DEF CountInv
<1> QED
  BY <1>1, InitCount, StepCount, PTL DEF Spec

\* Stop, which clears the queues once the workers have left (Jobs.cpp), finds
\* no task in them whose promise nobody would set.
THEOREM StopAbandonsNothing == Spec => []NoTaskAbandoned
<1>1. CountInv => NoTaskAbandoned
  <2> SUFFICES ASSUME CountInv, \A w \in Workers : wpc[w] = "exited",
                      NEW v \in Workers
               PROVE  queues[v] = <<>>
    BY DEF NoTaskAbandoned
  <2> QED
    BY DEF CountInv, LeftEmpty
<1> QED
  BY <1>1, InitCount, StepCount, PTL DEF Spec

\* No wake-up of workAvailable is lost: the insertion into a queue and the wait
\* of a worker cannot miss each other.
THEOREM WakeUpsReach == Spec => []NoSleepOverWork
<1>1. CountInv => NoSleepOverWork
  BY DEF CountInv
<1> QED
  BY <1>1, InitCount, StepCount, PTL DEF Spec

\* The step by which a submitter leaves TryScheduleIfReady.
LEMMA LeavesSchedule ==
  ASSUME TypedInv, [Next]_vars, NEW x \in Threads,
         spc[x] \in {"schedule", "space"}, spc'[x] # spc[x]
  PROVE  Schedule(x) \/ WakeForSpace(x)
<1>0. spc \in [Threads -> SPCs]
  BY DEF TypedInv, Typed, ThreadTypes
<1> DEFINE Same == spc'[x] = spc[x]
<1>1. ASSUME UNCHANGED submitVars PROVE Same
  BY <1>1 DEF submitVars
<1>2. ASSUME UNCHANGED vars PROVE Same
  BY <1>1, <1>2 DEF vars
<1>3. ASSUME spc' = AllSpaceNotified PROVE Same
  BY <1>0, <1>3 DEF AllSpaceNotified
<1>4. ASSUME NEW y \in Threads, NEW t \in Tasks, Submit(y, t) PROVE Same
  BY <1>0, <1>4 DEF Submit
<1>5. ASSUME NEW t \in Tasks, DropHandle(t) PROVE Same
  BY <1>1, <1>5 DEF DropHandle
<1>6. ASSUME NEW y \in Threads, SubmitStep(y)
      PROVE  Same \/ (y = x /\ (Schedule(x) \/ WakeForSpace(x)))
  <2>1. CASE Schedule(y) \/ WakeForSpace(y)
    <3>1. \E p : spc' = [spc EXCEPT ![y] = p]
      BY <2>1 DEF Schedule, WakeForSpace, Returned
    <3> QED
      BY <1>0, <2>1, <3>1
  <2>2. CASE Register(y) \/ Attach(y) \/ Undo(y) \/ BlockForSpace(y)
    <3>1. spc[y] \notin {"schedule", "space"}
      BY <2>2 DEF Register, Attach, Undo, BlockForSpace
    <3>2. UNCHANGED spc \/ \E p : spc' = [spc EXCEPT ![y] = p]
      BY <2>2 DEF Register, Attach, Undo, BlockForSpace, NextDep
    <3> QED
      BY <1>0, <3>1, <3>2
  <2> QED
    BY <1>6, <2>1, <2>2 DEF SubmitStep
<1>7. ASSUME NEW y \in Threads, SettleStep(y) PROVE Same
  BY <1>1, <1>7 DEF SettleStep, SettleComplete, SettleSwap, Resolve, ResolveSchedule, SettleDone
<1>8. ASSUME NEW w \in Workers, WorkerStep(w) PROVE Same
  <2>1. ASSUME BeginClaim(w) \/ TryPop(w) \/ FinishJob(w) \/ NextRound(w) \/ WaitForWork(w)
        PROVE  Same
    BY <1>1, <2>1 DEF BeginClaim, TryPop, FinishJob, NextRound, WaitForWork
  <2>2. CASE StartJob(w)
    <3>1. UNCHANGED spc \/ \E y \in Threads : spc[y] = "spaceBlocked"
                                              /\ spc' = [spc EXCEPT ![y] = "space"]
      BY <2>2 DEF StartJob
    <3> QED
      BY <1>0, <3>1
  <2> QED
    BY <1>8, <2>1, <2>2 DEF WorkerStep
<1>9. ASSUME NEW mode \in StopModes, RequestStop(mode) PROVE Same
  BY <1>1, <1>9 DEF RequestStop
<1>10. ASSUME StopStep PROVE Same
  <2>1. ASSUME DrainQueue \/ SettleVictim \/ StopReset PROVE Same
    BY <1>1, <2>1 DEF DrainQueue, SettleVictim, StopReset
  <2>2. ASSUME CancelQueued \/ StopNotify PROVE Same
    BY <1>3, <2>2 DEF CancelQueued, StopNotify
  <2> QED
    BY <1>10, <2>1, <2>2 DEF StopStep
<1>11. ASSUME CheckIdle \/ BlockIdle PROVE Same
  BY <1>1, <1>11 DEF CheckIdle, BlockIdle
<1> QED
  BY <1>2, <1>4, <1>5, <1>6, <1>7, <1>8, <1>9, <1>10, <1>11 DEF Next, Done

\* The bound of the queue holds for submissions: none is queued unless fewer
\* tasks than maxQueuedJobs are, although the comparison reads a counter that
\* the workers count down without stateMutex.
THEOREM SubmissionsKeepBound == Spec => SubmissionsBounded
<1> DEFINE Bound ==
      MaxQueued > 0 =>
        \A x \in Threads :
          /\ spc[x] \in {"schedule", "space"} /\ spc'[x] # spc[x]
          /\ ~Queued(sub[x])
          /\ \E w \in Workers : \E i \in 1..Len(queues'[w]) : queues'[w][i] = sub[x]
          => Cardinality(Slots(queues)) < MaxQueued
<1>1. ASSUME CountInv, [Next]_vars PROVE Bound
  <2> SUFFICES ASSUME MaxQueued > 0, NEW x \in Threads,
                      spc[x] \in {"schedule", "space"}, spc'[x] # spc[x],
                      ~Queued(sub[x]),
                      \E w \in Workers : \E i \in 1..Len(queues'[w]) : queues'[w][i] = sub[x]
               PROVE  Cardinality(Slots(queues)) < MaxQueued
    OBVIOUS
  <2>1. Schedule(x) \/ WakeForSpace(x)
    BY <1>1, LeavesSchedule DEF CountInv
  <2>2. UNCHANGED queues \/ ~Full
    BY <2>1 DEF Schedule, WakeForSpace, queueVars
  <2>3. queues' # queues
    BY DEF Queued
  <2>4. queuedJobs < MaxQueued
    BY <1>1, <2>2, <2>3, Sizes DEF Full, CountInv, TypedInv, Typed, QueueTypes
  <2> QED
    BY <1>1, <2>4, CountTerms, Sizes DEF CountInv, QueuedJobsExact
<1>2. CountInv /\ [Next]_vars => [Bound]_vars
  BY <1>1
<1>3. Spec => [][Bound]_vars
  <2> HIDE DEF Bound
  <2> QED
    BY <1>2, InitCount, StepCount, PTL DEF Spec
<1> QED
  BY <1>3 DEF SubmissionsBounded

-----------------------------------------------------------------------------
(* Part 2.  Where a scheduled task is                                      *)

\* The elements of a sequence, and that it has none twice.
Elements(s) == {s[i] : i \in 1..Len(s)}
Distinct(s) == \A i, j \in 1..Len(s) : s[i] = s[j] => i = j

\* An element is added at an end.
LEMMA GrownElements ==
  ASSUME NEW S, NEW s \in Seq(S), NEW e \in S
  PROVE  /\ Elements(<<e>> \o s) = Elements(s) \cup {e}
         /\ Elements(Append(s, e)) = Elements(s) \cup {e}
         /\ Distinct(s) /\ e \notin Elements(s) =>
              Distinct(<<e>> \o s) /\ Distinct(Append(s, e))
<1>0. Len(s) \in Nat
  OBVIOUS
<1> DEFINE c == <<e>> \o s
           a == Append(s, e)
<1>1. /\ Len(c) = Len(s) + 1 /\ c[1] = e
      /\ \A i \in 1..Len(s) : c[i + 1] = s[i]
      /\ \A i \in 2..(Len(s) + 1) : i - 1 \in 1..Len(s) /\ c[i] = s[i - 1]
  BY Consed
<1>2. /\ Len(a) = Len(s) + 1 /\ a[Len(s) + 1] = e
      /\ \A i \in 1..Len(s) : a[i] = s[i]
  OBVIOUS
<1> HIDE DEF c, a
<1>3. Elements(c) = Elements(s) \cup {e}
  <2>1. \A i \in 1..Len(s) : i + 1 \in 1..Len(c)
    BY <1>0, <1>1
  <2>2. 1 \in 1..Len(c)
    BY <1>0, <1>1
  <2>3. \A i \in 1..Len(c) : i = 1 \/ i \in 2..(Len(s) + 1)
    BY <1>0, <1>1
  <2>4. \A i \in 1..Len(c) : c[i] \in Elements(s) \cup {e}
    BY <1>1, <2>3 DEF Elements
  <2>5. \A i \in 1..Len(s) : s[i] \in Elements(c)
    BY <1>1, <2>1 DEF Elements
  <2>6. e \in Elements(c)
    BY <1>1, <2>2 DEF Elements
  <2> QED
    BY <2>4, <2>5, <2>6 DEF Elements
<1>4. Elements(a) = Elements(s) \cup {e}
  <2>1. \A i \in 1..Len(s) : i \in 1..Len(a)
    BY <1>0, <1>2
  <2>2. Len(s) + 1 \in 1..Len(a)
    BY <1>0, <1>2
  <2>3. \A i \in 1..Len(a) : i = Len(s) + 1 \/ i \in 1..Len(s)
    BY <1>0, <1>2
  <2>4. \A i \in 1..Len(a) : a[i] \in Elements(s) \cup {e}
    BY <1>2, <2>3 DEF Elements
  <2>5. \A i \in 1..Len(s) : s[i] \in Elements(a)
    BY <1>2, <2>1 DEF Elements
  <2>6. e \in Elements(a)
    BY <1>2, <2>2 DEF Elements
  <2> QED
    BY <2>4, <2>5, <2>6 DEF Elements
<1>5. ASSUME Distinct(s), e \notin Elements(s) PROVE Distinct(c) /\ Distinct(a)
  <2>0. \A i \in 1..Len(s) : s[i] # e
    BY <1>5 DEF Elements
  <2>1. ASSUME NEW i \in 1..Len(c), NEW j \in 1..Len(c), c[i] = c[j] PROVE i = j
    <3>1. CASE i = 1 /\ j = 1
      BY <3>1
    <3>2. CASE i = 1 /\ j \in 2..(Len(s) + 1)
      BY <1>1, <2>0, <2>1, <3>2
    <3>3. CASE j = 1 /\ i \in 2..(Len(s) + 1)
      BY <1>1, <2>0, <2>1, <3>3
    <3>4. CASE i \in 2..(Len(s) + 1) /\ j \in 2..(Len(s) + 1)
      <4>1. i - 1 = j - 1
        BY <1>1, <1>5, <2>1, <3>4 DEF Distinct
      <4> QED
        BY <4>1
    <3> QED
      BY <1>0, <1>1, <3>1, <3>2, <3>3, <3>4
  <2>2. ASSUME NEW i \in 1..Len(a), NEW j \in 1..Len(a), a[i] = a[j] PROVE i = j
    <3>1. i = Len(s) + 1 \/ i \in 1..Len(s)
      BY <1>0, <1>2
    <3>2. j = Len(s) + 1 \/ j \in 1..Len(s)
      BY <1>0, <1>2
    <3> QED
      BY <1>2, <1>5, <2>0, <2>2, <3>1, <3>2 DEF Distinct
  <2> QED
    BY <2>1, <2>2 DEF Distinct
<1> QED
  BY <1>3, <1>4, <1>5 DEF c, a

\* The first element is taken.
LEMMA TailElements ==
  ASSUME NEW S, NEW s \in Seq(S), s # <<>>, Distinct(s)
  PROVE  /\ Elements(Tail(s)) = Elements(s) \ {Head(s)} /\ Distinct(Tail(s))
         /\ Head(s) \in Elements(s)
<1>1. /\ Tail(s) \in Seq(S) /\ Head(s) = s[1] /\ Len(s) \in Nat /\ Len(s) >= 1
      /\ Len(Tail(s)) = Len(s) - 1
      /\ \A i \in 1..(Len(s) - 1) : i + 1 \in 1..Len(s) /\ Tail(s)[i] = s[i + 1]
  BY Tailed
<1> DEFINE r == Tail(s)
<1> HIDE DEF r
<1>2. \A i \in 1..Len(r) : r[i] \in Elements(s) \ {s[1]}
  <2> SUFFICES ASSUME NEW i \in 1..Len(r) PROVE r[i] \in Elements(s) \ {s[1]}
    OBVIOUS
  <2>1. i + 1 \in 1..Len(s) /\ r[i] = s[i + 1] /\ 1 \in 1..Len(s) /\ i + 1 # 1
    BY <1>1 DEF r
  <2> QED
    BY <2>1 DEF Elements, Distinct
<1>3. ASSUME NEW i \in 1..Len(s), s[i] # s[1] PROVE s[i] \in Elements(r)
  <2>1. i - 1 \in 1..(Len(s) - 1) /\ (i - 1) + 1 = i
    BY <1>1, <1>3
  <2>2. r[i - 1] = s[i] /\ i - 1 \in 1..Len(r)
    BY <1>1, <2>1 DEF r
  <2> QED
    BY <2>2 DEF Elements
<1>4. ASSUME NEW i \in 1..Len(r), NEW j \in 1..Len(r), r[i] = r[j] PROVE i = j
  <2>1. i + 1 = j + 1
    BY <1>1, <1>4 DEF r, Distinct
  <2> QED
    BY <2>1
<1>5. Elements(r) = Elements(s) \ {s[1]}
  BY <1>2, <1>3 DEF Elements
<1>6. s[1] \in Elements(s)
  BY <1>1 DEF Elements
<1> QED
  BY <1>1, <1>4, <1>5, <1>6 DEF r, Distinct

\* The last element is taken.
LEMMA FrontElements ==
  ASSUME NEW S, NEW s \in Seq(S), s # <<>>, Distinct(s)
  PROVE  LET r == SubSeq(s, 1, Len(s) - 1) IN
         Elements(r) = Elements(s) \ {s[Len(s)]} /\ Distinct(r) /\ s[Len(s)] \in Elements(s)
<1> DEFINE r == SubSeq(s, 1, Len(s) - 1)
<1>1. Len(s) \in Nat /\ Len(s) >= 1
  OBVIOUS
<1>2. Len(s) - 1 \in Nat /\ Len(s) - 1 <= Len(s)
  BY <1>1
<1>3. Len(r) = Len(s) - 1
  BY <1>2, Prefixed
<1>4. \A i \in 1..(Len(s) - 1) : r[i] = s[i]
  BY <1>1
<1> HIDE DEF r
<1>5. \A i \in 1..Len(r) : r[i] \in Elements(s) \ {s[Len(s)]}
  <2> SUFFICES ASSUME NEW i \in 1..Len(r) PROVE r[i] \in Elements(s) \ {s[Len(s)]}
    OBVIOUS
  <2>1. i \in 1..Len(s) /\ r[i] = s[i] /\ Len(s) \in 1..Len(s) /\ i # Len(s)
    BY <1>1, <1>3, <1>4
  <2> QED
    BY <2>1 DEF Elements, Distinct
<1>6. ASSUME NEW i \in 1..Len(s), s[i] # s[Len(s)] PROVE s[i] \in Elements(r)
  <2>1. i \in 1..Len(r) /\ r[i] = s[i]
    <3>1. i # Len(s)
      BY <1>6
    <3> QED
      BY <1>1, <1>3, <1>4, <3>1
  <2> QED
    BY <2>1 DEF Elements
<1>7. ASSUME NEW i \in 1..Len(r), NEW j \in 1..Len(r), r[i] = r[j] PROVE i = j
  BY <1>1, <1>3, <1>4, <1>7 DEF Distinct
<1>8. Elements(r) = Elements(s) \ {s[Len(s)]}
  BY <1>5, <1>6 DEF Elements
<1>9. s[Len(s)] \in Elements(s)
  BY <1>1 DEF Elements
<1> QED
  BY <1>7, <1>8, <1>9 DEF r, Distinct

\* Two sequences are joined.
LEMMA JoinedElements ==
  ASSUME NEW S, NEW s \in Seq(S), NEW u \in Seq(S)
  PROVE  /\ Elements(s \o u) = Elements(s) \cup Elements(u)
         /\ Distinct(s) /\ Distinct(u) /\ Elements(s) \cap Elements(u) = {} => Distinct(s \o u)
<1> DEFINE c == s \o u
<1>0. Len(s) \in Nat /\ Len(u) \in Nat
  OBVIOUS
<1>1. Len(c) = Len(s) + Len(u)
  OBVIOUS
<1>2. \A i \in 1..Len(s) : i \in 1..Len(c) /\ c[i] = s[i]
  OBVIOUS
<1>3. \A i \in 1..Len(u) : Len(s) + i \in 1..Len(c) /\ c[Len(s) + i] = u[i]
  OBVIOUS
<1> HIDE DEF c
<1>4. ASSUME NEW i \in 1..Len(c)
      PROVE  i \in 1..Len(s) \/ (i - Len(s) \in 1..Len(u) /\ i = Len(s) + (i - Len(s)))
  BY <1>0, <1>1
<1>5. ASSUME NEW i \in 1..Len(c), i \notin 1..Len(s)
      PROVE  i - Len(s) \in 1..Len(u) /\ c[i] = u[i - Len(s)]
  BY <1>3, <1>4, <1>5
<1>6. Elements(c) = Elements(s) \cup Elements(u)
  <2>1. \A i \in 1..Len(c) : c[i] \in Elements(s) \cup Elements(u)
    BY <1>2, <1>5 DEF Elements
  <2>2. \A i \in 1..Len(s) : s[i] \in Elements(c)
    BY <1>2 DEF Elements
  <2>3. \A i \in 1..Len(u) : u[i] \in Elements(c)
    BY <1>3 DEF Elements
  <2> QED
    BY <2>1, <2>2, <2>3 DEF Elements
<1>7. ASSUME Distinct(s), Distinct(u), Elements(s) \cap Elements(u) = {},
             NEW i \in 1..Len(c), NEW j \in 1..Len(c), c[i] = c[j]
      PROVE  i = j
  <2>1. CASE i \in 1..Len(s) /\ j \in 1..Len(s)
    BY <1>2, <1>7, <2>1 DEF Distinct
  <2>0. /\ \A k \in 1..Len(s) : s[k] \in Elements(s)
        /\ \A k \in 1..Len(u) : u[k] \in Elements(u)
    BY DEF Elements
  <2>2. CASE i \in 1..Len(s) /\ j \notin 1..Len(s)
    BY <1>2, <1>5, <1>7, <2>0, <2>2
  <2>3. CASE i \notin 1..Len(s) /\ j \in 1..Len(s)
    BY <1>2, <1>5, <1>7, <2>0, <2>3
  <2>4. CASE i \notin 1..Len(s) /\ j \notin 1..Len(s)
    <3>1. i - Len(s) = j - Len(s)
      BY <1>5, <1>7, <2>4 DEF Distinct
    <3> QED
      BY <1>0, <3>1
  <2> QED
    BY <2>1, <2>2, <2>3, <2>4
<1> QED
  BY <1>6, <1>7 DEF c, Distinct

\* The tasks of the SettleTask calls on a stack.
CallsOf(fs) == [i \in 1..Len(fs) |-> fs[i].task]

\* A submitter that waits for space, or that came too late for it.
ForSpace == {"space", "spaceHeld", "spaceBlocked", "crashed"}

\* From its scheduling to the end of its SettleTask a task is in a queue, in the
\* hands of a worker, with a submitter that waits for space, with Stop, or on
\* the stack of the thread that settles it.
InQueue(x) == IF x \in Workers THEN Elements(queues[x]) ELSE {}
InHand(x) == IF x \in Workers /\ wpc[x] \in {"popped", "run"} THEN {cur[x]} ELSE {}
InSpace(x) == IF spc[x] \in ForSpace THEN {sub[x]} ELSE {}
InVictims(x) == IF x = Stopper THEN Elements(victims) ELSE {}
OnStack(x) == Elements(CallsOf(frames[x]))

Kinds == {"queue", "hand", "space", "victims", "stack"}
Places == Kinds \X Threads
Held == [p \in Places |->
  CASE p[1] = "queue" -> InQueue(p[2])
    [] p[1] = "hand" -> InHand(p[2])
    [] p[1] = "space" -> InSpace(p[2])
    [] p[1] = "victims" -> InVictims(p[2])
    [] p[1] = "stack" -> OnStack(p[2])]

\* No task is at two places.
Apart(h) == \A p, q \in Places : p # q => h[p] \cap h[q] = {}

\* Neither is it twice at one.
Single ==
  /\ Apart(Held)
  /\ \A w \in Workers : Distinct(queues[w])
  /\ Distinct(victims)
  /\ \A x \in Threads : Distinct(CallsOf(frames[x]))

\* A task is scheduled before it gets to any of the places, runs once it is in
\* the hands of a worker, and has its promise set by its SettleTask.
Fresh(t) == settles[t] = 0 /\ ran[t] = 0
Settles(f) ==
  IF f.phase = "complete"
  THEN settles[f.task] = 0 /\ ran[f.task] = (IF Executed(f.out) THEN 1 ELSE 0)
  ELSE settles[f.task] = 1
HandStages ==
  \A w \in Workers :
    /\ wpc[w] = "popped" => Fresh(cur[w])
    /\ wpc[w] = "run" => settles[cur[w]] = 0 /\ ran[cur[w]] = 1
FrameStages == \A x \in Threads : \A i \in 1..Len(frames[x]) : Settles(frames[x][i])
Stages ==
  /\ \A p \in Places : \A t \in Held[p] : t \in Tasks /\ scheduled[t]
  /\ \A t \in Tasks : scheduled[t] \/ Fresh(t)
  /\ \A t \in Tasks : completed[t] <=> settles[t] = 1
  /\ \A x \in Threads : \A t \in InQueue(x) \cup InSpace(x) \cup InVictims(x) : Fresh(t)
  /\ HandStages /\ FrameStages

PlaceInv == Single /\ Stages /\ SettledOnce

\* What is at each place, before and after a step.
LEMMA HeldAt ==
  ASSUME NEW x \in Threads
  PROVE  /\ Held[<<"queue", x>>] = InQueue(x) /\ Held[<<"hand", x>>] = InHand(x)
         /\ Held[<<"space", x>>] = InSpace(x) /\ Held[<<"victims", x>>] = InVictims(x)
         /\ Held[<<"stack", x>>] = OnStack(x)
         /\ Held'[<<"queue", x>>] = InQueue(x)' /\ Held'[<<"hand", x>>] = InHand(x)'
         /\ Held'[<<"space", x>>] = InSpace(x)' /\ Held'[<<"victims", x>>] = InVictims(x)'
         /\ Held'[<<"stack", x>>] = OnStack(x)'
         /\ \A k \in Kinds : <<k, x>> \in Places
<1>1. \A k \in Kinds : <<k, x>> \in Places /\ <<k, x>>[1] = k /\ <<k, x>>[2] = x
  BY DEF Places
<1>2. /\ <<"queue", x>> \in Places /\ <<"hand", x>> \in Places /\ <<"space", x>> \in Places
      /\ <<"victims", x>> \in Places /\ <<"stack", x>> \in Places
  BY <1>1 DEF Kinds
<1>3. /\ Held[<<"queue", x>>] = InQueue(x) /\ Held[<<"hand", x>>] = InHand(x)
      /\ Held[<<"space", x>>] = InSpace(x) /\ Held[<<"victims", x>>] = InVictims(x)
      /\ Held[<<"stack", x>>] = OnStack(x)
  BY <1>2 DEF Held
<1>4. /\ Held'[<<"queue", x>>] = InQueue(x)' /\ Held'[<<"hand", x>>] = InHand(x)'
      /\ Held'[<<"space", x>>] = InSpace(x)' /\ Held'[<<"victims", x>>] = InVictims(x)'
      /\ Held'[<<"stack", x>>] = OnStack(x)'
  BY <1>2 DEF Held
<1> QED
  BY <1>1, <1>3, <1>4

\* What a step adds to the places: the tasks M come to the place <<k, y>>.
Gains(k, y, M) ==
  \A x \in Threads :
    /\ InQueue(x)' \subseteq IF k = "queue" /\ x = y THEN InQueue(x) \cup M ELSE InQueue(x)
    /\ InHand(x)' \subseteq IF k = "hand" /\ x = y THEN InHand(x) \cup M ELSE InHand(x)
    /\ InSpace(x)' \subseteq IF k = "space" /\ x = y THEN InSpace(x) \cup M ELSE InSpace(x)
    /\ InVictims(x)' \subseteq IF k = "victims" /\ x = y THEN InVictims(x) \cup M ELSE InVictims(x)
    /\ OnStack(x)' \subseteq IF k = "stack" /\ x = y THEN OnStack(x) \cup M ELSE OnStack(x)

\* A place gains no more than that.
LEMMA GainsAt ==
  ASSUME NEW k \in Kinds, NEW y \in Threads, NEW M, Gains(k, y, M), NEW p \in Places
  PROVE  /\ p # <<k, y>> => Held'[p] \subseteq Held[p]
         /\ p = <<k, y>> => Held'[p] \subseteq Held[p] \cup M
<1>1. PICK j \in Kinds, x \in Threads : p = <<j, x>>
  BY DEF Places
<1>2. p # <<k, y>> <=> ~(k = j /\ x = y)
  BY <1>1
<1>3. CASE j = "queue"
  BY <1>1, <1>2, <1>3, HeldAt DEF Gains
<1>4. CASE j = "hand"
  BY <1>1, <1>2, <1>4, HeldAt DEF Gains
<1>5. CASE j = "space"
  BY <1>1, <1>2, <1>5, HeldAt DEF Gains
<1>6. CASE j = "victims"
  BY <1>1, <1>2, <1>6, HeldAt DEF Gains
<1>7. CASE j = "stack"
  BY <1>1, <1>2, <1>7, HeldAt DEF Gains
<1> QED
  BY <1>3, <1>4, <1>5, <1>6, <1>7 DEF Kinds

\* Tasks that were nowhere before, or that leave the place they were at, come to
\* another place.
LEMMA MoveApart ==
  ASSUME NEW k \in Kinds, NEW y \in Threads, NEW M, Apart(Held), Gains(k, y, M),
         \/ \A p \in Places : Held[p] \cap M = {}
         \/ \E src \in Places : src # <<k, y>> /\ M \subseteq Held[src] /\ Held'[src] \cap M = {}
  PROVE  Apart(Held')
<1> DEFINE dst == <<k, y>>
<1>1. dst \in Places
  BY DEF Places
<1>2. \A p \in Places : p # dst => Held'[p] \subseteq Held[p] /\ Held'[p] \cap M = {}
  <2> SUFFICES ASSUME NEW p \in Places, p # dst
               PROVE  Held'[p] \subseteq Held[p] /\ Held'[p] \cap M = {}
    OBVIOUS
  <2>1. Held'[p] \subseteq Held[p]
    BY GainsAt
  <2>2. CASE \A q \in Places : Held[q] \cap M = {}
    BY <2>1, <2>2
  <2>3. ASSUME NEW src \in Places, M \subseteq Held[src], Held'[src] \cap M = {}
        PROVE  Held'[p] \cap M = {}
    <3>1. CASE p = src
      BY <2>3, <3>1
    <3>2. CASE p # src
      BY <2>1, <2>3, <3>2 DEF Apart
    <3> QED
      BY <3>1, <3>2
  <2> QED
    BY <2>1, <2>2, <2>3
<1>3. Held'[dst] \subseteq Held[dst] \cup M
  BY <1>1, GainsAt
<1> SUFFICES ASSUME NEW p \in Places, NEW q \in Places, p # q
             PROVE  Held'[p] \cap Held'[q] = {}
  BY DEF Apart
<1>4. Held[p] \cap Held[q] = {}
  BY DEF Apart
<1> HIDE DEF dst
<1> QED
  BY <1>1, <1>2, <1>3, <1>4

\* Nothing new comes to any place.
LEMMA ShrinkApart ==
  ASSUME Apart(Held), Gains("queue", Stopper, {})
  PROVE  Apart(Held') /\ \A p \in Places : Held'[p] \subseteq Held[p]
<1>1. "queue" \in Kinds /\ Stopper \in Threads
  BY Sizes DEF Kinds
<1>2. \A p \in Places : Held'[p] \subseteq Held[p]
  BY <1>1, GainsAt
<1>3. Apart(Held')
  BY <1>1, MoveApart
<1> QED
  BY <1>2, <1>3

\* The calls on a stack.
LEMMA Calls ==
  ASSUME NEW fs \in Seq(Frame)
  PROVE  /\ CallsOf(fs) \in Seq(Tasks) /\ Len(CallsOf(fs)) = Len(fs)
         /\ \A i \in 1..Len(fs) : CallsOf(fs)[i] = fs[i].task
<1>1. \A i \in 1..Len(fs) : fs[i].task \in Tasks
  BY FrameFields
<1> QED
  BY <1>1 DEF CallsOf

\* A step of the innermost call leaves the tasks on the stack.
LEMMA CallsTop ==
  ASSUME Typed, NEW x \in Threads, NEW f \in Frame, frames[x] # <<>>, Top(x, f),
         f.task = Head(frames[x]).task
  PROVE  \A y \in Threads : CallsOf(frames[y])' = CallsOf(frames[y])
<1>1. /\ \A y \in Threads : y # x => frames'[y] = frames[y]
      /\ Len(frames'[x]) = Len(frames[x]) /\ frames'[x][1] = f
      /\ \A i \in 2..Len(frames[x]) : frames'[x][i] = frames[x][i]
  BY TopFrame
<1>2. Len(frames[x]) \in Nat /\ Head(frames[x]) = frames[x][1]
  BY Innermost
<1>3. \A i \in 1..Len(frames[x]) : frames'[x][i].task = frames[x][i].task
  <2>1. \A i \in 1..Len(frames[x]) : i = 1 \/ i \in 2..Len(frames[x])
    BY <1>2
  <2> QED
    BY <1>1, <1>2, <2>1
<1>4. CallsOf(frames[x])' = CallsOf(frames[x])
  BY <1>1, <1>3 DEF CallsOf
<1>5. \A y \in Threads : y # x => CallsOf(frames[y])' = CallsOf(frames[y])
  BY <1>1 DEF CallsOf
<1> QED
  BY <1>4, <1>5

\* A task comes on top.
LEMMA CallsConsed ==
  ASSUME NEW fs \in Seq(Frame), NEW gs \in Seq(Frame), NEW t \in Tasks,
         Len(gs) = Len(fs) + 1, gs[1].task = t,
         \A i \in 2..(Len(fs) + 1) : i - 1 \in 1..Len(fs) /\ gs[i].task = fs[i - 1].task
  PROVE  /\ Elements(CallsOf(gs)) = Elements(CallsOf(fs)) \cup {t}
         /\ Distinct(CallsOf(fs)) /\ t \notin Elements(CallsOf(fs)) => Distinct(CallsOf(gs))
<1>1. /\ CallsOf(gs) \in Seq(Tasks) /\ CallsOf(fs) \in Seq(Tasks)
      /\ Len(CallsOf(gs)) = Len(fs) + 1 /\ Len(CallsOf(fs)) = Len(fs) /\ Len(fs) \in Nat
  BY Calls
<1> DEFINE c == <<t>> \o CallsOf(fs)
<1>2. /\ c \in Seq(Tasks) /\ Len(c) = Len(fs) + 1 /\ c[1] = t
      /\ \A i \in 2..(Len(fs) + 1) : c[i] = CallsOf(fs)[i - 1]
  BY <1>1, Consed
<1>3. \A i \in 1..Len(CallsOf(gs)) : i = 1 \/ i \in 2..(Len(fs) + 1)
  BY <1>1
<1>4. \A i \in 1..Len(CallsOf(gs)) : CallsOf(gs)[i] = gs[i].task
  BY <1>1, Calls
<1>5. \A i \in 2..(Len(fs) + 1) : CallsOf(fs)[i - 1] = fs[i - 1].task
  BY Calls
<1> HIDE DEF c
<1>6. \A i \in 1..Len(CallsOf(gs)) : CallsOf(gs)[i] = c[i]
  BY <1>2, <1>3, <1>4, <1>5
<1>7. CallsOf(gs) = c
  BY <1>1, <1>2, <1>6
<1> QED
  BY <1>1, <1>7, GrownElements DEF c

\* A call comes on top.
LEMMA CallsNew ==
  ASSUME Typed, NEW x \in Threads, NEW f \in Frame,
         frames' = [frames EXCEPT ![x] = <<f>> \o @]
  PROVE  /\ OnStack(x)' = OnStack(x) \cup {f.task}
         /\ \A y \in Threads : y # x => CallsOf(frames[y])' = CallsOf(frames[y])
         /\ Distinct(CallsOf(frames[x])) /\ f.task \notin OnStack(x) =>
              Distinct(CallsOf(frames[x]))'
<1>1. frames[x] \in Seq(Frame) /\ frames'[x] \in Seq(Frame) /\ f.task \in Tasks
  BY NewFrame, FrameFields DEF Typed, ThreadTypes
<1>2. /\ \A y \in Threads : y # x => frames'[y] = frames[y]
      /\ Len(frames'[x]) = Len(frames[x]) + 1 /\ frames'[x][1] = f
      /\ \A i \in 2..(Len(frames[x]) + 1) :
           i - 1 \in 1..Len(frames[x]) /\ frames'[x][i] = frames[x][i - 1]
  BY NewFrame
<1>3. /\ Elements(CallsOf(frames'[x])) = Elements(CallsOf(frames[x])) \cup {f.task}
      /\ Distinct(CallsOf(frames[x])) /\ f.task \notin Elements(CallsOf(frames[x])) =>
           Distinct(CallsOf(frames'[x]))
  BY <1>1, <1>2, CallsConsed
<1>4. \A y \in Threads : y # x => CallsOf(frames[y])' = CallsOf(frames[y])
  BY <1>2 DEF CallsOf
<1>5. /\ OnStack(x) = Elements(CallsOf(frames[x])) /\ OnStack(x)' = Elements(CallsOf(frames'[x]))
      /\ CallsOf(frames[x])' = CallsOf(frames'[x])
  BY DEF OnStack, CallsOf
<1> QED
  BY <1>3, <1>4, <1>5

\* A call comes on top of one that goes on.
LEMMA CallsDeeper ==
  ASSUME Typed, NEW x \in Threads, NEW f \in Frame, NEW g \in Frame, frames[x] # <<>>,
         frames' = [frames EXCEPT ![x] = <<f, g>> \o Tail(@)], g.task = Head(frames[x]).task
  PROVE  /\ OnStack(x)' = OnStack(x) \cup {f.task}
         /\ \A y \in Threads : y # x => CallsOf(frames[y])' = CallsOf(frames[y])
         /\ Distinct(CallsOf(frames[x])) /\ f.task \notin OnStack(x) =>
              Distinct(CallsOf(frames[x]))'
<1>1. frames[x] \in Seq(Frame) /\ frames'[x] \in Seq(Frame) /\ f.task \in Tasks
  BY DeeperFrame, FrameFields DEF Typed, ThreadTypes
<1>2. /\ \A y \in Threads : y # x => frames'[y] = frames[y]
      /\ Len(frames'[x]) = Len(frames[x]) + 1 /\ frames'[x][1] = f /\ frames'[x][2] = g
      /\ \A i \in 3..(Len(frames[x]) + 1) :
           i - 1 \in 2..Len(frames[x]) /\ frames'[x][i] = frames[x][i - 1]
  BY DeeperFrame
<1>3. Head(frames[x]) = frames[x][1] /\ 1 \in 1..Len(frames[x]) /\ Len(frames[x]) \in Nat
  BY Innermost
<1>4. \A i \in 2..(Len(frames[x]) + 1) :
        i - 1 \in 1..Len(frames[x]) /\ frames'[x][i].task = frames[x][i - 1].task
  <2> SUFFICES ASSUME NEW i \in 2..(Len(frames[x]) + 1)
               PROVE  i - 1 \in 1..Len(frames[x]) /\ frames'[x][i].task = frames[x][i - 1].task
    OBVIOUS
  <2>1. CASE i = 2
    BY <1>2, <1>3, <2>1
  <2>2. CASE i \in 3..(Len(frames[x]) + 1)
    BY <1>2, <1>3, <2>2
  <2> QED
    BY <1>3, <2>1, <2>2
<1>5. /\ Elements(CallsOf(frames'[x])) = Elements(CallsOf(frames[x])) \cup {f.task}
      /\ Distinct(CallsOf(frames[x])) /\ f.task \notin Elements(CallsOf(frames[x])) =>
           Distinct(CallsOf(frames'[x]))
  BY <1>1, <1>2, <1>4, CallsConsed
<1>6. \A y \in Threads : y # x => CallsOf(frames[y])' = CallsOf(frames[y])
  BY <1>2 DEF CallsOf
<1>7. /\ OnStack(x) = Elements(CallsOf(frames[x])) /\ OnStack(x)' = Elements(CallsOf(frames'[x]))
      /\ CallsOf(frames[x])' = CallsOf(frames'[x])
  BY DEF OnStack, CallsOf
<1> QED
  BY <1>5, <1>6, <1>7

\* A call returns.
LEMMA CallsGone ==
  ASSUME Typed, NEW x \in Threads, frames[x] # <<>>,
         frames' = [frames EXCEPT ![x] = Tail(@)], Distinct(CallsOf(frames[x]))
  PROVE  /\ OnStack(x)' = OnStack(x) \ {Head(frames[x]).task}
         /\ \A y \in Threads : y # x => CallsOf(frames[y])' = CallsOf(frames[y])
         /\ Distinct(CallsOf(frames[x]))'
<1> DEFINE fs == frames[x]
           gs == frames'[x]
<1>1. fs \in Seq(Frame) /\ gs \in Seq(Frame) /\ fs # <<>>
  BY FrameGone DEF Typed, ThreadTypes
<1>2. /\ \A y \in Threads : y # x => frames'[y] = frames[y]
      /\ Len(gs) = Len(fs) - 1
      /\ \A i \in 1..(Len(fs) - 1) : i + 1 \in 1..Len(fs) /\ gs[i] = fs[i + 1]
  BY FrameGone
<1>3. Len(fs) \in Nat /\ Len(fs) >= 1 /\ 1 \in 1..Len(fs) /\ Head(fs) = fs[1]
  BY Innermost
<1>4. Distinct(CallsOf(fs))
  BY DEF fs
<1> HIDE DEF fs, gs
<1>5. CallsOf(fs) \in Seq(Tasks) /\ CallsOf(fs) # <<>> /\ CallsOf(gs) \in Seq(Tasks)
      /\ Len(CallsOf(fs)) = Len(fs) /\ Len(CallsOf(gs)) = Len(fs) - 1
  <2>1. CallsOf(fs) \in Seq(Tasks) /\ Len(CallsOf(fs)) = Len(fs)
        /\ CallsOf(gs) \in Seq(Tasks) /\ Len(CallsOf(gs)) = Len(gs)
    BY <1>1, Calls
  <2> QED
    BY <1>2, <1>3, <2>1
<1>6. CallsOf(gs) = Tail(CallsOf(fs)) /\ Head(CallsOf(fs)) = Head(fs).task
  <2> DEFINE c == Tail(CallsOf(fs))
  <2>1. /\ c \in Seq(Tasks) /\ Len(c) = Len(fs) - 1 /\ Head(CallsOf(fs)) = CallsOf(fs)[1]
        /\ \A i \in 1..(Len(fs) - 1) : c[i] = CallsOf(fs)[i + 1]
    BY <1>5, Tailed
  <2>2. \A i \in 1..(Len(fs) - 1) : CallsOf(gs)[i] = gs[i].task
    BY <1>1, <1>2, Calls
  <2>3. \A i \in 1..(Len(fs) - 1) : CallsOf(fs)[i + 1] = fs[i + 1].task
    BY <1>1, <1>2, Calls
  <2>4. CallsOf(fs)[1] = fs[1].task
    BY <1>1, <1>3, Calls
  <2> HIDE DEF c
  <2>5. \A i \in 1..(Len(fs) - 1) : CallsOf(gs)[i] = c[i]
    BY <1>2, <2>1, <2>2, <2>3
  <2>6. CallsOf(gs) = c
    BY <1>5, <2>1, <2>5
  <2> QED
    BY <1>3, <2>1, <2>4, <2>6 DEF c
<1>7. /\ Elements(CallsOf(gs)) = Elements(CallsOf(fs)) \ {Head(fs).task}
      /\ Distinct(CallsOf(gs))
  BY <1>4, <1>5, <1>6, TailElements
<1>8. \A y \in Threads : y # x => CallsOf(frames[y])' = CallsOf(frames[y])
  BY <1>2 DEF CallsOf
<1>9. /\ OnStack(x) = Elements(CallsOf(fs)) /\ OnStack(x)' = Elements(CallsOf(gs))
      /\ CallsOf(frames[x]) = CallsOf(fs) /\ CallsOf(frames[x])' = CallsOf(gs)
  BY DEF OnStack, fs, gs, CallsOf
<1> QED
  BY <1>7, <1>8, <1>9 DEF fs

\* What a step that leaves the promises alone has to show.
LEMMA PlaceMove ==
  ASSUME PlaceInv, NEW k \in Kinds, NEW y \in Threads, NEW M, Gains(k, y, M),
         \/ M \subseteq Tasks /\ \A t \in M : ~scheduled[t] /\ scheduled'[t]
         \/ \E src \in Places : src # <<k, y>> /\ M \subseteq Held[src] /\ Held'[src] \cap M = {},
         \A w \in Workers : Distinct(queues[w])', Distinct(victims)',
         \A x \in Threads : Distinct(CallsOf(frames[x]))',
         UNCHANGED <<settles, ran, completed, outcome>>,
         \A t \in Tasks : scheduled[t] => scheduled'[t],
         k \in {"queue", "space", "victims"} => \A t \in M : Fresh(t),
         HandStages', FrameStages'
  PROVE  PlaceInv'
<1>1. Single'
  <2>1. CASE M \subseteq Tasks /\ \A t \in M : ~scheduled[t] /\ scheduled'[t]
    <3>1. \A p \in Places : Held[p] \cap M = {}
      BY <2>1 DEF PlaceInv, Stages
    <3>2. Apart(Held')
      BY <3>1, MoveApart DEF PlaceInv, Single
    <3> QED
      BY <3>2 DEF Single
  <2>2. CASE \E src \in Places : src # <<k, y>> /\ M \subseteq Held[src] /\ Held'[src] \cap M = {}
    <3>1. Apart(Held')
      BY <2>2, MoveApart DEF PlaceInv, Single
    <3> QED
      BY <3>1 DEF Single
  <2> QED
    BY <2>1, <2>2
<1>2. \A t \in M : t \in Tasks /\ scheduled'[t]
  BY DEF PlaceInv, Stages
<1>3. \A p \in Places : \A t \in Held'[p] : t \in Tasks /\ scheduled'[t]
  <2> SUFFICES ASSUME NEW p \in Places, NEW t \in Held'[p] PROVE t \in Tasks /\ scheduled'[t]
    OBVIOUS
  <2>1. t \in Held[p] \cup M
    BY GainsAt
  <2> QED
    BY <1>2, <2>1 DEF PlaceInv, Stages
<1>4. \A t \in Tasks : scheduled'[t] \/ Fresh(t)'
  BY DEF PlaceInv, Stages, Fresh
<1>5. \A t \in Tasks : completed'[t] <=> settles'[t] = 1
  BY DEF PlaceInv, Stages
<1>6. \A x \in Threads : \A t \in InQueue(x)' \cup InSpace(x)' \cup InVictims(x)' : Fresh(t)'
  <2> SUFFICES ASSUME NEW x \in Threads, NEW t \in InQueue(x)' \cup InSpace(x)' \cup InVictims(x)'
               PROVE  Fresh(t)
    BY DEF Fresh
  <2>1. \/ t \in InQueue(x) \cup InSpace(x) \cup InVictims(x)
        \/ k \in {"queue", "space", "victims"} /\ t \in M
    BY DEF Gains
  <2> QED
    BY <2>1 DEF PlaceInv, Stages
<1>7. SettledOnce'
  BY DEF PlaceInv, SettledOnce
<1> QED
  BY <1>1, <1>3, <1>4, <1>5, <1>6, <1>7 DEF PlaceInv, Stages

\* The same for a step that moves no task.
LEMMA PlaceKeep ==
  ASSUME PlaceInv, Gains("queue", Stopper, {}),
         \A w \in Workers : Distinct(queues[w])', Distinct(victims)',
         \A x \in Threads : Distinct(CallsOf(frames[x]))',
         UNCHANGED <<settles, ran, completed, outcome, scheduled>>,
         HandStages', FrameStages'
  PROVE  PlaceInv'
<1>1. "queue" \in Kinds /\ Stopper \in Threads
  BY Sizes DEF Kinds
<1> QED
  BY <1>1, PlaceMove

\* Where the task of a push goes.
LEMMA PushPlaces ==
  ASSUME Typed, NEW x \in Threads, NEW t \in Tasks, PushTask(x, t),
         \A w \in Workers : Distinct(queues[w]),
         \A w \in Workers : t \notin InQueue(w)
  PROVE  /\ \E i \in Workers :
              \A y \in Threads : InQueue(y)' \subseteq IF y = i THEN InQueue(y) \cup {t} ELSE InQueue(y)
         /\ \A w \in Workers : Distinct(queues[w])'
<1>1. PICK i \in Workers, q \in Seq(Tasks) :
        /\ queues' = [queues EXCEPT ![i] = q]
        /\ q = Append(queues[i], t) \/ q = <<t>> \o queues[i]
  BY Inserting
<1>2. queues \in [Workers -> Seq(Tasks)] /\ queues[i] \in Seq(Tasks)
  BY DEF Typed, QueueTypes
<1>3. /\ Elements(q) = Elements(queues[i]) \cup {t}
      /\ Distinct(queues[i]) /\ t \notin Elements(queues[i]) => Distinct(q)
  <2> DEFINE s == queues[i]
  <2>1. s \in Seq(Tasks)
    BY <1>2
  <2> HIDE DEF s
  <2>2. /\ Elements(<<t>> \o s) = Elements(s) \cup {t}
        /\ Elements(Append(s, t)) = Elements(s) \cup {t}
        /\ Distinct(s) /\ t \notin Elements(s) =>
             Distinct(<<t>> \o s) /\ Distinct(Append(s, t))
    BY <2>1, GrownElements
  <2>3. q = Append(s, t) \/ q = <<t>> \o s
    BY <1>1 DEF s
  <2>4. Elements(q) = Elements(s) \cup {t} /\ (Distinct(s) /\ t \notin Elements(s) => Distinct(q))
    BY <2>2, <2>3
  <2> QED
    BY <2>4 DEF s
<1>4. t \notin Elements(queues[i])
  BY <1>1 DEF InQueue
<1>5. \A w \in Workers : queues'[w] = IF w = i THEN q ELSE queues[w]
  BY <1>1, <1>2
<1>6. \A w \in Workers : Distinct(queues[w])'
  BY <1>3, <1>4, <1>5 DEF Distinct
<1>7. \A y \in Threads : InQueue(y)' \subseteq IF y = i THEN InQueue(y) \cup {t} ELSE InQueue(y)
  <2> SUFFICES ASSUME NEW y \in Threads
               PROVE  InQueue(y)' \subseteq IF y = i THEN InQueue(y) \cup {t} ELSE InQueue(y)
    OBVIOUS
  <2>1. CASE y \in Workers
    <3>1. InQueue(y)' = Elements(queues'[y]) /\ InQueue(y) = Elements(queues[y])
      BY <2>1 DEF InQueue, Elements
    <3> QED
      BY <1>3, <1>5, <2>1, <3>1
  <2>2. CASE y \notin Workers
    BY <2>2 DEF InQueue
  <2> QED
    BY <2>1, <2>2
<1> QED
  BY <1>6, <1>7

\* Waking a worker does not touch what it has in its hands.
LEMMA PushHands ==
  ASSUME Typed, NEW x \in Threads, NEW t \in Tasks, PushTask(x, t), UNCHANGED cur
  PROVE  /\ \A y \in Threads : InHand(y)' = InHand(y)
         /\ HandStages /\ UNCHANGED <<settles, ran>> => HandStages'
<1>1. \A w \in Workers : wpc'[w] = wpc[w] \/ (wpc[w] = "asleep" /\ wpc'[w] = "wait")
  BY Waking
<1> QED
  BY <1>1 DEF InHand, HandStages, Fresh

\* The calls and their stages, where the promises are left alone.
LEMMA StageTop ==
  ASSUME Typed, FrameStages, UNCHANGED <<settles, ran>>,
         NEW x \in Threads, NEW f \in Frame, frames[x] # <<>>, Top(x, f), Settles(f)
  PROVE  FrameStages'
<1>1. /\ \A y \in Threads : y # x => frames'[y] = frames[y]
      /\ Len(frames'[x]) = Len(frames[x]) /\ frames'[x][1] = f
      /\ \A i \in 2..Len(frames[x]) : frames'[x][i] = frames[x][i]
  BY TopFrame
<1>2. Len(frames[x]) \in Nat
  BY Innermost
<1>3. \A y \in Threads : \A i \in 1..Len(frames'[y]) :
        frames'[y][i] = f \/ (i \in 1..Len(frames[y]) /\ frames'[y][i] = frames[y][i])
  <2>1. \A i \in 1..Len(frames[x]) : i = 1 \/ i \in 2..Len(frames[x])
    BY <1>2
  <2> QED
    BY <1>1, <2>1
<1>4. \A y \in Threads : \A i \in 1..Len(frames'[y]) : Settles(frames'[y][i])
  BY <1>3 DEF FrameStages
<1> QED
  BY <1>4 DEF FrameStages, Settles

\* A call of SettleTask starts on an empty stack or above the others.
LEMMA StageNew ==
  ASSUME Typed, FrameStages, UNCHANGED <<settles, ran>>,
         NEW x \in Threads, NEW f \in Frame, frames' = [frames EXCEPT ![x] = <<f>> \o @],
         Settles(f)
  PROVE  FrameStages'
<1>1. /\ \A y \in Threads : y # x => frames'[y] = frames[y]
      /\ Len(frames'[x]) = Len(frames[x]) + 1 /\ frames'[x][1] = f
      /\ \A i \in 2..(Len(frames[x]) + 1) :
           i - 1 \in 1..Len(frames[x]) /\ frames'[x][i] = frames[x][i - 1]
  BY NewFrame
<1>2. frames[x] \in Seq(Frame) /\ Len(frames[x]) \in Nat
  BY DEF Typed, ThreadTypes
<1>3. \A i \in 1..(Len(frames[x]) + 1) : i = 1 \/ i \in 2..(Len(frames[x]) + 1)
  BY <1>2
<1>4. \A y \in Threads : \A i \in 1..Len(frames'[y]) : Settles(frames'[y][i])
  <2>1. \A i \in 1..Len(frames'[x]) : Settles(frames'[x][i])
    BY <1>1, <1>3 DEF FrameStages
  <2> QED
    BY <1>1, <2>1 DEF FrameStages
<1> QED
  BY <1>4 DEF FrameStages, Settles

\* The innermost call goes on as g and calls SettleTask for another task.
LEMMA StageDeeper ==
  ASSUME Typed, FrameStages, UNCHANGED <<settles, ran>>,
         NEW x \in Threads, NEW f \in Frame, NEW g \in Frame, frames[x] # <<>>,
         frames' = [frames EXCEPT ![x] = <<f, g>> \o Tail(@)], Settles(f), Settles(g)
  PROVE  FrameStages'
<1>1. /\ \A y \in Threads : y # x => frames'[y] = frames[y]
      /\ Len(frames'[x]) = Len(frames[x]) + 1 /\ frames'[x][1] = f /\ frames'[x][2] = g
      /\ \A i \in 3..(Len(frames[x]) + 1) :
           i - 1 \in 2..Len(frames[x]) /\ frames'[x][i] = frames[x][i - 1]
  BY DeeperFrame
<1>2. Len(frames[x]) \in Nat
  BY Innermost
<1>3. \A i \in 1..(Len(frames[x]) + 1) : i = 1 \/ i = 2 \/ i \in 3..(Len(frames[x]) + 1)
  BY <1>2
<1>4. \A i \in 2..Len(frames[x]) : i \in 1..Len(frames[x])
  BY <1>2
<1>5. \A y \in Threads : \A i \in 1..Len(frames'[y]) : Settles(frames'[y][i])
  <2>1. \A i \in 1..Len(frames'[x]) : Settles(frames'[x][i])
    BY <1>1, <1>3, <1>4 DEF FrameStages
  <2> QED
    BY <1>1, <2>1 DEF FrameStages
<1> QED
  BY <1>5 DEF FrameStages, Settles

\* The innermost call returns.
LEMMA StageGone ==
  ASSUME Typed, FrameStages, UNCHANGED <<settles, ran>>,
         NEW x \in Threads, frames[x] # <<>>, frames' = [frames EXCEPT ![x] = Tail(@)]
  PROVE  FrameStages'
<1>1. /\ \A y \in Threads : y # x => frames'[y] = frames[y]
      /\ Len(frames'[x]) = Len(frames[x]) - 1
      /\ \A i \in 1..(Len(frames[x]) - 1) :
           i + 1 \in 1..Len(frames[x]) /\ frames'[x][i] = frames[x][i + 1]
  BY FrameGone
<1>2. \A y \in Threads : \A i \in 1..Len(frames'[y]) : Settles(frames'[y][i])
  <2>1. \A i \in 1..Len(frames'[x]) : Settles(frames'[x][i])
    BY <1>1 DEF FrameStages
  <2> QED
    BY <1>1, <2>1 DEF FrameStages
<1> QED
  BY <1>2 DEF FrameStages, Settles

\* A task that is not scheduled is at no place.
LEMMA NotYet ==
  ASSUME PlaceInv, NEW t \in Tasks, ~scheduled[t]
  PROVE  /\ Fresh(t)
         /\ \A y \in Threads : /\ t \notin InQueue(y) /\ t \notin InHand(y) /\ t \notin InSpace(y)
                               /\ t \notin InVictims(y) /\ t \notin OnStack(y)
<1>1. \A p \in Places : t \notin Held[p]
  BY DEF PlaceInv, Stages
<1>2. \A y \in Threads :
        /\ <<"queue", y>> \in Places /\ <<"hand", y>> \in Places /\ <<"space", y>> \in Places
        /\ <<"victims", y>> \in Places /\ <<"stack", y>> \in Places
  BY DEF Places, Kinds
<1>3. Fresh(t)
  BY DEF PlaceInv, Stages
<1> QED
  BY <1>1, <1>2, <1>3, HeldAt

\* A task that is at one place is at no other.
LEMMA Elsewhere ==
  ASSUME PlaceInv, NEW k \in Kinds, NEW x \in Threads, NEW t \in Held[<<k, x>>],
         NEW y \in Threads
  PROVE  /\ ~(k = "queue" /\ x = y) => t \notin InQueue(y)
         /\ ~(k = "hand" /\ x = y) => t \notin InHand(y)
         /\ ~(k = "space" /\ x = y) => t \notin InSpace(y)
         /\ ~(k = "victims" /\ x = y) => t \notin InVictims(y)
         /\ ~(k = "stack" /\ x = y) => t \notin OnStack(y)
<1>1. <<k, x>> \in Places /\ \A j \in Kinds : <<j, y>> \in Places
  BY DEF Places
<1>2. \A j \in Kinds : ~(k = j /\ x = y) => t \notin Held[<<j, y>>]
  <2> SUFFICES ASSUME NEW j \in Kinds, ~(k = j /\ x = y) PROVE t \notin Held[<<j, y>>]
    OBVIOUS
  <2>1. <<k, x>> # <<j, y>>
    OBVIOUS
  <2> QED
    BY <1>1, <2>1 DEF PlaceInv, Single, Apart
<1>3. /\ "queue" \in Kinds /\ "hand" \in Kinds /\ "space" \in Kinds
      /\ "victims" \in Kinds /\ "stack" \in Kinds
  BY DEF Kinds
<1> QED
  BY <1>2, <1>3, HeldAt

\* A step that moves nothing and starts and settles nothing.
LEMMA PlaceSame ==
  ASSUME PlaceInv,
         UNCHANGED <<queues, victims, frames, settles, ran, completed, outcome, scheduled>>,
         \A x \in Threads : InHand(x)' \subseteq InHand(x) /\ InSpace(x)' \subseteq InSpace(x),
         HandStages'
  PROVE  PlaceInv'
<1>1. Gains("queue", Stopper, {})
  BY DEF Gains, InQueue, InVictims, OnStack
<1>2. /\ Distinct(victims)' /\ \A w \in Workers : Distinct(queues[w])'
      /\ \A x \in Threads : Distinct(CallsOf(frames[x]))'
  BY DEF PlaceInv, Single
<1>3. FrameStages'
  BY DEF PlaceInv, Stages, FrameStages, Settles
<1> QED
  BY <1>1, <1>2, <1>3, PlaceKeep

\* The same, for a step that changes nothing of a worker either.
LEMMA PlaceIdle ==
  ASSUME PlaceInv,
         UNCHANGED <<queues, victims, frames, settles, ran, completed, outcome, scheduled>>,
         UNCHANGED <<wpc, cur>>, \A x \in Threads : InSpace(x)' \subseteq InSpace(x)
  PROVE  PlaceInv'
<1>1. \A x \in Threads : InHand(x)' \subseteq InHand(x)
  BY DEF InHand
<1>2. HandStages'
  BY DEF PlaceInv, Stages, HandStages, Fresh
<1> QED
  BY <1>1, <1>2, PlaceSame

\* A submission up to its scheduling.
LEMMA PlaceRegister ==
  ASSUME TypedInv, PlaceInv, NEW x \in Threads,
         Register(x) \/ Attach(x) \/ Undo(x) \/ BlockForSpace(x)
  PROVE  PlaceInv'
<1>1. spc \in [Threads -> SPCs]
  BY DEF TypedInv, Typed, ThreadTypes
<1>2. UNCHANGED <<queues, victims, frames, settles, ran, completed, outcome, scheduled, wpc, cur, sub>>
  BY DEF Register, Attach, Undo, BlockForSpace, queueVars, stopVars, ghostVars, workerVars, taskVars
<1>3. \A y \in Threads : spc'[y] \in ForSpace => spc[y] \in ForSpace
  BY <1>1 DEF Register, Attach, Undo, BlockForSpace, NextDep, ForSpace
<1>4. \A y \in Threads : InSpace(y)' \subseteq InSpace(y)
  BY <1>2, <1>3 DEF InSpace
<1> QED
  BY <1>2, <1>4, PlaceIdle

\* A submission that is refused, waits for space or is queued.
LEMMA PlaceSchedule ==
  ASSUME TypedInv, PlaceInv, NEW x \in Threads, Schedule(x)
  PROVE  PlaceInv'
<1> DEFINE t == sub[x]
<1>0. /\ Typed /\ spc \in [Threads -> SPCs] /\ sub \in [Threads -> Tasks \cup {NoTask}]
      /\ scheduled \in [Tasks -> BOOLEAN] /\ frames \in [Threads -> Seq(Frame)]
  BY DEF TypedInv, Typed, ThreadTypes, TaskTypes
<1>1. /\ t \in Tasks /\ spc[x] = "schedule"
      /\ UNCHANGED <<victims, settles, ran, completed, outcome, cur>>
  BY DEF TypedInv, Standing, Schedule, stopVars, ghostVars
<1>2. Single /\ HandStages /\ FrameStages
  BY DEF PlaceInv, Stages
<1>3. CASE /\ Returned(x) /\ UNCHANGED <<scheduled, queueVars, wpc, frames>>
  <2>1. \A y \in Threads : InSpace(y)' \subseteq InSpace(y)
    BY <1>0, <1>3 DEF Returned, InSpace, ForSpace
  <2> QED
    BY <1>1, <1>3, <2>1, PlaceIdle DEF queueVars
<1>4. ASSUME ~scheduled[t], scheduled' = [scheduled EXCEPT ![t] = TRUE]
      PROVE  /\ \A y \in Threads : /\ t \notin InQueue(y) /\ t \notin InSpace(y) /\ t \notin OnStack(y)
             /\ Fresh(t) /\ scheduled'[t]
             /\ \A u \in Tasks : scheduled[u] => scheduled'[u]
  BY <1>0, <1>1, <1>4, NotYet
<1>5. CASE /\ ~scheduled[t] /\ scheduled' = [scheduled EXCEPT ![t] = TRUE]
           /\ frames' = [frames EXCEPT ![x] = <<SettleFrame(t, "refused")>> \o @]
           /\ Returned(x) /\ UNCHANGED <<queueVars, wpc>>
  <2> DEFINE f == SettleFrame(t, "refused")
  <2>1. f \in Frame /\ f.task = t /\ f.phase = "complete" /\ f.out = "refused"
    BY <1>1, FreshFrame DEF Outcomes
  <2> HIDE DEF f
  <2>2. frames' = [frames EXCEPT ![x] = <<f>> \o @]
    BY <1>5 DEF f
  <2>3. /\ OnStack(x)' = OnStack(x) \cup {t}
        /\ \A y \in Threads : y # x => CallsOf(frames[y])' = CallsOf(frames[y])
        /\ Distinct(CallsOf(frames[x]))'
    <3>1. t \notin OnStack(x) /\ Distinct(CallsOf(frames[x]))
      BY <1>2, <1>4, <1>5 DEF Single
    <3> QED
      BY <1>0, <2>1, <2>2, <3>1, CallsNew
  <2>4. Settles(f)
    BY <1>4, <1>5, <2>1 DEF Settles, Executed, Fresh
  <2>5. FrameStages'
    BY <1>0, <1>1, <1>2, <2>1, <2>2, <2>4, StageNew
  <2>6. HandStages' /\ Distinct(victims)' /\ \A w \in Workers : Distinct(queues[w])'
    BY <1>1, <1>2, <1>5 DEF queueVars, Single, HandStages, Fresh
  <2>7. \A y \in Threads : Distinct(CallsOf(frames[y]))'
    BY <1>2, <2>3 DEF Single
  <2>8. \A y \in Threads : spc'[y] \in ForSpace => spc[y] \in ForSpace /\ sub'[y] = sub[y]
    BY <1>0, <1>5 DEF Returned, ForSpace
  <2>9. Gains("stack", x, {t})
    BY <1>1, <1>5, <2>3, <2>8 DEF Gains, InQueue, InHand, InSpace, InVictims, OnStack, queueVars
  <2> QED
    BY <1>1, <1>4, <1>5, <2>5, <2>6, <2>7, <2>9, PlaceMove DEF Kinds
<1>6. CASE /\ ~scheduled[t] /\ scheduled' = [scheduled EXCEPT ![t] = TRUE]
           /\ spc' = [spc EXCEPT ![x] = "spaceHeld"]
           /\ UNCHANGED <<sub, queueVars, wpc, frames>>
  <2>1. Gains("space", x, {t})
    BY <1>0, <1>1, <1>6 DEF Gains, InQueue, InHand, InSpace, InVictims, OnStack, queueVars
  <2>2. HandStages' /\ Distinct(victims)' /\ \A w \in Workers : Distinct(queues[w])'
    BY <1>1, <1>2, <1>6 DEF queueVars, Single, HandStages, Fresh
  <2>3. FrameStages' /\ \A y \in Threads : Distinct(CallsOf(frames[y]))'
    BY <1>1, <1>2, <1>6 DEF Single, FrameStages, Settles
  <2> QED
    BY <1>1, <1>4, <1>6, <2>1, <2>2, <2>3, PlaceMove DEF Kinds
<1>7. CASE /\ ~scheduled[t] /\ scheduled' = [scheduled EXCEPT ![t] = TRUE]
           /\ PushTask(x, t) /\ Returned(x) /\ UNCHANGED frames
  <2>1. PICK i \in Workers :
          \A y \in Threads : InQueue(y)' \subseteq IF y = i THEN InQueue(y) \cup {t} ELSE InQueue(y)
    BY <1>0, <1>1, <1>2, <1>4, <1>7, Sizes, PushPlaces DEF Single
  <2>2. \A w \in Workers : Distinct(queues[w])'
    BY <1>0, <1>1, <1>2, <1>4, <1>7, Sizes, PushPlaces DEF Single
  <2>3. HandStages' /\ \A y \in Threads : InHand(y)' = InHand(y)
    BY <1>0, <1>1, <1>2, <1>7, PushHands
  <2>4. \A y \in Threads : spc'[y] \in ForSpace => spc[y] \in ForSpace /\ sub'[y] = sub[y]
    BY <1>0, <1>7 DEF Returned, ForSpace
  <2>5. Gains("queue", i, {t})
    BY <1>1, <1>7, <2>1, <2>3, <2>4 DEF Gains, InSpace, InVictims, OnStack
  <2>6. FrameStages' /\ Distinct(victims)' /\ \A y \in Threads : Distinct(CallsOf(frames[y]))'
    BY <1>1, <1>2, <1>7 DEF Single, FrameStages, Settles
  <2>7. i \in Threads
    BY Sizes
  <2> QED
    BY <1>1, <1>4, <1>7, <2>2, <2>3, <2>5, <2>6, <2>7, PlaceMove DEF Kinds
<1> QED
  BY <1>3, <1>5, <1>6, <1>7 DEF Schedule

\* A submitter that waited for space is refused, waits on, queues its task or
\* comes too late.
LEMMA PlaceWake ==
  ASSUME TypedInv, PlaceInv, NEW x \in Threads, WakeForSpace(x)
  PROVE  PlaceInv'
<1> DEFINE t == sub[x]
<1>0. /\ Typed /\ spc \in [Threads -> SPCs] /\ sub \in [Threads -> Tasks \cup {NoTask}]
      /\ frames \in [Threads -> Seq(Frame)]
  BY DEF TypedInv, Typed, ThreadTypes, TaskTypes
<1>1. /\ t \in Tasks /\ spc[x] = "space"
      /\ UNCHANGED <<victims, settles, ran, completed, outcome, scheduled, cur>>
  BY DEF TypedInv, Standing, WakeForSpace, stopVars, ghostVars, taskVars
<1>2. Single /\ HandStages /\ FrameStages
  BY DEF PlaceInv, Stages
<1>3. t \in InSpace(x)
  BY <1>1 DEF InSpace, ForSpace
<1>4. t \in Held[<<"space", x>>]
  BY <1>3, HeldAt
<1>5. Fresh(t)
  BY <1>3 DEF PlaceInv, Stages
<1>6. (\A y \in Threads : t \notin InQueue(y)) /\ t \notin OnStack(x)
  <2>1. "space" \in Kinds
    BY DEF Kinds
  <2> QED
    BY <1>4, <2>1, Elsewhere
<1>7. ASSUME Returned(x)
      PROVE  /\ {t} \subseteq Held[<<"space", x>>] /\ Held'[<<"space", x>>] \cap {t} = {}
             /\ \A y \in Threads : spc'[y] \in ForSpace => spc[y] \in ForSpace /\ sub'[y] = sub[y]
             /\ <<"space", x>> \in Places
  <2>1. spc'[x] = "idle"
    BY <1>0, <1>7 DEF Returned
  <2>2. InSpace(x)' = {}
    BY <2>1 DEF InSpace, ForSpace
  <2>3. Held'[<<"space", x>>] = {}
    BY <2>2, HeldAt
  <2>4. <<"space", x>> \in Places
    BY DEF Places, Kinds
  <2>5. \A y \in Threads : spc'[y] \in ForSpace => spc[y] \in ForSpace /\ sub'[y] = sub[y]
    BY <1>0, <1>7 DEF Returned, ForSpace
  <2> QED
    BY <1>4, <2>3, <2>4, <2>5
<1>8. CASE /\ frames' = [frames EXCEPT ![x] = <<SettleFrame(t, "refused")>> \o @]
           /\ Returned(x) /\ UNCHANGED <<queueVars, wpc>>
  <2> DEFINE f == SettleFrame(t, "refused")
  <2>1. f \in Frame /\ f.task = t /\ f.phase = "complete" /\ f.out = "refused"
    BY <1>1, FreshFrame DEF Outcomes
  <2> HIDE DEF f
  <2>2. frames' = [frames EXCEPT ![x] = <<f>> \o @]
    BY <1>8 DEF f
  <2>3. /\ OnStack(x)' = OnStack(x) \cup {t}
        /\ \A y \in Threads : y # x => CallsOf(frames[y])' = CallsOf(frames[y])
        /\ Distinct(CallsOf(frames[x]))'
    <3>1. t \notin OnStack(x) /\ Distinct(CallsOf(frames[x]))
      BY <1>2, <1>6 DEF Single
    <3> QED
      BY <1>0, <2>1, <2>2, <3>1, CallsNew
  <2>4. Settles(f)
    BY <1>5, <2>1 DEF Settles, Executed, Fresh
  <2>5. FrameStages'
    BY <1>0, <1>1, <1>2, <2>1, <2>2, <2>4, StageNew
  <2>6. HandStages' /\ Distinct(victims)' /\ \A w \in Workers : Distinct(queues[w])'
    BY <1>1, <1>2, <1>8 DEF queueVars, Single, HandStages, Fresh
  <2>7. \A y \in Threads : Distinct(CallsOf(frames[y]))'
    BY <1>2, <2>3 DEF Single
  <2>8. Gains("stack", x, {t})
    BY <1>1, <1>7, <1>8, <2>3 DEF Gains, InQueue, InHand, InSpace, InVictims, OnStack, queueVars
  <2>9. <<"space", x>> # <<"stack", x>>
    OBVIOUS
  <2>10. \E src \in Places : /\ src # <<"stack", x>> /\ {t} \subseteq Held[src]
                             /\ Held'[src] \cap {t} = {}
    BY <1>7, <1>8, <2>9
  <2> QED
    BY <1>1, <1>8, <2>5, <2>6, <2>7, <2>8, <2>10, PlaceMove DEF Kinds
<1>9. CASE /\ UNCHANGED <<sub, queueVars, wpc, frames>>
           /\ \E p \in {"spaceHeld", "crashed"} : spc' = [spc EXCEPT ![x] = p]
  <2>1. \A y \in Threads : spc'[y] \in ForSpace => spc[y] \in ForSpace
    BY <1>0, <1>1, <1>9 DEF ForSpace
  <2>2. \A y \in Threads : InSpace(y)' \subseteq InSpace(y)
    BY <1>9, <2>1 DEF InSpace
  <2> QED
    BY <1>1, <1>9, <2>2, PlaceIdle DEF queueVars
<1>10. CASE PushTask(x, t) /\ Returned(x) /\ UNCHANGED frames
  <2>1. PICK i \in Workers :
          \A y \in Threads : InQueue(y)' \subseteq IF y = i THEN InQueue(y) \cup {t} ELSE InQueue(y)
    BY <1>0, <1>1, <1>2, <1>6, <1>10, Sizes, PushPlaces DEF Single
  <2>2. \A w \in Workers : Distinct(queues[w])'
    BY <1>0, <1>1, <1>2, <1>6, <1>10, Sizes, PushPlaces DEF Single
  <2>3. HandStages' /\ \A y \in Threads : InHand(y)' = InHand(y)
    BY <1>0, <1>1, <1>2, <1>10, PushHands
  <2>4. Gains("queue", i, {t})
    BY <1>1, <1>7, <1>10, <2>1, <2>3 DEF Gains, InSpace, InVictims, OnStack
  <2>5. FrameStages' /\ Distinct(victims)' /\ \A y \in Threads : Distinct(CallsOf(frames[y]))'
    BY <1>1, <1>2, <1>10 DEF Single, FrameStages, Settles
  <2>6. i \in Threads /\ <<"space", x>> # <<"queue", i>>
    BY Sizes
  <2>7. \E src \in Places : /\ src # <<"queue", i>> /\ {t} \subseteq Held[src]
                            /\ Held'[src] \cap {t} = {}
    BY <1>7, <1>10, <2>6
  <2> QED
    BY <1>1, <1>5, <1>10, <2>2, <2>3, <2>4, <2>5, <2>6, <2>7, PlaceMove DEF Kinds
<1> QED
  BY <1>8, <1>9, <1>10 DEF WakeForSpace

\* A settled task queues or refuses a dependent.
LEMMA PlaceResolve ==
  ASSUME TypedInv, PlaceInv, NEW x \in Threads, ResolveSchedule(x)
  PROVE  PlaceInv'
<1> DEFINE f == Head(frames[x])
           t == Head(f.todo)
           g == [f EXCEPT !.phase = "notify", !.todo = Tail(@)]
<1>0. /\ Typed /\ scheduled \in [Tasks -> BOOLEAN] /\ frames \in [Threads -> Seq(Frame)]
  BY DEF TypedInv, Typed, ThreadTypes, TaskTypes
<1>1. /\ frames[x] # <<>> /\ f.phase = "sched"
      /\ UNCHANGED <<victims, settles, ran, completed, outcome, cur, spc, sub>>
  BY DEF ResolveSchedule, stopVars, ghostVars, submitVars
<1>2. Single /\ HandStages /\ FrameStages
  BY DEF PlaceInv, Stages
<1>3. t \in Tasks /\ f.todo # <<>>
  BY <1>1, NextDependent
<1>4. f \in Frame /\ f = frames[x][1] /\ 1 \in 1..Len(frames[x])
  BY <1>0, <1>1, Innermost
<1>5. /\ g \in Frame /\ g.task = f.task /\ g.phase = "notify"
  <2>1. Tail(f.todo) \in Seq(Tasks)
    BY <1>3, <1>4, FrameFields, Tailed
  <2> QED
    BY <1>4, <2>1 DEF Frame
<1>6. settles[f.task] = 1 /\ Settles(g)
  <2>1. Settles(f)
    BY <1>2, <1>4 DEF FrameStages
  <2>2. settles[f.task] = 1
    BY <1>1, <2>1 DEF Settles
  <2> QED
    BY <1>5, <2>2 DEF Settles
<1>7. ResolveSchedule(x) =>
        \/ Top(x, g) /\ UNCHANGED <<scheduled, queueVars, wpc>>
        \/ /\ ~scheduled[t] /\ scheduled' = [scheduled EXCEPT ![t] = TRUE]
           /\ \/ PushTask(x, t) /\ Top(x, g)
              \/ /\ frames' = [frames EXCEPT ![x] = <<SettleFrame(t, "refused"), g>> \o Tail(@)]
                 /\ UNCHANGED <<queueVars, wpc>>
  BY DEF ResolveSchedule
<1> HIDE DEF f, g, t
<1>8. ASSUME Top(x, g)
      PROVE  /\ \A y \in Threads : CallsOf(frames[y])' = CallsOf(frames[y])
             /\ FrameStages'
  <2>1. FrameStages'
    BY <1>0, <1>1, <1>2, <1>5, <1>6, <1>8, StageTop
  <2>2. \A y \in Threads : CallsOf(frames[y])' = CallsOf(frames[y])
    BY <1>0, <1>1, <1>5, <1>8, CallsTop DEF f
  <2> QED
    BY <2>1, <2>2
<1>9. CASE Top(x, g) /\ UNCHANGED <<scheduled, queueVars, wpc>>
  <2>1. Gains("queue", Stopper, {})
    BY <1>1, <1>8, <1>9 DEF Gains, InQueue, InHand, InSpace, InVictims, OnStack, queueVars
  <2>2. HandStages' /\ Distinct(victims)' /\ \A w \in Workers : Distinct(queues[w])'
    BY <1>1, <1>2, <1>9 DEF queueVars, Single, HandStages, Fresh
  <2>3. \A y \in Threads : Distinct(CallsOf(frames[y]))'
    BY <1>2, <1>8, <1>9 DEF Single
  <2> QED
    BY <1>1, <1>8, <1>9, <2>1, <2>2, <2>3, PlaceKeep
<1>10. ASSUME ~scheduled[t], scheduled' = [scheduled EXCEPT ![t] = TRUE]
       PROVE  /\ \A y \in Threads : t \notin InQueue(y) /\ t \notin OnStack(y)
              /\ Fresh(t) /\ scheduled'[t]
              /\ \A u \in Tasks : scheduled[u] => scheduled'[u]
  BY <1>0, <1>3, <1>10, NotYet
<1>11. CASE /\ ~scheduled[t] /\ scheduled' = [scheduled EXCEPT ![t] = TRUE]
            /\ PushTask(x, t) /\ Top(x, g)
  <2>1. PICK i \in Workers :
          \A y \in Threads : InQueue(y)' \subseteq IF y = i THEN InQueue(y) \cup {t} ELSE InQueue(y)
    BY <1>0, <1>2, <1>3, <1>10, <1>11, Sizes, PushPlaces DEF Single
  <2>2. \A w \in Workers : Distinct(queues[w])'
    BY <1>0, <1>2, <1>3, <1>10, <1>11, Sizes, PushPlaces DEF Single
  <2>3. HandStages' /\ \A y \in Threads : InHand(y)' = InHand(y)
    BY <1>0, <1>1, <1>2, <1>3, <1>11, PushHands
  <2>4. Gains("queue", i, {t})
    BY <1>1, <1>8, <1>11, <2>1, <2>3 DEF Gains, InSpace, InVictims, OnStack
  <2>5. Distinct(victims)' /\ \A y \in Threads : Distinct(CallsOf(frames[y]))'
    BY <1>1, <1>2, <1>8, <1>11 DEF Single
  <2>6. i \in Threads
    BY Sizes
  <2> QED
    BY <1>1, <1>3, <1>8, <1>10, <1>11, <2>2, <2>3, <2>4, <2>5, <2>6, PlaceMove DEF Kinds
<1>12. CASE /\ ~scheduled[t] /\ scheduled' = [scheduled EXCEPT ![t] = TRUE]
            /\ frames' = [frames EXCEPT ![x] = <<SettleFrame(t, "refused"), g>> \o Tail(@)]
            /\ UNCHANGED <<queueVars, wpc>>
  <2> DEFINE h == SettleFrame(t, "refused")
  <2>1. h \in Frame /\ h.task = t /\ h.phase = "complete" /\ h.out = "refused"
    BY <1>3, FreshFrame DEF Outcomes
  <2> HIDE DEF h
  <2>2. frames' = [frames EXCEPT ![x] = <<h, g>> \o Tail(@)]
    BY <1>12 DEF h
  <2>3. /\ OnStack(x)' = OnStack(x) \cup {t}
        /\ \A y \in Threads : y # x => CallsOf(frames[y])' = CallsOf(frames[y])
        /\ Distinct(CallsOf(frames[x]))'
    <3>1. t \notin OnStack(x) /\ Distinct(CallsOf(frames[x]))
      BY <1>2, <1>10, <1>12 DEF Single
    <3>2. g.task = Head(frames[x]).task
      BY <1>5 DEF f
    <3> QED
      BY <1>0, <1>1, <1>5, <2>1, <2>2, <3>1, <3>2, CallsDeeper
  <2>4. Settles(h)
    BY <1>10, <1>12, <2>1 DEF Settles, Executed, Fresh
  <2>5. FrameStages'
    BY <1>0, <1>1, <1>2, <1>5, <1>6, <2>1, <2>2, <2>4, StageDeeper
  <2>6. HandStages' /\ Distinct(victims)' /\ \A w \in Workers : Distinct(queues[w])'
    BY <1>1, <1>2, <1>12 DEF queueVars, Single, HandStages, Fresh
  <2>7. \A y \in Threads : Distinct(CallsOf(frames[y]))'
    BY <1>2, <2>3 DEF Single
  <2>8. Gains("stack", x, {t})
    BY <1>1, <1>12, <2>3 DEF Gains, InQueue, InHand, InSpace, InVictims, OnStack, queueVars
  <2> QED
    BY <1>1, <1>3, <1>10, <1>12, <2>5, <2>6, <2>7, <2>8, PlaceMove DEF Kinds
<1> QED
  BY <1>7, <1>9, <1>11, <1>12

\* The tasks on a stack, one by one.
LEMMA StackTask ==
  ASSUME Typed, NEW x \in Threads, NEW i \in 1..Len(frames[x])
  PROVE  /\ frames[x][i].task \in Tasks /\ frames[x][i].task \in OnStack(x)
         /\ \A j \in 1..Len(frames[x]) :
              Distinct(CallsOf(frames[x])) /\ frames[x][i].task = frames[x][j].task => i = j
<1>1. frames[x] \in Seq(Frame)
  BY DEF Typed, ThreadTypes
<1>2. /\ CallsOf(frames[x]) \in Seq(Tasks) /\ Len(CallsOf(frames[x])) = Len(frames[x])
      /\ \A j \in 1..Len(frames[x]) : CallsOf(frames[x])[j] = frames[x][j].task
  BY <1>1, Calls
<1>3. frames[x][i].task \in Tasks
  BY <1>1, FrameFields
<1> QED
  BY <1>2, <1>3 DEF OnStack, Elements, Distinct

\* SettleTask sets the promise: the task is at no other place.
LEMMA PlaceComplete ==
  ASSUME TypedInv, PlaceInv, NEW x \in Threads, SettleComplete(x)
  PROVE  PlaceInv'
<1> DEFINE f == Head(frames[x])
           t == f.task
           g == [f EXCEPT !.phase = "swap"]
<1>0. /\ Typed /\ settles \in [Tasks -> Nat] /\ ran \in [Tasks -> Nat]
      /\ completed \in [Tasks -> BOOLEAN] /\ outcome \in [Tasks -> Outcomes]
      /\ frames \in [Threads -> Seq(Frame)]
  BY DEF TypedInv, Typed, ThreadTypes, TaskTypes
<1>1. /\ frames[x] # <<>> /\ f.phase = "complete" /\ Top(x, g)
      /\ outcome' = [outcome EXCEPT ![t] = f.out]
      /\ settles' = [settles EXCEPT ![t] = @ + 1]
      /\ completed' = [completed EXCEPT ![t] = TRUE]
      /\ UNCHANGED <<queues, victims, wpc, cur, spc, sub, scheduled, ran>>
  BY DEF SettleComplete, stopVars, submitVars, workerVars, queueVars
<1>2. Single /\ HandStages /\ FrameStages /\ SettledOnce
  BY DEF PlaceInv, Stages
<1>3. f \in Frame /\ f = frames[x][1] /\ 1 \in 1..Len(frames[x])
  BY <1>0, <1>1, Innermost
<1>4. g \in Frame /\ g.task = t /\ g.phase = "swap" /\ t \in Tasks /\ f.out \in Outcomes
  BY <1>3 DEF Frame
<1>5. settles[t] = 0 /\ ran[t] = (IF Executed(f.out) THEN 1 ELSE 0)
  BY <1>1, <1>2, <1>3 DEF FrameStages, Settles
<1>6. t \in OnStack(x) /\ t \in Held[<<"stack", x>>] /\ "stack" \in Kinds
  BY <1>0, <1>3, StackTask, HeldAt DEF Kinds
<1>7. \A y \in Threads : /\ t \notin InQueue(y) /\ t \notin InHand(y) /\ t \notin InSpace(y)
                         /\ t \notin InVictims(y) /\ (y # x => t \notin OnStack(y))
  BY <1>6, Elsewhere
<1> HIDE DEF f, g, t
<1>8. \A y \in Threads : CallsOf(frames[y])' = CallsOf(frames[y])
  BY <1>0, <1>1, <1>4, CallsTop DEF t, f
<1>9. Gains("queue", Stopper, {})
  BY <1>1, <1>8 DEF Gains, InQueue, InHand, InSpace, InVictims, OnStack
<1>10. Apart(Held') /\ \A p \in Places : Held'[p] \subseteq Held[p]
  BY <1>2, <1>9, ShrinkApart DEF Single
<1>11. Single'
  <2>1. \A w \in Workers : Distinct(queues[w])'
    BY <1>1, <1>2 DEF Single
  <2>2. Distinct(victims)' /\ \A y \in Threads : Distinct(CallsOf(frames[y]))'
    BY <1>1, <1>2, <1>8 DEF Single
  <2> QED
    BY <1>10, <2>1, <2>2 DEF Single
<1>12. /\ settles'[t] = 1 /\ completed'[t] /\ outcome'[t] = f.out
       /\ \A u \in Tasks : u # t => /\ settles'[u] = settles[u] /\ completed'[u] = completed[u]
                                    /\ outcome'[u] = outcome[u]
  BY <1>0, <1>1, <1>4, <1>5
<1>13. /\ \A p \in Places : \A u \in Held'[p] : u \in Tasks /\ scheduled'[u]
       /\ scheduled[t]
  BY <1>1, <1>6, <1>10 DEF PlaceInv, Stages, Places
<1>14. \A u \in Tasks : scheduled'[u] \/ Fresh(u)'
  BY <1>1, <1>12, <1>13 DEF PlaceInv, Stages, Fresh
<1>15. \A u \in Tasks : completed'[u] <=> settles'[u] = 1
  BY <1>12 DEF PlaceInv, Stages
<1>16. \A y \in Threads : \A u \in InQueue(y)' \cup InSpace(y)' \cup InVictims(y)' : Fresh(u)'
  <2> SUFFICES ASSUME NEW y \in Threads, NEW u \in InQueue(y)' \cup InSpace(y)' \cup InVictims(y)'
               PROVE  Fresh(u)'
    OBVIOUS
  <2>1. u \in InQueue(y) \cup InSpace(y) \cup InVictims(y)
    BY <1>9 DEF Gains
  <2>2. u # t /\ Fresh(u)
    BY <1>7, <2>1 DEF PlaceInv, Stages
  <2>3. u \in Tasks
    <3>1. /\ <<"queue", y>> \in Places /\ <<"space", y>> \in Places /\ <<"victims", y>> \in Places
      BY DEF Places, Kinds
    <3> QED
      BY <2>1, <3>1, HeldAt DEF PlaceInv, Stages
  <2> QED
    BY <1>1, <1>12, <2>2, <2>3 DEF Fresh
<1>17. HandStages'
  <2> SUFFICES ASSUME NEW w \in Workers, wpc[w] \in {"popped", "run"}
               PROVE  cur[w] \in Tasks /\ cur[w] # t
    BY <1>1, <1>2, <1>12 DEF HandStages, Fresh
  <2>1. w \in Threads /\ cur[w] \in InHand(w)
    BY Sizes DEF InHand
  <2> QED
    BY <1>7, <2>1 DEF TypedInv, Standing
<1>18. FrameStages'
  <2>1. \A y \in Threads : y # x => frames'[y] = frames[y]
    BY <1>0, <1>1, <1>4, TopFrame
  <2>2. /\ Len(frames'[x]) = Len(frames[x]) /\ frames'[x][1] = g
        /\ \A i \in 2..Len(frames[x]) : frames'[x][i] = frames[x][i]
    BY <1>0, <1>1, <1>4, TopFrame
  <2>4. ASSUME NEW y \in Threads, y # x, NEW i \in 1..Len(frames'[y]) PROVE Settles(frames[y][i])'
    <3>1. frames'[y] = frames[y] /\ i \in 1..Len(frames[y])
      BY <2>1, <2>4
    <3>2. frames[y][i].task # t /\ frames[y][i] \in Frame
      <4>1. frames[y][i].task \in OnStack(y)
        BY <1>0, <3>1, StackTask
      <4>2. frames[y][i] \in Frame
        BY <1>0, <3>1
      <4> QED
        BY <1>7, <2>4, <4>1, <4>2
    <3>3. Settles(frames[y][i])
      BY <1>2, <3>1 DEF FrameStages
    <3> DEFINE h == frames[y][i]
    <3>4. h \in Frame /\ Settles(h) /\ h.task # t
      BY <3>2, <3>3
    <3>5. frames'[y][i] = h
      BY <3>1
    <3> HIDE DEF h
    <3>6. settles'[h.task] = settles[h.task] /\ ran'[h.task] = ran[h.task]
      BY <1>1, <1>12, <3>4, FrameFields
    <3> QED
      BY <3>4, <3>5, <3>6 DEF Settles
  <2>5. ASSUME NEW i \in 1..Len(frames'[x]) PROVE Settles(frames[x][i])'
    <3>1. Len(frames[x]) \in Nat /\ i \in 1..Len(frames[x])
      BY <1>0, <1>1, <2>2, Innermost
    <3>2. CASE i = 1
      <4>1. frames'[x][i] = g
        BY <2>2, <3>2
      <4> QED
        BY <1>4, <1>12, <4>1 DEF Settles
    <3>3. CASE i \in 2..Len(frames[x])
      <4> DEFINE h == frames[x][i]
      <4>1. h \in Frame
        BY <1>0, <3>1
      <4>2. h.task # t
        <5>1. i # 1
          BY <3>3
        <5> QED
          BY <1>0, <1>2, <1>3, <3>1, <5>1, StackTask DEF Single, t
      <4>3. Settles(h) /\ frames'[x][i] = h
        BY <1>2, <2>2, <3>1, <3>3 DEF FrameStages
      <4> HIDE DEF h
      <4>4. settles'[h.task] = settles[h.task] /\ ran'[h.task] = ran[h.task]
        BY <1>1, <1>12, <4>1, <4>2, FrameFields
      <4> QED
        BY <4>3, <4>4 DEF Settles
    <3> QED
      BY <3>1, <3>2, <3>3
  <2> QED
    BY <2>4, <2>5 DEF FrameStages
<1>19. SettledOnce'
  <2> SUFFICES ASSUME NEW u \in Tasks
               PROVE  /\ ran'[u] <= 1 /\ settles'[u] <= 1
                      /\ settles'[u] = 1 => (Executed(outcome'[u]) <=> ran'[u] = 1)
    BY DEF SettledOnce, Executed
  <2>1. CASE u = t
    BY <1>1, <1>5, <1>12, <2>1 DEF Executed
  <2>2. CASE u # t
    BY <1>1, <1>2, <1>12, <2>2 DEF SettledOnce, Executed
  <2> QED
    BY <2>1, <2>2
<1> QED
  BY <1>11, <1>13, <1>14, <1>15, <1>16, <1>17, <1>18, <1>19 DEF PlaceInv, Stages

\* SettleTask goes on, or returns.
LEMMA PlaceSettle ==
  ASSUME TypedInv, PlaceInv, NEW x \in Threads, SettleStep(x)
  PROVE  PlaceInv'
<1> DEFINE f == Head(frames[x])
<1>0. Typed /\ frames \in [Threads -> Seq(Frame)]
  BY DEF TypedInv, Typed, ThreadTypes
<1>1. Single /\ HandStages /\ FrameStages
  BY DEF PlaceInv, Stages
<1>2. CASE SettleSwap(x) \/ Resolve(x)
  <2>1. /\ frames[x] # <<>> /\ f.phase \in {"swap", "notify"}
        /\ UNCHANGED <<queues, victims, settles, ran, completed, outcome, scheduled,
                       wpc, cur, spc, sub>>
    BY <1>2 DEF SettleSwap, Resolve, stopVars, ghostVars, submitVars, workerVars, queueVars
  <2>2. f \in Frame /\ f = frames[x][1] /\ 1 \in 1..Len(frames[x])
    BY <1>0, <2>1, Innermost
  <2>3. settles[f.task] = 1
    BY <1>1, <2>1, <2>2 DEF FrameStages, Settles
  <2>4. PICK g \in Frame : Top(x, g) /\ g.task = f.task /\ g.phase # "complete"
    <3>1. CASE SettleSwap(x)
      <4>1. dependents[f.task] \in Seq(Tasks)
        BY <2>2, FrameFields DEF TypedInv, Typed, TaskTypes
      <4> DEFINE g == [f EXCEPT !.phase = "notify", !.todo = dependents[f.task]]
      <4>2. g \in Frame /\ g.task = f.task /\ g.phase = "notify"
        BY <2>2, <4>1 DEF Frame
      <4>3. Top(x, g)
        BY <3>1 DEF SettleSwap
      <4> QED
        BY <4>2, <4>3
    <3>2. CASE Resolve(x)
      <4>1. f.todo # <<>>
        BY <3>2 DEF Resolve
      <4>2. Tail(f.todo) \in Seq(Tasks)
        BY <2>2, <4>1, FrameFields, Tailed
      <4> DEFINE g == [f EXCEPT !.todo = Tail(@)]
                 h == [f EXCEPT !.phase = "sched"]
      <4>3. g \in Frame /\ g.task = f.task /\ g.phase = f.phase
        BY <2>2, <4>2 DEF Frame
      <4>4. h \in Frame /\ h.task = f.task /\ h.phase = "sched"
        BY <2>2 DEF Frame
      <4>5. Top(x, g) \/ Top(x, h)
        BY <3>2 DEF Resolve
      <4> HIDE DEF g, h
      <4> QED
        BY <2>1, <4>3, <4>4, <4>5
    <3> QED
      BY <1>2, <3>1, <3>2
  <2> HIDE DEF f
  <2>5. FrameStages'
    <3>1. Settles(g)
      BY <2>3, <2>4 DEF Settles
    <3> QED
      BY <1>0, <1>1, <2>1, <2>4, <3>1, StageTop
  <2>6. \A y \in Threads : CallsOf(frames[y])' = CallsOf(frames[y])
    BY <1>0, <2>1, <2>4, CallsTop DEF f
  <2>7. Gains("queue", Stopper, {})
    BY <2>1, <2>6 DEF Gains, InQueue, InHand, InSpace, InVictims, OnStack
  <2>8. HandStages' /\ Distinct(victims)' /\ \A w \in Workers : Distinct(queues[w])'
    BY <1>1, <2>1 DEF Single, HandStages, Fresh
  <2>9. \A y \in Threads : Distinct(CallsOf(frames[y]))'
    BY <1>1, <2>6 DEF Single
  <2> QED
    BY <2>1, <2>5, <2>7, <2>8, <2>9, PlaceKeep
<1>3. CASE SettleDone(x)
  <2>1. /\ frames[x] # <<>> /\ frames' = [frames EXCEPT ![x] = Tail(@)]
        /\ UNCHANGED <<queues, victims, settles, ran, completed, outcome, scheduled,
                       wpc, cur, spc, sub>>
    BY <1>3 DEF SettleDone, stopVars, ghostVars, submitVars, workerVars, queueVars, taskVars
  <2>2. FrameStages'
    BY <1>0, <1>1, <2>1, StageGone
  <2>3. /\ OnStack(x)' = OnStack(x) \ {f.task}
        /\ \A y \in Threads : y # x => CallsOf(frames[y])' = CallsOf(frames[y])
        /\ Distinct(CallsOf(frames[x]))'
    BY <1>0, <1>1, <2>1, CallsGone DEF Single
  <2>4. Gains("queue", Stopper, {})
    BY <2>1, <2>3 DEF Gains, InQueue, InHand, InSpace, InVictims, OnStack
  <2>5. HandStages' /\ Distinct(victims)' /\ \A w \in Workers : Distinct(queues[w])'
    BY <1>1, <2>1 DEF Single, HandStages, Fresh
  <2>6. \A y \in Threads : Distinct(CallsOf(frames[y]))'
    BY <1>1, <2>3 DEF Single
  <2> QED
    BY <2>1, <2>2, <2>4, <2>5, <2>6, PlaceKeep
<1> QED
  BY <1>2, <1>3, PlaceComplete, PlaceResolve DEF SettleStep

\* A call comes on an empty stack.
LEMMA FirstFrame ==
  ASSUME Typed, NEW x \in Threads, NEW f \in Frame, frames[x] = <<>>,
         frames' = [frames EXCEPT ![x] = <<f>>]
  PROVE  frames' = [frames EXCEPT ![x] = <<f>> \o @]
<1>1. <<f>> \o frames[x] = <<f>>
  OBVIOUS
<1> QED
  BY <1>1

\* A worker takes a task from a queue.
LEMMA PlacePop ==
  ASSUME TypedInv, PlaceInv, NEW w \in Workers, TryPop(w)
  PROVE  PlaceInv'
<1>a. PICK v \in Workers : v = Victim(w)
  BY Sizes DEF TypedInv, Typed, WorkerTypes, Victim, Workers
<1> DEFINE q == queues[v]
           t == IF scan[w] = 0 THEN Head(q) ELSE q[Len(q)]
           r == IF scan[w] = 0 THEN Tail(q) ELSE SubSeq(q, 1, Len(q) - 1)
<1>0. /\ Typed /\ wpc \in [Workers -> WPCs] /\ cur \in [Workers -> Tasks \cup {NoTask}]
      /\ queues \in [Workers -> Seq(Tasks)]
  BY DEF TypedInv, Typed, WorkerTypes, QueueTypes
<1>1. /\ wpc[w] = "scan" /\ w \in Threads
      /\ UNCHANGED <<victims, settles, ran, completed, outcome, scheduled, spc, sub, frames>>
  BY Sizes DEF TryPop, stopVars, ghostVars, submitVars, taskVars
<1>2. Single /\ HandStages /\ FrameStages
  BY DEF PlaceInv, Stages
<1>3. CASE UNCHANGED <<cur, queues>> /\ (UNCHANGED wpc \/ wpc' = [wpc EXCEPT ![w] = "wait"])
  <2>1. \A y \in Workers : wpc'[y] \in {"popped", "run"} => wpc'[y] = wpc[y]
    BY <1>0, <1>3
  <2>2. \A y \in Threads : InHand(y)' \subseteq InHand(y)
    BY <1>3, <2>1 DEF InHand
  <2>3. HandStages'
    BY <1>1, <1>2, <1>3, <2>1 DEF HandStages, Fresh
  <2>4. \A y \in Threads : InSpace(y)' \subseteq InSpace(y)
    BY <1>1 DEF InSpace
  <2> QED
    BY <1>1, <1>3, <2>2, <2>3, <2>4, PlaceSame
<1>4. CASE /\ q # <<>> /\ cur' = [cur EXCEPT ![w] = t] /\ queues' = [queues EXCEPT ![v] = r]
           /\ wpc' = [wpc EXCEPT ![w] = "popped"]
  <2>1. v \in Workers /\ v \in Threads
    BY Sizes
  <2>2. q \in Seq(Tasks) /\ q # <<>> /\ Distinct(q)
    BY <1>0, <1>2, <1>4, <2>1 DEF Single
  <2>3. Elements(r) = Elements(q) \ {t} /\ Distinct(r) /\ t \in Elements(q)
    <3> HIDE DEF q
    <3>1. CASE scan[w] = 0
      BY <2>2, <3>1, TailElements
    <3>2. CASE scan[w] # 0
      BY <2>2, <3>2, FrontElements
    <3> QED
      BY <3>1, <3>2
  <2>4. t \in InQueue(v) /\ InQueue(v)' = InQueue(v) \ {t}
    <3>1. InQueue(v) = Elements(q) /\ InQueue(v)' = Elements(queues'[v])
      BY <2>1 DEF InQueue, Elements
    <3>2. queues'[v] = r
      BY <1>0, <1>4, <2>1
    <3> QED
      BY <2>3, <3>1, <3>2
  <2>5. \A y \in Workers : y # v => queues'[y] = queues[y]
    BY <1>0, <1>4, <2>1
  <2>6. queues'[v] = r
    BY <1>0, <1>4, <2>1
  <2> HIDE DEF t, r, q
  <2>7. Fresh(t)
    BY <2>1, <2>4 DEF PlaceInv, Stages
  <2>8. \A y \in Workers : y # w => wpc'[y] = wpc[y] /\ cur'[y] = cur[y]
    BY <1>0, <1>4
  <2>9. wpc'[w] = "popped" /\ cur'[w] = t
    BY <1>0, <1>4
  <2>10. HandStages'
    BY <1>1, <1>2, <2>7, <2>8, <2>9 DEF HandStages, Fresh
  <2>11. FrameStages' /\ Distinct(victims)' /\ \A y \in Threads : Distinct(CallsOf(frames[y]))'
    BY <1>1, <1>2 DEF Single, FrameStages, Settles
  <2>12. \A y \in Workers : Distinct(queues[y])'
    <3>1. \A y \in Workers : Distinct(queues'[y])
      BY <1>2, <2>3, <2>5, <2>6 DEF Single
    <3> QED
      BY <3>1 DEF Distinct
  <2>13. Gains("hand", w, {t})
    <3>1. \A y \in Threads : InQueue(y)' \subseteq InQueue(y)
      BY <2>4, <2>5 DEF InQueue
    <3>2. \A y \in Threads : InHand(y)' \subseteq IF y = w THEN InHand(y) \cup {t} ELSE InHand(y)
      BY <2>8, <2>9 DEF InHand
    <3> QED
      BY <1>1, <3>1, <3>2 DEF Gains, InSpace, InVictims, OnStack
  <2>14. \E src \in Places : /\ src # <<"hand", w>> /\ {t} \subseteq Held[src]
                             /\ Held'[src] \cap {t} = {}
    <3>1. <<"queue", v>> \in Places /\ <<"queue", v>> # <<"hand", w>>
      BY <2>1 DEF Places, Kinds
    <3>2. {t} \subseteq Held[<<"queue", v>>] /\ Held'[<<"queue", v>>] \cap {t} = {}
      BY <2>1, <2>4, HeldAt
    <3> QED
      BY <3>1, <3>2
  <2> QED
    BY <1>1, <2>10, <2>11, <2>12, <2>13, <2>14, PlaceMove DEF Kinds
<1> QED
  BY <1>a, <1>3, <1>4 DEF TryPop

\* A worker starts the job of the task in its hands.
LEMMA PlaceStart ==
  ASSUME TypedInv, PlaceInv, NEW w \in Workers, StartJob(w)
  PROVE  PlaceInv'
<1> DEFINE t == cur[w]
<1>0. /\ Typed /\ wpc \in [Workers -> WPCs] /\ ran \in [Tasks -> Nat]
      /\ settles \in [Tasks -> Nat] /\ spc \in [Threads -> SPCs]
      /\ frames \in [Threads -> Seq(Frame)]
  BY DEF TypedInv, Typed, WorkerTypes, TaskTypes, ThreadTypes
<1>1. /\ wpc[w] = "popped" /\ wpc' = [wpc EXCEPT ![w] = "run"]
      /\ ran' = [ran EXCEPT ![t] = @ + 1]
      /\ UNCHANGED <<queues, victims, settles, completed, outcome, scheduled, cur, sub, frames>>
  BY DEF StartJob, stopVars, taskVars
<1>2. Single /\ HandStages /\ FrameStages /\ SettledOnce
  BY DEF PlaceInv, Stages
<1>3. w \in Threads /\ t \in Tasks /\ Fresh(t)
  BY <1>1, <1>2, Sizes DEF TypedInv, Standing, HandStages
<1>4. t \in InHand(w) /\ t \in Held[<<"hand", w>>] /\ "hand" \in Kinds
  BY <1>1, <1>3, HeldAt DEF InHand, Kinds
<1>5. \A y \in Threads : /\ t \notin InQueue(y) /\ t \notin InSpace(y) /\ t \notin InVictims(y)
                         /\ t \notin OnStack(y) /\ (y # w => t \notin InHand(y))
  BY <1>3, <1>4, Elsewhere
<1>6. ran'[t] = 1 /\ \A u \in Tasks : u # t => ran'[u] = ran[u]
  BY <1>0, <1>1, <1>3 DEF Fresh
<1> HIDE DEF t
<1>7. \A y \in Threads : spc'[y] \in ForSpace => spc[y] \in ForSpace
  <2>1. UNCHANGED spc \/ \E y \in Threads : spc[y] = "spaceBlocked"
                                            /\ spc' = [spc EXCEPT ![y] = "space"]
    BY DEF StartJob
  <2> QED
    BY <1>0, <2>1 DEF ForSpace
<1>8. Gains("queue", Stopper, {})
  <2>1. \A y \in Threads : InHand(y)' \subseteq InHand(y)
    BY <1>0, <1>1 DEF InHand
  <2>2. \A y \in Threads : InSpace(y)' \subseteq InSpace(y)
    BY <1>1, <1>7 DEF InSpace
  <2> QED
    BY <1>1, <2>1, <2>2 DEF Gains, InQueue, InVictims, OnStack
<1>9. Apart(Held') /\ \A p \in Places : Held'[p] \subseteq Held[p]
  BY <1>2, <1>8, ShrinkApart DEF Single
<1>10. Single'
  BY <1>1, <1>2, <1>9 DEF Single
<1>11. \A p \in Places : \A u \in Held'[p] : u \in Tasks /\ scheduled'[u]
  BY <1>1, <1>9 DEF PlaceInv, Stages
<1>12. scheduled[t]
  <2>1. <<"hand", w>> \in Places
    BY <1>3 DEF Places, Kinds
  <2> QED
    BY <1>4, <2>1 DEF PlaceInv, Stages
<1>13. \A u \in Tasks : scheduled'[u] \/ Fresh(u)'
  BY <1>1, <1>6, <1>12 DEF PlaceInv, Stages, Fresh
<1>14. \A u \in Tasks : completed'[u] <=> settles'[u] = 1
  BY <1>1 DEF PlaceInv, Stages
<1>15. \A y \in Threads : \A u \in InQueue(y)' \cup InSpace(y)' \cup InVictims(y)' : Fresh(u)'
  <2> SUFFICES ASSUME NEW y \in Threads, NEW u \in InQueue(y)' \cup InSpace(y)' \cup InVictims(y)'
               PROVE  Fresh(u)'
    OBVIOUS
  <2>1. u \in InQueue(y) \cup InSpace(y) \cup InVictims(y)
    BY <1>8 DEF Gains
  <2>2. u # t /\ Fresh(u)
    BY <1>5, <2>1 DEF PlaceInv, Stages
  <2>3. u \in Tasks
    <3>1. /\ <<"queue", y>> \in Places /\ <<"space", y>> \in Places /\ <<"victims", y>> \in Places
      BY DEF Places, Kinds
    <3> QED
      BY <2>1, <3>1, HeldAt DEF PlaceInv, Stages
  <2> QED
    BY <1>1, <1>6, <2>2, <2>3 DEF Fresh
<1>16. HandStages'
  <2> SUFFICES ASSUME NEW y \in Workers
               PROVE  /\ wpc'[y] = "popped" => Fresh(cur[y])'
                      /\ wpc'[y] = "run" => settles'[cur'[y]] = 0 /\ ran'[cur'[y]] = 1
    BY DEF HandStages, Fresh
  <2>1. CASE y = w
    BY <1>0, <1>1, <1>3, <1>6, <2>1 DEF t, Fresh
  <2>2. CASE y # w
    <3>1. wpc'[y] = wpc[y] /\ cur'[y] = cur[y]
      BY <1>0, <1>1, <2>2
    <3>2. CASE wpc[y] \in {"popped", "run"}
      <4>1. cur[y] \in Tasks /\ cur[y] # t
        <5>1. y \in Threads /\ cur[y] \in InHand(y)
          BY <3>2, Sizes DEF InHand
        <5> QED
          BY <1>5, <2>2, <3>2, <5>1 DEF TypedInv, Standing
      <4> QED
        BY <1>1, <1>2, <1>6, <3>1, <4>1 DEF HandStages, Fresh
    <3> QED
      BY <3>1, <3>2
  <2> QED
    BY <2>1, <2>2
<1>17. FrameStages'
  <2> SUFFICES ASSUME NEW y \in Threads, NEW i \in 1..Len(frames[y])
               PROVE  Settles(frames[y][i])'
    BY <1>1 DEF FrameStages
  <2>1. frames[y][i].task \in Tasks /\ frames[y][i].task # t
    BY <1>0, <1>5, StackTask
  <2>2. Settles(frames[y][i])
    BY <1>2 DEF FrameStages
  <2> QED
    BY <1>1, <1>6, <2>1, <2>2 DEF Settles
<1>18. SettledOnce'
  <2> SUFFICES ASSUME NEW u \in Tasks
               PROVE  /\ ran'[u] <= 1 /\ settles'[u] <= 1
                      /\ settles'[u] = 1 => (Executed(outcome'[u]) <=> ran'[u] = 1)
    BY DEF SettledOnce, Executed
  <2>1. CASE u = t
    BY <1>1, <1>3, <1>6, <2>1 DEF Fresh
  <2>2. CASE u # t
    BY <1>1, <1>2, <1>6, <2>2 DEF SettledOnce, Executed
  <2> QED
    BY <2>1, <2>2
<1> QED
  BY <1>10, <1>11, <1>13, <1>14, <1>15, <1>16, <1>17, <1>18 DEF PlaceInv, Stages

\* A worker moves on.
LEMMA PlaceWorker ==
  ASSUME TypedInv, PlaceInv, NEW w \in Workers, WorkerStep(w)
  PROVE  PlaceInv'
<1>0. /\ Typed /\ wpc \in [Workers -> WPCs] /\ cur \in [Workers -> Tasks \cup {NoTask}]
      /\ frames \in [Threads -> Seq(Frame)] /\ w \in Threads
  BY Sizes DEF TypedInv, Typed, WorkerTypes, ThreadTypes
<1>1. Single /\ HandStages /\ FrameStages
  BY DEF PlaceInv, Stages
<1>2. CASE BeginClaim(w) \/ NextRound(w) \/ WaitForWork(w)
  <2>1. UNCHANGED <<queues, victims, frames, settles, ran, completed, outcome, scheduled, spc, sub>>
    BY <1>2 DEF BeginClaim, NextRound, WaitForWork, queueVars, stopVars, ghostVars, taskVars,
         submitVars
  <2>2. \A y \in Workers : wpc'[y] \in {"popped", "run"} => wpc'[y] = wpc[y] /\ cur'[y] = cur[y]
    <3>1. \A y \in Workers : y # w => wpc'[y] = wpc[y] /\ cur'[y] = cur[y]
      BY <1>0, <1>2 DEF BeginClaim, NextRound, WaitForWork
    <3>2. wpc'[w] \notin {"popped", "run"}
      BY <1>0, <1>2 DEF BeginClaim, NextRound, WaitForWork
    <3> QED
      BY <3>1, <3>2
  <2>3. \A y \in Threads : InHand(y)' \subseteq InHand(y) /\ InSpace(y)' \subseteq InSpace(y)
    BY <2>1, <2>2 DEF InHand, InSpace
  <2>4. HandStages'
    BY <1>1, <2>1, <2>2 DEF HandStages, Fresh
  <2> QED
    BY <2>1, <2>3, <2>4, PlaceSame
<1>3. CASE FinishJob(w)
  <2>1. /\ wpc[w] = "run" /\ frames[w] = <<>> /\ wpc' = [wpc EXCEPT ![w] = "settling"]
        /\ UNCHANGED <<queues, victims, settles, ran, completed, outcome, scheduled, cur, spc, sub>>
    BY <1>3 DEF FinishJob, queueVars, stopVars, ghostVars, taskVars, submitVars
  <2>2. PICK out \in {"ok", "failed"} :
          frames' = [frames EXCEPT ![w] = <<SettleFrame(cur[w], out)>>]
    BY <1>3 DEF FinishJob
  <2>3. PICK t \in Tasks : t = cur[w]
    BY <2>1 DEF TypedInv, Standing
  <2>4. t \in InHand(w) /\ t \in Held[<<"hand", w>>] /\ <<"hand", w>> \in Places
    BY <1>0, <2>1, <2>3, HeldAt DEF InHand, Places, Kinds
  <2>5. Held'[<<"hand", w>>] = {}
    <3>1. InHand(w)' = {}
      BY <1>0, <2>1 DEF InHand
    <3> QED
      BY <1>0, <3>1, HeldAt
  <2>6. t \notin OnStack(w)
    <3>1. "hand" \in Kinds
      BY DEF Kinds
    <3> QED
      BY <1>0, <2>4, <3>1, Elsewhere
  <2> DEFINE f == SettleFrame(t, out)
  <2>7. f \in Frame /\ f.task = t /\ f.phase = "complete" /\ f.out = out
    BY FreshFrame DEF Outcomes
  <2>8. Settles(f)
    BY <1>1, <2>1, <2>3, <2>7 DEF HandStages, Settles, Executed
  <2>9. frames' = [frames EXCEPT ![w] = <<f>>]
    BY <2>2, <2>3
  <2> HIDE DEF f
  <2>10. frames' = [frames EXCEPT ![w] = <<f>> \o @]
    BY <1>0, <2>1, <2>7, <2>9, FirstFrame
  <2>11. /\ OnStack(w)' = OnStack(w) \cup {t}
         /\ \A y \in Threads : y # w => CallsOf(frames[y])' = CallsOf(frames[y])
         /\ Distinct(CallsOf(frames[w]))'
    BY <1>0, <1>1, <2>6, <2>7, <2>10, CallsNew DEF Single
  <2>12. FrameStages'
    BY <1>0, <1>1, <2>1, <2>7, <2>8, <2>10, StageNew
  <2>13. \A y \in Workers : wpc'[y] \in {"popped", "run"} => wpc'[y] = wpc[y]
    BY <1>0, <2>1
  <2>14. HandStages' /\ Distinct(victims)' /\ \A y \in Workers : Distinct(queues[y])'
    BY <1>1, <2>1, <2>13 DEF HandStages, Fresh, Single
  <2>15. \A y \in Threads : Distinct(CallsOf(frames[y]))'
    BY <1>1, <2>11 DEF Single
  <2>16. Gains("stack", w, {t})
    BY <2>1, <2>11, <2>13 DEF Gains, InQueue, InHand, InSpace, InVictims, OnStack
  <2>17. \E src \in Places : /\ src # <<"stack", w>> /\ {t} \subseteq Held[src]
                             /\ Held'[src] \cap {t} = {}
    <3>1. <<"hand", w>> # <<"stack", w>>
      OBVIOUS
    <3> QED
      BY <2>4, <2>5, <3>1
  <2> QED
    BY <1>0, <2>1, <2>12, <2>14, <2>15, <2>16, <2>17, PlaceMove DEF Kinds
<1> QED
  BY <1>2, <1>3, PlacePop, PlaceStart DEF WorkerStep

\* Stop takes the tasks of a queue, ...
LEMMA PlaceDrain ==
  ASSUME TypedInv, PlaceInv, DrainQueue
  PROVE  PlaceInv'
<1>1. PICK w \in Workers : w = drained + 1
  BY Sizes DEF DrainQueue, TypedInv, Typed, StopTypes, Workers
<1>2. /\ victims' = victims \o queues[w] /\ queues' = [queues EXCEPT ![w] = <<>>]
      /\ UNCHANGED <<settles, ran, completed, outcome, scheduled, wpc, cur, spc, sub, frames>>
  BY <1>1 DEF DrainQueue, ghostVars, taskVars, submitVars, workerVars
<1>3. Single /\ HandStages /\ FrameStages
  BY DEF PlaceInv, Stages
<1>4. /\ queues \in [Workers -> Seq(Tasks)] /\ victims \in Seq(Tasks) /\ w \in Threads
      /\ Stopper \in Threads /\ Stopper \notin Workers
  BY Sizes DEF TypedInv, Typed, QueueTypes, StopTypes
<1>5. PICK q \in Seq(Tasks) : q = queues[w]
  BY <1>4
<1>6. PICK M : M = Elements(q)
  OBVIOUS
<1>7. /\ InQueue(w) = M /\ InVictims(Stopper) = Elements(victims)
      /\ Held[<<"queue", w>>] = M /\ Held[<<"victims", Stopper>>] = Elements(victims)
  BY <1>4, <1>5, <1>6, HeldAt DEF InQueue, InVictims
<1>8. <<"queue", w>> \in Places /\ <<"victims", Stopper>> \in Places
  BY <1>4 DEF Places, Kinds
<1>9. M \cap Elements(victims) = {}
  BY <1>3, <1>7, <1>8 DEF Single, Apart
<1>10. queues'[w] = <<>> /\ \A y \in Workers : y # w => queues'[y] = queues[y]
  BY <1>2, <1>4
<1>11. Elements(<<>>) = {} /\ Distinct(<<>>)
  BY DEF Elements, Distinct
<1>12. InQueue(w)' = {} /\ Held'[<<"queue", w>>] = {}
  <2>1. InQueue(w)' = Elements(queues'[w])
    BY DEF InQueue, Elements
  <2> QED
    BY <1>4, <1>10, <1>11, <2>1, HeldAt
<1>13. /\ Elements(victims') = Elements(victims) \cup M
       /\ Distinct(victims')
  <2>1. Distinct(victims) /\ Distinct(q)
    BY <1>3, <1>5 DEF Single
  <2> QED
    BY <1>2, <1>4, <1>5, <1>6, <1>9, <2>1, JoinedElements
<1>14. \A y \in Workers : Distinct(queues[y])'
  <2>1. \A y \in Workers : Distinct(queues'[y])
    BY <1>3, <1>10, <1>11 DEF Single
  <2> QED
    BY <2>1 DEF Distinct
<1>15. HandStages' /\ FrameStages' /\ \A y \in Threads : Distinct(CallsOf(frames[y]))'
  BY <1>2, <1>3 DEF HandStages, Fresh, FrameStages, Settles, Single
<1>16. Distinct(victims)'
  BY <1>13 DEF Distinct
<1>17. Gains("victims", Stopper, M)
  <2>1. \A y \in Threads : InQueue(y)' \subseteq InQueue(y)
    BY <1>10, <1>12 DEF InQueue
  <2>2. InVictims(Stopper)' = InVictims(Stopper) \cup M
    BY <1>7, <1>13 DEF InVictims, Elements
  <2>3. \A y \in Threads : y # Stopper => InVictims(y)' = InVictims(y)
    BY DEF InVictims
  <2> QED
    BY <1>2, <2>1, <2>2, <2>3 DEF Gains, InHand, InSpace, OnStack
<1>18. \A t \in M : Fresh(t)
  BY <1>4, <1>7 DEF PlaceInv, Stages
<1>19. \E src \in Places : /\ src # <<"victims", Stopper>> /\ M \subseteq Held[src]
                           /\ Held'[src] \cap M = {}
  <2>1. <<"queue", w>> # <<"victims", Stopper>>
    OBVIOUS
  <2> QED
    BY <1>7, <1>8, <1>12, <2>1
<1> QED
  BY <1>2, <1>4, <1>14, <1>15, <1>16, <1>17, <1>18, <1>19, PlaceMove DEF Kinds

\* ... and settles them one by one.
LEMMA PlaceVictim ==
  ASSUME TypedInv, PlaceInv, SettleVictim
  PROVE  PlaceInv'
<1>0. /\ Typed /\ frames \in [Threads -> Seq(Frame)] /\ Stopper \in Threads
      /\ victims \in Seq(Tasks)
  BY Sizes DEF TypedInv, Typed, ThreadTypes, StopTypes
<1>1. /\ frames[Stopper] = <<>>
      /\ UNCHANGED <<queues, settles, ran, completed, outcome, scheduled, wpc, cur, spc, sub>>
  BY DEF SettleVictim, ghostVars, taskVars, submitVars, workerVars, queueVars
<1>2. Single /\ HandStages /\ FrameStages
  BY DEF PlaceInv, Stages
<1>3. CASE UNCHANGED <<frames, victims>>
  BY <1>1, <1>3, PlaceIdle DEF InSpace
<1>4. CASE /\ victims # <<>> /\ victims' = Tail(victims)
           /\ frames' = [frames EXCEPT ![Stopper] = <<SettleFrame(Head(victims), "canceled")>>]
  <2>1. PICK t \in Tasks : t = Head(victims)
    BY <1>0, <1>4, Tailed
  <2>2. /\ Elements(victims') = Elements(victims) \ {t} /\ Distinct(victims')
        /\ t \in Elements(victims)
    BY <1>0, <1>2, <1>4, <2>1, TailElements DEF Single
  <2>3. /\ InVictims(Stopper) = Elements(victims) /\ InVictims(Stopper)' = Elements(victims')
        /\ Held[<<"victims", Stopper>>] = Elements(victims)
        /\ Held'[<<"victims", Stopper>>] = Elements(victims')
        /\ <<"victims", Stopper>> \in Places
    <3>1. InVictims(Stopper) = Elements(victims) /\ InVictims(Stopper)' = Elements(victims')
      BY DEF InVictims, Elements
    <3> QED
      BY <1>0, <3>1, HeldAt DEF Places, Kinds
  <2>4. t \notin OnStack(Stopper)
    <3>1. "victims" \in Kinds
      BY DEF Kinds
    <3> QED
      BY <1>0, <2>2, <2>3, <3>1, Elsewhere
  <2>5. Fresh(t)
    BY <1>0, <2>2, <2>3 DEF PlaceInv, Stages
  <2> DEFINE f == SettleFrame(t, "canceled")
  <2>6. f \in Frame /\ f.task = t /\ f.phase = "complete" /\ f.out = "canceled"
    BY FreshFrame DEF Outcomes
  <2>7. Settles(f)
    BY <2>5, <2>6 DEF Settles, Executed, Fresh
  <2>8. frames' = [frames EXCEPT ![Stopper] = <<f>>]
    BY <1>4, <2>1
  <2> HIDE DEF f
  <2>9. frames' = [frames EXCEPT ![Stopper] = <<f>> \o @]
    BY <1>0, <1>1, <2>6, <2>8, FirstFrame
  <2>10. /\ OnStack(Stopper)' = OnStack(Stopper) \cup {t}
         /\ \A y \in Threads : y # Stopper => CallsOf(frames[y])' = CallsOf(frames[y])
         /\ Distinct(CallsOf(frames[Stopper]))'
    BY <1>0, <1>2, <2>4, <2>6, <2>9, CallsNew DEF Single
  <2>11. FrameStages'
    BY <1>0, <1>1, <1>2, <2>6, <2>7, <2>9, StageNew
  <2>12. HandStages' /\ \A y \in Workers : Distinct(queues[y])'
    BY <1>1, <1>2 DEF HandStages, Fresh, Single
  <2>13. \A y \in Threads : Distinct(CallsOf(frames[y]))'
    BY <1>2, <2>10 DEF Single
  <2>14. Distinct(victims)'
    BY <2>2 DEF Distinct
  <2>15. Gains("stack", Stopper, {t})
    <3>1. \A y \in Threads : InVictims(y)' \subseteq InVictims(y)
      BY <2>2, <2>3 DEF InVictims
    <3> QED
      BY <1>1, <2>10, <3>1 DEF Gains, InQueue, InHand, InSpace, OnStack
  <2>16. \E src \in Places : /\ src # <<"stack", Stopper>> /\ {t} \subseteq Held[src]
                             /\ Held'[src] \cap {t} = {}
    <3>1. <<"victims", Stopper>> # <<"stack", Stopper>>
      OBVIOUS
    <3> QED
      BY <2>2, <2>3, <3>1
  <2> QED
    BY <1>0, <1>1, <2>11, <2>12, <2>13, <2>14, <2>15, <2>16, PlaceMove DEF Kinds
<1> QED
  BY <1>3, <1>4 DEF SettleVictim

\* Everybody else's steps.
LEMMA PlaceStop ==
  ASSUME TypedInv, PlaceInv, StopStep
  PROVE  PlaceInv'
<1>0. /\ spc \in [Threads -> SPCs] /\ wpc \in [Workers -> WPCs]
      /\ queues \in [Workers -> Seq(Tasks)]
  BY DEF TypedInv, Typed, ThreadTypes, WorkerTypes, QueueTypes
<1>1. Single /\ HandStages /\ FrameStages
  BY DEF PlaceInv, Stages
<1>2. ASSUME UNCHANGED spc \/ spc' = AllSpaceNotified, UNCHANGED sub
      PROVE  \A y \in Threads : InSpace(y)' \subseteq InSpace(y)
  <2>1. \A y \in Threads : spc'[y] \in ForSpace => spc[y] \in ForSpace
    BY <1>0, <1>2 DEF AllSpaceNotified, ForSpace
  <2> QED
    BY <1>2, <2>1 DEF InSpace
<1>3. CASE CancelQueued
  <2>1. /\ UNCHANGED <<queues, victims, frames, settles, ran, completed, outcome, scheduled,
                       wpc, cur, sub>>
        /\ UNCHANGED spc \/ spc' = AllSpaceNotified
    BY <1>3 DEF CancelQueued, ghostVars, taskVars, workerVars
  <2> QED
    BY <1>2, <2>1, PlaceIdle
<1>4. CASE StopNotify
  <2>1. /\ UNCHANGED <<queues, victims, frames, settles, ran, completed, outcome, scheduled,
                       cur, sub>>
        /\ spc' = AllSpaceNotified
        /\ wpc' = [w \in Workers |-> IF wpc[w] = "asleep" THEN "wait" ELSE wpc[w]]
    BY <1>4 DEF StopNotify, ghostVars, taskVars, queueVars
  <2>2. \A y \in Workers : wpc'[y] \in {"popped", "run"} => wpc'[y] = wpc[y]
    BY <2>1
  <2>3. \A y \in Threads : InHand(y)' \subseteq InHand(y)
    BY <2>1, <2>2 DEF InHand
  <2>4. HandStages'
    BY <1>1, <2>1, <2>2 DEF HandStages, Fresh
  <2> QED
    BY <1>2, <2>1, <2>3, <2>4, PlaceSame
<1>5. CASE StopReset
  <2>1. /\ UNCHANGED <<victims, frames, settles, ran, completed, outcome, scheduled,
                       wpc, cur, spc, sub>>
        /\ queues' = [w \in Workers |-> <<>>]
    BY <1>5 DEF StopReset, ghostVars, taskVars, workerVars, submitVars
  <2>2. Elements(<<>>) = {} /\ Distinct(<<>>)
    BY DEF Elements, Distinct
  <2>3. \A y \in Threads : InQueue(y)' \subseteq InQueue(y)
    BY <2>1, <2>2 DEF InQueue
  <2>4. \A y \in Workers : Distinct(queues[y])'
    <3>1. \A y \in Workers : Distinct(queues'[y])
      BY <2>1, <2>2
    <3> QED
      BY <3>1 DEF Distinct
  <2>5. Gains("queue", Stopper, {})
    BY <2>1, <2>3 DEF Gains, InHand, InSpace, InVictims, OnStack
  <2>6. /\ HandStages' /\ FrameStages' /\ Distinct(victims)'
        /\ \A y \in Threads : Distinct(CallsOf(frames[y]))'
    BY <1>1, <2>1 DEF HandStages, Fresh, FrameStages, Settles, Single
  <2> QED
    BY <2>1, <2>4, <2>5, <2>6, PlaceKeep
<1> QED
  BY <1>3, <1>4, <1>5, PlaceDrain, PlaceVictim DEF StopStep

\* Every step keeps the tasks apart and their stages.
LEMMA StepPlaces ==
  ASSUME TypedInv, PlaceInv, [Next]_vars
  PROVE  PlaceInv'
<1>0. spc \in [Threads -> SPCs]
  BY DEF TypedInv, Typed, ThreadTypes
<1> DEFINE Kept == UNCHANGED <<queues, victims, frames, settles, ran, completed, outcome,
                               scheduled, wpc, cur>>
<1>1. ASSUME Kept, UNCHANGED <<spc, sub>> PROVE PlaceInv'
  BY <1>1, PlaceIdle DEF InSpace
<1>2. CASE UNCHANGED vars
  BY <1>1, <1>2 DEF vars, queueVars, stopVars, ghostVars, taskVars, workerVars, submitVars
<1>3. ASSUME NEW x \in Threads, NEW t \in Tasks, Submit(x, t) PROVE PlaceInv'
  <2>1. Kept
    BY <1>3 DEF Submit, queueVars, stopVars, taskVars, workerVars
  <2>2. \A y \in Threads : spc'[y] \in ForSpace => spc[y] \in ForSpace /\ sub'[y] = sub[y]
    <3>1. /\ spc[x] = "idle" /\ sub' = [sub EXCEPT ![x] = t]
          /\ \E p \in {"schedule", "register"} : spc' = [spc EXCEPT ![x] = p]
      BY <1>3 DEF Submit
    <3>2. sub \in [Threads -> Tasks \cup {NoTask}]
      BY DEF TypedInv, Typed, ThreadTypes
    <3> QED
      BY <1>0, <3>1, <3>2 DEF ForSpace
  <2>3. \A y \in Threads : InSpace(y)' \subseteq InSpace(y)
    BY <2>2 DEF InSpace
  <2> QED
    BY <2>1, <2>3, PlaceIdle
<1>4. ASSUME NEW t \in Tasks, DropHandle(t) PROVE PlaceInv'
  BY <1>1, <1>4 DEF DropHandle, queueVars, stopVars, taskVars, workerVars, submitVars
<1>5. ASSUME NEW x \in Threads, SubmitStep(x) PROVE PlaceInv'
  BY <1>5, PlaceRegister, PlaceSchedule, PlaceWake DEF SubmitStep
<1>6. ASSUME NEW mode \in StopModes, RequestStop(mode) PROVE PlaceInv'
  BY <1>1, <1>6 DEF RequestStop, queueVars, ghostVars, taskVars, workerVars, submitVars
<1>7. CASE CheckIdle \/ BlockIdle
  BY <1>1, <1>7 DEF CheckIdle, BlockIdle, queueVars, stopVars, ghostVars, taskVars,
       workerVars, submitVars
<1> QED
  BY <1>2, <1>3, <1>4, <1>5, <1>6, <1>7, PlaceSettle, PlaceWorker, PlaceStop DEF Next, Done

\* Init establishes them.
LEMMA InitPlaces == Init => PlaceInv
<1> SUFFICES ASSUME Init PROVE PlaceInv
  OBVIOUS
<1>1. Elements(<<>>) = {} /\ Distinct(<<>>)
  BY DEF Elements, Distinct
<1>2. CallsOf(<<>>) = <<>>
  BY DEF CallsOf
<1>3. \A x \in Threads : /\ InQueue(x) = {} /\ InHand(x) = {} /\ InSpace(x) = {}
                         /\ InVictims(x) = {} /\ OnStack(x) = {}
  BY <1>1, <1>2 DEF Init, InQueue, InHand, InSpace, InVictims, OnStack, ForSpace
<1>4. \A p \in Places : Held[p] = {}
  <2> SUFFICES ASSUME NEW p \in Places PROVE Held[p] = {}
    OBVIOUS
  <2>1. PICK k \in Kinds, x \in Threads : p = <<k, x>>
    BY DEF Places
  <2> QED
    BY <1>3, <2>1, HeldAt DEF Kinds
<1>5. Single
  BY <1>1, <1>2, <1>4 DEF Single, Apart, Init
<1>6. HandStages /\ FrameStages
  BY DEF Init, HandStages, FrameStages
<1>7. Stages
  BY <1>3, <1>4, <1>6 DEF Stages, Init, Fresh
<1>8. SettledOnce
  BY DEF Init, SettledOnce
<1> QED
  BY <1>5, <1>7, <1>8 DEF PlaceInv

\* Whichever of a worker, a canceling Stop and a refused submission gets to a
\* task first (ExecuteClaimedTask, CancelQueuedTasks, TryScheduleIfReady): its
\* job runs at most once, its promise is set at most once, and the promise says
\* whether the job ran.  Neither the bound of the queue nor the shape of the
\* dependencies matters.
THEOREM EveryTaskSettledOnce == Spec => []SettledOnce
<1>1. Init => TypedInv /\ PlaceInv
  BY InitTyped, InitPlaces
<1>2. TypedInv /\ PlaceInv /\ [Next]_vars => (TypedInv /\ PlaceInv)'
  BY StepTyped, StepPlaces
<1>3. PlaceInv => SettledOnce
  BY DEF PlaceInv
<1> QED
  BY <1>1, <1>2, <1>3, PTL DEF Spec

-----------------------------------------------------------------------------
(* What a step may change                                                  *)

\* Each of these variables is written by few actions.
Owned ==
  /\ UNCHANGED dependents \/ \E x \in Threads : Attach(x) \/ SettleSwap(x)
  /\ UNCHANGED remaining \/ \E x \in Threads : Register(x) \/ Undo(x) \/ Resolve(x)
  /\ UNCHANGED completed \/ \E x \in Threads : SettleComplete(x)
  /\ UNCHANGED scheduled \/ \E x \in Threads : Schedule(x) \/ ResolveSchedule(x)
  /\ UNCHANGED submitted \/ \E x \in Threads, t \in Tasks : Submit(x, t)
  /\ \/ UNCHANGED <<unfinished, running>>
     \/ UNCHANGED running /\ \E x \in Threads, t \in Tasks : Submit(x, t)
     \/ UNCHANGED running /\ \E x \in Threads : SettleDone(x)
     \/ StopReset

\* And these are all that write it.
LEMMA Owners ==
  ASSUME [Next]_vars
  PROVE  Owned
<1>1. CASE UNCHANGED vars
  BY <1>1 DEF vars, flagVars, taskVars, ghostVars, Owned
<1>2. ASSUME NEW x \in Threads, NEW t \in Tasks, Submit(x, t) PROVE Owned
  BY <1>2 DEF Submit, flagVars, taskVars, Owned
<1>3. ASSUME NEW t \in Tasks, DropHandle(t) PROVE Owned
  BY <1>3 DEF DropHandle, flagVars, taskVars, Owned
<1>4. ASSUME NEW x \in Threads, SubmitStep(x) PROVE Owned
  <2>1. CASE Register(x)
    BY <2>1 DEF Register, flagVars, ghostVars, Owned
  <2>2. CASE Attach(x)
    BY <2>2 DEF Attach, flagVars, ghostVars, Owned
  <2>3. CASE Undo(x)
    BY <2>3 DEF Undo, flagVars, ghostVars, Owned
  <2>4. CASE Schedule(x)
    BY <2>4 DEF Schedule, flagVars, ghostVars, Owned
  <2>5. CASE BlockForSpace(x) \/ WakeForSpace(x)
    BY <2>5 DEF BlockForSpace, WakeForSpace, flagVars, ghostVars, taskVars, Owned
  <2> QED
    BY <1>4, <2>1, <2>2, <2>3, <2>4, <2>5 DEF SubmitStep
<1>5. ASSUME NEW x \in Threads, SettleStep(x) PROVE Owned
  <2>1. CASE SettleComplete(x)
    BY <2>1 DEF SettleComplete, flagVars, Owned
  <2>2. CASE SettleSwap(x)
    BY <2>2 DEF SettleSwap, flagVars, ghostVars, Owned
  <2>3. CASE Resolve(x)
    BY <2>3 DEF Resolve, flagVars, ghostVars, Owned
  <2>4. CASE ResolveSchedule(x)
    BY <2>4 DEF ResolveSchedule, flagVars, ghostVars, Owned
  <2>5. CASE SettleDone(x)
    BY <2>5 DEF SettleDone, flagVars, ghostVars, taskVars, Owned
  <2> QED
    BY <1>5, <2>1, <2>2, <2>3, <2>4, <2>5 DEF SettleStep
<1>6. ASSUME NEW w \in Workers, WorkerStep(w) PROVE Owned
  BY <1>6 DEF WorkerStep, BeginClaim, TryPop, StartJob, FinishJob, NextRound, WaitForWork,
       flagVars, ghostVars, taskVars, Owned
<1>7. ASSUME NEW mode \in StopModes, RequestStop(mode) PROVE Owned
  BY <1>7 DEF RequestStop, ghostVars, taskVars, Owned
<1>8. CASE DrainQueue \/ CancelQueued \/ SettleVictim \/ StopNotify
  BY <1>8 DEF DrainQueue, CancelQueued, SettleVictim, StopNotify, flagVars, ghostVars,
       taskVars, Owned
<1>9. CASE StopReset
  BY <1>9 DEF StopReset, ghostVars, taskVars, Owned
<1>10. CASE CheckIdle \/ BlockIdle
  BY <1>10 DEF CheckIdle, BlockIdle, flagVars, ghostVars, taskVars, Owned
<1> QED
  BY <1>1, <1>2, <1>3, <1>4, <1>5, <1>6, <1>7, <1>8, <1>9, <1>10 DEF Next, Done, StopStep

\* A submitter has the task it came with.
LEMMA SameSubmission ==
  ASSUME TypedInv, [Next]_vars, NEW y \in Threads, spc'[y] # "idle"
  PROVE  (spc[y] # "idle" /\ sub'[y] = sub[y]) \/ \E t \in Tasks : Submit(y, t)
<1>0. spc \in [Threads -> SPCs] /\ sub \in [Threads -> Tasks \cup {NoTask}]
  BY DEF TypedInv, Typed, ThreadTypes
<1> DEFINE Same == spc[y] # "idle" /\ sub'[y] = sub[y]
<1>1. ASSUME UNCHANGED submitVars PROVE Same
  BY <1>1 DEF submitVars
<1>2. ASSUME UNCHANGED vars PROVE Same
  BY <1>1, <1>2 DEF vars
<1>3. ASSUME NEW x \in Threads, NEW t \in Tasks, Submit(x, t)
      PROVE  Same \/ \E u \in Tasks : Submit(y, u)
  <2>1. CASE x = y
    BY <1>3, <2>1
  <2>2. CASE x # y
    BY <1>0, <1>3, <2>2 DEF Submit
  <2> QED
    BY <2>1, <2>2
<1>4. ASSUME NEW t \in Tasks, DropHandle(t) PROVE Same
  BY <1>1, <1>4 DEF DropHandle
<1>5. ASSUME NEW x \in Threads, SubmitStep(x) PROVE Same
  <2>1. /\ spc[x] # "idle" /\ \/ Returned(x)
                              \/ UNCHANGED sub /\ (UNCHANGED spc \/ \E p : spc' = [spc EXCEPT ![x] = p])
    BY <1>5 DEF SubmitStep, Register, Attach, Undo, Schedule, BlockForSpace, WakeForSpace, NextDep
  <2> QED
    BY <1>0, <2>1 DEF Returned
<1>6. ASSUME NEW x \in Threads, SettleStep(x) PROVE Same
  BY <1>1, <1>6 DEF SettleStep, SettleComplete, SettleSwap, Resolve, ResolveSchedule, SettleDone
<1>7. ASSUME NEW w \in Workers, WorkerStep(w) PROVE Same
  <2>1. ASSUME BeginClaim(w) \/ TryPop(w) \/ FinishJob(w) \/ NextRound(w) \/ WaitForWork(w)
        PROVE  Same
    BY <1>1, <2>1 DEF BeginClaim, TryPop, FinishJob, NextRound, WaitForWork
  <2>2. CASE StartJob(w)
    <3>1. UNCHANGED spc \/ \E x \in Threads : spc[x] = "spaceBlocked"
                                              /\ spc' = [spc EXCEPT ![x] = "space"]
      BY <2>2 DEF StartJob
    <3>2. UNCHANGED sub
      BY <2>2 DEF StartJob
    <3> QED
      BY <1>0, <3>1, <3>2
  <2> QED
    BY <1>7, <2>1, <2>2 DEF WorkerStep
<1>8. ASSUME NEW mode \in StopModes, RequestStop(mode) PROVE Same
  BY <1>1, <1>8 DEF RequestStop
<1>9. ASSUME StopStep PROVE Same
  <2>1. ASSUME DrainQueue \/ SettleVictim \/ StopReset PROVE Same
    BY <1>1, <2>1 DEF DrainQueue, SettleVictim, StopReset
  <2>2. ASSUME CancelQueued \/ StopNotify PROVE Same
    <3>1. UNCHANGED sub /\ (UNCHANGED spc \/ spc' = AllSpaceNotified)
      BY <2>2 DEF CancelQueued, StopNotify
    <3> QED
      BY <1>0, <3>1 DEF AllSpaceNotified
  <2> QED
    BY <1>9, <2>1, <2>2 DEF StopStep
<1>10. ASSUME CheckIdle \/ BlockIdle PROVE Same
  BY <1>1, <1>10 DEF CheckIdle, BlockIdle
<1> QED
  BY <1>2, <1>3, <1>4, <1>5, <1>6, <1>7, <1>8, <1>9, <1>10 DEF Next, Done

\* How a call of SettleTask goes on: f becomes g.
Goes(f, g) ==
  /\ g.task = f.task
  /\ \/ g = f
     \/ f.phase = "complete" /\ g.phase = "swap" /\ g.todo = f.todo
     \/ /\ f.phase = "swap" /\ g.phase = "notify"
        /\ g.todo = dependents[f.task] /\ dependents'[f.task] = <<>>
     \/ /\ f.phase = "notify" /\ f.todo # <<>>
        /\ \/ g.phase = "notify" /\ g.todo = Tail(f.todo)
           \/ g.phase = "sched" /\ g.todo = f.todo
     \/ f.phase = "sched" /\ f.todo # <<>> /\ g.phase = "notify" /\ g.todo = Tail(f.todo)

\* A call after the step is a new one, or goes on from one before it.
Came(x, g) ==
  \/ g.phase = "complete" /\ g.todo = <<>>
  \/ \E j \in 1..Len(frames[x]) : Goes(frames[x][j], g)

\* The calls on all stacks, and that none is lost unless it returns.
Origins ==
  \A x \in Threads :
    /\ \A k \in 1..Len(frames'[x]) : Came(x, frames'[x][k])
    /\ OnStack(x) \subseteq OnStack(x)' \/ SettleDone(x)

\* The stacks do not change.
LEMMA OriginSame ==
  ASSUME UNCHANGED frames
  PROVE  Origins
  BY DEF Origins, Came, Goes, OnStack

\* The innermost call goes on.
LEMMA OriginTop ==
  ASSUME Typed, NEW x \in Threads, NEW g \in Frame, frames[x] # <<>>, Top(x, g),
         Goes(Head(frames[x]), g)
  PROVE  Origins
<1>1. /\ \A y \in Threads : y # x => frames'[y] = frames[y]
      /\ Len(frames'[x]) = Len(frames[x]) /\ frames'[x][1] = g
      /\ \A i \in 2..Len(frames[x]) : frames'[x][i] = frames[x][i]
  BY TopFrame
<1>2. /\ Len(frames[x]) \in Nat /\ 1 \in 1..Len(frames[x]) /\ Head(frames[x]) = frames[x][1]
  BY Innermost
<1>3. g.task = Head(frames[x]).task
  BY DEF Goes
<1>4. \A y \in Threads : CallsOf(frames[y])' = CallsOf(frames[y])
  BY <1>3, CallsTop
<1>5. \A y \in Threads : OnStack(y) = OnStack(y)'
  BY <1>4 DEF OnStack
<1>6. \A k \in 1..Len(frames'[x]) : Came(x, frames'[x][k])
  <2>1. \A k \in 1..Len(frames'[x]) : k = 1 \/ (k \in 2..Len(frames[x]) /\ k \in 1..Len(frames[x]))
    BY <1>1, <1>2
  <2>2. \A k \in 2..Len(frames[x]) : Goes(frames[x][k], frames'[x][k])
    BY <1>1 DEF Goes
  <2>3. Came(x, frames'[x][1])
    BY <1>1, <1>2 DEF Came
  <2> QED
    BY <2>1, <2>2, <2>3 DEF Came
<1>7. \A y \in Threads : y # x => \A k \in 1..Len(frames'[y]) : Came(y, frames'[y][k])
  BY <1>1 DEF Came, Goes
<1> QED
  BY <1>5, <1>6, <1>7 DEF Origins

\* A new call starts.
LEMMA OriginNew ==
  ASSUME Typed, NEW x \in Threads, NEW g \in Frame, frames' = [frames EXCEPT ![x] = <<g>> \o @],
         g.phase = "complete", g.todo = <<>>
  PROVE  Origins
<1>1. /\ \A y \in Threads : y # x => frames'[y] = frames[y]
      /\ Len(frames'[x]) = Len(frames[x]) + 1 /\ frames'[x][1] = g
      /\ \A i \in 2..(Len(frames[x]) + 1) :
           i - 1 \in 1..Len(frames[x]) /\ frames'[x][i] = frames[x][i - 1]
  BY NewFrame
<1>2. Len(frames[x]) \in Nat
  BY DEF Typed, ThreadTypes
<1>3. \A y \in Threads : OnStack(y) \subseteq OnStack(y)'
  <2>1. /\ OnStack(x)' = OnStack(x) \cup {g.task}
        /\ \A y \in Threads : y # x => CallsOf(frames[y])' = CallsOf(frames[y])
    BY CallsNew
  <2> QED
    BY <2>1 DEF OnStack
<1>4. \A k \in 1..Len(frames'[x]) : Came(x, frames'[x][k])
  <2>1. \A k \in 1..Len(frames'[x]) : k = 1 \/ k \in 2..(Len(frames[x]) + 1)
    BY <1>1, <1>2
  <2>2. \A k \in 2..(Len(frames[x]) + 1) : Goes(frames[x][k - 1], frames'[x][k])
    BY <1>1 DEF Goes
  <2> QED
    BY <1>1, <2>1, <2>2 DEF Came
<1>5. \A y \in Threads : y # x => \A k \in 1..Len(frames'[y]) : Came(y, frames'[y][k])
  BY <1>1 DEF Came, Goes
<1> QED
  BY <1>3, <1>4, <1>5 DEF Origins

\* The innermost call goes on and calls SettleTask for another task.
LEMMA OriginDeeper ==
  ASSUME Typed, NEW x \in Threads, NEW g \in Frame, NEW h \in Frame, frames[x] # <<>>,
         frames' = [frames EXCEPT ![x] = <<g, h>> \o Tail(@)],
         g.phase = "complete", g.todo = <<>>, Goes(Head(frames[x]), h)
  PROVE  Origins
<1>1. /\ \A y \in Threads : y # x => frames'[y] = frames[y]
      /\ Len(frames'[x]) = Len(frames[x]) + 1 /\ frames'[x][1] = g /\ frames'[x][2] = h
      /\ \A i \in 3..(Len(frames[x]) + 1) :
           i - 1 \in 2..Len(frames[x]) /\ frames'[x][i] = frames[x][i - 1]
  BY DeeperFrame
<1>2. Len(frames[x]) \in Nat /\ 1 \in 1..Len(frames[x]) /\ Head(frames[x]) = frames[x][1]
  BY Innermost
<1>3. \A y \in Threads : OnStack(y) \subseteq OnStack(y)'
  <2>1. h.task = Head(frames[x]).task
    BY DEF Goes
  <2>2. /\ OnStack(x)' = OnStack(x) \cup {g.task}
        /\ \A y \in Threads : y # x => CallsOf(frames[y])' = CallsOf(frames[y])
    BY <2>1, CallsDeeper
  <2> QED
    BY <2>2 DEF OnStack
<1>4. \A k \in 1..Len(frames'[x]) : Came(x, frames'[x][k])
  <2>1. \A k \in 1..Len(frames'[x]) : k = 1 \/ k = 2 \/ k \in 3..(Len(frames[x]) + 1)
    BY <1>1, <1>2
  <2>2. \A k \in 3..(Len(frames[x]) + 1) :
          k - 1 \in 1..Len(frames[x]) /\ Goes(frames[x][k - 1], frames'[x][k])
    BY <1>1, <1>2 DEF Goes
  <2>3. Came(x, g) /\ Came(x, h)
    BY <1>2 DEF Came
  <2> QED
    BY <1>1, <2>1, <2>2, <2>3 DEF Came
<1>5. \A y \in Threads : y # x => \A k \in 1..Len(frames'[y]) : Came(y, frames'[y][k])
  BY <1>1 DEF Came, Goes
<1> QED
  BY <1>3, <1>4, <1>5 DEF Origins

\* A call returns.
LEMMA OriginGone ==
  ASSUME Typed, NEW x \in Threads, frames[x] # <<>>,
         frames' = [frames EXCEPT ![x] = Tail(@)], SettleDone(x)
  PROVE  Origins
<1>1. /\ \A y \in Threads : y # x => frames'[y] = frames[y]
      /\ Len(frames'[x]) = Len(frames[x]) - 1
      /\ \A i \in 1..(Len(frames[x]) - 1) :
           i + 1 \in 1..Len(frames[x]) /\ frames'[x][i] = frames[x][i + 1]
  BY FrameGone
<1>2. \A k \in 1..Len(frames'[x]) : Came(x, frames'[x][k])
  <2>1. \A k \in 1..Len(frames'[x]) :
          k + 1 \in 1..Len(frames[x]) /\ Goes(frames[x][k + 1], frames'[x][k])
    BY <1>1 DEF Goes
  <2> QED
    BY <2>1 DEF Came
<1>3. \A y \in Threads : y # x => \A k \in 1..Len(frames'[y]) : Came(y, frames'[y][k])
  BY <1>1 DEF Came, Goes
<1>4. \A y \in Threads : y # x => OnStack(y)' = OnStack(y)
  BY <1>1 DEF OnStack, CallsOf
<1> QED
  BY <1>2, <1>3, <1>4 DEF Origins

\* SettleTask goes on, or returns.
LEMMA OriginSettle ==
  ASSUME TypedInv, NEW x \in Threads, SettleStep(x)
  PROVE  Origins
<1> DEFINE f == Head(frames[x])
<1>0. Typed
  BY DEF TypedInv
<1>1. frames[x] # <<>>
  BY DEF SettleStep, SettleComplete, SettleSwap, Resolve, ResolveSchedule, SettleDone
<1>2. f \in Frame /\ f.todo \in Seq(Tasks) /\ f.task \in Tasks
  BY <1>0, <1>1, Innermost, FrameFields
<1>3. CASE SettleComplete(x)
  <2> DEFINE g == [f EXCEPT !.phase = "swap"]
  <2>1. Top(x, g) /\ f.phase = "complete"
    BY <1>3 DEF SettleComplete
  <2>2. g \in Frame /\ g.task = f.task /\ g.todo = f.todo /\ g.phase = "swap"
    BY <1>2 DEF Frame
  <2> HIDE DEF g
  <2> QED
    BY <1>0, <1>1, <2>1, <2>2, OriginTop DEF Goes
<1>4. CASE SettleSwap(x)
  <2> DEFINE g == [f EXCEPT !.phase = "notify", !.todo = dependents[f.task]]
  <2>1. /\ Top(x, g) /\ f.phase = "swap"
        /\ dependents' = [dependents EXCEPT ![f.task] = <<>>]
    BY <1>4 DEF SettleSwap
  <2>2. dependents \in [Tasks -> Seq(Tasks)]
    BY <1>0 DEF Typed, TaskTypes
  <2>3. g \in Frame /\ g.task = f.task /\ g.todo = dependents[f.task] /\ g.phase = "notify"
    BY <1>2, <2>2 DEF Frame
  <2>4. dependents'[f.task] = <<>>
    BY <1>2, <2>1, <2>2
  <2> HIDE DEF g
  <2> QED
    BY <1>0, <1>1, <2>1, <2>3, <2>4, OriginTop DEF Goes
<1>5. CASE Resolve(x)
  <2> DEFINE g == [f EXCEPT !.phase = "sched"]
             h == [f EXCEPT !.todo = Tail(@)]
  <2>1. f.phase = "notify" /\ f.todo # <<>> /\ (Top(x, g) \/ Top(x, h))
    BY <1>5 DEF Resolve
  <2>2. Tail(f.todo) \in Seq(Tasks)
    BY <1>2, <2>1
  <2>3. g \in Frame /\ g.task = f.task /\ g.todo = f.todo /\ g.phase = "sched"
    BY <1>2 DEF Frame
  <2>4. h \in Frame /\ h.task = f.task /\ h.todo = Tail(f.todo) /\ h.phase = "notify"
    BY <1>2, <2>1, <2>2 DEF Frame
  <2>5. Goes(f, g) /\ Goes(f, h)
    BY <2>1, <2>3, <2>4 DEF Goes
  <2> HIDE DEF g, h
  <2> QED
    BY <1>0, <1>1, <2>1, <2>3, <2>4, <2>5, OriginTop
<1>6. CASE ResolveSchedule(x)
  <2> DEFINE g == [f EXCEPT !.phase = "notify", !.todo = Tail(@)]
             d == Head(f.todo)
             h == SettleFrame(d, "refused")
  <2>1. /\ f.phase = "sched"
        /\ Top(x, g) \/ frames' = [frames EXCEPT ![x] = <<h, g>> \o Tail(@)]
    BY <1>6 DEF ResolveSchedule
  <2>2. d \in Tasks /\ f.todo # <<>>
    BY <1>1, <2>1, NextDependent
  <2>3. Tail(f.todo) \in Seq(Tasks)
    BY <1>2, <2>2
  <2>4. g \in Frame /\ g.task = f.task /\ g.todo = Tail(f.todo) /\ g.phase = "notify"
    BY <1>2, <2>3 DEF Frame
  <2>5. Goes(f, g)
    BY <2>1, <2>2, <2>4 DEF Goes
  <2>6. h \in Frame /\ h.phase = "complete" /\ h.todo = <<>>
    BY <2>2, FreshFrame DEF Outcomes
  <2> HIDE DEF g, h
  <2> QED
    BY <1>0, <1>1, <2>1, <2>4, <2>5, <2>6, OriginTop, OriginDeeper
<1>7. CASE SettleDone(x)
  <2>1. frames' = [frames EXCEPT ![x] = Tail(@)]
    BY <1>7 DEF SettleDone
  <2> QED
    BY <1>0, <1>1, <1>7, <2>1, OriginGone
<1> QED
  BY <1>3, <1>4, <1>5, <1>6, <1>7 DEF SettleStep

\* Where the calls on the stacks come from, for every step.
LEMMA FrameOrigins ==
  ASSUME TypedInv, [Next]_vars
  PROVE  Origins
<1>0. Typed
  BY DEF TypedInv
<1>1. CASE UNCHANGED vars
  BY <1>1, OriginSame DEF vars
<1>2. ASSUME NEW x \in Threads, NEW t \in Tasks, Submit(x, t) PROVE Origins
  BY <1>2, OriginSame DEF Submit
<1>3. ASSUME NEW t \in Tasks, DropHandle(t) PROVE Origins
  BY <1>3, OriginSame DEF DropHandle
<1>4. ASSUME NEW x \in Threads, SubmitStep(x) PROVE Origins
  <2>1. CASE Register(x) \/ Attach(x) \/ Undo(x) \/ BlockForSpace(x)
    BY <2>1, OriginSame DEF Register, Attach, Undo, BlockForSpace
  <2>2. CASE Schedule(x) \/ WakeForSpace(x)
    <3>1. /\ spc[x] # "idle"
          /\ \/ UNCHANGED frames
             \/ frames' = [frames EXCEPT ![x] = <<SettleFrame(sub[x], "refused")>> \o @]
      BY <2>2 DEF Schedule, WakeForSpace
    <3>2. sub[x] \in Tasks
      BY <3>1 DEF TypedInv, Standing
    <3> DEFINE h == SettleFrame(sub[x], "refused")
    <3>3. h \in Frame /\ h.phase = "complete" /\ h.todo = <<>>
      BY <3>2, FreshFrame DEF Outcomes
    <3> HIDE DEF h
    <3> QED
      BY <1>0, <3>1, <3>3, OriginSame, OriginNew DEF h
  <2> QED
    BY <1>4, <2>1, <2>2 DEF SubmitStep
<1>5. ASSUME NEW x \in Threads, SettleStep(x) PROVE Origins
  BY <1>5, OriginSettle
<1>6. ASSUME NEW w \in Workers, WorkerStep(w) PROVE Origins
  <2>1. CASE BeginClaim(w) \/ TryPop(w) \/ StartJob(w) \/ NextRound(w) \/ WaitForWork(w)
    BY <2>1, OriginSame DEF BeginClaim, TryPop, StartJob, NextRound, WaitForWork
  <2>2. CASE FinishJob(w)
    <3>1. PICK out \in {"ok", "failed"} : frames' = [frames EXCEPT ![w] = <<SettleFrame(cur[w], out)>>]
      BY <2>2 DEF FinishJob
    <3>2. cur[w] \in Tasks /\ frames[w] = <<>> /\ w \in Threads
      BY <2>2, Sizes DEF FinishJob, TypedInv, Standing
    <3> DEFINE h == SettleFrame(cur[w], out)
    <3>3. h \in Frame /\ h.phase = "complete" /\ h.todo = <<>>
      BY <3>2, FreshFrame DEF Outcomes
    <3> HIDE DEF h
    <3>4. frames' = [frames EXCEPT ![w] = <<h>> \o @]
      BY <1>0, <3>1, <3>2, <3>3, FirstFrame DEF h
    <3> QED
      BY <1>0, <3>2, <3>3, <3>4, OriginNew
  <2> QED
    BY <1>6, <2>1, <2>2 DEF WorkerStep
<1>7. ASSUME NEW mode \in StopModes, RequestStop(mode) PROVE Origins
  BY <1>7, OriginSame DEF RequestStop
<1>8. ASSUME StopStep PROVE Origins
  <2>1. CASE DrainQueue \/ CancelQueued \/ StopNotify \/ StopReset
    BY <2>1, OriginSame DEF DrainQueue, CancelQueued, StopNotify, StopReset
  <2>2. CASE SettleVictim
    <3>1. \/ UNCHANGED frames
          \/ /\ frames' = [frames EXCEPT ![Stopper] = <<SettleFrame(Head(victims), "canceled")>>]
             /\ victims # <<>> /\ frames[Stopper] = <<>>
      BY <2>2 DEF SettleVictim
    <3>2. CASE UNCHANGED frames
      BY <3>2, OriginSame
    <3>3. CASE /\ frames' = [frames EXCEPT ![Stopper] = <<SettleFrame(Head(victims), "canceled")>>]
               /\ victims # <<>> /\ frames[Stopper] = <<>>
      <4>1. Head(victims) \in Tasks /\ Stopper \in Threads
        BY <1>0, <3>3, Tailed, Sizes DEF Typed, StopTypes
      <4> DEFINE h == SettleFrame(Head(victims), "canceled")
      <4>2. h \in Frame /\ h.phase = "complete" /\ h.todo = <<>>
        BY <4>1, FreshFrame DEF Outcomes
      <4> HIDE DEF h
      <4>3. frames' = [frames EXCEPT ![Stopper] = <<h>> \o @]
        BY <1>0, <3>3, <4>1, <4>2, FirstFrame DEF h
      <4> QED
        BY <1>0, <4>1, <4>2, <4>3, OriginNew
    <3> QED
      BY <3>1, <3>2, <3>3
  <2> QED
    BY <1>8, <2>1, <2>2 DEF StopStep
<1>9. ASSUME CheckIdle \/ BlockIdle PROVE Origins
  BY <1>9, OriginSame DEF CheckIdle, BlockIdle
<1> QED
  BY <1>1, <1>2, <1>3, <1>4, <1>5, <1>6, <1>7, <1>8, <1>9 DEF Next, Done

-----------------------------------------------------------------------------
(* Part 3.  The count of the unfinished tasks                              *)

\* Whatever is being submitted, scheduled, waited for or counted down was
\* accepted before, and a SettleTask that has not taken its dependents has none.
CallKnown(f) ==
  /\ Elements(f.todo) \subseteq submitted
  /\ f.phase \in {"complete", "swap"} => f.todo = <<>>
Known ==
  /\ IsFiniteSet(submitted)
  /\ \A t \in Tasks : scheduled[t] => t \in submitted
  /\ \A x \in Threads : spc[x] # "idle" => sub[x] \in submitted
  /\ \A d \in Tasks : Elements(dependents[d]) \subseteq submitted
  /\ \A x \in Threads : \A k \in 1..Len(frames[x]) : CallKnown(frames[x][k])

\* What is left of a sequence was in it.
LEMMA FewerElements ==
  ASSUME NEW S, NEW s \in Seq(S), s # <<>>
  PROVE  Elements(Tail(s)) \subseteq Elements(s) /\ Head(s) \in Elements(s)
<1>1. /\ Head(s) = s[1] /\ 1 \in 1..Len(s) /\ Len(Tail(s)) = Len(s) - 1
      /\ \A i \in 1..(Len(s) - 1) : i + 1 \in 1..Len(s) /\ Tail(s)[i] = s[i + 1]
  BY Tailed
<1> DEFINE r == Tail(s)
<1> HIDE DEF r
<1> QED
  BY <1>1 DEF Elements, r

\* Appending adds an element.
LEMMA AppendedElements ==
  ASSUME NEW S, NEW s \in Seq(S), NEW e \in S
  PROVE  Elements(Append(s, e)) = Elements(s) \cup {e}
<1>1. /\ Elements(<<e>> \o s) = Elements(s) \cup {e}
      /\ Elements(Append(s, e)) = Elements(s) \cup {e}
      /\ Distinct(s) /\ e \notin Elements(s) =>
           Distinct(<<e>> \o s) /\ Distinct(Append(s, e))
  BY GrownElements
<1> QED
  BY <1>1

\* The dependent to be scheduled is a known one.
LEMMA NextKnown ==
  ASSUME TypedInv, Known, NEW x \in Threads, frames[x] # <<>>,
         Head(frames[x]).phase = "sched" \/ Head(frames[x]).todo # <<>>
  PROVE  Head(Head(frames[x]).todo) \in submitted
<1>1. Head(frames[x]).todo # <<>>
  BY NextDependent
<1>2. Head(frames[x]) \in Frame /\ Head(frames[x]) = frames[x][1] /\ 1 \in 1..Len(frames[x])
  BY Innermost DEF TypedInv
<1>3. Head(frames[x]).todo \in Seq(Tasks)
  BY <1>2, FrameFields
<1>4. Head(Head(frames[x]).todo) \in Elements(Head(frames[x]).todo)
  BY <1>1, <1>3, FewerElements
<1> QED
  BY <1>2, <1>4 DEF Known, CallKnown

\* Every step keeps this.
LEMMA StepKnown ==
  ASSUME TypedInv, Known, [Next]_vars
  PROVE  Known'
<1>0. Typed /\ Owned /\ Origins
  BY Owners, FrameOrigins DEF TypedInv
<1>1. submitted \subseteq submitted' /\ IsFiniteSet(submitted')
  <2>1. submitted' = submitted \/ \E t \in Tasks : submitted' = submitted \cup {t}
    BY <1>0 DEF Owned, Submit
  <2> QED
    BY <2>1, FS_AddElement DEF Known
<1>2. ASSUME NEW t \in Tasks, scheduled'[t] PROVE t \in submitted'
  <2>1. CASE scheduled[t]
    BY <1>1, <2>1 DEF Known
  <2>2. CASE ~scheduled[t]
    <3>0. scheduled \in [Tasks -> BOOLEAN]
      BY <1>0 DEF Typed, TaskTypes
    <3>1. PICK x \in Threads : Schedule(x) \/ ResolveSchedule(x)
      BY <1>0, <1>2, <2>2 DEF Owned
    <3>2. CASE Schedule(x)
      <4>1. sub[x] \in submitted
        BY <3>2 DEF Schedule, Known
      <4>2. t = sub[x]
        BY <3>0, <3>2, <1>2, <2>2 DEF Schedule
      <4> QED
        BY <1>1, <4>1, <4>2
    <3>3. CASE ResolveSchedule(x)
      <4>1. t = Head(Head(frames[x]).todo)
        BY <3>0, <3>3, <1>2, <2>2 DEF ResolveSchedule
      <4>2. frames[x] # <<>> /\ Head(frames[x]).phase = "sched"
        BY <3>3 DEF ResolveSchedule
      <4> QED
        BY <1>1, <4>1, <4>2, NextKnown
    <3> QED
      BY <3>1, <3>2, <3>3
  <2> QED
    BY <2>1, <2>2
<1>3. ASSUME NEW x \in Threads, spc'[x] # "idle" PROVE sub'[x] \in submitted'
  <2>1. CASE spc[x] # "idle" /\ sub'[x] = sub[x]
    BY <1>1, <2>1 DEF Known
  <2>2. ASSUME NEW t \in Tasks, Submit(x, t) PROVE sub'[x] \in submitted'
    <3>1. sub \in [Threads -> Tasks \cup {NoTask}]
      BY <1>0 DEF Typed, ThreadTypes
    <3> QED
      BY <2>2, <3>1 DEF Submit
  <2> QED
    BY <1>3, <2>1, <2>2, SameSubmission
<1>4. dependents \in [Tasks -> Seq(Tasks)]
  BY <1>0 DEF Typed, TaskTypes
<1>5. ASSUME NEW d \in Tasks PROVE Elements(dependents'[d]) \subseteq submitted'
  <2>1. CASE UNCHANGED dependents
    BY <1>1, <2>1 DEF Known
  <2>2. ASSUME NEW x \in Threads, Attach(x) PROVE Elements(dependents'[d]) \subseteq submitted'
    <3>1. sub[x] \in submitted /\ sub[x] \in Tasks
      BY <2>2 DEF Attach, Known, TypedInv, Standing
    <3> DEFINE s == dependents[d]
               t == sub[x]
    <3>2. dependents'[d] = s \/ dependents'[d] = Append(s, t)
      BY <1>4, <2>2 DEF Attach
    <3>3. s \in Seq(Tasks) /\ t \in Tasks /\ Elements(s) \subseteq submitted
      BY <1>4, <3>1 DEF Known
    <3> HIDE DEF s, t
    <3>4. Elements(Append(s, t)) = Elements(s) \cup {t}
      BY <3>3, AppendedElements
    <3>5. Elements(s) \cup {t} \subseteq submitted'
      BY <1>1, <3>1, <3>3 DEF t
    <3> QED
      BY <1>1, <3>2, <3>4, <3>5
  <2>3. ASSUME NEW x \in Threads, SettleSwap(x) PROVE Elements(dependents'[d]) \subseteq submitted'
    <3>1. dependents'[d] = dependents[d] \/ dependents'[d] = <<>>
      BY <1>4, <2>3 DEF SettleSwap
    <3>2. Elements(<<>>) = {}
      BY DEF Elements
    <3> QED
      BY <1>1, <3>1, <3>2 DEF Known
  <2> QED
    BY <1>0, <2>1, <2>2, <2>3 DEF Owned
<1>6. ASSUME NEW x \in Threads, NEW k \in 1..Len(frames'[x]) PROVE CallKnown(frames[x][k])'
  <2> DEFINE g == frames'[x][k]
  <2>0. Elements(<<>>) = {}
    BY DEF Elements
  <2>1. CASE g.phase = "complete" /\ g.todo = <<>>
    BY <2>0, <2>1 DEF CallKnown
  <2>2. ASSUME NEW j \in 1..Len(frames[x]), Goes(frames[x][j], g) PROVE CallKnown(frames[x][k])'
    <3> DEFINE f == frames[x][j]
    <3>1. f \in Frame /\ CallKnown(f)
      BY <1>0 DEF Typed, ThreadTypes, Known
    <3>2. f.task \in Tasks /\ f.todo \in Seq(Tasks)
      BY <3>1, FrameFields
    <3>3. Elements(dependents[f.task]) \subseteq submitted
      BY <3>2 DEF Known
    <3>4. f.todo # <<>> => Elements(Tail(f.todo)) \subseteq Elements(f.todo)
      BY <3>2, FewerElements
    <3>5. Goes(f, g)
      BY <2>2
    <3> HIDE DEF f, g
    <3>6. Elements(g.todo) \subseteq submitted
      BY <3>1, <3>3, <3>4, <3>5 DEF Goes, CallKnown
    <3>7. g.phase \in {"complete", "swap"} => g.todo = <<>>
      BY <3>1, <3>5 DEF Goes, CallKnown
    <3> QED
      BY <1>1, <3>6, <3>7 DEF CallKnown, g
  <2> QED
    BY <1>0, <2>1, <2>2 DEF Origins, Came
<1> QED
  BY <1>1, <1>2, <1>3, <1>5, <1>6 DEF Known

\* Nothing is accepted yet.
LEMMA InitKnown == Init => Known
<1> SUFFICES ASSUME Init PROVE Known
  OBVIOUS
<1>1. IsFiniteSet(submitted)
  BY FS_EmptySet DEF Init
<1>2. \A d \in Tasks : Elements(dependents[d]) = {}
  BY DEF Init, Elements
<1> QED
  BY <1>1, <1>2 DEF Init, Known

\* The invariants so far, and the tasks that are not fully settled.
Base == TypedInv /\ PlaceInv /\ Known

\* They are an invariant.
LEMMA StepBase ==
  ASSUME Base, [Next]_vars
  PROVE  Base'
  BY StepTyped, StepPlaces, StepKnown DEF Base

\* They hold at the start.
LEMMA InitBase == Init => Base
  BY InitTyped, InitPlaces, InitKnown DEF Base

\* These are accepted tasks, not completed or on a stack.
UnsettledAre ==
  /\ Unsettled \subseteq submitted /\ IsFiniteSet(Unsettled)
  /\ \A t : t \in Unsettled <=>
       t \in submitted /\ (~completed[t] \/ \E x \in Threads : t \in OnStack(x))

\* What Unsettled is, in terms of tasks and stacks.
LEMMA UnsettledTasks ==
  ASSUME Base
  PROVE  UnsettledAre
<1>0. Typed /\ frames \in [Threads -> Seq(Frame)]
  BY DEF Base, TypedInv, Typed, ThreadTypes
<1>1. \A x \in Threads : \A t \in OnStack(x) : t \in Tasks /\ t \in submitted
  <2>1. \A x \in Threads : <<"stack", x>> \in Places /\ Held[<<"stack", x>>] = OnStack(x)
    BY HeldAt DEF Places, Kinds
  <2> QED
    BY <2>1 DEF Base, PlaceInv, Stages, Known
<1>2. \A x \in Threads : \A t :
        t \in OnStack(x) <=> \E i \in 1..Len(frames[x]) : frames[x][i].task = t
  <2> SUFFICES ASSUME NEW x \in Threads
               PROVE  \A t : t \in OnStack(x) <=> \E i \in 1..Len(frames[x]) : frames[x][i].task = t
    OBVIOUS
  <2>1. frames[x] \in Seq(Frame)
    BY <1>0
  <2>2. /\ Len(CallsOf(frames[x])) = Len(frames[x])
        /\ \A i \in 1..Len(frames[x]) : CallsOf(frames[x])[i] = frames[x][i].task
    BY <2>1, Calls
  <2> QED
    BY <2>2 DEF OnStack, Elements
<1>3. \A t : t \in Unsettled <=>
         t \in submitted /\ (~completed[t] \/ \E x \in Threads : t \in OnStack(x))
  BY <1>1, <1>2 DEF Unsettled
<1>4. Unsettled \subseteq submitted
  BY <1>3
<1>5. IsFiniteSet(Unsettled)
  BY <1>4, FS_Subset DEF Base, Known
<1> QED
  BY <1>3, <1>4, <1>5 DEF UnsettledAre

\* No step but a submission and the end of a SettleTask changes that set.
LEMMA UnsettledSame ==
  ASSUME Base, [Next]_vars, UNCHANGED submitted, \A x \in Threads : ~SettleDone(x)
  PROVE  Unsettled' = Unsettled
<1>0. Typed /\ Owned /\ Origins /\ Base' /\ Typed'
  BY Owners, FrameOrigins, StepBase DEF Base, TypedInv
<1>1. \A t : t \in Unsettled' <=>
         t \in submitted' /\ (~completed'[t] \/ \E x \in Threads : t \in OnStack(x)')
  <2>1. UnsettledAre'
    BY <1>0, UnsettledTasks, PTL
  <2> QED
    BY <2>1 DEF UnsettledAre
<1>2. /\ \A x \in Threads : OnStack(x) \subseteq OnStack(x)'
      /\ \A x \in Threads : \A k \in 1..Len(frames'[x]) : Came(x, frames'[x][k])
  BY <1>0 DEF Origins
<1>3. completed \in [Tasks -> BOOLEAN] /\ submitted \subseteq Tasks
      /\ frames \in [Threads -> Seq(Frame)] /\ frames' \in [Threads -> Seq(Frame)]
  BY <1>0 DEF Typed, TaskTypes, ThreadTypes
<1>4. \A t \in Tasks : completed[t] => completed'[t]
  BY <1>0, <1>3 DEF Owned, SettleComplete
<1>5. ASSUME NEW t \in Tasks, ~completed[t], completed'[t]
      PROVE  \E x \in Threads : t \in OnStack(x)
  <2>1. PICK x \in Threads : SettleComplete(x)
    BY <1>0, <1>5 DEF Owned
  <2>2. t = Head(frames[x]).task /\ frames[x] # <<>>
    BY <1>3, <1>5, <2>1 DEF SettleComplete
  <2>3. Head(frames[x]) = frames[x][1] /\ 1 \in 1..Len(frames[x])
    BY <1>0, <2>2, Innermost
  <2> QED
    BY <1>0, <2>2, <2>3, StackTask
<1>6. ASSUME NEW x \in Threads, NEW t \in OnStack(x)'
      PROVE  t \in OnStack(x) \/ ~completed'[t]
  <2>1. PICK k \in 1..Len(frames'[x]) : frames'[x][k].task = t
    <3>1. frames'[x] \in Seq(Frame)
      BY <1>3
    <3>2. /\ Len(CallsOf(frames'[x])) = Len(frames'[x])
          /\ \A i \in 1..Len(frames'[x]) : CallsOf(frames'[x])[i] = frames'[x][i].task
      BY <3>1, Calls
    <3>3. OnStack(x)' = Elements(CallsOf(frames'[x]))
      BY DEF OnStack, Elements, CallsOf
    <3> QED
      BY <3>2, <3>3 DEF Elements
  <2>2. CASE frames'[x][k].phase = "complete"
    <3>1. Settles(frames[x][k])'
      BY <1>0 DEF Base, PlaceInv, Stages, FrameStages
    <3>2. settles'[t] = 0
      BY <2>1, <2>2, <3>1 DEF Settles
    <3>3. t \in Tasks
      BY <1>3, <2>1, FrameFields
    <3> QED
      BY <1>0, <3>2, <3>3 DEF Base, PlaceInv, Stages
  <2>3. ASSUME NEW j \in 1..Len(frames[x]), Goes(frames[x][j], frames'[x][k])
        PROVE  t \in OnStack(x)
    <3>1. frames[x][j].task = t
      BY <2>1, <2>3 DEF Goes
    <3> QED
      BY <1>0, <3>1, StackTask
  <2> QED
    BY <1>2, <2>2, <2>3 DEF Came
<1>7. \A t : t \in Unsettled <=>
         t \in submitted /\ (~completed[t] \/ \E x \in Threads : t \in OnStack(x))
  BY UnsettledTasks DEF UnsettledAre
<1> QED
  BY <1>1, <1>2, <1>3, <1>4, <1>5, <1>6, <1>7

\* A submission adds its task.
LEMMA UnsettledMore ==
  ASSUME Base, NEW x \in Threads, NEW t \in Tasks, Submit(x, t)
  PROVE  t \notin Unsettled /\ Unsettled' = Unsettled \cup {t}
<1>1. t \notin submitted /\ submitted' = submitted \cup {t} /\ UNCHANGED <<completed, frames>>
  BY DEF Submit, taskVars
<1>2. ~completed[t]
  <2>1. Fresh(t) /\ (completed[t] <=> settles[t] = 1)
    BY <1>1 DEF Base, PlaceInv, Stages, Known
  <2> QED
    BY <2>1 DEF Fresh
<1>3. Unsettled \subseteq submitted
  BY UnsettledTasks DEF UnsettledAre
<1>4. Unsettled' = Unsettled \cup {t}
  BY <1>1, <1>2 DEF Unsettled
<1> QED
  BY <1>1, <1>3, <1>4

\* The end of SettleTask takes its task out.
LEMMA UnsettledLess ==
  ASSUME Base, NEW x \in Threads, SettleDone(x)
  PROVE  \E t \in Unsettled : Unsettled' = Unsettled \ {t}
<1> DEFINE t == Head(frames[x]).task
<1>0. Typed /\ Base' /\ [Next]_vars
  BY StepBase DEF Base, TypedInv, Next, SettleStep
<1>1. /\ frames[x] # <<>> /\ frames' = [frames EXCEPT ![x] = Tail(@)]
      /\ Head(frames[x]).phase = "notify" /\ UNCHANGED <<submitted, completed>>
  BY DEF SettleDone, taskVars, ghostVars
<1>2. Head(frames[x]) = frames[x][1] /\ 1 \in 1..Len(frames[x])
  BY <1>0, <1>1, Innermost
<1>3. t \in OnStack(x) /\ t \in Tasks
  BY <1>0, <1>2, StackTask
<1>4. completed[t]
  <2>1. settles[t] = 1
    BY <1>1, <1>2 DEF Base, PlaceInv, Stages, FrameStages, Settles
  <2> QED
    BY <1>3, <2>1 DEF Base, PlaceInv, Stages
<1>5. Distinct(CallsOf(frames[x]))
  BY DEF Base, PlaceInv, Single
<1>6. /\ OnStack(x)' = OnStack(x) \ {t}
      /\ \A y \in Threads : y # x => CallsOf(frames[y])' = CallsOf(frames[y])
  BY <1>0, <1>1, <1>5, CallsGone
<1>7. \A y \in Threads : y # x => t \notin OnStack(y)
  <2>1. "stack" \in Kinds /\ t \in Held[<<"stack", x>>] /\ PlaceInv
    BY <1>3, HeldAt DEF Kinds, Base
  <2> HIDE DEF t
  <2> QED
    BY <2>1, Elsewhere
<1>8. \A y \in Threads : y # x => OnStack(y)' = OnStack(y)
  BY <1>6 DEF OnStack
<1>9. \A u : u \in Unsettled' <=>
        u \in submitted' /\ (~completed'[u] \/ \E y \in Threads : u \in OnStack(y)')
  <2>1. UnsettledAre'
    BY <1>0, UnsettledTasks, PTL
  <2> QED
    BY <2>1 DEF UnsettledAre
<1>10. /\ \A u : u \in Unsettled <=>
            u \in submitted /\ (~completed[u] \/ \E y \in Threads : u \in OnStack(y))
       /\ Unsettled \subseteq submitted
  BY UnsettledTasks DEF UnsettledAre
<1>11. t \in submitted
  <2>1. <<"stack", x>> \in Places /\ Held[<<"stack", x>>] = OnStack(x)
    BY HeldAt DEF Places, Kinds
  <2> QED
    BY <1>3, <2>1 DEF Base, PlaceInv, Stages, Known
<1> HIDE DEF t
<1>12. Unsettled' = Unsettled \ {t}
  BY <1>1, <1>4, <1>6, <1>7, <1>8, <1>9, <1>10
<1>13. t \in Unsettled
  BY <1>3, <1>10, <1>11
<1> QED
  BY <1>12, <1>13

\* Every step keeps the count.
LEMMA StepUnfinished ==
  ASSUME Base, UnfinishedExact, [Next]_vars
  PROVE  UnfinishedExact'
<1>0. Owned /\ IsFiniteSet(Unsettled) /\ unfinished \in Int
  BY Owners, UnsettledTasks DEF UnsettledAre, Base, TypedInv, Typed, QueueTypes
<1>1. CASE StopReset
  BY <1>1 DEF StopReset, UnfinishedExact
<1>2. ASSUME UNCHANGED running, NEW x \in Threads, NEW t \in Tasks, Submit(x, t)
      PROVE  UnfinishedExact'
  <2>1. unfinished' = unfinished + 1
    BY <1>2 DEF Submit
  <2>2. t \notin Unsettled /\ Unsettled' = Unsettled \cup {t}
    BY <1>2, UnsettledMore
  <2>3. Cardinality(Unsettled \cup {t}) = Cardinality(Unsettled) + 1
    BY <1>0, <2>2, FS_AddElement
  <2>4. running' => unfinished' = Cardinality(Unsettled')
    BY <1>2, <2>1, <2>2, <2>3 DEF UnfinishedExact
  <2> QED
    BY <2>4 DEF UnfinishedExact
<1>3. ASSUME UNCHANGED running, NEW x \in Threads, SettleDone(x)
      PROVE  UnfinishedExact'
  <2>1. unfinished' = unfinished - 1
    BY <1>3 DEF SettleDone
  <2>2. PICK t \in Unsettled : Unsettled' = Unsettled \ {t}
    BY <1>3, UnsettledLess
  <2>3. Cardinality(Unsettled \ {t}) = Cardinality(Unsettled) - 1
    BY <1>0, <2>2, FS_RemoveElement
  <2>4. running' => unfinished' = Cardinality(Unsettled')
    BY <1>3, <2>1, <2>2, <2>3 DEF UnfinishedExact
  <2> QED
    BY <2>4 DEF UnfinishedExact
<1>4. CASE UNCHANGED <<unfinished, running>> /\ ~StopReset
  <2>1. /\ UNCHANGED submitted
        /\ \A x \in Threads : ~SettleDone(x)
    <3>1. \A x \in Threads : ~SettleDone(x)
      BY <1>0, <1>4 DEF SettleDone
    <3>2. \A x \in Threads, t \in Tasks : ~Submit(x, t)
      BY <1>0, <1>4 DEF Submit
    <3> QED
      BY <1>0, <3>1, <3>2 DEF Owned
  <2>2. Unsettled' = Unsettled
    BY <2>1, UnsettledSame
  <2>3. running' => unfinished' = Cardinality(Unsettled')
    BY <1>4, <2>2 DEF UnfinishedExact
  <2> QED
    BY <2>3 DEF UnfinishedExact
<1> QED
  BY <1>0, <1>1, <1>2, <1>3, <1>4 DEF Owned

\* Nothing is unfinished at the start.
LEMMA InitUnfinished == Init => UnfinishedExact
<1> SUFFICES ASSUME Init PROVE UnfinishedExact
  OBVIOUS
<1>1. Unsettled = {}
  BY DEF Init, Unsettled
<1> QED
  BY <1>1, FS_EmptySet DEF Init, UnfinishedExact

-----------------------------------------------------------------------------
(* The count of the open dependencies                                      *)

\* What a call has still to count down.  In phase "sched" it has counted the
\* first of its list down.
Left(f) == IF f.phase = "sched" THEN Tail(f.todo) ELSE f.todo
FromEnd(s, n, t) == n < Len(s) /\ s[Len(s) - n] = t

\* Why t still waits: it is in the list of a task, in the list that a
\* SettleTask has taken, or its submitter has counted a dependency up and not
\* yet added the edge or taken the count back.
InList(t, d, i) == i \in 1..Len(dependents[d]) /\ dependents[d][i] = t
InCall(t, d, n) ==
  \E x \in Threads : \E k \in 1..Len(frames[x]) :
    frames[x][k].task = d /\ FromEnd(Left(frames[x][k]), n, t)
InSubmit(t, x) == spc[x] \in {"attach", "undo"} /\ sub[x] = t

Waits(t) ==
  {e \in {"list"} \X Tasks \X Nat : InList(t, e[2], e[3])}
    \cup {e \in {"call"} \X Tasks \X Nat : InCall(t, e[2], e[3])}
    \cup {e \in {"submit"} \X Threads \X {0} : InSubmit(t, e[2])}

\* The counter is never behind.  It may be ahead: a dependent whose record is
\* gone is not counted down.
Counted == \A t \in Tasks : IsFiniteSet(Waits(t)) /\ remaining[t] >= Cardinality(Waits(t))

WaitsAre ==
  \A t \in Tasks :
    /\ \A d \in Tasks, i \in Nat : <<"list", d, i>> \in Waits(t) <=> InList(t, d, i)
    /\ \A d \in Tasks, i \in Nat : <<"call", d, i>> \in Waits(t) <=> InCall(t, d, i)
    /\ \A x \in Threads : <<"submit", x, 0>> \in Waits(t) <=> InSubmit(t, x)
    /\ \A e \in Waits(t) :
         \/ \E d \in Tasks, i \in Nat : e = <<"list", d, i>>
         \/ \E d \in Tasks, i \in Nat : e = <<"call", d, i>>
         \/ \E x \in Threads : e = <<"submit", x, 0>>

\* What Waits is, entry by entry.
LEMMA WaitForms == WaitsAre
<1> SUFFICES ASSUME NEW t \in Tasks
             PROVE
    /\ \A d \in Tasks, i \in Nat : <<"list", d, i>> \in Waits(t) <=> InList(t, d, i)
    /\ \A d \in Tasks, i \in Nat : <<"call", d, i>> \in Waits(t) <=> InCall(t, d, i)
    /\ \A x \in Threads : <<"submit", x, 0>> \in Waits(t) <=> InSubmit(t, x)
    /\ \A e \in Waits(t) :
         \/ \E d \in Tasks, i \in Nat : e = <<"list", d, i>>
         \/ \E d \in Tasks, i \in Nat : e = <<"call", d, i>>
         \/ \E x \in Threads : e = <<"submit", x, 0>>
  BY DEF WaitsAre
<1>1. \A d \in Tasks, i \in Nat : <<"list", d, i>> \in Waits(t) <=> InList(t, d, i)
  BY DEF Waits
<1>2. \A d \in Tasks, i \in Nat : <<"call", d, i>> \in Waits(t) <=> InCall(t, d, i)
  BY DEF Waits
<1>3. \A x \in Threads : <<"submit", x, 0>> \in Waits(t) <=> InSubmit(t, x)
  BY DEF Waits
<1>4. ASSUME NEW e \in Waits(t)
      PROVE  \/ \E d \in Tasks, i \in Nat : e = <<"list", d, i>>
             \/ \E d \in Tasks, i \in Nat : e = <<"call", d, i>>
             \/ \E x \in Threads : e = <<"submit", x, 0>>
  BY DEF Waits
<1> QED
  BY <1>1, <1>2, <1>3, <1>4

\* Taking P away and adding no more than Q.
LEMMA Balance ==
  ASSUME NEW K, IsFiniteSet(K), NEW P, P \subseteq K, NEW Q, IsFiniteSet(Q),
         NEW M, M \subseteq (K \ P) \cup Q
  PROVE  /\ IsFiniteSet(M) /\ Cardinality(M) \in Nat
         /\ Cardinality(M) <= Cardinality(K) - Cardinality(P) + Cardinality(Q)
<1>1. IsFiniteSet(K \ P) /\ Cardinality(K \ P) = Cardinality(K) - Cardinality(K \cap P)
  BY FS_Difference
<1>2. K \cap P = P
  OBVIOUS
<1> DEFINE R == K \ P
<1>3. IsFiniteSet(R) /\ Cardinality(R) = Cardinality(K) - Cardinality(P)
  BY <1>1, <1>2
<1>4. /\ IsFiniteSet(R \cup Q)
      /\ Cardinality(R \cup Q) = Cardinality(R) + Cardinality(Q) - Cardinality(R \cap Q)
  BY <1>3, FS_Union
<1>5. M \in SUBSET (R \cup Q)
  OBVIOUS
<1>6. IsFiniteSet(M) /\ Cardinality(M) <= Cardinality(R \cup Q)
  BY <1>4, <1>5, FS_Subset
<1>7. IsFiniteSet(R \cap Q)
  <2>1. R \cap Q \in SUBSET R
    OBVIOUS
  <2> QED
    BY <1>3, <2>1, FS_Subset
<1>8. IsFiniteSet(P)
  BY FS_Subset
<1> HIDE DEF R
<1>9. /\ Cardinality(R \cap Q) \in Nat /\ Cardinality(M) \in Nat /\ Cardinality(R) \in Nat
      /\ Cardinality(Q) \in Nat /\ Cardinality(K) \in Nat /\ Cardinality(P) \in Nat
      /\ Cardinality(R \cup Q) \in Nat
  BY <1>3, <1>4, <1>6, <1>7, <1>8, FS_CardinalityType
<1> QED
  BY <1>3, <1>4, <1>6, <1>9

\* The tail of a list keeps the places counted from the end.
LEMMA TailFromEnd ==
  ASSUME NEW s \in Seq(Tasks), s # <<>>, NEW n \in Nat, NEW t
  PROVE  /\ FromEnd(Tail(s), n, t) => FromEnd(s, n, t)
         /\ ~FromEnd(Tail(s), Len(s) - 1, t)
<1>1. /\ Len(Tail(s)) = Len(s) - 1 /\ Len(s) \in Nat
      /\ \A i \in 1..(Len(s) - 1) : Tail(s)[i] = s[i + 1]
  BY Tailed
<1> DEFINE r == Tail(s)
<1> HIDE DEF r
<1>2. ASSUME n < Len(r) PROVE r[Len(r) - n] = s[Len(s) - n] /\ n < Len(s)
  <2>1. Len(r) - n \in 1..(Len(s) - 1) /\ (Len(r) - n) + 1 = Len(s) - n
    BY <1>1, <1>2 DEF r
  <2> QED
    BY <1>1, <1>2, <2>1 DEF r
<1>3. FromEnd(r, n, t) => FromEnd(s, n, t)
  BY <1>2 DEF FromEnd
<1>4. ~FromEnd(r, Len(s) - 1, t)
  BY <1>1 DEF FromEnd, r
<1> QED
  BY <1>3, <1>4 DEF r

\* A call has no more to count down than before, unless it takes its list.
LEMMA LeftShrinks ==
  ASSUME TypedInv, Known, NEW x \in Threads, NEW j \in 1..Len(frames[x]), NEW g \in Frame,
         Goes(frames[x][j], g), NEW n \in Nat, NEW t, FromEnd(Left(g), n, t)
  PROVE  \/ FromEnd(Left(frames[x][j]), n, t)
         \/ /\ frames[x][j].phase = "swap" /\ dependents'[frames[x][j].task] = <<>>
            /\ FromEnd(dependents[frames[x][j].task], n, t)
<1> DEFINE f == frames[x][j]
<1>1. f \in Frame /\ CallKnown(f) /\ (f.phase = "sched" => f.todo # <<>>)
  BY DEF TypedInv, Typed, ThreadTypes, Standing, Known
<1>2. f.todo \in Seq(Tasks) /\ g.todo \in Seq(Tasks)
  BY <1>1, FrameFields
<1>3. Goes(f, g)
  OBVIOUS
<1> HIDE DEF f
<1>4. CASE g = f
  BY <1>4 DEF f
<1>5. CASE f.phase = "complete" /\ g.phase = "swap" /\ g.todo = f.todo
  BY <1>5 DEF Left, f
<1>6. CASE /\ f.phase = "swap" /\ g.phase = "notify"
           /\ g.todo = dependents[f.task] /\ dependents'[f.task] = <<>>
  BY <1>6 DEF Left, f
<1>7. CASE f.phase = "notify" /\ f.todo # <<>> /\ Left(g) = Tail(f.todo)
  <2>1. Left(f) = f.todo
    BY <1>7 DEF Left
  <2> QED
    BY <1>2, <1>7, <2>1, TailFromEnd DEF f
<1>8. CASE f.phase = "sched" /\ g.phase = "notify" /\ g.todo = Tail(f.todo)
  BY <1>8 DEF Left, f
<1> QED
  BY <1>3, <1>4, <1>5, <1>6, <1>7, <1>8 DEF Goes, Left

\* Whoever adds an edge has registered before.
LEMMA AttachFrom ==
  ASSUME TypedInv, [Next]_vars, NEW y \in Threads, spc'[y] \in {"attach", "undo"}
  PROVE  (spc[y] \in {"attach", "undo"} /\ sub'[y] = sub[y]) \/ (Register(y) /\ sub'[y] = sub[y])
<1>0. spc \in [Threads -> SPCs] /\ sub \in [Threads -> Tasks \cup {NoTask}]
  BY DEF TypedInv, Typed, ThreadTypes
<1> DEFINE Goal == (spc[y] \in {"attach", "undo"} /\ sub'[y] = sub[y])
                     \/ (Register(y) /\ sub'[y] = sub[y])
<1>1. ASSUME UNCHANGED submitVars PROVE Goal
  BY <1>1 DEF submitVars
<1>2. ASSUME UNCHANGED vars PROVE Goal
  BY <1>1, <1>2 DEF vars
<1>3. ASSUME NEW x \in Threads, NEW t \in Tasks, Submit(x, t) PROVE Goal
  BY <1>0, <1>3 DEF Submit
<1>4. ASSUME NEW t \in Tasks, DropHandle(t) PROVE Goal
  BY <1>1, <1>4 DEF DropHandle
<1>5. ASSUME NEW x \in Threads, SubmitStep(x) PROVE Goal
  <2>1. CASE x # y
    BY <1>0, <1>5, <2>1 DEF SubmitStep, Register, Attach, Undo, Schedule, BlockForSpace,
         WakeForSpace, NextDep, Returned
  <2>2. CASE x = y /\ Register(y)
    BY <2>2 DEF Register
  <2>3. CASE x = y /\ (Attach(y) \/ Undo(y))
    BY <1>0, <2>3 DEF Attach, Undo, NextDep
  <2>4. CASE x = y /\ (Schedule(y) \/ BlockForSpace(y) \/ WakeForSpace(y))
    BY <1>0, <2>4 DEF Schedule, BlockForSpace, WakeForSpace, Returned
  <2> QED
    BY <1>5, <2>1, <2>2, <2>3, <2>4 DEF SubmitStep
<1>6. ASSUME NEW x \in Threads, SettleStep(x) PROVE Goal
  BY <1>1, <1>6 DEF SettleStep, SettleComplete, SettleSwap, Resolve, ResolveSchedule, SettleDone
<1>7. ASSUME NEW w \in Workers, WorkerStep(w) PROVE Goal
  <2>1. ASSUME BeginClaim(w) \/ TryPop(w) \/ FinishJob(w) \/ NextRound(w) \/ WaitForWork(w)
        PROVE  Goal
    BY <1>1, <2>1 DEF BeginClaim, TryPop, FinishJob, NextRound, WaitForWork
  <2>2. CASE StartJob(w)
    <3>1. UNCHANGED spc \/ \E x \in Threads : spc[x] = "spaceBlocked"
                                              /\ spc' = [spc EXCEPT ![x] = "space"]
      BY <2>2 DEF StartJob
    <3>2. UNCHANGED sub
      BY <2>2 DEF StartJob
    <3> QED
      BY <1>0, <3>1, <3>2
  <2> QED
    BY <1>7, <2>1, <2>2 DEF WorkerStep
<1>8. ASSUME NEW mode \in StopModes, RequestStop(mode) PROVE Goal
  BY <1>1, <1>8 DEF RequestStop
<1>9. ASSUME StopStep PROVE Goal
  <2>1. ASSUME DrainQueue \/ SettleVictim \/ StopReset PROVE Goal
    BY <1>1, <2>1 DEF DrainQueue, SettleVictim, StopReset
  <2>2. ASSUME CancelQueued \/ StopNotify PROVE Goal
    <3>1. UNCHANGED sub /\ (UNCHANGED spc \/ spc' = AllSpaceNotified)
      BY <2>2 DEF CancelQueued, StopNotify
    <3> QED
      BY <1>0, <3>1 DEF AllSpaceNotified
  <2> QED
    BY <1>9, <2>1, <2>2 DEF StopStep
<1>10. ASSUME CheckIdle \/ BlockIdle PROVE Goal
  BY <1>1, <1>10 DEF CheckIdle, BlockIdle
<1> QED
  BY <1>2, <1>3, <1>4, <1>5, <1>6, <1>7, <1>8, <1>9, <1>10 DEF Next, Done

\* What a step adds to what t waits for.
Added(t, e) ==
  \/ \E x \in Threads : Attach(x) /\ sub[x] = t /\ ~completed[Deps[t][dep[x]]]
       /\ e = <<"list", Deps[t][dep[x]], Len(dependents[Deps[t][dep[x]]]) + 1>>
  \/ \E x \in Threads : Register(x) /\ sub[x] = t /\ ~completed[Deps[t][dep[x]]]
       /\ e = <<"submit", x, 0>>
  \/ \E x \in Threads : \E n \in Nat : SettleSwap(x)
       /\ FromEnd(dependents[Head(frames[x]).task], n, t)
       /\ e = <<"call", Head(frames[x]).task, n>>

\* Nothing else makes t wait longer.
LEMMA WaitMoves ==
  ASSUME Base, [Next]_vars, NEW t \in Tasks, NEW e \in Waits(t)'
  PROVE  e \in Waits(t) \/ Added(t, e)
<1>0. /\ Typed /\ TypedInv /\ Known /\ Owned /\ Origins
      /\ dependents \in [Tasks -> Seq(Tasks)] /\ frames \in [Threads -> Seq(Frame)]
      /\ frames' \in [Threads -> Seq(Frame)]
      /\ spc \in [Threads -> SPCs] /\ sub \in [Threads -> Tasks \cup {NoTask}]
  BY Owners, FrameOrigins, StepBase DEF Base, TypedInv, Typed, TaskTypes, ThreadTypes
<1>1. WaitsAre /\ WaitsAre'
  BY WaitForms, PTL
<1>2. ASSUME NEW d \in Tasks, NEW i \in Nat, e = <<"list", d, i>>
      PROVE  e \in Waits(t) \/ Added(t, e)
  <2>1. i \in 1..Len(dependents'[d]) /\ dependents'[d][i] = t
    BY <1>1, <1>2 DEF WaitsAre, InList
  <2>2. CASE dependents'[d] = dependents[d]
    BY <1>1, <1>2, <2>1, <2>2 DEF WaitsAre, InList
  <2>3. ASSUME NEW x \in Threads, SettleSwap(x), dependents'[d] # dependents[d] PROVE FALSE
    <3>1. dependents'[d] = <<>>
      BY <1>0, <2>3 DEF SettleSwap
    <3> QED
      BY <2>1, <3>1
  <2>4. ASSUME NEW x \in Threads, Attach(x), dependents'[d] # dependents[d]
        PROVE  e \in Waits(t) \/ Added(t, e)
    <3> DEFINE s == dependents[d]
    <3>1. /\ d = Deps[sub[x]][dep[x]] /\ dependents'[d] = Append(s, sub[x])
          /\ ~completed[d]
      BY <1>0, <2>4 DEF Attach
    <3>2. s \in Seq(Tasks) /\ sub[x] \in Tasks
      BY <1>0, <2>4 DEF Attach, TypedInv, Standing
    <3> HIDE DEF s
    <3>3. CASE i = Len(s) + 1
      <4>1. sub[x] = t
        BY <2>1, <3>1, <3>2, <3>3
      <4> QED
        BY <1>2, <2>4, <3>1, <3>3, <4>1 DEF Added, s
    <3>4. CASE i \in 1..Len(s)
      <4>1. s[i] = t
        BY <2>1, <3>1, <3>2, <3>4
      <4> QED
        BY <1>1, <1>2, <3>4, <4>1 DEF WaitsAre, InList, s
    <3>5. i = Len(s) + 1 \/ i \in 1..Len(s)
      BY <2>1, <3>1, <3>2
    <3> QED
      BY <3>3, <3>4, <3>5
  <2> QED
    BY <1>0, <2>2, <2>3, <2>4 DEF Owned
<1>3. ASSUME NEW d \in Tasks, NEW n \in Nat, e = <<"call", d, n>>
      PROVE  e \in Waits(t) \/ Added(t, e)
  <2>0. PICK x \in Threads : \E k \in 1..Len(frames'[x]) :
          frames'[x][k].task = d /\ FromEnd(Left(frames'[x][k]), n, t)
    <3>1. InCall(t, d, n)'
      BY <1>1, <1>3 DEF WaitsAre
    <3> QED
      BY <3>1 DEF InCall, FromEnd, Left
  <2>1. PICK k \in 1..Len(frames'[x]) :
          frames'[x][k].task = d /\ FromEnd(Left(frames'[x][k]), n, t)
    BY <2>0
  <2> DEFINE g == frames'[x][k]
  <2>2. g \in Frame
    BY <1>0
  <2>3. CASE g.phase = "complete" /\ g.todo = <<>>
    <3>1. Len(Left(g)) = 0
      BY <2>3 DEF Left
    <3> QED
      BY <2>1, <3>1 DEF FromEnd
  <2>4. ASSUME NEW j \in 1..Len(frames[x]), Goes(frames[x][j], g)
        PROVE  e \in Waits(t) \/ Added(t, e)
    <3> DEFINE f == frames[x][j]
    <3>1. f.task = d
      BY <2>1, <2>4 DEF Goes
    <3>2. CASE FromEnd(Left(f), n, t)
      <4>1. InCall(t, d, n)
        BY <3>1, <3>2 DEF InCall
      <4> QED
        BY <1>1, <1>3, <4>1 DEF WaitsAre
    <3>3. CASE f.phase = "swap" /\ dependents'[d] = <<>> /\ FromEnd(dependents[d], n, t)
      <4>1. dependents'[d] # dependents[d]
        <5>1. dependents[d] \in Seq(Tasks)
          BY <1>0
        <5>2. dependents[d] # <<>>
          BY <3>3, <5>1 DEF FromEnd
        <5> QED
          BY <3>3, <5>2
      <4>2. ASSUME NEW y \in Threads, Attach(y) PROVE FALSE
        <5>1. dependents'[d] = Append(dependents[d], sub[y])
          BY <1>0, <4>1, <4>2 DEF Attach
        <5>2. dependents[d] \in Seq(Tasks) /\ sub[y] \in Tasks
          BY <1>0, <4>2 DEF Attach, TypedInv, Standing
        <5> QED
          BY <3>3, <5>1, <5>2
      <4>3. PICK y \in Threads : SettleSwap(y)
        BY <1>0, <4>1, <4>2 DEF Owned
      <4>4. Head(frames[y]).task = d
        BY <1>0, <4>1, <4>3 DEF SettleSwap
      <4> QED
        BY <1>3, <3>3, <4>3, <4>4 DEF Added
    <3>4. FromEnd(Left(g), n, t)
      BY <2>1
    <3>5. \/ FromEnd(Left(f), n, t)
          \/ /\ f.phase = "swap" /\ dependents'[f.task] = <<>>
             /\ FromEnd(dependents[f.task], n, t)
      <4> HIDE DEF g
      <4> QED
        BY <1>0, <2>2, <2>4, <3>4, LeftShrinks
    <3> QED
      BY <3>1, <3>2, <3>3, <3>5
  <2>5. Came(x, g)
    BY <1>0 DEF Origins
  <2> QED
    BY <2>3, <2>4, <2>5 DEF Came
<1>4. ASSUME NEW x \in Threads, e = <<"submit", x, 0>>
      PROVE  e \in Waits(t) \/ Added(t, e)
  <2>1. spc'[x] \in {"attach", "undo"} /\ sub'[x] = t
    BY <1>1, <1>4 DEF WaitsAre, InSubmit
  <2>2. CASE spc[x] \in {"attach", "undo"} /\ sub'[x] = sub[x]
    BY <1>1, <1>4, <2>1, <2>2 DEF WaitsAre, InSubmit
  <2>3. CASE Register(x) /\ sub'[x] = sub[x]
    <3>1. ~completed[Deps[t][dep[x]]]
      BY <1>0, <2>1, <2>3 DEF Register, NextDep
    <3> QED
      BY <1>4, <2>1, <2>3, <3>1 DEF Added
  <2> QED
    BY <1>0, <2>1, <2>2, <2>3, AttachFrom
<1> QED
  BY <1>1, <1>2, <1>3, <1>4 DEF WaitsAre

\* What Counted says of t.
CountHolds(t) == IsFiniteSet(Waits(t)) /\ remaining[t] >= Cardinality(Waits(t))

\* The count after taking P and adding no more than Q.
LEMMA Recount ==
  ASSUME Base, Counted, Base', NEW t \in Tasks, NEW P, NEW Q, P \subseteq Waits(t),
         IsFiniteSet(Q), Waits(t)' \subseteq (Waits(t) \ P) \cup Q,
         remaining'[t] - remaining[t] >= Cardinality(Q) - Cardinality(P)
  PROVE  CountHolds(t)'
<1>1. remaining[t] \in Int /\ remaining'[t] \in Int
  BY DEF Base, TypedInv, Typed, TaskTypes
<1>2. IsFiniteSet(Waits(t)) /\ remaining[t] >= Cardinality(Waits(t))
  BY DEF Counted
<1>3. /\ IsFiniteSet(Waits(t)') /\ Cardinality(Waits(t)') \in Nat
      /\ Cardinality(Waits(t)') <= Cardinality(Waits(t)) - Cardinality(P) + Cardinality(Q)
  BY <1>2, Balance
<1>4. Cardinality(Waits(t)) \in Nat /\ Cardinality(Q) \in Nat /\ Cardinality(P) \in Nat
  <2>1. IsFiniteSet(P)
    BY <1>2, FS_Subset
  <2> QED
    BY <1>2, <2>1, FS_CardinalityType
<1>5. remaining'[t] >= Cardinality(Waits(t)')
  BY <1>1, <1>2, <1>3, <1>4
<1> QED
  BY <1>3, <1>5 DEF CountHolds

\* A step that adds nothing and leaves the counter.
LEMMA RecountSame ==
  ASSUME Base, Counted, [Next]_vars, NEW t \in Tasks, remaining'[t] = remaining[t],
         \A e : ~Added(t, e)
  PROVE  CountHolds(t)'
<1>1. Waits(t)' \subseteq (Waits(t) \ {}) \cup {}
  BY WaitMoves
<1>2. Base' /\ remaining[t] \in Int
  BY StepBase DEF Base, TypedInv, Typed, TaskTypes
<1>3. IsFiniteSet({}) /\ Cardinality({}) = 0
  BY FS_EmptySet
<1>4. {} \subseteq Waits(t) /\ remaining'[t] - remaining[t] >= Cardinality({}) - Cardinality({})
  BY <1>2, <1>3
<1> QED
  BY <1>1, <1>2, <1>3, <1>4, Recount

\* RegisterDependency counts up.
LEMMA CountRegister ==
  ASSUME Base, Counted, NEW x \in Threads, Register(x), NEW t \in Tasks
  PROVE  CountHolds(t)'
<1>0. /\ [Next]_vars /\ remaining \in [Tasks -> Int] /\ Base'
      /\ sub[x] \in Tasks
  <2>1. [Next]_vars
    BY DEF Next, SubmitStep
  <2>2. sub[x] \in Tasks
    BY DEF Base, TypedInv, Standing, Register
  <2> QED
    BY <2>1, <2>2, StepBase DEF Base, TypedInv, Typed, TaskTypes
<1>1. /\ UNCHANGED <<dependents, frames>> /\ sub' = sub /\ spc[x] = "register"
      /\ UNCHANGED remaining \/ remaining' = [remaining EXCEPT ![sub[x]] = @ + 1]
      /\ ~completed[Deps[sub[x]][dep[x]]] =>
            remaining' = [remaining EXCEPT ![sub[x]] = @ + 1]
  BY DEF Register
<1>2. ASSUME NEW e, Added(t, e) PROVE e = <<"submit", x, 0>> /\ remaining'[t] = remaining[t] + 1
  <2>1. ASSUME NEW y \in Threads, Attach(y), ~completed[Deps[sub[y]][dep[y]]] PROVE FALSE
    <3>1. dependents \in [Tasks -> Seq(Tasks)] /\ sub[y] \in Tasks
      BY <2>1 DEF Attach, Base, TypedInv, Typed, TaskTypes, Standing
    <3>2. Deps[sub[y]][dep[y]] \in Tasks
      BY <2>1, <3>1, Sizes DEF Attach, Base, TypedInv, Standing
    <3> DEFINE d == Deps[sub[y]][dep[y]]
    <3>3. dependents'[d] = Append(dependents[d], sub[y]) /\ dependents[d] \in Seq(Tasks)
      BY <2>1, <3>1, <3>2 DEF Attach
    <3>4. Len(dependents'[d]) = Len(dependents[d]) + 1 /\ Len(dependents[d]) \in Nat
      BY <3>1, <3>3
    <3>5. dependents' = dependents
      BY <1>1
    <3> HIDE DEF d
    <3> QED
      BY <3>4, <3>5
  <2>2. ASSUME NEW y \in Threads, SettleSwap(y) PROVE FALSE
    <3>1. spc' = spc
      BY <2>2 DEF SettleSwap, submitVars
    <3>2. spc \in [Threads -> SPCs]
      BY DEF Base, TypedInv, Typed, ThreadTypes
    <3>3. remaining' = remaining
      BY <2>2 DEF SettleSwap
    <3>4. completed[Deps[sub[x]][dep[x]]] /\ NextDep(x)
      BY <1>0, <1>1, <3>3 DEF Register
    <3>5. dep' = dep
      BY <2>2 DEF SettleSwap, submitVars
    <3>6. dep \in [Threads -> Nat]
      BY DEF Base, TypedInv, Typed, ThreadTypes
    <3> QED
      BY <3>4, <3>5, <3>6 DEF NextDep
  <2>3. ASSUME NEW y \in Threads, Register(y), sub[y] = t, ~completed[Deps[t][dep[y]]]
        PROVE  y = x /\ remaining'[t] = remaining[t] + 1
    <3>1. remaining'[t] = remaining[t] + 1
      BY <1>0, <2>3 DEF Register
    <3>2. spc'[y] = "attach" /\ spc[y] = "register"
      BY <2>3 DEF Register, Base, TypedInv, Typed, ThreadTypes
    <3>3. y # x => spc'[y] = spc[y]
      BY DEF Register, NextDep, Base, TypedInv, Typed, ThreadTypes
    <3> QED
      BY <3>1, <3>2, <3>3
  <2> QED
    BY <1>2, <2>1, <2>2, <2>3 DEF Added
<1>3. CASE \E e : Added(t, e)
  <2> DEFINE Q == {<<"submit", x, 0>>}
  <2>1. Waits(t)' \subseteq (Waits(t) \ {}) \cup Q
    BY <1>0, <1>2, WaitMoves
  <2>2. IsFiniteSet(Q) /\ Cardinality(Q) = 1 /\ Cardinality({}) = 0
    BY FS_Singleton, FS_EmptySet
  <2>3. remaining'[t] - remaining[t] >= Cardinality(Q) - Cardinality({})
    BY <1>0, <1>2, <1>3, <2>2
  <2> HIDE DEF Q
  <2> QED
    BY <1>0, <2>1, <2>2, <2>3, Recount
<1>4. CASE \A e : ~Added(t, e)
  <2>1. remaining'[t] = remaining[t] \/ remaining'[t] = remaining[t] + 1
    BY <1>0, <1>1
  <2>2. Waits(t)' \subseteq (Waits(t) \ {}) \cup {}
    BY <1>0, <1>4, WaitMoves
  <2>3. IsFiniteSet({}) /\ Cardinality({}) = 0
    BY FS_EmptySet
  <2>4. remaining'[t] - remaining[t] >= Cardinality({}) - Cardinality({})
    BY <1>0, <2>1, <2>3
  <2> QED
    BY <1>0, <2>2, <2>3, <2>4, Recount
<1> QED
  BY <1>3, <1>4

\* RegisterDependency adds the edge it has counted.
LEMMA CountAttach ==
  ASSUME Base, Counted, NEW x \in Threads, Attach(x), NEW t \in Tasks
  PROVE  CountHolds(t)'
<1>0. /\ [Next]_vars /\ remaining \in [Tasks -> Int] /\ Base' /\ remaining' = remaining
      /\ sub[x] \in Tasks /\ spc \in [Threads -> SPCs] /\ sub' = sub
      /\ spc[x] = "attach" /\ frames' = frames
  <2>1. [Next]_vars
    BY DEF Next, SubmitStep
  <2>2. sub[x] \in Tasks
    BY DEF Base, TypedInv, Standing, Attach
  <2> QED
    BY <2>1, <2>2, StepBase DEF Base, TypedInv, Typed, TaskTypes, ThreadTypes, Attach
<1>1. spc'[x] # "attach" /\ \A y \in Threads : y # x => spc'[y] = spc[y]
  BY <1>0 DEF Attach, NextDep
<1>2. ASSUME NEW e, Added(t, e)
      PROVE  /\ sub[x] = t /\ ~completed[Deps[t][dep[x]]]
             /\ e = <<"list", Deps[t][dep[x]], Len(dependents[Deps[t][dep[x]]]) + 1>>
  <2>1. ASSUME NEW y \in Threads, Attach(y) PROVE y = x
    BY <1>0, <1>1, <2>1 DEF Attach, NextDep
  <2>2. ASSUME NEW y \in Threads, SettleSwap(y) PROVE FALSE
    BY <1>0, <1>1, <2>2 DEF SettleSwap, submitVars
  <2>3. ASSUME NEW y \in Threads, Register(y), sub[y] = t, ~completed[Deps[t][dep[y]]]
        PROVE  FALSE
    BY <1>0, <2>3 DEF Register
  <2> QED
    BY <1>2, <2>1, <2>2, <2>3 DEF Added
<1>3. CASE \E e : Added(t, e)
  <2> DEFINE P == {<<"submit", x, 0>>}
             Q == {<<"list", Deps[t][dep[x]], Len(dependents[Deps[t][dep[x]]]) + 1>>}
  <2>0. WaitsAre /\ WaitsAre'
    BY WaitForms, PTL
  <2>1. sub[x] = t /\ ~completed[Deps[t][dep[x]]]
    BY <1>2, <1>3
  <2>2. InSubmit(t, x)
    BY <1>0, <2>1 DEF InSubmit
  <2>3. ~InSubmit(t, x)'
    <3>1. NextDep(x)
      BY <2>1 DEF Attach
    <3> QED
      BY <1>0, <3>1 DEF InSubmit, NextDep
  <2>4. <<"submit", x, 0>> \in Waits(t) /\ <<"submit", x, 0>> \notin Waits(t)'
    BY <2>0, <2>2, <2>3 DEF WaitsAre
  <2>5. Waits(t)' \subseteq (Waits(t) \ P) \cup Q
    BY <1>0, <1>2, <2>4, WaitMoves
  <2>6. IsFiniteSet(Q) /\ Cardinality(Q) = 1 /\ Cardinality(P) = 1
    BY FS_Singleton
  <2>7. P \subseteq Waits(t)
    BY <2>4
  <2>8. remaining'[t] - remaining[t] >= Cardinality(Q) - Cardinality(P)
    BY <1>0, <2>6
  <2> HIDE DEF P, Q
  <2> QED
    BY <1>0, <2>5, <2>6, <2>7, <2>8, Recount
<1>4. CASE \A e : ~Added(t, e)
  BY <1>0, <1>4, RecountSame
<1> QED
  BY <1>3, <1>4

\* RegisterDependency takes its count back.
LEMMA CountUndo ==
  ASSUME Base, Counted, NEW x \in Threads, Undo(x), NEW t \in Tasks
  PROVE  CountHolds(t)'
<1>0. /\ [Next]_vars /\ remaining \in [Tasks -> Int] /\ Base'
      /\ remaining' = [remaining EXCEPT ![sub[x]] = @ - 1]
      /\ sub[x] \in Tasks /\ spc \in [Threads -> SPCs] /\ sub' = sub
      /\ spc[x] = "undo" /\ spc' = [spc EXCEPT ![x] = "register"]
  <2>1. [Next]_vars
    BY DEF Next, SubmitStep
  <2>2. sub[x] \in Tasks
    BY DEF Base, TypedInv, Standing, Undo
  <2> QED
    BY <2>1, <2>2, StepBase DEF Base, TypedInv, Typed, TaskTypes, ThreadTypes, Undo
<1>1. remaining'[sub[x]] = remaining[sub[x]] - 1
  BY <1>0
<1>2. \A e : ~Added(t, e)
  <2>0. remaining'[sub[x]] # remaining[sub[x]]
    BY <1>0, <1>1
  <2>1. ASSUME NEW y \in Threads, Attach(y) PROVE FALSE
    <3>1. remaining' = remaining
      BY <2>1 DEF Attach
    <3> QED
      BY <2>0, <3>1
  <2>2. ASSUME NEW y \in Threads, SettleSwap(y) PROVE FALSE
    <3>1. remaining' = remaining
      BY <2>2 DEF SettleSwap
    <3> QED
      BY <2>0, <3>1
  <2>3. ASSUME NEW y \in Threads, Register(y), sub[y] = t, ~completed[Deps[t][dep[y]]]
        PROVE  FALSE
    <3>1. remaining' = [remaining EXCEPT ![t] = @ + 1]
      BY <2>3 DEF Register
    <3> QED
      BY <1>0, <1>1, <3>1
  <2> QED
    BY <2>1, <2>2, <2>3 DEF Added
<1>3. CASE t = sub[x]
  <2> DEFINE P == {<<"submit", x, 0>>}
  <2>0. WaitsAre /\ WaitsAre'
    BY WaitForms, PTL
  <2>1. InSubmit(t, x) /\ ~InSubmit(t, x)'
    BY <1>0, <1>3 DEF InSubmit
  <2>2. <<"submit", x, 0>> \in Waits(t) /\ <<"submit", x, 0>> \notin Waits(t)'
    BY <2>0, <2>1 DEF WaitsAre
  <2>3. Waits(t)' \subseteq (Waits(t) \ P) \cup {}
    BY <1>0, <1>2, <2>2, WaitMoves
  <2>4. IsFiniteSet({}) /\ Cardinality({}) = 0 /\ Cardinality(P) = 1
    BY FS_Singleton, FS_EmptySet
  <2>5. P \subseteq Waits(t)
    BY <2>2
  <2>6. remaining'[t] - remaining[t] >= Cardinality({}) - Cardinality(P)
    BY <1>0, <1>1, <1>3, <2>4
  <2> HIDE DEF P
  <2> QED
    BY <1>0, <2>3, <2>4, <2>5, <2>6, Recount
<1>4. CASE t # sub[x]
  BY <1>0, <1>2, <1>4, RecountSame
<1> QED
  BY <1>3, <1>4

\* The calls of one task on the stacks are one.
LEMMA OneCall ==
  ASSUME Base, NEW x \in Threads, frames[x] # <<>>, NEW y \in Threads,
         NEW k \in 1..Len(frames[y]), frames[y][k].task = Head(frames[x]).task
  PROVE  y = x /\ k = 1
<1> DEFINE t == Head(frames[x]).task
<1>0. Typed
  BY DEF Base, TypedInv
<1>1. Head(frames[x]) = frames[x][1] /\ 1 \in 1..Len(frames[x])
  BY <1>0, Innermost
<1>2. t \in OnStack(x) /\ t \in OnStack(y)
  BY <1>0, <1>1, StackTask
<1>3. y = x
  <2>1. "stack" \in Kinds /\ t \in Held[<<"stack", x>>] /\ PlaceInv
    BY <1>2, HeldAt DEF Kinds, Base
  <2> HIDE DEF t
  <2> QED
    BY <1>2, <2>1, Elsewhere
<1>4. Distinct(CallsOf(frames[x]))
  BY DEF Base, PlaceInv, Single
<1> QED
  BY <1>0, <1>1, <1>3, <1>4, StackTask

\* ResolveDependency counts down what NotifyDependents takes from its list.
LEMMA CountResolve ==
  ASSUME Base, Counted, NEW x \in Threads, Resolve(x), NEW t \in Tasks
  PROVE  CountHolds(t)'
<1> DEFINE f == Head(frames[x])
           d == Head(f.todo)
           g == [f EXCEPT !.phase = "sched"]
           h == [f EXCEPT !.todo = Tail(@)]
<1>0. /\ [Next]_vars /\ remaining \in [Tasks -> Int] /\ Base' /\ Typed
      /\ frames \in [Threads -> Seq(Frame)]
  <2>1. [Next]_vars
    BY DEF Next, SettleStep
  <2> QED
    BY <2>1, StepBase DEF Base, TypedInv, Typed, TaskTypes, ThreadTypes
<1>1. /\ frames[x] # <<>> /\ f.phase = "notify" /\ f.todo # <<>>
      /\ UNCHANGED <<dependents, spc, sub>>
      /\ \/ UNCHANGED remaining
         \/ /\ remaining' = [remaining EXCEPT ![d] = @ - 1]
            /\ Top(x, g) \/ Top(x, h)
  BY DEF Resolve, submitVars
<1>2. /\ f \in Frame /\ f.todo \in Seq(Tasks) /\ f.task \in Tasks /\ d \in Tasks
      /\ f = frames[x][1] /\ 1 \in 1..Len(frames[x])
  <2>1. f \in Frame /\ f = frames[x][1] /\ 1 \in 1..Len(frames[x])
    BY <1>0, <1>1, Innermost
  <2> QED
    BY <1>1, <2>1, FrameFields, Tailed
<1>3. \A e : ~Added(t, e)
  <2>1. ASSUME NEW y \in Threads, Attach(y) PROVE FALSE
    <3>1. spc \in [Threads -> SPCs]
      BY <1>0 DEF Typed, ThreadTypes
    <3> QED
      BY <1>1, <2>1, <3>1 DEF Attach, NextDep
  <2>2. ASSUME NEW y \in Threads, Register(y), ~completed[Deps[sub[y]][dep[y]]] PROVE FALSE
    <3>1. spc \in [Threads -> SPCs]
      BY <1>0 DEF Typed, ThreadTypes
    <3> QED
      BY <1>1, <2>2, <3>1 DEF Register
  <2>3. ASSUME NEW y \in Threads, NEW n \in Nat, SettleSwap(y),
               FromEnd(dependents[Head(frames[y]).task], n, t)
        PROVE  FALSE
    <3>1. Head(frames[y]) \in Frame
      BY <1>0, <2>3, Innermost DEF SettleSwap
    <3>2. Head(frames[y]).task \in Tasks
      BY <3>1, FrameFields
    <3>3. dependents[Head(frames[y]).task] = <<>>
      BY <1>1, <2>3, <3>2 DEF SettleSwap, Base, TypedInv, Typed, TaskTypes
    <3> QED
      BY <2>3, <3>3 DEF FromEnd
  <2> QED
    BY <2>1, <2>2, <2>3 DEF Added
<1>4. CASE remaining'[t] = remaining[t]
  BY <1>0, <1>3, <1>4, RecountSame
<1>5. CASE remaining'[t] # remaining[t]
  <2>1. t = d /\ remaining'[t] = remaining[t] - 1 /\ (Top(x, g) \/ Top(x, h))
    BY <1>0, <1>1, <1>5
  <2>a. PICK n \in Nat : n = Len(f.todo) - 1
    BY <1>1, <1>2, Tailed
  <2>b. PICK ft \in Tasks : ft = f.task
    BY <1>2
  <2> DEFINE P == {<<"call", ft, n>>}
  <2>0. WaitsAre /\ WaitsAre'
    BY WaitForms, PTL
  <2>2. FromEnd(f.todo, n, t)
    <3>1. d = f.todo[1] /\ Len(f.todo) \in Nat /\ Len(f.todo) >= 1
      BY <1>1, <1>2, Tailed
    <3>2. Len(f.todo) - n = 1 /\ n < Len(f.todo)
      BY <2>a, <3>1
    <3> QED
      BY <2>1, <3>1, <3>2 DEF FromEnd
  <2>3. InCall(t, ft, n)
    <3>1. Left(f) = f.todo
      BY <1>1 DEF Left
    <3> QED
      BY <1>2, <2>b, <2>2, <3>1 DEF InCall
  <2>4. ~InCall(t, ft, n)'
    <3> SUFFICES ASSUME NEW y \in Threads, NEW k \in 1..Len(frames'[y]),
                        frames'[y][k].task = ft, FromEnd(Left(frames'[y][k]), n, t)
                 PROVE  FALSE
      BY DEF InCall, FromEnd, Left
    <3>1. /\ g \in Frame /\ g.task = f.task /\ Left(g) = Tail(f.todo)
          /\ h \in Frame /\ h.task = f.task /\ Left(h) = Tail(f.todo)
      <4>1. Tail(f.todo) \in Seq(Tasks)
        BY <1>1, <1>2, Tailed
      <4> QED
        BY <1>1, <1>2, <4>1 DEF Frame, Left
    <3> HIDE DEF g, h
    <3>2. PICK c \in Frame : c.task = f.task /\ Left(c) = Tail(f.todo) /\ Top(x, c)
      BY <2>1, <3>1
    <3>3. /\ \A z \in Threads : z # x => frames'[z] = frames[z]
          /\ Len(frames'[x]) = Len(frames[x]) /\ frames'[x][1] = c
          /\ \A i \in 2..Len(frames[x]) : frames'[x][i] = frames[x][i]
      BY <1>0, <1>1, <3>2, TopFrame
    <3>4. k \in 1..Len(frames[y]) /\ frames[y][k].task = f.task
      <4>1. CASE y # x
        BY <2>b, <3>3, <4>1
      <4>2. CASE y = x /\ k = 1
        BY <1>2, <2>b, <4>2
      <4>3. CASE y = x /\ k # 1
        <5>1. Len(frames[x]) \in Nat
          BY <1>0
        <5>2. k \in 2..Len(frames[x])
          BY <3>3, <4>3, <5>1
        <5> QED
          BY <2>b, <3>3, <4>3, <5>2
      <4> QED
        BY <4>1, <4>2, <4>3
    <3>5. y = x /\ k = 1
      BY <1>1, <3>4, OneCall
    <3>6. FromEnd(Tail(f.todo), n, t)
      BY <3>2, <3>3, <3>5
    <3> QED
      BY <1>1, <1>2, <2>a, <3>6, TailFromEnd
  <2>5. <<"call", ft, n>> \in Waits(t) /\ <<"call", ft, n>> \notin Waits(t)'
    BY <2>0, <2>3, <2>4 DEF WaitsAre
  <2>6. Waits(t)' \subseteq (Waits(t) \ P) \cup {}
    BY <1>0, <1>3, <2>5, WaitMoves
  <2>7. IsFiniteSet({}) /\ Cardinality({}) = 0 /\ Cardinality(P) = 1
    BY FS_Singleton, FS_EmptySet
  <2>8. P \subseteq Waits(t)
    BY <2>5
  <2>9. remaining'[t] - remaining[t] >= Cardinality({}) - Cardinality(P)
    BY <1>0, <2>1, <2>7
  <2> HIDE DEF P
  <2> QED
    BY <1>0, <2>6, <2>7, <2>8, <2>9, Recount
<1> QED
  BY <1>4, <1>5

\* The places of t in a list are as many from its end as from its front.
LEMMA Reversed ==
  ASSUME NEW s \in Seq(Tasks), NEW d, NEW t, NEW P, NEW Q,
         P = {e \in {"list"} \X {d} \X Nat : e[3] \in 1..Len(s) /\ s[e[3]] = t},
         Q = {e \in {"call"} \X {d} \X Nat : FromEnd(s, e[3], t)},
         IsFiniteSet(P)
  PROVE  IsFiniteSet(Q) /\ Cardinality(Q) <= Cardinality(P)
<1> DEFINE F == [p \in P |-> <<"call", d, Len(s) - p[3]>>]
<1>0. Len(s) \in Nat
  OBVIOUS
<1>1. ASSUME NEW p \in P PROVE <<"call", d, Len(s) - p[3]>> \in Q
  <2>1. p[3] \in 1..Len(s) /\ s[p[3]] = t
    OBVIOUS
  <2>2. Len(s) - p[3] \in Nat /\ Len(s) - p[3] < Len(s) /\ Len(s) - (Len(s) - p[3]) = p[3]
    BY <1>0, <2>1
  <2>3. FromEnd(s, Len(s) - p[3], t)
    BY <2>1, <2>2 DEF FromEnd
  <2> QED
    BY <2>2, <2>3
<1>2. ASSUME NEW q \in Q PROVE \E p \in P : F[p] = q
  <2>1. q = <<"call", d, q[3]>> /\ q[3] \in Nat /\ q[3] < Len(s) /\ s[Len(s) - q[3]] = t
    BY DEF FromEnd
  <2> DEFINE i == Len(s) - q[3]
             p == <<"list", d, i>>
  <2>2. i \in 1..Len(s) /\ i \in Nat /\ Len(s) - i = q[3] /\ s[i] = t
    BY <1>0, <2>1
  <2>3. p \in P /\ p[3] = i
    BY <2>2
  <2>4. F[p] = <<"call", d, Len(s) - p[3]>>
    BY <2>3
  <2>5. F[p] = q
    BY <2>1, <2>2, <2>3, <2>4
  <2> QED
    BY <2>3, <2>5
<1>3. F \in [P -> Q]
  BY <1>1
<1>4. F \in Surjection(P, Q)
  BY <1>2, <1>3 DEF Surjection
<1> QED
  BY <1>4, FS_Surjection

\* NotifyDependents takes the list: what was listed is now to be called.
LEMMA CountSwap ==
  ASSUME Base, Counted, NEW x \in Threads, SettleSwap(x), NEW t \in Tasks
  PROVE  CountHolds(t)'
<1>0. /\ [Next]_vars /\ remaining \in [Tasks -> Int] /\ Base' /\ Typed
      /\ frames \in [Threads -> Seq(Frame)] /\ dependents \in [Tasks -> Seq(Tasks)]
  <2>1. [Next]_vars
    BY DEF Next, SettleStep
  <2> QED
    BY <2>1, StepBase DEF Base, TypedInv, Typed, TaskTypes, ThreadTypes
<1>1. /\ frames[x] # <<>> /\ Head(frames[x]).phase = "swap"
      /\ UNCHANGED <<remaining, spc, sub>>
      /\ dependents' = [dependents EXCEPT ![Head(frames[x]).task] = <<>>]
      /\ Top(x, [Head(frames[x]) EXCEPT !.phase = "notify",
                                        !.todo = dependents[Head(frames[x]).task]])
  BY DEF SettleSwap, submitVars
<1>2. Head(frames[x]) \in Frame /\ Head(frames[x]).task \in Tasks
  BY <1>0, <1>1, Innermost, FrameFields
<1>3. PICK d \in Tasks : d = Head(frames[x]).task
  BY <1>2
<1>4. PICK s \in Seq(Tasks) : s = dependents[d]
  BY <1>0
<1> DEFINE P == {e \in {"list"} \X {d} \X Nat : e[3] \in 1..Len(s) /\ s[e[3]] = t}
           Q == {e \in {"call"} \X {d} \X Nat : FromEnd(s, e[3], t)}
<1>5. WaitsAre /\ WaitsAre'
  BY WaitForms, PTL
<1>6. P \subseteq Waits(t)
  <2> SUFFICES ASSUME NEW e \in P PROVE e \in Waits(t)
    OBVIOUS
  <2>1. PICK i \in Nat : e = <<"list", d, i>> /\ i \in 1..Len(s) /\ s[i] = t
    OBVIOUS
  <2>2. InList(t, d, i)
    BY <1>4, <2>1 DEF InList
  <2> QED
    BY <1>5, <2>1, <2>2 DEF WaitsAre
<1>7. \A e \in P : e \notin Waits(t)'
  <2> SUFFICES ASSUME NEW e \in P PROVE e \notin Waits(t)'
    OBVIOUS
  <2>1. PICK i \in Nat : e = <<"list", d, i>>
    OBVIOUS
  <2>2. dependents'[d] = <<>>
    BY <1>0, <1>1, <1>3
  <2>3. ~InList(t, d, i)'
    BY <2>2 DEF InList
  <2> QED
    BY <1>5, <2>1, <2>3 DEF WaitsAre
<1>8. ASSUME NEW e, Added(t, e) PROVE e \in Q
  <2>1. ASSUME NEW y \in Threads, Attach(y) PROVE FALSE
    <3>1. spc \in [Threads -> SPCs]
      BY <1>0 DEF Typed, ThreadTypes
    <3> QED
      BY <1>1, <2>1, <3>1 DEF Attach, NextDep
  <2>2. ASSUME NEW y \in Threads, Register(y), ~completed[Deps[sub[y]][dep[y]]] PROVE FALSE
    <3>1. spc \in [Threads -> SPCs]
      BY <1>0 DEF Typed, ThreadTypes
    <3> QED
      BY <1>1, <2>2, <3>1 DEF Register
  <2>3. ASSUME NEW y \in Threads, SettleSwap(y) PROVE y = x
    <3> DEFINE c == Head(frames[y])
               r == [c EXCEPT !.phase = "notify", !.todo = dependents[c.task]]
    <3>1. frames[y] # <<>> /\ Head(frames[y]).phase = "swap" /\ Top(y, r)
      BY <2>3 DEF SettleSwap
    <3>2. c \in Frame /\ c = frames[y][1]
      BY <1>0, <3>1, Innermost
    <3>3. r \in Frame /\ r.phase = "notify"
      <4>1. dependents[c.task] \in Seq(Tasks)
        BY <1>0, <3>2, FrameFields
      <4> QED
        BY <3>2, <4>1 DEF Frame
    <3> HIDE DEF r, c
    <3>4. frames'[y][1] = r
      BY <1>0, <3>1, <3>3, TopFrame
    <3>5. frames'[y] # frames[y]
      BY <3>1, <3>2, <3>3, <3>4 DEF c
    <3> QED
      BY <1>0, <1>1, <3>5 DEF Top
  <2>4. ASSUME NEW n \in Nat, FromEnd(s, n, t), e = <<"call", d, n>> PROVE e \in Q
    BY <2>4
  <2> QED
    BY <1>3, <1>4, <1>8, <2>1, <2>2, <2>3, <2>4 DEF Added
<1>9. Waits(t)' \subseteq (Waits(t) \ P) \cup Q
  <2> HIDE DEF P, Q
  <2> QED
    BY <1>0, <1>7, <1>8, WaitMoves
<1>10. IsFiniteSet(P)
  <2>1. IsFiniteSet(Waits(t))
    BY DEF Counted
  <2> HIDE DEF P
  <2> QED
    BY <1>6, <2>1, FS_Subset
<1>11. IsFiniteSet(Q) /\ Cardinality(Q) <= Cardinality(P)
  BY <1>10, Reversed
<1>12. remaining'[t] - remaining[t] >= Cardinality(Q) - Cardinality(P)
  <2>1. Cardinality(Q) \in Nat /\ Cardinality(P) \in Nat
    BY <1>10, <1>11, FS_CardinalityType
  <2>2. remaining'[t] = remaining[t] /\ remaining[t] \in Int
    BY <1>0, <1>1
  <2> HIDE DEF P, Q
  <2> QED
    BY <1>11, <2>1, <2>2
<1> HIDE DEF P, Q
<1> QED
  BY <1>0, <1>6, <1>9, <1>11, <1>12, Recount

\* Every step keeps the count.
LEMMA StepCounted ==
  ASSUME Base, Counted, [Next]_vars
  PROVE  Counted'
<1> SUFFICES ASSUME NEW t \in Tasks PROVE CountHolds(t)'
  BY DEF Counted, CountHolds
<1>0. Owned /\ Typed
  BY Owners DEF Base, TypedInv
<1>1. ASSUME NEW x \in Threads, Register(x) \/ Undo(x) \/ Resolve(x) \/ Attach(x) \/ SettleSwap(x)
      PROVE  CountHolds(t)'
  BY <1>1, CountRegister, CountUndo, CountResolve, CountAttach, CountSwap
<1>2. CASE \A x \in Threads : ~(Register(x) \/ Undo(x) \/ Resolve(x) \/ Attach(x) \/ SettleSwap(x))
  <2>1. UNCHANGED remaining /\ \A e : ~Added(t, e)
    BY <1>0, <1>2 DEF Owned, Added
  <2> QED
    BY <2>1, RecountSame
<1> QED
  BY <1>1, <1>2

\* Nobody waits at the start.
LEMMA InitCounted == Init => Counted
<1> SUFFICES ASSUME Init, NEW t \in Tasks PROVE IsFiniteSet(Waits(t)) /\ remaining[t] >= Cardinality(Waits(t))
  BY DEF Counted
<1>1. Waits(t) = {}
  BY DEF Init, Waits, InList, InCall, InSubmit
<1>2. remaining[t] = 0
  BY DEF Init
<1> QED
  BY <1>1, <1>2, FS_EmptySet

\* The counts are of the types.
LEMMA CountTypes ==
  ASSUME Base, Counted, QueuedJobsExact
  PROVE  TypeOK
<1>0. Typed
  BY DEF Base, TypedInv
<1>1. remaining \in [Tasks -> Nat]
  <2>1. \A t \in Tasks : remaining[t] \in Nat
    <3> SUFFICES ASSUME NEW t \in Tasks PROVE remaining[t] \in Nat
      OBVIOUS
    <3>1. remaining[t] \in Int
      BY <1>0 DEF Typed, TaskTypes
    <3>2. Cardinality(Waits(t)) \in Nat /\ remaining[t] >= Cardinality(Waits(t))
      BY FS_CardinalityType DEF Counted
    <3> QED
      BY <3>1, <3>2
  <2> QED
    BY <1>0, <2>1 DEF Typed, TaskTypes
<1>2. queuedJobs \in Nat
  BY <1>0, CountTerms DEF QueuedJobsExact, Base
<1> QED
  BY <1>0, <1>1, <1>2 DEF TypeOK, Typed, StopTypes, QueueTypes, TaskTypes, WorkerTypes,
     ThreadTypes

\* What the core is for: the state is of its types, so neither queuedJobs nor a
\* task's remainingDependencies ever passes below zero; queuedJobs, which workers
\* and submitters wait on, is exact in every state, and unfinishedJobs, which
\* WaitIdle waits on, as long as the pool runs, although both are counted outside
\* stateMutex (ClaimTask, SettleTask).
THEOREM CountersAlwaysExact == Spec => []CountersExact
<1> DEFINE Inv == CountInv /\ Base /\ UnfinishedExact /\ Counted
<1>1. Init => Inv
  BY InitCount, InitBase, InitUnfinished, InitCounted
<1>2. Inv /\ [Next]_vars => Inv'
  BY StepCount, StepBase, StepUnfinished, StepCounted
<1>3. Inv => CountersExact
  BY CountTypes DEF CountInv, CountersExact
<1> QED
  BY <1>1, <1>2, <1>3, PTL DEF Spec

-----------------------------------------------------------------------------
(* The order of a job and its dependency                                   *)

\* A submitter that still registers dependencies.
Registering == {"register", "attach", "undo"}

\* A task with one dependency is registered in one go.
Simple(t) == Len(Deps[t]) <= 1

\* t is in a list, or in one that a SettleTask has taken.
Mentioned(t) ==
  \/ \E d \in Tasks : t \in Elements(dependents[d])
  \/ \E x \in Threads : \E k \in 1..Len(frames[x]) : t \in Elements(frames[x][k].todo)

\* Every task has one submitter.
OneSubmitter ==
  \A x, y \in Threads : spc[x] # "idle" /\ spc[y] # "idle" /\ sub[x] = sub[y] => x = y

\* While it registers, its task is in no list.
NotYetListed ==
  \A x \in Threads : spc[x] \in Registering /\ Simple(sub[x]) => ~Mentioned(sub[x])

\* A dependency is settled, or will find the task in its list, or is being
\* registered.
Linked ==
  \A t \in submitted : \A i \in 1..Len(Deps[t]) :
    Simple(t) => \/ completed[Deps[t][i]]
                 \/ t \in Elements(dependents[Deps[t][i]])
                 \/ \E x \in Threads : spc[x] \in Registering /\ sub[x] = t

\* A task is scheduled after its dependency is settled.
ScheduledAfter ==
  \A t \in Tasks : scheduled[t] /\ Simple(t) =>
    \A i \in 1..Len(Deps[t]) : completed[Deps[t][i]]

OrderInv == OneSubmitter /\ NotYetListed /\ Linked /\ ScheduledAfter

\* How a submitter comes to register, and how it ends.
LEMMA RegisterMoves ==
  ASSUME TypedInv, [Next]_vars, NEW y \in Threads
  PROVE  /\ spc'[y] \in Registering =>
              (spc[y] \in Registering /\ sub'[y] = sub[y]) \/ \E t \in Tasks : Submit(y, t)
         /\ spc[y] \in Registering =>
              \/ spc'[y] \in Registering /\ sub'[y] = sub[y]
              \/ Register(y) /\ completed[Deps[sub[y]][dep[y]]]
              \/ Attach(y) /\ ~completed[Deps[sub[y]][dep[y]]]
<1>0. spc \in [Threads -> SPCs] /\ sub \in [Threads -> Tasks \cup {NoTask}]
  BY DEF TypedInv, Typed, ThreadTypes
<1> DEFINE Comes == spc'[y] \in Registering =>
              (spc[y] \in Registering /\ sub'[y] = sub[y]) \/ \E t \in Tasks : Submit(y, t)
           Goal == Comes /\ (spc[y] \in Registering =>
              \/ spc'[y] \in Registering /\ sub'[y] = sub[y]
              \/ Register(y) /\ completed[Deps[sub[y]][dep[y]]]
              \/ Attach(y) /\ ~completed[Deps[sub[y]][dep[y]]])
<1>1. ASSUME UNCHANGED submitVars PROVE Goal
  BY <1>1 DEF submitVars
<1>a. ASSUME spc'[y] = spc[y], sub'[y] = sub[y] PROVE Goal
  BY <1>a
<1>b. ASSUME spc'[y] \notin Registering, spc[y] \notin Registering PROVE Goal
  BY <1>b
<1>2. ASSUME UNCHANGED vars PROVE Goal
  BY <1>1, <1>2 DEF vars
<1>3. ASSUME NEW x \in Threads, NEW t \in Tasks, Submit(x, t) PROVE Goal
  <2>1. CASE x = y
    BY <1>3, <2>1 DEF Submit, Registering
  <2>2. CASE x # y
    BY <1>0, <1>3, <1>a, <2>2 DEF Submit
  <2> QED
    BY <2>1, <2>2
<1>4. ASSUME NEW t \in Tasks, DropHandle(t) PROVE Goal
  BY <1>1, <1>4 DEF DropHandle
<1>5. ASSUME NEW x \in Threads, SubmitStep(x) PROVE Goal
  <2>1. CASE x # y
    <3>1. spc'[y] = spc[y] /\ sub'[y] = sub[y]
      BY <1>0, <1>5, <2>1 DEF SubmitStep, Register, Attach, Undo, Schedule, BlockForSpace,
         WakeForSpace, NextDep, Returned
    <3> QED
      BY <1>a, <3>1
  <2>2. CASE x = y /\ Register(y)
    BY <1>0, <2>2 DEF Register, Registering
  <2>3. CASE x = y /\ Attach(y)
    BY <1>0, <2>3 DEF Attach, Registering
  <2>4. CASE x = y /\ Undo(y)
    BY <1>0, <2>4 DEF Undo, Registering
  <2>5. CASE x = y /\ (Schedule(y) \/ BlockForSpace(y) \/ WakeForSpace(y))
    <3>1. spc'[y] \notin Registering /\ spc[y] \notin Registering
      BY <1>0, <2>5 DEF Schedule, BlockForSpace, WakeForSpace, Returned, Registering
    <3> QED
      BY <1>b, <3>1
  <2> QED
    BY <1>5, <2>1, <2>2, <2>3, <2>4, <2>5 DEF SubmitStep
<1>6. ASSUME NEW x \in Threads, SettleStep(x) PROVE Goal
  BY <1>1, <1>6 DEF SettleStep, SettleComplete, SettleSwap, Resolve, ResolveSchedule, SettleDone
<1>7. ASSUME NEW w \in Workers, WorkerStep(w) PROVE Goal
  <2>1. ASSUME BeginClaim(w) \/ TryPop(w) \/ FinishJob(w) \/ NextRound(w) \/ WaitForWork(w)
        PROVE  Goal
    BY <1>1, <2>1 DEF BeginClaim, TryPop, FinishJob, NextRound, WaitForWork
  <2>2. CASE StartJob(w)
    <3>1. UNCHANGED spc \/ \E x \in Threads : spc[x] = "spaceBlocked"
                                              /\ spc' = [spc EXCEPT ![x] = "space"]
      BY <2>2 DEF StartJob
    <3>2. UNCHANGED sub
      BY <2>2 DEF StartJob
    <3>3. \/ spc'[y] = spc[y] /\ sub'[y] = sub[y]
          \/ spc'[y] \notin Registering /\ spc[y] \notin Registering
      BY <1>0, <3>1, <3>2 DEF Registering
    <3> QED
      BY <1>a, <1>b, <3>3
  <2> QED
    BY <1>7, <2>1, <2>2 DEF WorkerStep
<1>8. ASSUME NEW mode \in StopModes, RequestStop(mode) PROVE Goal
  BY <1>1, <1>8 DEF RequestStop
<1>9. ASSUME StopStep PROVE Goal
  <2>1. ASSUME DrainQueue \/ SettleVictim \/ StopReset PROVE Goal
    BY <1>1, <2>1 DEF DrainQueue, SettleVictim, StopReset
  <2>2. ASSUME CancelQueued \/ StopNotify PROVE Goal
    <3>1. UNCHANGED sub /\ (UNCHANGED spc \/ spc' = AllSpaceNotified)
      BY <2>2 DEF CancelQueued, StopNotify
    <3>2. \/ spc'[y] = spc[y] /\ sub'[y] = sub[y]
          \/ spc'[y] \notin Registering /\ spc[y] \notin Registering
      BY <1>0, <3>1 DEF AllSpaceNotified, Registering
    <3> QED
      BY <1>a, <1>b, <3>2
  <2> QED
    BY <1>9, <2>1, <2>2 DEF StopStep
<1>10. ASSUME CheckIdle \/ BlockIdle PROVE Goal
  BY <1>1, <1>10 DEF CheckIdle, BlockIdle
<1>11. Goal
  BY <1>2, <1>3, <1>4, <1>5, <1>6, <1>7, <1>8, <1>9, <1>10 DEF Next, Done
<1> QED
  BY <1>11

\* A task gets into a list by its submitter's hand only.
LEMMA MentionedBefore ==
  ASSUME Base, [Next]_vars, NEW t \in Tasks, Mentioned(t)', ~Mentioned(t)
  PROVE  \E y \in Threads : Attach(y) /\ sub[y] = t /\ ~completed[Deps[t][dep[y]]]
<1>0. /\ Typed /\ TypedInv /\ Known /\ Owned /\ Origins
      /\ dependents \in [Tasks -> Seq(Tasks)] /\ frames \in [Threads -> Seq(Frame)]
      /\ frames' \in [Threads -> Seq(Frame)]
  BY Owners, FrameOrigins, StepBase DEF Base, TypedInv, Typed, TaskTypes, ThreadTypes
<1>1. Elements(<<>>) = {}
  BY DEF Elements
<1>2. ASSUME NEW d \in Tasks, t \in Elements(dependents'[d])
      PROVE  \E y \in Threads : Attach(y) /\ sub[y] = t /\ ~completed[Deps[t][dep[y]]]
  <2>1. t \notin Elements(dependents[d])
    BY DEF Mentioned
  <2>2. dependents'[d] # dependents[d]
    BY <1>2, <2>1
  <2>3. ASSUME NEW x \in Threads, SettleSwap(x) PROVE FALSE
    <3>1. dependents'[d] = <<>>
      BY <1>0, <2>2, <2>3 DEF SettleSwap
    <3> QED
      BY <1>1, <1>2, <3>1
  <2>4. PICK y \in Threads : Attach(y)
    BY <1>0, <2>2, <2>3 DEF Owned
  <2> DEFINE s == dependents[d]
             u == sub[y]
  <2>5. dependents'[d] = Append(s, u) /\ ~completed[Deps[u][dep[y]]]
    BY <1>0, <2>2, <2>4 DEF Attach
  <2>6. s \in Seq(Tasks) /\ u \in Tasks
    BY <1>0, <2>4 DEF Attach, TypedInv, Standing
  <2>7. Elements(Append(s, u)) = Elements(s) \cup {u}
    <3> HIDE DEF s, u
    <3> QED
      BY <2>6, AppendedElements
  <2>8. t = u
    BY <1>2, <2>1, <2>5, <2>7
  <2> QED
    BY <2>4, <2>5, <2>8
<1>3. ASSUME NEW x \in Threads, NEW k \in 1..Len(frames'[x]), t \in Elements(frames'[x][k].todo)
      PROVE  FALSE
  <2> DEFINE g == frames'[x][k]
  <2>1. g.todo # <<>>
    BY <1>1, <1>3
  <2>2. Came(x, g)
    BY <1>0 DEF Origins
  <2>3. PICK j \in 1..Len(frames[x]) : Goes(frames[x][j], g)
    BY <2>1, <2>2 DEF Came
  <2> DEFINE f == frames[x][j]
  <2>4. f \in Frame /\ f.todo \in Seq(Tasks) /\ f.task \in Tasks
    BY <1>0, FrameFields
  <2>5. g.todo = f.todo \/ (f.todo # <<>> /\ g.todo = Tail(f.todo)) \/ g.todo = dependents[f.task]
    BY <2>3 DEF Goes
  <2>6. f.todo # <<>> => Elements(Tail(f.todo)) \subseteq Elements(f.todo)
    BY <2>4, FewerElements
  <2>7. t \notin Elements(f.todo) /\ t \notin Elements(dependents[f.task])
    BY <2>4 DEF Mentioned
  <2> QED
    BY <1>3, <2>5, <2>6, <2>7
<1>4. \/ \E d \in Tasks : t \in Elements(dependents'[d])
      \/ \E x \in Threads : \E k \in 1..Len(frames'[x]) : t \in Elements(frames'[x][k].todo)
  BY DEF Mentioned, Elements
<1> QED
  BY <1>2, <1>3, <1>4

\* Settled tasks stay so.
LEMMA CompletedStays ==
  ASSUME Base, [Next]_vars, NEW t \in Tasks, completed[t]
  PROVE  completed'[t]
<1>1. completed \in [Tasks -> BOOLEAN] /\ Owned
  BY Owners DEF Base, TypedInv, Typed, TaskTypes
<1> QED
  BY <1>1 DEF Owned, SettleComplete

\* A submission is of one task, by one thread.
LEMMA StepSubmitter ==
  ASSUME Base, OneSubmitter, [Next]_vars
  PROVE  OneSubmitter'
<1>0. /\ TypedInv /\ Known /\ spc \in [Threads -> SPCs]
      /\ sub \in [Threads -> Tasks \cup {NoTask}]
  BY DEF Base, TypedInv, Typed, ThreadTypes
<1> SUFFICES ASSUME NEW x \in Threads, NEW y \in Threads, spc'[x] # "idle", spc'[y] # "idle",
                    sub'[x] = sub'[y]
             PROVE  x = y
  BY DEF OneSubmitter
<1>1. ASSUME NEW z \in Threads, NEW v \in Threads, NEW t \in Tasks, Submit(z, t),
             spc'[v] # "idle", sub'[v] = t
      PROVE  v = z
  <2>1. CASE v # z
    <3>1. spc'[v] = spc[v] /\ sub'[v] = sub[v]
      BY <1>0, <1>1, <2>1 DEF Submit
    <3>2. sub[v] \in submitted
      BY <1>0, <1>1, <3>1 DEF Known
    <3> QED
      BY <1>1, <3>1, <3>2 DEF Submit
  <2> QED
    BY <2>1
<1>2. ASSUME NEW z \in Threads, NEW t \in Tasks, Submit(z, t)
      PROVE  sub'[z] = t
  BY <1>0, <1>2 DEF Submit
<1>3. /\ (spc[x] # "idle" /\ sub'[x] = sub[x]) \/ \E t \in Tasks : Submit(x, t)
      /\ (spc[y] # "idle" /\ sub'[y] = sub[y]) \/ \E t \in Tasks : Submit(y, t)
  BY <1>0, SameSubmission
<1>4. ASSUME NEW t \in Tasks, Submit(x, t) PROVE x = y
  BY <1>1, <1>2, <1>4
<1>5. ASSUME NEW t \in Tasks, Submit(y, t) PROVE x = y
  BY <1>1, <1>2, <1>5
<1> QED
  BY <1>3, <1>4, <1>5 DEF OneSubmitter

\* The task that is being registered comes into its list with the last step.
LEMMA StepNotYetListed ==
  ASSUME Base, OrderInv, [Next]_vars
  PROVE  NotYetListed'
<1>0. /\ TypedInv /\ Known /\ spc \in [Threads -> SPCs] /\ dep \in [Threads -> Nat]
      /\ sub \in [Threads -> Tasks \cup {NoTask}]
  BY DEF Base, TypedInv, Typed, ThreadTypes
<1> SUFFICES ASSUME NEW x \in Threads, spc'[x] \in Registering, Simple(sub'[x])
             PROVE  ~Mentioned(sub[x])'
  BY DEF NotYetListed, Simple
<1>1. ASSUME spc[x] \in Registering, sub'[x] = sub[x] PROVE ~Mentioned(sub[x])'
  <2>1. PICK t \in Tasks : t = sub[x]
    BY <1>0, <1>1 DEF TypedInv, Standing, Registering
  <2>2. ~Mentioned(t) /\ Simple(t)
    BY <1>1, <2>1 DEF OrderInv, NotYetListed
  <2>3. ASSUME Mentioned(t)' PROVE FALSE
    <3>1. PICK y \in Threads : Attach(y) /\ sub[y] = t /\ ~completed[Deps[t][dep[y]]]
      BY <2>2, <2>3, MentionedBefore
    <3>2. y = x
      BY <1>1, <2>1, <3>1 DEF OrderInv, OneSubmitter, Attach, Registering
    <3>3. NextDep(x) /\ dep[x] \in 1..Len(Deps[t])
      BY <1>0, <2>1, <3>1, <3>2 DEF Attach, TypedInv, Standing
    <3>4. Len(Deps[t]) \in Nat
      BY Sizes
    <3>5. dep[x] = Len(Deps[t])
      BY <2>2, <3>3, <3>4 DEF Simple
    <3>6. spc'[x] = "schedule"
      BY <1>0, <2>1, <3>3, <3>5 DEF NextDep
    <3> QED
      BY <3>6 DEF Registering
  <2>4. sub'[x] = t
    BY <1>1, <2>1
  <2> QED
    BY <2>3, <2>4 DEF Mentioned, Elements
<1>2. ASSUME NEW t \in Tasks, Submit(x, t) PROVE ~Mentioned(sub[x])'
  <2>1. /\ sub'[x] = t /\ t \notin submitted /\ UNCHANGED <<dependents, frames>>
    BY <1>0, <1>2 DEF Submit, taskVars
  <2>2. ~Mentioned(t)
    BY <1>0, <2>1 DEF Mentioned, Known, CallKnown
  <2> QED
    BY <2>1, <2>2 DEF Mentioned, Elements
<1> QED
  BY <1>0, <1>1, <1>2, RegisterMoves

\* A dependency is settled, or will find the task.
LEMMA StepLinked ==
  ASSUME Base, OrderInv, [Next]_vars
  PROVE  Linked'
<1>0. /\ TypedInv /\ Typed /\ Known /\ Owned /\ spc \in [Threads -> SPCs] /\ dep \in [Threads -> Nat]
      /\ sub \in [Threads -> Tasks \cup {NoTask}] /\ dependents \in [Tasks -> Seq(Tasks)]
      /\ submitted \subseteq Tasks /\ Base'
  BY Owners, StepBase DEF Base, TypedInv, Typed, ThreadTypes, TaskTypes
<1>00. submitted' \subseteq Tasks
  BY <1>0 DEF Base, TypedInv, Typed, TaskTypes
<1> SUFFICES ASSUME NEW t \in submitted', NEW i \in 1..Len(Deps[t]), Simple(t)
             PROVE  \/ completed'[Deps[t][i]]
                    \/ t \in Elements(dependents'[Deps[t][i]])
                    \/ \E x \in Threads : spc'[x] \in Registering /\ sub'[x] = t
  BY DEF Linked, Elements, Simple
<1>1. t \in Tasks /\ Deps[t] \in Seq(Tasks)
  BY <1>00, Sizes
<1>2. PICK d \in Tasks : d = Deps[t][i]
  BY <1>1
<1>3. CASE t \notin submitted
  <2>1. PICK x \in Threads, u \in Tasks : Submit(x, u)
    BY <1>0, <1>3 DEF Owned
  <2>2. u = t
    BY <1>3, <2>1 DEF Submit
  <2>3. Deps[t] # <<>>
    BY <1>1
  <2>4. spc'[x] = "register" /\ sub'[x] = t
    BY <1>0, <2>1, <2>2, <2>3 DEF Submit
  <2> QED
    BY <2>4 DEF Registering
<1>4. CASE t \in submitted
  <2>1. CASE completed[d]
    BY <1>2, <2>1, CompletedStays
  <2>2. CASE t \in Elements(dependents[d])
    <3>1. CASE dependents'[d] = dependents[d]
      BY <1>2, <2>2, <3>1
    <3>2. ASSUME NEW y \in Threads, Attach(y), dependents'[d] # dependents[d]
          PROVE  t \in Elements(dependents'[d])
      <4> DEFINE s == dependents[d]
                 u == sub[y]
      <4>1. dependents'[d] = Append(s, u)
        BY <1>0, <3>2 DEF Attach
      <4>2. s \in Seq(Tasks) /\ u \in Tasks
        BY <1>0, <3>2 DEF Attach, TypedInv, Standing
      <4>3. Elements(Append(s, u)) = Elements(s) \cup {u}
        <5> HIDE DEF s, u
        <5> QED
          BY <4>2, AppendedElements
      <4> QED
        BY <2>2, <4>1, <4>3
    <3>3. ASSUME NEW y \in Threads, SettleSwap(y), dependents'[d] # dependents[d]
          PROVE  completed[d]
      <4>1. /\ Head(frames[y]).task = d /\ frames[y] # <<>>
            /\ Head(frames[y]).phase = "swap"
        BY <1>0, <3>3 DEF SettleSwap
      <4>2. Head(frames[y]) = frames[y][1] /\ 1 \in 1..Len(frames[y])
        BY <1>0, <4>1, Innermost
      <4>3. settles[d] = 1
        BY <4>1, <4>2 DEF Base, PlaceInv, Stages, FrameStages, Settles
      <4> QED
        BY <4>3 DEF Base, PlaceInv, Stages
    <3>4. completed[d] => completed'[d]
      BY CompletedStays
    <3> QED
      BY <1>0, <1>2, <3>1, <3>2, <3>3, <3>4 DEF Owned
  <2>3. ASSUME NEW x \in Threads, spc[x] \in Registering, sub[x] = t
        PROVE  \/ completed'[d] \/ t \in Elements(dependents'[d])
               \/ spc'[x] \in Registering /\ sub'[x] = t
    <3>1. Deps[sub[x]][dep[x]] = d
      <4>1. dep[x] \in 1..Len(Deps[t])
        BY <1>0, <2>3 DEF TypedInv, Standing, Registering
      <4>2. Len(Deps[t]) \in Nat
        BY <1>1
      <4>3. dep[x] = i
        BY <4>1, <4>2 DEF Simple
      <4> QED
        BY <1>2, <2>3, <4>3
    <3>2. CASE spc'[x] \in Registering /\ sub'[x] = sub[x]
      BY <2>3, <3>2
    <3>3. CASE Register(x) /\ completed[Deps[sub[x]][dep[x]]]
      BY <3>1, <3>3, CompletedStays
    <3>4. CASE Attach(x) /\ ~completed[Deps[sub[x]][dep[x]]]
      <4> DEFINE s == dependents[d]
      <4>1. dependents'[d] = Append(s, t) /\ s \in Seq(Tasks)
        BY <1>0, <2>3, <3>1, <3>4 DEF Attach
      <4>2. Elements(Append(s, t)) = Elements(s) \cup {t}
        <5> HIDE DEF s
        <5> QED
          BY <1>1, <4>1, AppendedElements
      <4> QED
        BY <4>1, <4>2
    <3> QED
      BY <1>0, <2>3, <3>2, <3>3, <3>4, RegisterMoves
  <2> QED
    BY <1>2, <1>4, <2>1, <2>2, <2>3 DEF OrderInv, Linked
<1> QED
  BY <1>3, <1>4

\* A task that waits for nothing and is registered has its dependency settled.
LEMMA ReadyAfter ==
  ASSUME Base, Counted, OrderInv, NEW t \in submitted, Simple(t), remaining[t] = 0,
         \A x \in Threads : ~(spc[x] \in Registering /\ sub[x] = t)
  PROVE  \A i \in 1..Len(Deps[t]) : completed[Deps[t][i]]
<1> SUFFICES ASSUME NEW i \in 1..Len(Deps[t]) PROVE completed[Deps[t][i]]
  OBVIOUS
<1>1. t \in Tasks /\ Deps[t] \in Seq(Tasks) /\ dependents \in [Tasks -> Seq(Tasks)]
  BY Sizes DEF Base, TypedInv, Typed, TaskTypes
<1>2. PICK d \in Tasks : d = Deps[t][i]
  BY <1>1
<1>3. ASSUME t \in Elements(dependents[d]) PROVE FALSE
  <2>1. PICK j \in 1..Len(dependents[d]) : dependents[d][j] = t
    BY <1>3 DEF Elements
  <2>2. j \in Nat /\ InList(t, d, j)
    BY <1>1, <2>1 DEF InList
  <2>3. <<"list", d, j>> \in Waits(t)
    BY <1>1, <2>2, WaitForms DEF WaitsAre
  <2>4. IsFiniteSet(Waits(t)) /\ remaining[t] >= Cardinality(Waits(t))
    BY <1>1 DEF Counted
  <2>5. Cardinality(Waits(t)) \in Nat /\ Cardinality(Waits(t)) # 0
    BY <2>3, <2>4, FS_CardinalityType, FS_EmptySet
  <2> QED
    BY <2>4, <2>5
<1> QED
  BY <1>2, <1>3 DEF OrderInv, Linked

\* Only such a task is scheduled.
LEMMA StepScheduled ==
  ASSUME Base, Counted, OrderInv, [Next]_vars
  PROVE  ScheduledAfter'
<1>0. /\ TypedInv /\ Typed /\ Known /\ Owned /\ scheduled \in [Tasks -> BOOLEAN]
  BY Owners DEF Base, TypedInv, Typed, TaskTypes
<1> SUFFICES ASSUME NEW t \in Tasks, scheduled'[t], Simple(t), NEW i \in 1..Len(Deps[t])
             PROVE  completed'[Deps[t][i]]
  BY DEF ScheduledAfter, Simple
<1>1. Deps[t][i] \in Tasks
  BY Sizes
<1>2. CASE scheduled[t]
  BY <1>1, <1>2, CompletedStays DEF OrderInv, ScheduledAfter
<1>3. ASSUME NEW x \in Threads, Schedule(x), ~scheduled[t] PROVE completed'[Deps[t][i]]
  <2>1. t = sub[x] /\ remaining[t] = 0 /\ spc[x] = "schedule"
    BY <1>0, <1>3 DEF Schedule
  <2>2. t \in submitted
    BY <1>0, <2>1 DEF Known
  <2>3. \A y \in Threads : ~(spc[y] \in Registering /\ sub[y] = t)
    BY <2>1 DEF OrderInv, OneSubmitter, Registering
  <2>4. completed[Deps[t][i]]
    BY <2>1, <2>2, <2>3, ReadyAfter
  <2> QED
    BY <1>1, <2>4, CompletedStays
<1>4. ASSUME NEW x \in Threads, ResolveSchedule(x), ~scheduled[t] PROVE completed'[Deps[t][i]]
  <2>1. /\ t = Head(Head(frames[x]).todo) /\ remaining[t] = 0 /\ frames[x] # <<>>
        /\ Head(frames[x]).phase = "sched"
    BY <1>0, <1>4 DEF ResolveSchedule
  <2>2. t \in submitted
    BY <1>0, <2>1, NextKnown
  <2>3. Mentioned(t)
    <3>1. Head(frames[x]).todo # <<>>
      BY <1>0, <2>1, NextDependent
    <3>2. Head(frames[x]) \in Frame /\ Head(frames[x]) = frames[x][1] /\ 1 \in 1..Len(frames[x])
      BY <1>0, <2>1, Innermost
    <3>3. Head(frames[x]).todo \in Seq(Tasks)
      BY <3>2, FrameFields
    <3>4. t \in Elements(Head(frames[x]).todo)
      BY <2>1, <3>1, <3>3, FewerElements
    <3> QED
      BY <3>2, <3>4 DEF Mentioned
  <2>4. \A y \in Threads : ~(spc[y] \in Registering /\ sub[y] = t)
    BY <2>3 DEF OrderInv, NotYetListed
  <2>5. completed[Deps[t][i]]
    BY <2>1, <2>2, <2>4, ReadyAfter
  <2> QED
    BY <1>1, <2>5, CompletedStays
<1> QED
  BY <1>0, <1>2, <1>3, <1>4 DEF Owned

\* The four together are an invariant.
LEMMA StepOrder ==
  ASSUME Base, Counted, OrderInv, [Next]_vars
  PROVE  OrderInv'
  BY StepSubmitter, StepNotYetListed, StepLinked, StepScheduled DEF OrderInv

\* They hold at the start.
LEMMA InitOrder == Init => OrderInv
<1> SUFFICES ASSUME Init PROVE OrderInv
  OBVIOUS
<1>1. OneSubmitter /\ NotYetListed
  BY DEF Init, OneSubmitter, NotYetListed, Registering
<1>2. Linked /\ ScheduledAfter
  BY DEF Init, Linked, ScheduledAfter
<1> QED
  BY <1>1, <1>2 DEF OrderInv

\* A job with one dependency starts after that one is settled.
SimpleInOrder ==
  \A w \in Workers : wpc[w] = "run" /\ Simple(cur[w]) =>
    \A i \in 1..Len(Deps[cur[w]]) : completed[Deps[cur[w]][i]]

\* They put the run of a job after the end of its dependency.
LEMMA OrderHolds ==
  ASSUME Base, OrderInv
  PROVE  SimpleInOrder
<1> SUFFICES ASSUME NEW w \in Workers, wpc[w] = "run", Simple(cur[w])
             PROVE  \A i \in 1..Len(Deps[cur[w]]) : completed[Deps[cur[w]][i]]
  BY DEF SimpleInOrder
<1>1. w \in Threads /\ cur[w] \in InHand(w)
  BY Sizes DEF InHand
<1>2. <<"hand", w>> \in Places /\ Held[<<"hand", w>>] = InHand(w)
  BY <1>1, HeldAt DEF Places, Kinds
<1>3. cur[w] \in Tasks /\ scheduled[cur[w]]
  BY <1>1, <1>2 DEF Base, PlaceInv, Stages
<1> QED
  BY <1>3 DEF OrderInv, ScheduledAfter

\* EnqueueAfter with one dependency, whatever the other tasks have: the job does
\* not start before the dependency is settled.  With more than one it may
\* (RegisterDependency holds no count of its own), which is why the dependencies
\* of the task itself are bounded here, and not those of the others.
THEOREM OneDependencyInOrder == Spec => []SimpleInOrder
<1> DEFINE Inv == Base /\ Counted /\ OrderInv
<1>1. Init => Inv
  BY InitBase, InitCounted, InitOrder
<1>2. Inv /\ [Next]_vars => Inv'
  BY StepBase, StepCounted, StepOrder
<1>3. Inv => SimpleInOrder
  BY OrderHolds
<1> QED
  BY <1>1, <1>2, <1>3, PTL DEF Spec

\* So with one dependency each, no job runs twice, is settled twice or runs
\* before what it waits for.
THEOREM OnceInOrder ==
  ASSUME \A t \in Tasks : Len(Deps[t]) <= 1
  PROVE  Spec => []RunsOnceInOrder
<1> DEFINE Inv == Base /\ Counted /\ OrderInv
<1>1. Init => Inv
  BY InitBase, InitCounted, InitOrder
<1>2. Inv /\ [Next]_vars => Inv'
  BY StepBase, StepCounted, StepOrder
<1>3. Inv => RunsOnceInOrder
  <2> SUFFICES ASSUME Inv PROVE RunsOnceInOrder
    OBVIOUS
  <2>1. SettledOnce
    BY DEF Base, PlaceInv
  <2>2. SimpleInOrder
    BY OrderHolds
  <2>3. \A w \in Workers : wpc[w] = "run" => cur[w] \in Tasks
    BY DEF Base, TypedInv, Standing
  <2>4. AfterDependencies
    BY <2>2, <2>3 DEF SimpleInOrder, Simple, AfterDependencies
  <2> QED
    BY <2>1, <2>4 DEF RunsOnceInOrder
<1> QED
  BY <1>1, <1>2, <1>3, PTL DEF Spec

=============================================================================
