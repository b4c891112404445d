----------------------------- MODULE JobSystem -----------------------------
(***************************************************************************)
(* The kernel's worker pool (src/src/core/Jobs.cpp): per-worker queues     *)
(* with stealing, tasks that wait for other tasks, a bound on the queued   *)
(* jobs, and the two ways to stop.                                         *)
(*                                                                         *)
(* Steps are as fine as the locks and atomics of the code.  What a thread  *)
(* does under stateMutex is one step, except that a thread whose wait      *)
(* predicate was false still holds stateMutex until it blocks: threads     *)
(* that do not take the mutex (ClaimTask, SettleTask) run in that gap.     *)
(*                                                                         *)
(* Thread 0 calls Stop, threads 1..NumWorkers are the workers, the others  *)
(* are clients.  One further thread calls WaitIdle.                        *)
(***************************************************************************)
EXTENDS Integers, Sequences, FiniteSets

CONSTANTS
  NumWorkers,  \* config.workerCount
  NumClients,  \* threads outside the pool that submit jobs
  Tasks,       \* the jobs that are ever submitted
  ByJobs,      \* those that the body of another job submits
  Deps,        \* Deps[t]: the dependencies given to EnqueueAfter, in order
  Prio,        \* Prio[t]: JobPriority, 0 (Low) to 3 (Urgent)
  MaxQueued,   \* config.maxQueuedJobs, 0 is unlimited
  MayDrop,     \* tasks whose JobHandle the caller lets go of
  StopModes,   \* subset of {"drain", "cancel"}
  NoTask

Workers == 1..NumWorkers
Clients == (NumWorkers + 1)..(NumWorkers + NumClients)
Threads == 0..(NumWorkers + NumClients)
Stopper == 0

ASSUME SizeAssumption ==
  NumWorkers \in Nat \ {0} /\ NumClients \in Nat /\ MaxQueued \in Nat
ASSUME TaskAssumption ==
  /\ NoTask \notin Tasks /\ ByJobs \subseteq Tasks /\ MayDrop \subseteq Tasks
  /\ Deps \in [Tasks -> Seq(Tasks)] /\ Prio \in [Tasks -> 0..3]
  /\ StopModes \subseteq {"drain", "cancel"}

VARIABLES
  running, stopRequested, cancelPending,  \* the flags of Impl
  queues,      \* queues[w]: WorkerQueue::tasks, front first
  cursor,      \* enqueueCursor, modulo the number of queues
  queuedJobs, unfinished,                 \* the two counters threads wait on
  remaining, scheduled, completed, dependents,   \* TaskRecord
  handle,      \* handle[t]: the caller keeps t's JobHandle
  outcome,     \* outcome[t]: what t's promise was given
  settles,     \* settles[t]: how often t's promise was set
  ran,         \* ran[t]: how often t's job was invoked
  submitted,   \* tasks accepted by Enqueue or EnqueueAfter
  wpc, cur, scan,   \* each worker: place in WorkerLoop, task, queue it looks at
  spc, sub, dep,    \* each thread: place in Enqueue, task, dependency index
  frames,      \* frames[x]: the SettleTask calls on x's stack, innermost first
  stpc, drained, victims,   \* Stop: its place, the queues CancelQueuedTasks has
                    \* emptied, the canceled tasks still to settle
  idler        \* the thread in WaitIdle

flagVars == <<running, stopRequested, cancelPending>>
queueVars == <<queues, cursor, queuedJobs>>
taskVars == <<remaining, scheduled, completed, dependents>>
ghostVars == <<outcome, settles, ran, submitted, handle>>
workerVars == <<wpc, cur, scan>>
submitVars == <<spc, sub, dep>>
stopVars == <<stpc, drained, victims>>
vars == <<flagVars, queueVars, unfinished, taskVars, ghostVars, workerVars,
          submitVars, frames, stopVars, idler>>

Init ==
  /\ running = TRUE /\ stopRequested = FALSE /\ cancelPending = FALSE
  /\ queues = [w \in Workers |-> <<>>] /\ cursor = 0
  /\ queuedJobs = 0 /\ unfinished = 0
  /\ remaining = [t \in Tasks |-> 0]
  /\ scheduled = [t \in Tasks |-> FALSE]
  /\ completed = [t \in Tasks |-> FALSE]
  /\ dependents = [t \in Tasks |-> <<>>]
  /\ handle = [t \in Tasks |-> FALSE]
  /\ outcome = [t \in Tasks |-> "none"]
  /\ settles = [t \in Tasks |-> 0]
  /\ ran = [t \in Tasks |-> 0]
  /\ submitted = {}
  /\ wpc = [w \in Workers |-> "claim"]
  /\ cur = [w \in Workers |-> NoTask]
  /\ scan = [w \in Workers |-> 0]
  /\ spc = [x \in Threads |-> "idle"]
  /\ sub = [x \in Threads |-> NoTask]
  /\ dep = [x \in Threads |-> 0]
  /\ frames = [x \in Threads |-> <<>>]
  /\ stpc = "idle" /\ drained = 0 /\ victims = <<>>
  /\ idler = "out"

-----------------------------------------------------------------------------
(* stateMutex and the condition variables *)

\* A thread whose predicate was false holds stateMutex until it blocks.
MutexFree == idler # "held" /\ \A x \in Threads : spc[x] # "spaceHeld"

\* Mutant: the bound is off by one.
Full_OffByOne == MaxQueued > 0 /\ queuedJobs > MaxQueued

\* The negation of the wait predicate of queueSpaceAvailable, without stop.
Full == MaxQueued > 0 /\ queuedJobs >= MaxQueued

\* notify_one of workAvailable: some sleeping worker looks again.
NotifyWorker ==
  LET asleep == {w \in Workers : wpc[w] = "asleep"} IN
  IF asleep = {} THEN UNCHANGED wpc
  ELSE \E w \in asleep : wpc' = [wpc EXCEPT ![w] = "wait"]

\* The idle waiter after idle.notify_all.
IdlerNotified == IF idler = "blocked" THEN "check" ELSE idler

\* Submitters after queueSpaceAvailable.notify_all.
AllSpaceNotified ==
  [x \in Threads |-> IF spc[x] = "spaceBlocked" THEN "space" ELSE spc[x]]

-----------------------------------------------------------------------------
(* Scheduling *)

\* The record of a task that only weak pointers refer to is gone.
Alive(t) ==
  \/ handle[t]
  \/ \E w \in Workers : cur[w] = t \/ \E i \in 1..Len(queues[w]) : queues[w][i] = t
  \/ \E x \in Threads : sub[x] = t \/ \E i \in 1..Len(frames[x]) : frames[x][i].task = t
  \/ \E i \in 1..Len(victims) : victims[i] = t

\* Mutant: the worker is not notified.
PushTask_NoNotify(x, t) ==
  LET i == IF x \in Workers THEN x ELSE cursor + 1 IN
  /\ queues' = [queues EXCEPT ![i] = Append(@, t)]
  /\ cursor' = IF x \in Workers THEN cursor ELSE (cursor + 1) % NumWorkers
  /\ queuedJobs' = queuedJobs + 1
  /\ UNCHANGED wpc

\* The end of QueueReadyTask: choose the queue, insert at the front for High
\* and Urgent and for the worker's own queue, else at the back, and wake a
\* worker.  queuedJobs is read only under stateMutex, so the moment between
\* the insertion and fetch_add is not visible.
PushTask(x, t) ==
  LET i == IF x \in Workers THEN x ELSE cursor + 1 IN
  /\ queues' = [queues EXCEPT ![i] =
       IF Prio[t] >= 2 \/ x \in Workers THEN <<t>> \o @ ELSE Append(@, t)]
  /\ cursor' = IF x \in Workers THEN cursor ELSE (cursor + 1) % NumWorkers
  /\ queuedJobs' = queuedJobs + 1
  /\ NotifyWorker

\* A fresh call of SettleTask on top of x's stack; out is what the promise
\* gets, executed tasks have run.
SettleFrame(t, out) ==
  [task |-> t, out |-> out, phase |-> "complete", todo |-> <<>>]

\* Submission: Enqueue and EnqueueAfter accept the task under stateMutex.
\* Dependencies are handles, so they were accepted before.
Submit(x, t) ==
  /\ spc[x] = "idle" /\ frames[x] = <<>>
  /\ IF t \in ByJobs THEN x \in Workers /\ wpc[x] = "run" ELSE x \in Clients
  /\ t \notin submitted
  /\ \A i \in 1..Len(Deps[t]) : Deps[t][i] \in submitted /\ handle[Deps[t][i]]
  /\ MutexFree /\ running /\ ~stopRequested
  /\ submitted' = submitted \cup {t}
  /\ unfinished' = unfinished + 1
  /\ sub' = [sub EXCEPT ![x] = t]
  /\ dep' = [dep EXCEPT ![x] = 1]
  /\ spc' = [spc EXCEPT ![x] = IF Deps[t] = <<>> THEN "schedule" ELSE "register"]
  /\ handle' = [handle EXCEPT ![t] = TRUE]
  /\ UNCHANGED <<flagVars, queueVars, taskVars, outcome, settles, ran,
                 workerVars, frames, stopVars, idler>>

\* The caller lets go of a handle once Enqueue has returned it.
DropHandle(t) ==
  /\ t \in MayDrop /\ handle[t] /\ \A x \in Threads : sub[x] # t
  /\ handle' = [handle EXCEPT ![t] = FALSE]
  /\ UNCHANGED <<flagVars, queueVars, unfinished, taskVars, outcome, settles,
                 ran, submitted, workerVars, submitVars, frames, stopVars, idler>>

\* Where the registration of x goes after its current dependency.
NextDep(x) ==
  /\ dep' = [dep EXCEPT ![x] = @ + 1]
  /\ spc' = [spc EXCEPT ![x] =
       IF dep[x] = Len(Deps[sub[x]]) THEN "schedule" ELSE "register"]

\* Mutant: the edge is added but not counted.
Register_NoCount(x) ==
  LET t == sub[x]  d == Deps[t][dep[x]] IN
  /\ spc[x] = "register"
  /\ IF completed[d] THEN NextDep(x)
     ELSE spc' = [spc EXCEPT ![x] = "attach"] /\ UNCHANGED dep
  /\ UNCHANGED <<flagVars, queueVars, unfinished, taskVars, ghostVars,
                 workerVars, sub, frames, stopVars, idler>>

\* RegisterDependency, first look: a completed dependency needs no edge,
\* otherwise the count goes up before the edge exists.
Register(x) ==
  LET t == sub[x]  d == Deps[t][dep[x]] IN
  /\ spc[x] = "register"
  /\ \/ completed[d] /\ NextDep(x) /\ UNCHANGED remaining
     \/ /\ ~completed[d]
        /\ remaining' = [remaining EXCEPT ![t] = @ + 1]
        /\ spc' = [spc EXCEPT ![x] = "attach"]
        /\ UNCHANGED dep
  /\ UNCHANGED <<flagVars, queueVars, unfinished, scheduled, completed,
                 dependents, ghostVars, workerVars, sub, frames, stopVars, idler>>

\* Mutant: the second look at completed is missing.
Attach_NoRecheck(x) ==
  LET t == sub[x]  d == Deps[t][dep[x]] IN
  /\ spc[x] = "attach"
  /\ dependents' = [dependents EXCEPT ![d] = Append(@, t)]
  /\ NextDep(x)
  /\ UNCHANGED <<flagVars, queueVars, unfinished, remaining, scheduled,
                 completed, ghostVars, workerVars, sub, frames, stopVars, idler>>

\* RegisterDependency under dependentsMutex: look again, then add the edge.
Attach(x) ==
  LET t == sub[x]  d == Deps[t][dep[x]] IN
  /\ spc[x] = "attach"
  /\ \/ /\ ~completed[d]
        /\ dependents' = [dependents EXCEPT ![d] = Append(@, t)]
        /\ NextDep(x)
     \/ /\ completed[d]
        /\ spc' = [spc EXCEPT ![x] = "undo"]
        /\ UNCHANGED <<dependents, dep>>
  /\ UNCHANGED <<flagVars, queueVars, unfinished, remaining, scheduled,
                 completed, ghostVars, workerVars, sub, frames, stopVars, idler>>

\* RegisterDependency: the dependency completed meanwhile; take the count back
\* and start over.
Undo(x) ==
  /\ spc[x] = "undo"
  /\ remaining' = [remaining EXCEPT ![sub[x]] = @ - 1]
  /\ spc' = [spc EXCEPT ![x] = "register"]
  /\ UNCHANGED <<flagVars, queueVars, unfinished, scheduled, completed,
                 dependents, ghostVars, workerVars, sub, dep, frames, stopVars, idler>>

\* The submitter is done with its task.
Returned(x) ==
  /\ spc' = [spc EXCEPT ![x] = "idle"]
  /\ sub' = [sub EXCEPT ![x] = NoTask]

\* TryScheduleIfReady(task, true) at the end of a submission: not ready or
\* already scheduled; refused because the pool stops; blocked because the
\* queue is full; or queued.
Schedule(x) ==
  LET t == sub[x] IN
  /\ spc[x] = "schedule" /\ MutexFree
  /\ \/ /\ remaining[t] # 0 \/ scheduled[t]
        /\ Returned(x)
        /\ UNCHANGED <<scheduled, queueVars, wpc, frames>>
     \/ /\ remaining[t] = 0 /\ ~scheduled[t]
        /\ scheduled' = [scheduled EXCEPT ![t] = TRUE]
        /\ \/ /\ ~running \/ stopRequested
              /\ frames' = [frames EXCEPT ![x] = <<SettleFrame(t, "refused")>> \o @]
              /\ Returned(x)
              /\ UNCHANGED <<queueVars, wpc>>
           \/ /\ running /\ ~stopRequested /\ Full
              /\ spc' = [spc EXCEPT ![x] = "spaceHeld"]
              /\ UNCHANGED <<sub, queueVars, wpc, frames>>
           \/ /\ running /\ ~stopRequested /\ ~Full
              /\ PushTask(x, t)
              /\ Returned(x)
              /\ UNCHANGED frames
  /\ UNCHANGED <<flagVars, unfinished, remaining, completed, dependents,
                 ghostVars, cur, scan, dep, stopVars, idler>>

\* queueSpaceAvailable.wait: the thread blocks and releases stateMutex.
BlockForSpace(x) ==
  /\ spc[x] = "spaceHeld"
  /\ spc' = [spc EXCEPT ![x] = "spaceBlocked"]
  /\ UNCHANGED <<flagVars, queueVars, unfinished, taskVars, ghostVars,
                 workerVars, sub, dep, frames, stopVars, idler>>

\* queueSpaceAvailable.wait returns or waits again.  After the wait the code
\* looks at stopRequested only; with the queues gone the insertion is into
\* nothing, and the thread is lost ("crashed").
WakeForSpace(x) ==
  LET t == sub[x] IN
  /\ spc[x] = "space" /\ MutexFree
  /\ \/ /\ stopRequested
        /\ frames' = [frames EXCEPT ![x] = <<SettleFrame(t, "refused")>> \o @]
        /\ Returned(x)
        /\ UNCHANGED <<queueVars, wpc>>
     \/ /\ ~stopRequested /\ Full
        /\ spc' = [spc EXCEPT ![x] = "spaceHeld"]
        /\ UNCHANGED <<sub, queueVars, wpc, frames>>
     \/ /\ ~stopRequested /\ ~Full /\ running
        /\ PushTask(x, t)
        /\ Returned(x)
        /\ UNCHANGED frames
     \/ /\ ~stopRequested /\ ~Full /\ ~running
        /\ spc' = [spc EXCEPT ![x] = "crashed"]
        /\ UNCHANGED <<sub, queueVars, wpc, frames>>
  /\ UNCHANGED <<flagVars, unfinished, taskVars, ghostVars, cur, scan, dep,
                 stopVars, idler>>

-----------------------------------------------------------------------------
(* Completion: SettleTask and NotifyDependents *)

Executed(out) == out \in {"ok", "failed"}

\* Replace the innermost frame of x.
Top(x, f) == frames' = [frames EXCEPT ![x] = <<f>> \o Tail(@)]

\* SettleTask: set the promise, then the flag.
SettleComplete(x) ==
  LET f == Head(frames[x]) IN
  /\ frames[x] # <<>> /\ f.phase = "complete"
  /\ outcome' = [outcome EXCEPT ![f.task] = f.out]
  /\ settles' = [settles EXCEPT ![f.task] = @ + 1]
  /\ completed' = [completed EXCEPT ![f.task] = TRUE]
  /\ Top(x, [f EXCEPT !.phase = "swap"])
  /\ UNCHANGED <<flagVars, queueVars, unfinished, remaining, scheduled,
                 dependents, ran, submitted, handle, workerVars, submitVars,
                 stopVars, idler>>

\* NotifyDependents: take the list under dependentsMutex.
SettleSwap(x) ==
  LET f == Head(frames[x]) IN
  /\ frames[x] # <<>> /\ f.phase = "swap"
  /\ dependents' = [dependents EXCEPT ![f.task] = <<>>]
  /\ Top(x, [f EXCEPT !.phase = "notify", !.todo = dependents[f.task]])
  /\ UNCHANGED <<flagVars, queueVars, unfinished, remaining, scheduled,
                 completed, ghostVars, workerVars, submitVars, stopVars, idler>>

\* NotifyDependents and ResolveDependency: lock the next weak pointer, count
\* down, and go on to TryScheduleIfReady if this was the last dependency.
Resolve(x) ==
  LET f == Head(frames[x])  d == Head(f.todo) IN
  /\ frames[x] # <<>> /\ f.phase = "notify" /\ f.todo # <<>>
  /\ \/ /\ ~Alive(d)
        /\ Top(x, [f EXCEPT !.todo = Tail(@)])
        /\ UNCHANGED remaining
     \/ /\ Alive(d)
        /\ remaining' = [remaining EXCEPT ![d] = @ - 1]
        /\ IF remaining[d] = 1
           THEN Top(x, [f EXCEPT !.phase = "sched"])
           ELSE Top(x, [f EXCEPT !.todo = Tail(@)])
  /\ UNCHANGED <<flagVars, queueVars, unfinished, scheduled, completed,
                 dependents, ghostVars, workerVars, submitVars, stopVars, idler>>

\* Mutant: scheduled is not tested, so both the submitter and the last
\* dependency may queue the task.
ResolveSchedule_NoCAS(x) ==
  LET f == Head(frames[x])  d == Head(f.todo)
      g == [f EXCEPT !.phase = "notify", !.todo = Tail(@)] IN
  /\ frames[x] # <<>> /\ f.phase = "sched" /\ MutexFree
  /\ running /\ ~stopRequested
  /\ scheduled' = [scheduled EXCEPT ![d] = TRUE]
  /\ PushTask(x, d)
  /\ Top(x, g)
  /\ UNCHANGED <<flagVars, unfinished, remaining, completed, dependents,
                 ghostVars, cur, scan, submitVars, stopVars, idler>>

\* TryScheduleIfReady(dependent, false): the bound does not apply here; a pool
\* that stops settles the dependent with an error, one frame deeper.
ResolveSchedule(x) ==
  LET f == Head(frames[x])  d == Head(f.todo)
      g == [f EXCEPT !.phase = "notify", !.todo = Tail(@)] IN
  /\ frames[x] # <<>> /\ f.phase = "sched" /\ MutexFree
  /\ \/ /\ remaining[d] # 0 \/ scheduled[d]
        /\ Top(x, g)
        /\ UNCHANGED <<scheduled, queueVars, wpc>>
     \/ /\ remaining[d] = 0 /\ ~scheduled[d]
        /\ scheduled' = [scheduled EXCEPT ![d] = TRUE]
        /\ \/ /\ running /\ ~stopRequested
              /\ PushTask(x, d)
              /\ Top(x, g)
           \/ /\ ~running \/ stopRequested
              /\ frames' = [frames EXCEPT ![x] =
                   <<SettleFrame(d, "refused"), g>> \o Tail(@)]
              /\ UNCHANGED <<queueVars, wpc>>
  /\ UNCHANGED <<flagVars, unfinished, remaining, completed, dependents,
                 ghostVars, cur, scan, submitVars, stopVars, idler>>

\* Mutant: only executed tasks are counted down.
SettleDone_ExecutedOnly(x) ==
  LET f == Head(frames[x]) IN
  /\ frames[x] # <<>> /\ f.phase = "notify" /\ f.todo = <<>>
  /\ unfinished' = IF Executed(f.out) THEN unfinished - 1 ELSE unfinished
  /\ idler' = IF unfinished' = 0 THEN IdlerNotified ELSE idler
  /\ frames' = [frames EXCEPT ![x] = Tail(@)]
  /\ UNCHANGED <<flagVars, queueVars, taskVars, ghostVars, workerVars,
                 submitVars, stopVars>>

\* The end of SettleTask: count down, and wake the idle waiter at zero.
\* Neither is under stateMutex.
SettleDone(x) ==
  LET f == Head(frames[x]) IN
  /\ frames[x] # <<>> /\ f.phase = "notify" /\ f.todo = <<>>
  /\ unfinished' = unfinished - 1
  /\ idler' = IF unfinished = 1 THEN IdlerNotified ELSE idler
  /\ frames' = [frames EXCEPT ![x] = Tail(@)]
  /\ UNCHANGED <<flagVars, queueVars, taskVars, ghostVars, workerVars,
                 submitVars, stopVars>>

-----------------------------------------------------------------------------
(* WorkerLoop *)

Victim(w) == ((w - 1 + scan[w]) % NumWorkers) + 1

\* ClaimTask: a pool that cancels hands out no task.
BeginClaim(w) ==
  /\ wpc[w] = "claim"
  /\ wpc' = [wpc EXCEPT ![w] = IF cancelPending THEN "wait" ELSE "scan"]
  /\ UNCHANGED <<flagVars, queueVars, unfinished, taskVars, ghostVars, cur,
                 scan, submitVars, frames, stopVars, idler>>

\* ClaimTask, one queue: the worker's own from the front, then the others from
\* the back, until one has a task.
TryPop(w) ==
  LET v == Victim(w)  q == queues[v] IN
  /\ wpc[w] = "scan"
  /\ \/ /\ q # <<>>
        /\ cur' = [cur EXCEPT ![w] = IF scan[w] = 0 THEN Head(q) ELSE q[Len(q)]]
        /\ queues' = [queues EXCEPT ![v] =
             IF scan[w] = 0 THEN Tail(@) ELSE SubSeq(@, 1, Len(@) - 1)]
        /\ wpc' = [wpc EXCEPT ![w] = "popped"]
        /\ scan' = [scan EXCEPT ![w] = 0]
     \/ /\ q = <<>> /\ scan[w] < NumWorkers - 1
        /\ scan' = [scan EXCEPT ![w] = @ + 1]
        /\ UNCHANGED <<wpc, cur, queues>>
     \/ /\ q = <<>> /\ scan[w] = NumWorkers - 1
        /\ wpc' = [wpc EXCEPT ![w] = "wait"]
        /\ scan' = [scan EXCEPT ![w] = 0]
        /\ UNCHANGED <<cur, queues>>
  /\ UNCHANGED <<flagVars, cursor, queuedJobs, unfinished, taskVars, ghostVars,
                 submitVars, frames, stopVars, idler>>

\* The end of ClaimTask and the start of the job: count down, tell one
\* submitter that there is space.  stateMutex is not taken.
StartJob(w) ==
  LET blocked == {x \in Threads : spc[x] = "spaceBlocked"} IN
  /\ wpc[w] = "popped"
  /\ queuedJobs' = queuedJobs - 1
  /\ IF MaxQueued > 0 /\ blocked # {}
     THEN \E x \in blocked : spc' = [spc EXCEPT ![x] = "space"]
     ELSE UNCHANGED spc
  /\ ran' = [ran EXCEPT ![cur[w]] = @ + 1]
  /\ wpc' = [wpc EXCEPT ![w] = "run"]
  /\ UNCHANGED <<flagVars, queues, cursor, unfinished, taskVars, outcome,
                 settles, submitted, handle, cur, scan, sub, dep, frames,
                 stopVars, idler>>

\* The job returns or throws; ExecuteClaimedTask goes on to SettleTask.
FinishJob(w) ==
  /\ wpc[w] = "run" /\ spc[w] = "idle" /\ frames[w] = <<>>
  /\ \E out \in {"ok", "failed"} :
       frames' = [frames EXCEPT ![w] = <<SettleFrame(cur[w], out)>>]
  /\ wpc' = [wpc EXCEPT ![w] = "settling"]
  /\ UNCHANGED <<flagVars, queueVars, unfinished, taskVars, ghostVars, cur,
                 scan, submitVars, stopVars, idler>>

\* ExecuteClaimedTask returns to the loop and the record is released.
NextRound(w) ==
  /\ wpc[w] = "settling" /\ frames[w] = <<>>
  /\ wpc' = [wpc EXCEPT ![w] = "claim"]
  /\ cur' = [cur EXCEPT ![w] = NoTask]
  /\ UNCHANGED <<flagVars, queueVars, unfinished, taskVars, ghostVars, scan,
                 submitVars, frames, stopVars, idler>>

\* Mutant: a worker exits as soon as the pool stops.
MayExit_AtOnce == stopRequested

\* The loop's exit condition.
MayExit == stopRequested /\ queuedJobs = 0

\* workAvailable.wait and the exit test, under stateMutex.
WaitForWork(w) ==
  /\ wpc[w] = "wait" /\ MutexFree
  /\ wpc' = [wpc EXCEPT ![w] =
       IF ~stopRequested /\ queuedJobs <= 0 THEN "asleep"
       ELSE IF MayExit THEN "exited" ELSE "claim"]
  /\ UNCHANGED <<flagVars, queueVars, unfinished, taskVars, ghostVars, cur,
                 scan, submitVars, frames, stopVars, idler>>

-----------------------------------------------------------------------------
(* Stop *)

\* Stop announces itself under stateMutex.
RequestStop(mode) ==
  /\ stpc = "idle" /\ MutexFree /\ running
  /\ stopRequested' = TRUE
  /\ cancelPending' = (mode = "cancel")
  /\ stpc' = IF mode = "cancel" THEN "cancel" ELSE "notify"
  /\ UNCHANGED <<running, queueVars, unfinished, taskVars, ghostVars,
                 workerVars, submitVars, frames, drained, victims, idler>>

\* CancelQueuedTasks moves the tasks queue after queue, each under its own
\* mutex; workers that did not see cancelPending may still steal from the rest.
DrainQueue ==
  LET w == drained + 1 IN
  /\ stpc = "cancel" /\ drained < NumWorkers
  /\ victims' = victims \o queues[w]
  /\ queues' = [queues EXCEPT ![w] = <<>>]
  /\ drained' = w
  /\ UNCHANGED <<flagVars, cursor, queuedJobs, unfinished, taskVars, ghostVars,
                 workerVars, submitVars, frames, stpc, idler>>

\* Mutant: the counter keeps counting the canceled tasks.
CancelQueued_KeepsCount ==
  /\ stpc = "cancel" /\ drained = NumWorkers
  /\ stpc' = "settle"
  /\ UNCHANGED <<flagVars, queueVars, unfinished, taskVars, ghostVars,
                 workerVars, submitVars, frames, drained, victims, idler>>

\* CancelQueuedTasks from the last queue up to the first SettleTask.
CancelQueued ==
  /\ stpc = "cancel" /\ drained = NumWorkers
  /\ queuedJobs' = queuedJobs - Len(victims)
  /\ spc' = IF MaxQueued > 0 THEN AllSpaceNotified ELSE spc
  /\ stpc' = "settle"
  /\ UNCHANGED <<flagVars, queues, cursor, unfinished, taskVars, ghostVars,
                 workerVars, sub, dep, frames, drained, victims, idler>>

\* CancelQueuedTasks: settle the canceled tasks one after the other.
SettleVictim ==
  /\ stpc = "settle" /\ frames[Stopper] = <<>>
  /\ \/ /\ victims # <<>>
        /\ frames' = [frames EXCEPT ![Stopper] =
             <<SettleFrame(Head(victims), "canceled")>>]
        /\ victims' = Tail(victims)
        /\ UNCHANGED stpc
     \/ /\ victims = <<>>
        /\ stpc' = "notify"
        /\ UNCHANGED <<frames, victims>>
  /\ UNCHANGED <<flagVars, queueVars, unfinished, taskVars, ghostVars,
                 workerVars, submitVars, drained, idler>>

\* Mutant: the sleeping workers are not woken.
StopNotify_NoWorkers ==
  /\ stpc = "notify"
  /\ spc' = AllSpaceNotified
  /\ idler' = IdlerNotified
  /\ stpc' = "join"
  /\ UNCHANGED <<flagVars, queueVars, unfinished, taskVars, ghostVars,
                 workerVars, sub, dep, frames, drained, victims>>

\* Stop wakes everybody.
StopNotify ==
  /\ stpc = "notify"
  /\ wpc' = [w \in Workers |-> IF wpc[w] = "asleep" THEN "wait" ELSE wpc[w]]
  /\ spc' = AllSpaceNotified
  /\ idler' = IdlerNotified
  /\ stpc' = "join"
  /\ UNCHANGED <<flagVars, queueVars, unfinished, taskVars, ghostVars, cur,
                 scan, sub, dep, frames, drained, victims>>

\* Stop joins the workers and resets the pool.
StopReset ==
  /\ stpc = "join" /\ MutexFree /\ \A w \in Workers : wpc[w] = "exited"
  /\ queues' = [w \in Workers |-> <<>>]
  /\ queuedJobs' = 0 /\ unfinished' = 0
  /\ running' = FALSE /\ stopRequested' = FALSE /\ cancelPending' = FALSE
  /\ stpc' = "stopped"
  /\ UNCHANGED <<cursor, taskVars, ghostVars, workerVars, submitVars, frames,
                 drained, victims, idler>>

-----------------------------------------------------------------------------
(* WaitIdle *)

\* WaitIdle evaluates its predicate under stateMutex, on entry and after a
\* notification.
CheckIdle ==
  /\ idler \in {"out", "check"} /\ MutexFree
  /\ idler' = IF unfinished = 0 THEN "returned" ELSE "held"
  /\ UNCHANGED <<flagVars, queueVars, unfinished, taskVars, ghostVars,
                 workerVars, submitVars, frames, stopVars>>

\* idle.wait blocks and releases stateMutex.
BlockIdle ==
  /\ idler = "held"
  /\ idler' = "blocked"
  /\ UNCHANGED <<flagVars, queueVars, unfinished, taskVars, ghostVars,
                 workerVars, submitVars, frames, stopVars>>

SettleStep(x) ==
  SettleComplete(x) \/ SettleSwap(x) \/ Resolve(x) \/ ResolveSchedule(x) \/ SettleDone(x)

SubmitStep(x) ==
  \/ Register(x) \/ Attach(x) \/ Undo(x) \/ Schedule(x)
  \/ BlockForSpace(x) \/ WakeForSpace(x)

WorkerStep(w) ==
  BeginClaim(w) \/ TryPop(w) \/ StartJob(w) \/ FinishJob(w) \/ NextRound(w) \/ WaitForWork(w)

StopStep == DrainQueue \/ CancelQueued \/ SettleVictim \/ StopNotify \/ StopReset

\* Nothing is left to do once the pool is stopped.
Done == stpc = "stopped" /\ UNCHANGED vars

Next ==
  \/ \E x \in Threads, t \in Tasks : Submit(x, t)
  \/ \E t \in Tasks : DropHandle(t)
  \/ \E x \in Threads : SubmitStep(x) \/ SettleStep(x)
  \/ \E w \in Workers : WorkerStep(w)
  \/ \E mode \in StopModes : RequestStop(mode)
  \/ StopStep
  \/ CheckIdle \/ BlockIdle
  \/ Done

Spec == Init /\ [][Next]_vars

(***************************************************************************)
(* Every thread that can run eventually runs, and every job returns.  Weak *)
(* fairness is enough although stateMutex may be taken now and then: it is *)
(* kept across steps only by a thread about to block, finitely often.      *)
(* Nobody has to submit or to stop.                                        *)
(***************************************************************************)
Fairness ==
  /\ \A x \in Threads : WF_vars(SubmitStep(x)) /\ WF_vars(SettleStep(x))
  /\ \A w \in Workers : WF_vars(WorkerStep(w))
  /\ WF_vars(StopStep) /\ WF_vars(CheckIdle) /\ WF_vars(BlockIdle)

FairSpec == Spec /\ Fairness

-----------------------------------------------------------------------------
(* Properties *)

WPCs == {"claim", "scan", "popped", "run", "settling", "wait", "asleep", "exited"}
SPCs == {"idle", "register", "attach", "undo", "schedule",
         "space", "spaceHeld", "spaceBlocked", "crashed"}
Outcomes == {"none", "ok", "failed", "refused", "canceled"}
Frame == [task : Tasks, out : Outcomes \ {"none"},
          phase : {"complete", "swap", "notify", "sched"}, todo : Seq(Tasks)]

TypeOK ==
  /\ running \in BOOLEAN /\ stopRequested \in BOOLEAN /\ cancelPending \in BOOLEAN
  /\ queues \in [Workers -> Seq(Tasks)] /\ cursor \in 0..(NumWorkers - 1)
  /\ queuedJobs \in Nat /\ unfinished \in Int
  /\ remaining \in [Tasks -> Nat]
  /\ scheduled \in [Tasks -> BOOLEAN] /\ completed \in [Tasks -> BOOLEAN]
  /\ dependents \in [Tasks -> Seq(Tasks)]
  /\ handle \in [Tasks -> BOOLEAN] /\ outcome \in [Tasks -> Outcomes]
  /\ settles \in [Tasks -> Nat] /\ ran \in [Tasks -> Nat]
  /\ submitted \subseteq Tasks
  /\ wpc \in [Workers -> WPCs] /\ cur \in [Workers -> Tasks \cup {NoTask}]
  /\ scan \in [Workers -> 0..(NumWorkers - 1)]
  /\ spc \in [Threads -> SPCs] /\ sub \in [Threads -> Tasks \cup {NoTask}]
  /\ dep \in [Threads -> Nat]
  /\ frames \in [Threads -> Seq(Frame)]
  /\ stpc \in {"idle", "cancel", "settle", "notify", "join", "stopped"}
  /\ drained \in 0..NumWorkers /\ victims \in Seq(Tasks)
  /\ idler \in {"out", "check", "held", "blocked", "returned"}

\* A task runs at most once and its promise is set at most once (a second
\* set_value would throw), whichever of a worker, a canceling Stop or a refused
\* submission gets to it first; it runs exactly if its promise says so.
SettledOnce ==
  \A t \in Tasks :
    /\ ran[t] <= 1 /\ settles[t] <= 1
    /\ settles[t] = 1 => (Executed(outcome[t]) <=> ran[t] = 1)

\* The places in the queues q.
Slots(q) == UNION {{w} \X (1..Len(q[w])) : w \in Workers}

\* The workers between popping a task and counting it down, and the tasks that
\* CancelQueuedTasks holds and has not counted down.
Popped == {w \in Workers : wpc[w] = "popped"}
Uncounted == IF stpc = "cancel" THEN Len(victims) ELSE 0

\* The counter the workers and the submitters wait on is the number of tasks in
\* the queues plus those just taken from them: it never sends a worker to sleep,
\* or lets one exit, over a queued task.
QueuedJobsExact ==
  queuedJobs = Cardinality(Slots(queues)) + Cardinality(Popped) + Uncounted

\* A job that runs had all its dependencies settled before.
AfterDependencies ==
  \A w \in Workers : wpc[w] = "run" =>
    \A i \in 1..Len(Deps[cur[w]]) : completed[Deps[cur[w]][i]]

\* No job runs twice, is settled twice or runs before what it waits for.
RunsOnceInOrder == SettledOnce /\ AfterDependencies

\* When the last worker has left, no task is in a queue: Stop clears the queues
\* and would drop it without settling its promise.
NoTaskAbandoned ==
  (\A w \in Workers : wpc[w] = "exited") => \A w \in Workers : queues[w] = <<>>

\* Tasks whose SettleTask has not reached its end.
Unsettled ==
  {t \in submitted : ~completed[t]}
    \cup {t \in Tasks : \E x \in Threads : \E i \in 1..Len(frames[x]) : frames[x][i].task = t}

\* While the pool runs, the counter WaitIdle waits on counts the accepted tasks
\* that are not fully settled.
UnfinishedExact == running => unfinished = Cardinality(Unsettled)

\* The state is of its types and both counters are exact.
CountersExact == TypeOK /\ QueuedJobsExact /\ UnfinishedExact

\* t lies in the queue of some worker.
Queued(t) == \E w \in Workers : \E i \in 1..Len(queues[w]) : queues[w][i] = t

\* A submitter never adds to a queue that is at its bound, although queuedJobs
\* is compared under stateMutex and counted down outside it, and the dependents
\* that a settled task queues pass the bound by (QueueReadyTask, ClaimTask).
SubmissionsBounded ==
  [][MaxQueued > 0 =>
       \A x \in Threads :
         /\ spc[x] \in {"schedule", "space"} /\ spc'[x] # spc[x]
         /\ ~Queued(sub[x])
         /\ \E w \in Workers : \E i \in 1..Len(queues'[w]) : queues'[w][i] = sub[x]
         => Cardinality(Slots(queues)) < MaxQueued]_vars

\* The workers never all sleep over a queued task.
NoSleepOverWork ==
  (\E w \in Workers : queues[w] # <<>>)
    => \E w \in Workers : wpc[w] \notin {"asleep", "exited"}

\* A submitter never inserts into the queues of a pool that is gone.
PushesToLivePool == \A x \in Threads : spc[x] # "crashed"

\* A worker takes from its own queue a task of the highest priority there.
HighestFirst ==
  [][\A w \in Workers :
       wpc[w] = "scan" /\ wpc'[w] = "popped" /\ scan[w] = 0
         => \A i \in 1..Len(queues[w]) : Prio[queues[w][i]] <= Prio[cur'[w]]]_vars

\* Every accepted task is settled.
EverySubmittedSettles == \A t \in Tasks : t \in submitted ~> completed[t]

\* Stop returns.
StopReturns == stpc # "idle" ~> stpc = "stopped"

\* Whatever is accepted is settled, and the caller of Stop gets away.
JobsFinish == EverySubmittedSettles /\ StopReturns

\* WaitIdle returns once every accepted task is settled for good.
WaitIdleReturns ==
  <>[](Unsettled = {}) => <>[](idler \in {"out", "returned"})
=============================================================================
