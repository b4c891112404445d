-------------------------- MODULE ThrottledDispatch --------------------------
(***************************************************************************)
(* Who shares the provider throttle, and on which threads                  *)
(* (AgentKernel::ExecuteChannelDispatch, ChatSessionService).              *)
(*                                                                         *)
(* A chat runs in a job: it waits for its slot on a worker of the job      *)
(* system and keeps the slot while its chain runs.  A channel takes its    *)
(* slot on its I/O thread, submits the chain as a job and gives the slot   *)
(* back when the dispatch returns; the chain runs later, without a slot.   *)
(* Chats and chains share the workers (a lane is a counter), and the       *)
(* kernel leaves the job queue without a limit, so a submission never      *)
(* blocks.  The order in which the workers take jobs is left open.         *)
(***************************************************************************)
EXTENDS ProviderThrottle, FiniteSetsExt

CONSTANTS
  Channel,      \* the I/O threads; the other Threads are chats
  Workers,      \* worker threads of the job system
  MaxRequests   \* bound: chats and dispatches together

VARIABLES
  asked,    \* chats whose job is queued
  handed,   \* I/O threads that have submitted their chain, guard still held
  queued,   \* queued[p]: chains of channels that wait for a worker
  running,  \* running[p]: chains of channels that run
  requests  \* requests so far

dispatchVars == <<asked, handed, queued, running, requests>>
allDispatchVars == <<vars, dispatchVars>>

Chats == Threads \ Channel

DispatchInit ==
  /\ Init
  /\ asked = {} /\ handed = {} /\ requests = 0
  /\ queued = [p \in Providers |-> 0] /\ running = [p \in Providers |-> 0]

(* A worker is held by a chat that runs or waits, or by a channel's chain.  *)
Held == Cardinality({t \in Chats : pc[t] # "idle"})
        + MapThenSumSet(LAMBDA p : running[p], Providers)
FreeWorker == Held < Workers

Request ==
  /\ requests < MaxRequests
  /\ requests' = requests + 1

(* ChatSessionService::HandleUserMessage queues a job                       *)
AskChat(t) ==
  /\ t \in Chats \ asked /\ pc[t] = "idle"
  /\ Request
  /\ asked' = asked \cup {t}
  /\ UNCHANGED <<vars, handed, queued, running>>

(* ... which looks up its provider and enters Acquire on its worker         *)
StartChat(t, p) ==
  /\ t \in asked /\ FreeWorker
  /\ Lookup(t, p)
  /\ asked' = asked \ {t}
  /\ UNCHANGED <<handed, queued, running, requests>>

EndChat(t) ==
  /\ t \in Chats
  /\ Release(t) \/ ReleaseUntracked(t)
  /\ UNCHANGED dispatchVars

(* ExecuteChannelDispatch, up to Acquire                                    *)
Dispatch(t, p) ==
  /\ t \in Channel
  /\ Request
  /\ Lookup(t, p)
  /\ UNCHANGED <<asked, handed, queued, running>>

(* ... EnqueueInLane                                                        *)
SubmitChain(t) ==
  /\ t \in Channel \ handed /\ pc[t] \in {"holding", "untracked"}
  /\ handed' = handed \cup {t}
  /\ queued' = [queued EXCEPT ![prov[t]] = @ + 1]
  /\ UNCHANGED <<vars, asked, running, requests>>

(* ... and the end of its scope, where the guard is destroyed               *)
Returns(t) ==
  /\ t \in handed
  /\ Release(t) \/ ReleaseUntracked(t)
  /\ handed' = handed \ {t}
  /\ UNCHANGED <<asked, queued, running, requests>>

(* The guard moves into the job instead                                     *)
DispatchReturns_GuardInJob(t) ==
  /\ queued[prov[t]] + running[prov[t]] = 0
  /\ Returns(t)

DispatchReturns(t) == Returns(t)

StartChain(p) ==
  /\ queued[p] > 0 /\ FreeWorker
  /\ queued' = [queued EXCEPT ![p] = @ - 1]
  /\ running' = [running EXCEPT ![p] = @ + 1]
  /\ UNCHANGED <<vars, asked, handed, requests>>

EndChain(p) ==
  /\ running[p] > 0
  /\ running' = [running EXCEPT ![p] = @ - 1]
  /\ UNCHANGED <<vars, asked, handed, queued, requests>>

(* Acquire and the administrator, whoever else moves                        *)
Acquires(t) == (Enter(t) \/ WakeUp(t)) /\ UNCHANGED dispatchVars
Reconfigure == \E p \in Providers, n \in Limits : Configure(p, n) /\ UNCHANGED dispatchVars

DispatchNext ==
  \/ \E t \in Threads : AskChat(t) \/ EndChat(t) \/ SubmitChain(t) \/ DispatchReturns(t)
                        \/ Acquires(t)
  \/ \E t \in Threads, p \in Providers : StartChat(t, p) \/ Dispatch(t, p)
  \/ \E p \in Providers : StartChain(p) \/ EndChain(p)
  \/ Reconfigure

(* Threads run, workers take jobs, chains end.  With finitely many requests *)
(* weak fairness stands for the queues of the job system, which are served. *)
Chat(t) == EndChat(t) \/ \E p \in Providers : StartChat(t, p)
DispatchFairness ==
  /\ \A t \in Threads :
       /\ WF_allDispatchVars(Acquires(t)) /\ WF_allDispatchVars(Chat(t))
       /\ WF_allDispatchVars(SubmitChain(t) \/ DispatchReturns(t))
  /\ \A p \in Providers :
       WF_allDispatchVars(StartChain(p)) /\ WF_allDispatchVars(EndChain(p))

DispatchSpec == DispatchInit /\ [][DispatchNext]_allDispatchVars /\ DispatchFairness

-----------------------------------------------------------------------------
(* Workers and slots never wait for each other for good: a chain that was   *)
(* submitted gets a worker, although every worker may be held by a chat     *)
(* that waits for the slot its I/O thread still holds.                      *)
Waits(p) == queued[p] > 0
ChainsGetWorkers == \A p \in Providers : Waits(p) ~> ~Waits(p)

(* "Per-provider concurrency throttling" (README.md:142).  The code does    *)
(* not keep it for channels: their chains run after the slot is given back. *)
InFlight(p) ==
  running[p] + Cardinality({t \in Chats : prov[t] = p /\ pc[t] \in {"holding", "untracked"}})
ProviderLimited == \A p \in Providers : 0 \notin Limits => InFlight(p) <= MaxLimit
=============================================================================
