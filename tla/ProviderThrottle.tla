------------------------- MODULE ProviderThrottle -------------------------
(***************************************************************************)
(* The per-provider concurrency limiter of the kernel                      *)
(* (src/src/kernel/ProviderThrottle.cpp).  A thread that wants to run an   *)
(* LLM chain calls Acquire, keeps the SlotGuard it gets while the chain    *)
(* runs, and gives the slot back when the guard is released.               *)
(*                                                                         *)
(* The limit of a provider is configuration that the administrator may     *)
(* change at any time.  Acquire reads it before it takes m_mutex, so the   *)
(* value it compares with may be stale: Lookup and Enter are two steps.    *)
(***************************************************************************)
EXTENDS Integers, Sequences, FiniteSets

CONSTANTS
  Threads,    \* the threads that run chains
  Providers,  \* provider ids
  Limits,     \* the concurrency values an administrator configures
  MaxLimit    \* a bound on them

ASSUME LimitsAssumption ==
  /\ Limits \subseteq Int
  /\ MaxLimit \in Nat
  /\ \A n \in Limits : n <= MaxLimit
ASSUME ThreadsAssumption == IsFiniteSet(Threads)

VARIABLES
  limit,      \* limit[p]: what m_lookup(p) answers now
  active,     \* active[p]: SlotPool::active, 0 when m_pools has no pool
  waiting,    \* waiting[p]: SlotPool::waiting, the threads behind the promises
  pc,         \* pc[t]: where thread t is
  prov,       \* prov[t]: the provider of t's current or last Acquire
  seen        \* seen[t]: the local variable concurrency of Acquire

vars == <<limit, active, waiting, pc, prov, seen>>

(***************************************************************************)
(* "idle":      holds no guard.                                            *)
(* "entering":  inside Acquire, before m_mutex.                            *)
(* "waiting":   blocked on future.wait().                                  *)
(* "granted":   its promise is set, it has not returned from Acquire yet.  *)
(* "holding":   has a guard of this throttle.                              *)
(* "untracked": has the guard of an unlimited provider, m_throttle null.   *)
(***************************************************************************)
PCs == {"idle", "entering", "waiting", "granted", "holding", "untracked"}

Init ==
  /\ limit \in [Providers -> Limits]
  /\ active = [p \in Providers |-> 0]
  /\ waiting = [p \in Providers |-> <<>>]
  /\ pc = [t \in Threads |-> "idle"]
  /\ prov \in [Threads -> Providers]
  /\ seen = [t \in Threads |-> 0]

\* Acquire up to the lock: read the limit; unlimited providers get a guard
\* that is not tracked.
Lookup(t, p) ==
  /\ pc[t] = "idle"
  /\ prov' = [prov EXCEPT ![t] = p]
  /\ seen' = [seen EXCEPT ![t] = limit[p]]
  /\ pc' = [pc EXCEPT ![t] = IF limit[p] <= 0 THEN "untracked" ELSE "entering"]
  /\ UNCHANGED <<limit, active, waiting>>

\* Mutant: the comparison of Acquire admits one thread too many.
HasFreeSlot_OffByOne(t) == active[prov[t]] <= seen[t]

\* Acquire's test under m_mutex, against the limit it looked up earlier.
HasFreeSlot(t) == active[prov[t]] < seen[t]

\* Acquire under m_mutex: take a free slot, or queue a promise.
Enter(t) ==
  LET p == prov[t] IN
  /\ pc[t] = "entering"
  /\ \/ /\ HasFreeSlot(t)
        /\ active' = [active EXCEPT ![p] = @ + 1]
        /\ pc' = [pc EXCEPT ![t] = "holding"]
        /\ UNCHANGED waiting
     \/ /\ ~HasFreeSlot(t)
        /\ waiting' = [waiting EXCEPT ![p] = Append(@, t)]
        /\ pc' = [pc EXCEPT ![t] = "waiting"]
        /\ UNCHANGED active
  /\ UNCHANGED <<limit, prov, seen>>

\* future.wait() returns and Acquire hands out the transferred slot.
WakeUp(t) ==
  /\ pc[t] = "granted"
  /\ pc' = [pc EXCEPT ![t] = "holding"]
  /\ UNCHANGED <<limit, active, waiting, prov, seen>>

\* Mutant: the counter drops although the slot was handed to a waiter.
TransferSlot_Decrements(t) ==
  LET p == prov[t] IN
  /\ waiting[p] # <<>>
  /\ waiting' = [waiting EXCEPT ![p] = Tail(@)]
  /\ pc' = [pc EXCEPT ![t] = "idle", ![Head(waiting[p])] = "granted"]
  /\ active' = [active EXCEPT ![p] = @ - 1]

\* Mutant: the promise is set but stays in the queue.
TransferSlot_KeepsPromise(t) ==
  LET p == prov[t] IN
  /\ waiting[p] # <<>>
  /\ pc' = [pc EXCEPT ![t] = "idle", ![Head(waiting[p])] = "granted"]
  /\ UNCHANGED <<active, waiting>>

\* Mutant: the newest waiter is served first.
TransferSlot_Newest(t) ==
  LET p == prov[t] IN
  LET n == Len(waiting[p]) IN
  /\ waiting[p] # <<>>
  /\ waiting' = [waiting EXCEPT ![p] = SubSeq(@, 1, n - 1)]
  /\ pc' = [pc EXCEPT ![t] = "idle", ![waiting[p][n]] = "granted"]
  /\ UNCHANGED active

\* Mutant: the slot goes back to the pool and nobody is woken.
TransferSlot_WakesNobody(t) ==
  LET p == prov[t] IN
  /\ waiting[p] # <<>>
  /\ active' = [active EXCEPT ![p] = @ - 1]
  /\ pc' = [pc EXCEPT ![t] = "idle"]
  /\ UNCHANGED waiting

\* A waiter exists: the slot goes to the oldest one and stays counted.
TransferSlot(t) ==
  LET p == prov[t] IN
  /\ waiting[p] # <<>>
  /\ waiting' = [waiting EXCEPT ![p] = Tail(@)]
  /\ pc' = [pc EXCEPT ![t] = "idle", ![Head(waiting[p])] = "granted"]
  /\ UNCHANGED active

\* No waiter: the slot goes back to the pool.
ReturnSlot(t) ==
  LET p == prov[t] IN
  /\ waiting[p] = <<>>
  /\ active' = [active EXCEPT ![p] = @ - 1]
  /\ pc' = [pc EXCEPT ![t] = "idle"]
  /\ UNCHANGED waiting

\* SlotGuard::Release of a tracked guard.
Release(t) ==
  /\ pc[t] = "holding"
  /\ TransferSlot(t) \/ ReturnSlot(t)
  /\ UNCHANGED <<limit, prov, seen>>

\* SlotGuard::Release of a guard with m_throttle null does nothing.
ReleaseUntracked(t) ==
  /\ pc[t] = "untracked"
  /\ pc' = [pc EXCEPT ![t] = "idle"]
  /\ UNCHANGED <<limit, active, waiting, prov, seen>>

\* The administrator changes a provider's concurrency.
Configure(p, n) ==
  /\ limit' = [limit EXCEPT ![p] = n]
  /\ UNCHANGED <<active, waiting, pc, prov, seen>>

Next ==
  \/ \E t \in Threads, p \in Providers : Lookup(t, p)
  \/ \E t \in Threads : Enter(t)
  \/ \E t \in Threads : WakeUp(t)
  \/ \E t \in Threads : Release(t)
  \/ \E t \in Threads : ReleaseUntracked(t)
  \/ \E p \in Providers, n \in Limits : Configure(p, n)

Spec == Init /\ [][Next]_vars

(***************************************************************************)
(* The scheduler runs every thread, and every chain ends: ChainRunner      *)
(* bounds the steps of a chain and the HTTP client its requests.           *)
(***************************************************************************)
Fairness ==
  \A t \in Threads : WF_vars(Enter(t)) /\ WF_vars(WakeUp(t)) /\ WF_vars(Release(t))

FairSpec == Spec /\ Fairness

-----------------------------------------------------------------------------
TypeOK ==
  /\ limit \in [Providers -> Limits]
  /\ active \in [Providers -> Nat]
  /\ waiting \in [Providers -> Seq(Threads)]
  /\ pc \in [Threads -> PCs]
  /\ prov \in [Threads -> Providers]
  /\ seen \in [Threads -> Limits \cup {0}]

\* The threads that own a tracked slot of p.
Owners(p) == {t \in Threads : prov[t] = p /\ pc[t] \in {"granted", "holding"}}

\* The counter of a pool is the number of slots that are really out, however
\* acquisitions, hand-overs and releases interleave: a slot handed to a waiter
\* is neither counted twice nor lost.
SlotsConserved == \A p \in Providers : active[p] = Cardinality(Owners(p))

\* A thread is queued at most once, only for the provider it asked for, and
\* exactly while it is blocked: no promise is set twice or for nobody.
QueueMatchesThreads ==
  /\ \A p \in Providers : \A i \in 1..Len(waiting[p]) :
       pc[waiting[p][i]] = "waiting" /\ prov[waiting[p][i]] = p
  /\ \A p \in Providers : \A i, j \in 1..Len(waiting[p]) :
       i # j => waiting[p][i] # waiting[p][j]
  /\ \A t \in Threads : pc[t] = "waiting" =>
       \E i \in 1..Len(waiting[prov[t]]) : waiting[prov[t]][i] = t

\* Nobody is left blocked on a pool that has no slot out: only a release wakes
\* a waiter, so such a thread would sleep forever.
NoStrandedWaiter == \A p \in Providers : waiting[p] # <<>> => active[p] > 0

\* However the limit is changed while threads wait, a provider never has more
\* tracked chains in flight than the largest limit it was ever given.
InFlightBounded == \A p \in Providers : active[p] <= MaxLimit

\* A slot is handed over in arrival order: the thread that is woken was the
\* oldest waiter of its provider.
OldestFirst ==
  \A t \in Threads : pc[t] = "waiting" /\ pc'[t] = "granted"
    => t = Head(waiting[prov[t]])
HandOverIsFIFO == [][OldestFirst]_vars

\* Every thread that calls Acquire gets its slot, whatever happens to the limit
\* meanwhile.
AcquireReturns ==
  \A t \in Threads : pc[t] \in {"entering", "waiting"} ~> pc[t] = "holding"

=============================================================================
