---------------------- MODULE ProviderThrottleProofs ----------------------
(***************************************************************************)
(* Proofs about ProviderThrottle, for any finite set of threads, any set   *)
(* of providers and any bounded set of limits.                             *)
(*                                                                         *)
(* The safety invariants are proved together: the counter is bounded       *)
(* because it counts owners, a queued thread has an owner ahead of it      *)
(* because it was queued against a positive limit, and both rest on the    *)
(* queue holding exactly the blocked threads.  At the end, the same for    *)
(* the chats and channel dispatches of ThrottledDispatch, which use it.    *)
(***************************************************************************)
EXTENDS ThrottledDispatch, FiniteSetTheorems, SequenceTheorems, TLAPS

\* A thread that is about to lock m_mutex looked up a positive limit.
SeenIsPositive ==
  \A t \in Threads : pc[t] = "entering" => seen[t] \in Limits /\ seen[t] > 0

IInv ==
  /\ TypeOK
  /\ SeenIsPositive
  /\ QueueMatchesThreads
  /\ SlotsConserved
  /\ NoStrandedWaiter
  /\ InFlightBounded

\* The set of owners of a pool is finite.
LEMMA OwnersFinite ==
  ASSUME NEW p \in Providers
  PROVE  IsFiniteSet(Owners(p)) /\ Cardinality(Owners(p)) \in Nat
<1>1. Owners(p) \in SUBSET Threads
  BY DEF Owners
<1> QED
  BY <1>1, ThreadsAssumption, FS_Subset, FS_CardinalityType

\* Init establishes the inductive invariant.
LEMMA InitIInv == Init => IInv
<1> SUFFICES ASSUME Init PROVE IInv
  OBVIOUS
<1>1. TypeOK /\ SeenIsPositive
  BY DEF Init, TypeOK, PCs, SeenIsPositive
<1>2. QueueMatchesThreads /\ NoStrandedWaiter
  BY DEF Init, QueueMatchesThreads, NoStrandedWaiter
<1>3. SlotsConserved
  <2>1. \A p \in Providers : Owners(p) = {}
    BY DEF Init, Owners
  <2> QED
    BY <2>1, FS_EmptySet DEF Init, SlotsConserved
<1>4. InFlightBounded
  BY LimitsAssumption DEF Init, InFlightBounded
<1> QED
  BY <1>1, <1>2, <1>3, <1>4 DEF IInv

\* Type correctness and the positive limit of an entering thread are kept.
LEMMA StepType ==
  ASSUME IInv, [Next]_vars
  PROVE  TypeOK' /\ SeenIsPositive'
<1> USE DEF TypeOK, PCs, SeenIsPositive
<1>0. TypeOK /\ SeenIsPositive /\ QueueMatchesThreads /\ SlotsConserved
  BY DEF IInv
<1>1. CASE \E t \in Threads, p \in Providers : Lookup(t, p)
  <2> PICK t \in Threads, p \in Providers : Lookup(t, p)
    BY <1>1
  <2>1. limit[p] \in Limits /\ limit[p] \in Int
    BY <1>0, LimitsAssumption
  <2>2. TypeOK'
    BY <1>0, <2>1 DEF Lookup
  <2>3. SeenIsPositive'
    BY <1>0, <2>1 DEF Lookup
  <2> QED
    BY <2>2, <2>3
<1>2. CASE \E t \in Threads : Enter(t)
  <2> PICK t \in Threads : Enter(t)
    BY <1>2
  <2>1. Append(waiting[prov[t]], t) \in Seq(Threads)
    BY <1>0, AppendProperties
  <2>p. prov[t] \in Providers
    BY <1>0
  <2>2. active' \in [Providers -> Nat] /\ waiting' \in [Providers -> Seq(Threads)]
    <3>1. CASE HasFreeSlot(t)
      BY <1>0, <2>p, <3>1 DEF Enter
    <3>2. CASE ~HasFreeSlot(t)
      <4>1. waiting' = [waiting EXCEPT ![prov[t]] = Append(waiting[prov[t]], t)]
        BY <3>2 DEF Enter
      <4>2. active' = active
        BY <3>2 DEF Enter
      <4> QED
        BY <1>0, <2>p, <2>1, <4>1, <4>2
    <3> QED
      BY <3>1, <3>2
  <2>3. pc' \in [Threads -> PCs] /\ \A u \in Threads : pc'[u] = "entering" => pc[u] = "entering"
    BY <1>0 DEF Enter
  <2> QED
    BY <1>0, <2>2, <2>3 DEF Enter
<1>3. CASE \E t \in Threads : WakeUp(t)
  BY <1>0, <1>3 DEF WakeUp
<1>4. CASE \E t \in Threads : Release(t)
  <2> PICK t \in Threads : Release(t)
    BY <1>4
  <2>1. CASE TransferSlot(t)
    <3>1. /\ Head(waiting[prov[t]]) \in Threads
          /\ Tail(waiting[prov[t]]) \in Seq(Threads)
      BY <1>0, <2>1, HeadTailProperties DEF TransferSlot
    <3> QED
      BY <1>0, <2>1, <3>1 DEF Release, TransferSlot
  <2>2. CASE ReturnSlot(t)
    <3>1. t \in Owners(prov[t])
      BY <1>0 DEF Release, Owners
    <3>2. active[prov[t]] > 0
      BY <1>0, <3>1, OwnersFinite, FS_EmptySet DEF SlotsConserved
    <3> QED
      BY <1>0, <2>2, <3>2 DEF Release, ReturnSlot
  <2> QED
    BY <2>1, <2>2 DEF Release
<1>5. CASE \E t \in Threads : ReleaseUntracked(t)
  BY <1>0, <1>5 DEF ReleaseUntracked
<1>6. CASE \E p \in Providers, n \in Limits : Configure(p, n)
  BY <1>0, <1>6 DEF Configure
<1>7. CASE UNCHANGED vars
  BY <1>0, <1>7 DEF vars
<1> QED
  BY <1>1, <1>2, <1>3, <1>4, <1>5, <1>6, <1>7 DEF Next

\* A thread outside the queues may change state freely as long as it is not
\* blocked afterwards.
LEMMA QueueUndisturbed ==
  ASSUME TypeOK, QueueMatchesThreads,
         NEW t \in Threads, NEW s \in PCs,
         pc[t] # "waiting", s # "waiting",
         pc' = [pc EXCEPT ![t] = s], waiting' = waiting,
         prov' = prov
  PROVE  QueueMatchesThreads'
<1>1. \A p \in Providers : \A i \in 1..Len(waiting[p]) : waiting[p][i] \in Threads
  BY ElementOfSeq DEF TypeOK
<1>2. \A p \in Providers : \A i \in 1..Len(waiting[p]) : waiting[p][i] # t
  BY DEF QueueMatchesThreads
<1>3. \A u \in Threads : u # t => pc'[u] = pc[u]
  BY DEF TypeOK
<1>4. pc'[t] # "waiting"
  BY DEF TypeOK
<1> QED
  BY <1>1, <1>2, <1>3, <1>4 DEF QueueMatchesThreads

\* Queueing and hand-over keep the queues equal to the blocked threads.
LEMMA StepQueue ==
  ASSUME IInv, [Next]_vars
  PROVE  QueueMatchesThreads'
<1> USE DEF QueueMatchesThreads
<1>0. TypeOK /\ QueueMatchesThreads
  BY DEF IInv
<1>e. \A p \in Providers : /\ Len(waiting[p]) \in Nat
                           /\ \A i \in 1..Len(waiting[p]) : waiting[p][i] \in Threads
  BY <1>0, ElementOfSeq, LenProperties DEF TypeOK
<1>1. CASE \E t \in Threads, p \in Providers : Lookup(t, p)
  <2> PICK t \in Threads, p \in Providers : Lookup(t, p)
    BY <1>1
  <2> QED
    BY <1>0 DEF Lookup, TypeOK
<1>2. CASE \E t \in Threads : Enter(t)
  <2> PICK t \in Threads : Enter(t)
    BY <1>2
  <2>1. CASE HasFreeSlot(t)
    BY <1>0, <2>1, QueueUndisturbed DEF Enter, PCs
  <2>2. CASE ~HasFreeSlot(t)
    <3> DEFINE q == waiting[prov[t]]
    <3>1. /\ q \in Seq(Threads)
          /\ Len(q) \in Nat
          /\ Len(Append(q, t)) = Len(q) + 1
          /\ \A i \in 1..Len(q) : Append(q, t)[i] = q[i]
          /\ Append(q, t)[Len(q) + 1] = t
      BY <1>0, AppendProperties, LenProperties DEF TypeOK
    <3>2. \A i \in 1..Len(q) : q[i] # t
      BY <1>0 DEF Enter, TypeOK
    <3>3. /\ waiting' = [waiting EXCEPT ![prov[t]] = Append(q, t)]
          /\ pc' = [pc EXCEPT ![t] = "waiting"]
          /\ prov' = prov
      BY <2>2 DEF Enter
    <3> HIDE DEF q
    <3>4. \A p \in Providers : \A i \in 1..Len(waiting'[p]) :
            pc'[waiting'[p][i]] = "waiting" /\ prov'[waiting'[p][i]] = p
      <4> SUFFICES ASSUME NEW p \in Providers, NEW i \in 1..Len(waiting'[p])
                   PROVE  /\ pc'[waiting'[p][i]] = "waiting"
                          /\ prov'[waiting'[p][i]] = p
        OBVIOUS
      <4>1. CASE p = prov[t]
        <5>1. waiting'[p] = Append(q, t)
          BY <1>0, <3>3, <4>1 DEF TypeOK
        <5>2. CASE i = Len(q) + 1
          BY <1>0, <3>1, <3>3, <4>1, <5>1, <5>2 DEF TypeOK
        <5>3. CASE i \in 1..Len(q)
          BY <1>0, <1>e, <3>1, <3>2, <3>3, <4>1, <5>1, <5>3 DEF TypeOK, q
        <5> QED
          BY <3>1, <5>1, <5>2, <5>3
      <4>2. CASE p # prov[t]
        BY <1>0, <1>e, <3>3, <4>2 DEF TypeOK
      <4> QED
        BY <4>1, <4>2
    <3>5. \A p \in Providers : \A i, j \in 1..Len(waiting'[p]) :
            i # j => waiting'[p][i] # waiting'[p][j]
      BY <1>0, <3>1, <3>2, <3>3 DEF TypeOK, q
    <3>6. \A u \in Threads : pc'[u] = "waiting" =>
            \E i \in 1..Len(waiting'[prov'[u]]) : waiting'[prov'[u]][i] = u
      <4> SUFFICES ASSUME NEW u \in Threads, pc'[u] = "waiting"
                   PROVE  \E i \in 1..Len(waiting'[prov'[u]]) : waiting'[prov'[u]][i] = u
        OBVIOUS
      <4>1. CASE u = t
        BY <1>0, <3>1, <3>3, <4>1 DEF TypeOK
      <4>2. CASE u # t
        <5>1. pc[u] = "waiting"
          BY <1>0, <3>3, <4>2 DEF TypeOK
        <5>2. PICK i \in 1..Len(waiting[prov[u]]) : waiting[prov[u]][i] = u
          BY <1>0, <5>1
        <5>3. CASE prov[u] = prov[t]
          BY <1>0, <3>1, <3>3, <5>2, <5>3 DEF TypeOK, q
        <5>4. CASE prov[u] # prov[t]
          BY <1>0, <3>3, <5>2, <5>4 DEF TypeOK
        <5> QED
          BY <5>3, <5>4
      <4> QED
        BY <4>1, <4>2
    <3> QED
      BY <3>4, <3>5, <3>6
  <2> QED
    BY <2>1, <2>2
<1>3. CASE \E t \in Threads : WakeUp(t)
  BY <1>0, <1>3, QueueUndisturbed DEF WakeUp, PCs
<1>4. CASE \E t \in Threads : Release(t)
  <2> PICK t \in Threads : Release(t)
    BY <1>4
  <2>1. CASE TransferSlot(t)
    <3> DEFINE q == waiting[prov[t]]
    <3>1. /\ q \in Seq(Threads) /\ q # <<>>
          /\ Len(q) \in Nat \ {0}
          /\ Head(q) = q[1]
          /\ Len(Tail(q)) = Len(q) - 1
          /\ \A i \in 1..Len(Tail(q)) : Tail(q)[i] = q[i + 1]
      BY <1>0, <2>1, HeadTailProperties, EmptySeq DEF TypeOK, TransferSlot
    <3>2. /\ waiting' = [waiting EXCEPT ![prov[t]] = Tail(q)]
          /\ pc' = [pc EXCEPT ![t] = "idle", ![q[1]] = "granted"]
          /\ prov' = prov
          /\ pc[t] = "holding"
      BY <2>1, <3>1 DEF Release, TransferSlot
    <3>3. q[1] \in Threads /\ pc[q[1]] = "waiting" /\ prov[q[1]] = prov[t]
      BY <1>0, <3>1 DEF TypeOK
    <3> HIDE DEF q
    <3>4. \A p \in Providers : \A i \in 1..Len(waiting'[p]) :
            pc'[waiting'[p][i]] = "waiting" /\ prov'[waiting'[p][i]] = p
      <4> SUFFICES ASSUME NEW p \in Providers, NEW i \in 1..Len(waiting'[p])
                   PROVE  /\ pc'[waiting'[p][i]] = "waiting"
                          /\ prov'[waiting'[p][i]] = p
        OBVIOUS
      <4>1. CASE p = prov[t]
        <5>0. waiting'[p] = Tail(q)
          BY <1>0, <3>2, <4>1 DEF TypeOK
        <5>1. /\ waiting'[p][i] = q[i + 1]
              /\ i + 1 \in 1..Len(q)
              /\ q[i + 1] # q[1]
          <6>1. waiting'[p][i] = q[i + 1] /\ i + 1 \in 1..Len(q) /\ 1 \in 1..Len(q)
            BY <3>1, <5>0
          <6>2. i + 1 # 1
            OBVIOUS
          <6> QED
            BY <1>0, <6>1, <6>2 DEF TypeOK, q
        <5>2. pc[q[i + 1]] = "waiting" /\ prov[q[i + 1]] = p /\ q[i + 1] \in Threads
          BY <1>0, <4>1, <5>1, ElementOfSeq DEF TypeOK, q
        <5> QED
          BY <1>0, <3>2, <3>3, <5>1, <5>2 DEF TypeOK
      <4>2. CASE p # prov[t]
        <5>1. waiting'[p] = waiting[p]
          BY <1>0, <3>2, <4>2 DEF TypeOK
        <5>2. /\ pc[waiting[p][i]] = "waiting" /\ prov[waiting[p][i]] = p
              /\ waiting[p][i] \in Threads
          BY <1>0, <5>1, ElementOfSeq DEF TypeOK
        <5> QED
          BY <1>0, <3>2, <3>3, <4>2, <5>1, <5>2 DEF TypeOK
      <4> QED
        BY <4>1, <4>2
    <3>5. \A p \in Providers : \A i, j \in 1..Len(waiting'[p]) :
            i # j => waiting'[p][i] # waiting'[p][j]
      BY <1>0, <3>1, <3>2 DEF TypeOK, q
    <3>6. \A u \in Threads : pc'[u] = "waiting" =>
            \E i \in 1..Len(waiting'[prov'[u]]) : waiting'[prov'[u]][i] = u
      <4> SUFFICES ASSUME NEW u \in Threads, pc'[u] = "waiting"
                   PROVE  \E i \in 1..Len(waiting'[prov'[u]]) : waiting'[prov'[u]][i] = u
        OBVIOUS
      <4>1. pc[u] = "waiting" /\ u # q[1]
        BY <1>0, <3>2, <3>3 DEF TypeOK
      <4>2. PICK i \in 1..Len(waiting[prov[u]]) : waiting[prov[u]][i] = u
        BY <1>0, <4>1
      <4>3. CASE prov[u] = prov[t]
        <5>1. i > 1 /\ i - 1 \in 1..Len(Tail(q)) /\ Tail(q)[i - 1] = u
          BY <3>1, <4>1, <4>2, <4>3 DEF q
        <5> QED
          BY <1>0, <3>2, <4>3, <5>1 DEF TypeOK
      <4>4. CASE prov[u] # prov[t]
        BY <1>0, <3>2, <4>2, <4>4 DEF TypeOK
      <4> QED
        BY <4>3, <4>4
    <3> QED
      BY <3>4, <3>5, <3>6
  <2>2. CASE ReturnSlot(t)
    BY <1>0, <2>2, QueueUndisturbed DEF Release, ReturnSlot, PCs
  <2> QED
    BY <2>1, <2>2 DEF Release
<1>5. CASE \E t \in Threads : ReleaseUntracked(t)
  BY <1>0, <1>5, QueueUndisturbed DEF ReleaseUntracked, PCs
<1>6. CASE \E p \in Providers, n \in Limits : Configure(p, n)
  BY <1>0, <1>6 DEF Configure
<1>7. CASE UNCHANGED vars
  BY <1>0, <1>7 DEF vars
<1> QED
  BY <1>1, <1>2, <1>3, <1>4, <1>5, <1>6, <1>7 DEF Next

\* A step that leaves the owners and the counters alone keeps the accounting.
LEMMA SlotsUndisturbed ==
  ASSUME SlotsConserved, active' = active,
         \A p \in Providers : Owners(p)' = Owners(p)
  PROVE  SlotsConserved'
  BY DEF SlotsConserved

\* Every step moves the counter of a pool with the set of its owners.
LEMMA StepSlots ==
  ASSUME IInv, [Next]_vars
  PROVE  SlotsConserved'
<1>0. TypeOK /\ QueueMatchesThreads /\ SlotsConserved
  BY DEF IInv
<1>1. CASE \E t \in Threads, p \in Providers : Lookup(t, p)
  <2> PICK t \in Threads, p \in Providers : Lookup(t, p)
    BY <1>1
  <2>1. \A q \in Providers : Owners(q)' = Owners(q)
    BY <1>0 DEF Lookup, Owners, TypeOK
  <2> QED
    BY <1>0, <2>1, SlotsUndisturbed DEF Lookup
<1>2. CASE \E t \in Threads : Enter(t)
  <2> PICK t \in Threads : Enter(t)
    BY <1>2
  <2>1. CASE HasFreeSlot(t)
    <3>1. /\ pc' = [pc EXCEPT ![t] = "holding"]
          /\ active' = [active EXCEPT ![prov[t]] = active[prov[t]] + 1]
          /\ prov' = prov
          /\ pc[t] = "entering"
      BY <2>1 DEF Enter
    <3>2. \A p \in Providers : p # prov[t] => Owners(p)' = Owners(p)
      BY <1>0, <3>1 DEF Owners, TypeOK
    <3>3. /\ Owners(prov[t])' = Owners(prov[t]) \cup {t}
          /\ t \notin Owners(prov[t])
      BY <1>0, <3>1 DEF Owners, TypeOK
    <3>4. prov[t] \in Providers
      BY <1>0 DEF TypeOK
    <3>5. Cardinality(Owners(prov[t])') = Cardinality(Owners(prov[t])) + 1
      BY <3>3, <3>4, OwnersFinite, FS_AddElement
    <3>6. \A p \in Providers : active'[p] = Cardinality(Owners(p)')
      <4> SUFFICES ASSUME NEW p \in Providers
                   PROVE  active'[p] = Cardinality(Owners(p)')
        OBVIOUS
      <4>1. CASE p = prov[t]
        BY <1>0, <3>1, <3>5, <4>1 DEF SlotsConserved, TypeOK
      <4>2. CASE p # prov[t]
        BY <1>0, <3>1, <3>2, <4>2 DEF SlotsConserved, TypeOK
      <4> QED
        BY <4>1, <4>2
    <3> QED
      BY <3>6 DEF SlotsConserved
  <2>2. CASE ~HasFreeSlot(t)
    <3>1. \A q \in Providers : Owners(q)' = Owners(q)
      BY <1>0, <2>2 DEF Enter, Owners, TypeOK
    <3> QED
      BY <1>0, <2>2, <3>1, SlotsUndisturbed DEF Enter
  <2> QED
    BY <2>1, <2>2
<1>3. CASE \E t \in Threads : WakeUp(t)
  <2> PICK t \in Threads : WakeUp(t)
    BY <1>3
  <2>1. \A q \in Providers : Owners(q)' = Owners(q)
    BY <1>0 DEF WakeUp, Owners, TypeOK
  <2> QED
    BY <1>0, <2>1, SlotsUndisturbed DEF WakeUp
<1>4. CASE \E t \in Threads : Release(t)
  <2> PICK t \in Threads : Release(t)
    BY <1>4
  <2>p. prov[t] \in Providers /\ pc[t] = "holding" /\ prov' = prov
    BY <1>0 DEF TypeOK, Release
  <2>o. t \in Owners(prov[t])
    BY <2>p DEF Owners
  <2>1. CASE TransferSlot(t)
    <3> DEFINE h == Head(waiting[prov[t]])
    <3>1. h \in Threads /\ pc[h] = "waiting" /\ prov[h] = prov[t]
      <4>1. /\ waiting[prov[t]] \in Seq(Threads) /\ waiting[prov[t]] # <<>>
            /\ Len(waiting[prov[t]]) \in Nat \ {0}
            /\ Head(waiting[prov[t]]) = waiting[prov[t]][1]
        BY <1>0, <2>1, <2>p, EmptySeq DEF TransferSlot, TypeOK
      <4> QED
        BY <1>0, <2>p, <4>1, ElementOfSeq DEF QueueMatchesThreads
    <3>2. /\ pc' = [pc EXCEPT ![t] = "idle", ![h] = "granted"]
          /\ active' = active
      BY <2>1 DEF TransferSlot
    <3> HIDE DEF h
    <3>3. h # t
      BY <2>p, <3>1
    <3>4. \A p \in Providers : p # prov[t] => Owners(p)' = Owners(p)
      BY <1>0, <2>p, <3>1, <3>2, <3>3 DEF Owners, TypeOK
    <3>5. /\ Owners(prov[t])' = (Owners(prov[t]) \ {t}) \cup {h}
          /\ h \notin Owners(prov[t]) \ {t}
      BY <1>0, <2>p, <3>1, <3>2, <3>3 DEF Owners, TypeOK
    <3>6. /\ IsFiniteSet(Owners(prov[t]) \ {t})
          /\ Cardinality(Owners(prov[t]) \ {t}) = Cardinality(Owners(prov[t])) - 1
          /\ Cardinality(Owners(prov[t])) \in Nat
      BY <2>p, <2>o, OwnersFinite, FS_RemoveElement
    <3>7. Cardinality(Owners(prov[t])') = Cardinality(Owners(prov[t]))
      BY <3>5, <3>6, FS_AddElement
    <3>8. \A p \in Providers : active'[p] = Cardinality(Owners(p)')
      <4> SUFFICES ASSUME NEW p \in Providers
                   PROVE  active'[p] = Cardinality(Owners(p)')
        OBVIOUS
      <4>1. CASE p = prov[t]
        BY <1>0, <2>p, <3>2, <3>7, <4>1 DEF SlotsConserved
      <4>2. CASE p # prov[t]
        BY <1>0, <3>2, <3>4, <4>2 DEF SlotsConserved
      <4> QED
        BY <4>1, <4>2
    <3> QED
      BY <3>8 DEF SlotsConserved
  <2>2. CASE ReturnSlot(t)
    <3>1. /\ pc' = [pc EXCEPT ![t] = "idle"]
          /\ active' = [active EXCEPT ![prov[t]] = active[prov[t]] - 1]
      BY <2>2 DEF ReturnSlot
    <3>2. \A p \in Providers : p # prov[t] => Owners(p)' = Owners(p)
      BY <1>0, <2>p, <3>1 DEF Owners, TypeOK
    <3>3. Owners(prov[t])' = Owners(prov[t]) \ {t}
      BY <1>0, <2>p, <3>1 DEF Owners, TypeOK
    <3>4. Cardinality(Owners(prov[t])') = Cardinality(Owners(prov[t])) - 1
      BY <2>p, <2>o, <3>3, OwnersFinite, FS_RemoveElement
    <3>5. \A p \in Providers : active'[p] = Cardinality(Owners(p)')
      <4> SUFFICES ASSUME NEW p \in Providers
                   PROVE  active'[p] = Cardinality(Owners(p)')
        OBVIOUS
      <4>1. CASE p = prov[t]
        BY <1>0, <2>p, <3>1, <3>4, <4>1 DEF SlotsConserved, TypeOK
      <4>2. CASE p # prov[t]
        BY <1>0, <3>1, <3>2, <4>2 DEF SlotsConserved, TypeOK
      <4> QED
        BY <4>1, <4>2
    <3> QED
      BY <3>5 DEF SlotsConserved
  <2> QED
    BY <2>1, <2>2 DEF Release
<1>5. CASE \E t \in Threads : ReleaseUntracked(t)
  <2> PICK t \in Threads : ReleaseUntracked(t)
    BY <1>5
  <2>1. \A q \in Providers : Owners(q)' = Owners(q)
    BY <1>0 DEF ReleaseUntracked, Owners, TypeOK
  <2> QED
    BY <1>0, <2>1, SlotsUndisturbed DEF ReleaseUntracked
<1>6. CASE \E p \in Providers, n \in Limits : Configure(p, n)
  BY <1>0, <1>6, SlotsUndisturbed DEF Configure, Owners
<1>7. CASE UNCHANGED vars
  BY <1>0, <1>7, SlotsUndisturbed DEF vars, Owners
<1> QED
  BY <1>1, <1>2, <1>3, <1>4, <1>5, <1>6, <1>7 DEF Next

\* A queue that becomes or stays non-empty has a slot out, and a counter that
\* grows stays within the limit its thread looked up.
LEMMA StepBounds ==
  ASSUME IInv, [Next]_vars
  PROVE  NoStrandedWaiter' /\ InFlightBounded'
<1> USE DEF NoStrandedWaiter, InFlightBounded
<1>0. TypeOK /\ SeenIsPositive /\ NoStrandedWaiter /\ InFlightBounded
  BY DEF IInv
<1>1. CASE \E t \in Threads, p \in Providers : Lookup(t, p)
  BY <1>0, <1>1 DEF Lookup
<1>2. CASE \E t \in Threads : Enter(t)
  <2> PICK t \in Threads : Enter(t)
    BY <1>2
  <2>1. /\ prov[t] \in Providers /\ active[prov[t]] \in Nat
        /\ seen[t] \in Int /\ seen[t] > 0 /\ seen[t] <= MaxLimit /\ MaxLimit \in Nat
    BY <1>0, LimitsAssumption DEF TypeOK, SeenIsPositive, Enter
  <2>2. CASE HasFreeSlot(t)
    <3>1. /\ active' = [active EXCEPT ![prov[t]] = active[prov[t]] + 1]
          /\ waiting' = waiting
      BY <2>2 DEF Enter
    <3> QED
      BY <1>0, <2>1, <2>2, <3>1 DEF HasFreeSlot, TypeOK
  <2>3. CASE ~HasFreeSlot(t)
    <3>1. /\ waiting' = [waiting EXCEPT ![prov[t]] = Append(waiting[prov[t]], t)]
          /\ active' = active
      BY <2>3 DEF Enter
    <3>2. active[prov[t]] > 0
      BY <2>1, <2>3 DEF HasFreeSlot
    <3> QED
      BY <1>0, <2>1, <3>1, <3>2 DEF TypeOK
  <2> QED
    BY <2>2, <2>3
<1>3. CASE \E t \in Threads : WakeUp(t)
  BY <1>0, <1>3 DEF WakeUp
<1>4. CASE \E t \in Threads : Release(t)
  <2> PICK t \in Threads : Release(t)
    BY <1>4
  <2>1. prov[t] \in Providers /\ active[prov[t]] \in Nat /\ MaxLimit \in Nat
    BY <1>0, LimitsAssumption DEF TypeOK
  <2>2. CASE TransferSlot(t)
    <3>1. \A p \in Providers : waiting'[p] # <<>> => waiting[p] # <<>>
      BY <1>0, <2>1, <2>2 DEF TransferSlot, TypeOK
    <3> QED
      BY <1>0, <2>2, <3>1 DEF TransferSlot
  <2>3. CASE ReturnSlot(t)
    BY <1>0, <2>1, <2>3 DEF ReturnSlot, TypeOK
  <2> QED
    BY <2>2, <2>3 DEF Release
<1>5. CASE \E t \in Threads : ReleaseUntracked(t)
  BY <1>0, <1>5 DEF ReleaseUntracked
<1>6. CASE \E p \in Providers, n \in Limits : Configure(p, n)
  BY <1>0, <1>6 DEF Configure
<1>7. CASE UNCHANGED vars
  BY <1>0, <1>7 DEF vars
<1> QED
  BY <1>1, <1>2, <1>3, <1>4, <1>5, <1>6, <1>7 DEF Next

\* The inductive invariant holds in every reachable state.
THEOREM InductiveInvariant == Spec => []IInv
<1>1. IInv /\ [Next]_vars => IInv'
  BY StepType, StepQueue, StepSlots, StepBounds DEF IInv
<1> QED
  BY InitIInv, <1>1, PTL DEF Spec

\* Acquire and Release keep every variable in its type.
THEOREM TypeCorrect == Spec => []TypeOK
<1>1. IInv => TypeOK
  BY DEF IInv
<1> QED
  BY <1>1, InductiveInvariant, PTL

\* SlotPool::active is the number of guards that are out.
THEOREM SlotAccounting == Spec => []SlotsConserved
<1>1. IInv => SlotsConserved
  BY DEF IInv
<1> QED
  BY <1>1, InductiveInvariant, PTL

\* No thread blocks in Acquire on a pool that nobody will release.
THEOREM NobodyStranded == Spec => []NoStrandedWaiter
<1>1. IInv => NoStrandedWaiter
  BY DEF IInv
<1> QED
  BY <1>1, InductiveInvariant, PTL

\* The chains in flight stay within the largest limit ever configured.
THEOREM BoundedInFlight == Spec => []InFlightBounded
<1>1. IInv => InFlightBounded
  BY DEF IInv
<1> QED
  BY <1>1, InductiveInvariant, PTL

-----------------------------------------------------------------------------
(* The order of service                                                    *)

\* Release sets the promise at the front of the queue of its provider.
LEMMA StepServes ==
  ASSUME IInv, [Next]_vars
  PROVE  OldestFirst
<1> SUFFICES ASSUME NEW t \in Threads, pc[t] = "waiting", pc'[t] = "granted"
             PROVE  t = Head(waiting[prov[t]])
  BY DEF OldestFirst
<1>0. pc \in [Threads -> PCs] /\ waiting \in [Providers -> Seq(Threads)] /\ prov \in [Threads -> Providers]
  BY DEF IInv, TypeOK
<1>1. CASE \E u \in Threads : Release(u)
  <2>1. PICK u \in Threads : Release(u)
    BY <1>1
  <2>2. CASE ReturnSlot(u)
    BY <1>0, <2>2 DEF ReturnSlot
  <2>3. CASE TransferSlot(u)
    <3>1. /\ waiting[prov[u]] # <<>> /\ waiting[prov[u]] \in Seq(Threads)
          /\ pc' = [pc EXCEPT ![u] = "idle", ![Head(waiting[prov[u]])] = "granted"]
      BY <1>0, <2>3 DEF TransferSlot
    <3>2. t = Head(waiting[prov[u]])
      BY <1>0, <3>1
    <3>3. 1 \in 1..Len(waiting[prov[u]]) /\ waiting[prov[u]][1] = t
      BY <3>1, <3>2
    <3>4. prov[t] = prov[u]
      BY <1>0, <3>3 DEF IInv, QueueMatchesThreads
    <3> QED
      BY <3>2, <3>4
  <2> QED
    BY <2>1, <2>2, <2>3 DEF Release
<1>2. CASE \E u \in Threads, p \in Providers : Lookup(u, p)
  BY <1>0, <1>2 DEF Lookup
<1>3. CASE \E u \in Threads : Enter(u)
  BY <1>0, <1>3 DEF Enter
<1>4. CASE \E u \in Threads : WakeUp(u)
  BY <1>0, <1>4 DEF WakeUp
<1>5. CASE \E u \in Threads : ReleaseUntracked(u)
  BY <1>0, <1>5 DEF ReleaseUntracked
<1>6. CASE \E p \in Providers, n \in Limits : Configure(p, n)
  BY <1>6 DEF Configure
<1>7. CASE UNCHANGED vars
  BY <1>7 DEF vars
<1> QED
  BY <1>1, <1>2, <1>3, <1>4, <1>5, <1>6, <1>7 DEF Next

\* Waiters of a provider are served in the order in which they queued, whatever
\* the other providers and the administrator do meanwhile.
THEOREM HandOverInOrder == Spec => HandOverIsFIFO
<1>1. IInv /\ [Next]_vars => [OldestFirst]_vars
  BY StepServes
<1>2. Spec => [][OldestFirst]_vars
  BY <1>1, InductiveInvariant, PTL DEF Spec
<1> QED
  BY <1>2 DEF HandOverIsFIFO

-----------------------------------------------------------------------------
(* Chats and channels share the throttle                                   *)

\* Every step of a chat, of an I/O thread or of a worker is a step of the
\* throttle or leaves it alone.
LEMMA DispatchStep ==
  ASSUME [DispatchNext]_allDispatchVars
  PROVE  [Next]_vars
<1>1. CASE UNCHANGED allDispatchVars
  BY <1>1 DEF allDispatchVars
<1>2. ASSUME NEW t \in Threads, AskChat(t) \/ SubmitChain(t)
      PROVE  UNCHANGED vars
  BY <1>2 DEF AskChat, SubmitChain
<1>3. ASSUME NEW t \in Threads, EndChat(t) \/ DispatchReturns(t)
      PROVE  Next
  BY <1>3 DEF EndChat, DispatchReturns, Returns, Next
<1>4. ASSUME NEW t \in Threads, Acquires(t)
      PROVE  Next
  BY <1>4 DEF Acquires, Next
<1>5. ASSUME NEW t \in Threads, NEW p \in Providers, StartChat(t, p) \/ Dispatch(t, p)
      PROVE  Next
  BY <1>5 DEF StartChat, Dispatch, Next
<1>6. ASSUME NEW p \in Providers, StartChain(p) \/ EndChain(p)
      PROVE  UNCHANGED vars
  BY <1>6 DEF StartChain, EndChain
<1>7. CASE Reconfigure
  BY <1>7 DEF Reconfigure, Next
<1> QED
  BY <1>1, <1>2, <1>3, <1>4, <1>5, <1>6, <1>7 DEF DispatchNext

\* The throttle as chats and channel dispatches use it is the throttle: whoever
\* gives a slot back had it, on a worker or on an I/O thread.
THEOREM DispatchImplementsThrottle == DispatchSpec => Spec
<1>1. DispatchInit => Init
  BY DEF DispatchInit
<1>2. [DispatchNext]_allDispatchVars => [Next]_vars
  BY DispatchStep
<1> QED
  BY <1>1, <1>2, PTL DEF DispatchSpec, Spec

\* So its guarantees hold for chats and channels together: the counter of a
\* provider is the number of guards that are out, nobody blocks on a pool that
\* nobody will release, and the guards stay within the largest limit.
THEOREM SharedSlotsSafe ==
  DispatchSpec => [](SlotsConserved /\ NoStrandedWaiter /\ InFlightBounded)
  BY DispatchImplementsThrottle, SlotAccounting, NobodyStranded, BoundedInFlight, PTL

\* An I/O thread that has submitted its chain still has its guard, and no thread
\* that runs a chat was handed one.
HandedHold == \A t \in handed : t \in Channel \cap Threads /\ pc[t] \in {"holding", "untracked"}

\* Only the thread itself gives up its guard.
LEMMA StepHanded ==
  ASSUME IInv, HandedHold, [DispatchNext]_allDispatchVars
  PROVE  HandedHold'
<1>0. /\ pc \in [Threads -> PCs] /\ waiting \in [Providers -> Seq(Threads)]
      /\ prov \in [Threads -> Providers]
  BY DEF IInv, TypeOK
<1>1. CASE UNCHANGED allDispatchVars
  BY <1>1 DEF allDispatchVars, vars, dispatchVars, HandedHold
<1>2. ASSUME NEW t \in Threads, Release(t) \/ ReleaseUntracked(t)
      PROVE  \A u \in Threads \ {t} : pc[u] \in {"holding", "untracked"} => pc'[u] = pc[u]
  <2>1. CASE ReleaseUntracked(t) \/ (Release(t) /\ ReturnSlot(t))
    BY <1>0, <2>1 DEF ReleaseUntracked, ReturnSlot
  <2>2. CASE Release(t) /\ TransferSlot(t)
    <3>1. /\ waiting[prov[t]] # <<>> /\ waiting[prov[t]] \in Seq(Threads)
          /\ pc' = [pc EXCEPT ![t] = "idle", ![Head(waiting[prov[t]])] = "granted"]
      BY <1>0, <2>2 DEF TransferSlot
    <3>2. 1 \in 1..Len(waiting[prov[t]]) /\ waiting[prov[t]][1] = Head(waiting[prov[t]])
      BY <3>1
    <3>3. pc[Head(waiting[prov[t]])] = "waiting"
      BY <1>0, <3>2 DEF IInv, QueueMatchesThreads
    <3> QED
      BY <1>0, <3>1, <3>3
  <2> QED
    BY <1>2, <2>1, <2>2 DEF Release
<1>3. ASSUME NEW t \in Threads, AskChat(t) PROVE HandedHold'
  BY <1>3 DEF AskChat, vars, HandedHold
<1>4. ASSUME NEW t \in Threads, EndChat(t) PROVE HandedHold'
  BY <1>2, <1>4 DEF EndChat, dispatchVars, Chats, HandedHold
<1>5. ASSUME NEW t \in Threads, SubmitChain(t) PROVE HandedHold'
  BY <1>5 DEF SubmitChain, vars, HandedHold
<1>6. ASSUME NEW t \in Threads, DispatchReturns(t) PROVE HandedHold'
  BY <1>2, <1>6 DEF DispatchReturns, Returns, HandedHold
<1>7. ASSUME NEW t \in Threads, Acquires(t) PROVE HandedHold'
  BY <1>0, <1>7 DEF Acquires, Enter, WakeUp, dispatchVars, HandedHold
<1>8. ASSUME NEW t \in Threads, NEW p \in Providers, StartChat(t, p) \/ Dispatch(t, p)
      PROVE  HandedHold'
  BY <1>0, <1>8 DEF StartChat, Dispatch, Lookup, HandedHold
<1>9. ASSUME NEW p \in Providers, StartChain(p) \/ EndChain(p) PROVE HandedHold'
  BY <1>9 DEF StartChain, EndChain, vars, HandedHold
<1>10. CASE Reconfigure
  BY <1>10 DEF Reconfigure, Configure, dispatchVars, HandedHold
<1> QED
  BY <1>1, <1>3, <1>4, <1>5, <1>6, <1>7, <1>8, <1>9, <1>10 DEF DispatchNext

\* ExecuteChannelDispatch destroys its guard after EnqueueInLane: whoever else
\* acquires, releases or is woken meanwhile, the slot of a chain that has just
\* been submitted is still its I/O thread's to give back.
THEOREM GuardOutlivesSubmit == DispatchSpec => []HandedHold
<1>1. DispatchInit => HandedHold
  BY DEF DispatchInit, HandedHold
<1>2. IInv /\ HandedHold /\ [DispatchNext]_allDispatchVars => HandedHold'
  BY StepHanded
<1>3. DispatchSpec => []IInv
  BY DispatchImplementsThrottle, InductiveInvariant, PTL
<1> QED
  BY <1>1, <1>2, <1>3, PTL DEF DispatchSpec
=============================================================================
