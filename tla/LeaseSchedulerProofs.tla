------------------------ MODULE LeaseSchedulerProofs ------------------------
(***************************************************************************)
(* Proofs about LeaseScheduler and its two deployments in MCLease: types,  *)
(* the double-fire tripwire in every deployment, and, where nobody crashes *)
(* or is taken for dead, that the elected claim is never fenced and, on    *)
(* two nodes, that one node fires a window.                                *)
(***************************************************************************)
EXTENDS MCLease, FiniteSetTheorems, TLAPS

\* What LeaseSchedulerAssumption says, one fact at a time.
LEMMA Constants ==
  /\ Node \subseteq Nat \ {0} /\ IsFiniteSet(Node) /\ Node # {}
  /\ Period \in Nat \ {0} /\ TTL \in Nat \ {0} /\ MaxEpoch \in Nat \ {0}
  /\ MaxFires \in Nat /\ MaxTime \in Nat /\ Grace \in Nat /\ Visibility \in Nat
  /\ MaxCrashes \in Nat /\ MaxCuts \in Nat /\ MaxReleases \in Nat
  /\ Semantics \in {"at_least_once", "lease_required"}
  BY LeaseSchedulerAssumption

\* A finite set of numbers has a greatest element: of its final segments, take a
\* minimal one.
LEMMA MaxIn ==
  ASSUME NEW S \in SUBSET Nat, IsFiniteSet(S), S # {}
  PROVE  MaxOf(S) \in S /\ \A y \in S : MaxOf(S) >= y
<1> DEFINE Seg(x) == {y \in S : y >= x}
           T == {Seg(x) : x \in S}
<1>1. T \subseteq SUBSET S /\ T # {}
  OBVIOUS
<1>2. IsWellFoundedOn(StrictSubsetOrdering(S), SUBSET S)
  BY FS_StrictSubsetOrderingWellFounded, FS_FiniteSubsetsOfFinite
<1>3. PICK D \in T : \A E \in T : ~(<<E, D>> \in StrictSubsetOrdering(S))
  <2> HIDE DEF T
  <2> QED
    BY <1>1, <1>2, WFMin
<1>4. PICK x \in S : D = Seg(x)
  BY <1>3
<1>5. \A y \in S : x >= y
  <2> SUFFICES ASSUME NEW y \in S, y > x PROVE FALSE
    OBVIOUS
  <2>1. Seg(y) \in T /\ Seg(y) \subseteq D /\ x \in D /\ x \notin Seg(y)
    <3>1. x \in Nat /\ y \in Nat /\ \A z \in S : z \in Nat /\ (z >= y => z >= x)
      OBVIOUS
    <3>2. Seg(y) \subseteq Seg(x)
      BY <3>1
    <3>3. x \in Seg(x) /\ x \notin Seg(y)
      BY <3>1
    <3> QED
      BY <1>4, <3>2, <3>3
  <2>2. Seg(y) \in SUBSET S /\ D \in SUBSET S
    BY <1>4
  <2> HIDE DEF Seg, T
  <2>3. <<Seg(y), D>> \in StrictSubsetOrdering(S)
    BY <2>1, <2>2 DEF StrictSubsetOrdering
  <2> QED
    BY <1>3, <2>1, <2>3
<1> QED
  BY <1>5 DEF MaxOf

\* The values of a function on a finite set are finitely many.
LEMMA FiniteValues ==
  ASSUME NEW S, IsFiniteSet(S), NEW f
  PROVE  IsFiniteSet({f[x] : x \in S})
<1> DEFINE T == {f[x] : x \in S}
           g == [x \in S |-> f[x]]
<1>1. g \in Surjection(S, T)
  BY DEF Surjection
<1> QED
  BY <1>1, FS_Surjection

\* A write gets a version later than every copy, hence a row that exists.
LEMMA NextVerLater ==
  ASSUME NEW copies, \A n \in Node : copies[n].ver \in Nat
  PROVE  NextVer(copies) \in Nat \ {0} /\ \A n \in Node : NextVer(copies) > copies[n].ver
<1> DEFINE Vs == {copies[n].ver : n \in Node}
<1>1. Vs \in SUBSET Nat /\ Vs # {}
  BY Constants
<1>2. IsFiniteSet(Vs)
  <2> DEFINE f == [n \in Node |-> copies[n].ver]
  <2>1. Vs = {f[n] : n \in Node}
    OBVIOUS
  <2> HIDE DEF f, Vs
  <2> QED
    BY <2>1, Constants, FiniteValues
<1>3. NextVer(copies) = 1 + MaxOf(Vs)
  BY DEF NextVer
<1> HIDE DEF Vs
<1>4. MaxOf(Vs) \in Vs /\ \A y \in Vs : MaxOf(Vs) >= y
  BY <1>1, <1>2, MaxIn
<1>5. MaxOf(Vs) \in Nat
  BY <1>1, <1>4
<1>6. \A n \in Node : MaxOf(Vs) >= copies[n].ver
  BY <1>4 DEF Vs
<1> QED
  BY <1>3, <1>5, <1>6

\* A finite set whose members are compared by three numbers, one after the other, has
\* a first member: the rule by which lease rows and claim rows are ordered.
LEMMA FirstInOrder ==
  ASSUME NEW S, IsFiniteSet(S), S # {},
         NEW a \in [S -> Nat], NEW b \in [S -> Nat], NEW c \in [S -> Nat]
  PROVE  \E j \in S : \A k \in S :
           \/ a[j] > a[k]
           \/ a[j] = a[k] /\ b[j] > b[k]
           \/ a[j] = a[k] /\ b[j] = b[k] /\ c[j] >= c[k]
<1>1. ASSUME NEW T \in SUBSET S, T # {}, NEW f \in [S -> Nat]
      PROVE  \E j \in T : \A k \in T : f[j] >= f[k]
  <2> DEFINE V == {f[k] : k \in T}
  <2>1. V \in SUBSET Nat /\ V # {}
    BY <1>1
  <2>2. IsFiniteSet(T)
    BY FS_Subset
  <2>3. IsFiniteSet(V)
    BY <2>2, FiniteValues
  <2>4. MaxOf(V) \in V /\ \A y \in V : MaxOf(V) >= y
    <3> HIDE DEF V
    <3> QED
      BY <2>1, <2>3, MaxIn
  <2>5. PICK j \in T : MaxOf(V) = f[j]
    BY <2>4
  <2> QED
    BY <2>4, <2>5
<1>2. PICK i \in S : \A k \in S : a[i] >= a[k]
  BY <1>1
<1> DEFINE A == {k \in S : a[k] = a[i]}
<1>3. PICK h \in A : \A k \in A : b[h] >= b[k]
  BY <1>1
<1> DEFINE B == {k \in A : b[k] = b[h]}
<1>4. PICK j \in B : \A k \in B : c[j] >= c[k]
  BY <1>1
<1>5. SUFFICES ASSUME NEW k \in S
               PROVE  \/ a[j] > a[k]
                      \/ a[j] = a[k] /\ b[j] > b[k]
                      \/ a[j] = a[k] /\ b[j] = b[k] /\ c[j] >= c[k]
  BY <1>4
<1>6. j \in S /\ a[j] = a[i] /\ b[j] = b[h] /\ a[i] >= a[k]
  BY <1>2, <1>4
<1>7. /\ \A x \in S : a[x] \in Nat /\ b[x] \in Nat /\ c[x] \in Nat
      /\ i \in S /\ h \in S
  OBVIOUS
<1>8. CASE a[k] # a[i]
  BY <1>6, <1>7, <1>8
<1>9. CASE a[k] = a[i] /\ b[k] # b[h]
  BY <1>3, <1>6, <1>7, <1>9
<1>10. CASE a[k] = a[i] /\ b[k] = b[h]
  BY <1>4, <1>6, <1>7, <1>10
<1> QED
  BY <1>8, <1>9, <1>10

-----------------------------------------------------------------------------
(* Types *)

LeaseRow == [exp : 0..(MaxTime + TTL), renew : 0..MaxTime, ver : Nat]
ClaimRow == [epoch : 0..MaxEpoch, started : 0..MaxTime, done : BOOLEAN,
             fenced : BOOLEAN, ver : Nat]
SchedRow == [next : 1..(MaxTime + Period), enabled : BOOLEAN, count : Nat, ver : Nat]
PollState == [pc : {"idle", "lease", "fire", "finish", "advance"}, window : 0..MaxTime,
              count : Nat, at : 0..MaxTime, eff : LeaseKey \cup {NoKey}, row : LeaseRow,
              acked : BOOLEAN, alone : BOOLEAN]
Budget == [crash : Nat, cut : Nat, release : Nat]

Types ==
  /\ now \in 0..MaxTime
  /\ sched \in [Node -> SchedRow]
  /\ lease \in [Node -> [LeaseKey -> LeaseRow]]
  /\ claim \in [Node -> [ClaimKey -> ClaimRow]]
  /\ up \in [Node -> BOOLEAN]
  /\ link \in BOOLEAN
  /\ down \in [Node -> SUBSET Node]
  /\ fresh \in [Node -> SUBSET Node]
  /\ attempt \in [Node -> {NoTime} \cup 0..MaxTime]
  /\ poll \in [Node -> PollState]
  /\ \A n \in Node : poll[n].pc # "idle" => poll[n].window \in Window
  /\ fired \in [Window -> [Node -> 0..2]]
  /\ left \in Budget

\* The initial state is typed.
LEMMA TypesInit == Init => Types
<1> SUFFICES ASSUME Init PROVE Types
  OBVIOUS
<1> USE Constants
<1>1. NoLease \in LeaseRow /\ NoClaim \in ClaimRow
  BY DEF NoLease, NoClaim, LeaseRow, ClaimRow
<1>2. Idle \in PollState /\ Idle.pc = "idle"
  BY <1>1 DEF Idle, PollState
<1>3. [next |-> Period, enabled |-> TRUE, count |-> 0, ver |-> 1] \in SchedRow
  BY DEF SchedRow
<1>4. left \in Budget
  BY DEF Init, Budget
<1> QED
  BY <1>1, <1>2, <1>3, <1>4 DEF Init, Types, NoTime, Window

\* The effective lease is one of the rows.
LEMMA EffectiveTyped ==
  ASSUME Types, NEW n \in Node, EffectiveLease(n) # NoKey
  PROVE  EffectiveLease(n) \in LeaseKey
<1> DEFINE rows == {k \in LeaseKey : lease[n][k].ver > 0}
           a == [k \in rows |-> k[2]]
           b == [k \in rows |-> lease[n][k].exp]
           c == [k \in rows |-> k[1]]
<1> USE Constants
<1>1. IsFiniteSet(LeaseKey)
  <2>1. IsFiniteSet(1..MaxEpoch)
    BY FS_Interval
  <2> QED
    BY <2>1, FS_Product DEF LeaseKey
<1>2. IsFiniteSet(rows)
  BY <1>1, FS_Subset
<1>3. \A k \in LeaseKey : k[1] \in Nat /\ k[2] \in Nat /\ lease[n][k].exp \in Nat
  <2>1. lease[n] \in [LeaseKey -> LeaseRow]
    BY DEF Types
  <2>2. \A k \in LeaseKey : lease[n][k].exp \in 0..(MaxTime + TTL)
    BY <2>1 DEF LeaseRow
  <2>3. \A k \in LeaseKey : k[1] \in Node /\ k[2] \in 1..MaxEpoch
    BY DEF LeaseKey
  <2>4. 0..(MaxTime + TTL) \subseteq Nat /\ 1..MaxEpoch \subseteq Nat /\ Node \subseteq Nat
    OBVIOUS
  <2> QED
    BY ONLY <2>2, <2>3, <2>4, Zenon
<1>4. a \in [rows -> Nat] /\ b \in [rows -> Nat] /\ c \in [rows -> Nat]
  BY <1>3
<1>5. rows # {}
  BY DEF EffectiveLease
<1>6. EffectiveLease(n) = CHOOSE j \in rows : \A k \in rows : Above(n, j, k)
  BY <1>5 DEF EffectiveLease
<1>7. \E j \in rows : \A k \in rows :
           \/ a[j] > a[k]
           \/ a[j] = a[k] /\ b[j] > b[k]
           \/ a[j] = a[k] /\ b[j] = b[k] /\ c[j] >= c[k]
  <2> HIDE DEF rows, a, b, c
  <2>1. \A S : IsFiniteSet(S) /\ S # {} => \A f, g, h \in [S -> Nat] :
          \E j \in S : \A k \in S :
             \/ f[j] > f[k]
             \/ f[j] = f[k] /\ g[j] > g[k]
             \/ f[j] = f[k] /\ g[j] = g[k] /\ h[j] >= h[k]
    BY FirstInOrder
  <2> QED
    BY ONLY <1>2, <1>4, <1>5, <2>1, Zenon
<1>8. \E j \in rows : \A k \in rows : Above(n, j, k)
  BY <1>7 DEF Above
<1> QED
  BY <1>6, <1>8

\* A claim row with a new version is a claim row.
LEMMA PutClaimTyped ==
  ASSUME Types, NEW n \in Node, NEW k \in ClaimKey, NEW row \in ClaimRow, PutClaim(n, k, row)
  PROVE  claim' \in [Node -> [ClaimKey -> ClaimRow]]
<1> DEFINE copies == [p \in Node |-> claim[p][k]]
<1>1. \A p \in Node : copies[p].ver \in Nat
  BY DEF Types, ClaimRow
<1> HIDE DEF copies
<1>2. NextVer(copies) \in Nat
  BY <1>1, NextVerLater
<1>3. [row EXCEPT !.ver = NextVer(copies)] \in ClaimRow
  BY <1>2 DEF ClaimRow
<1>4. claim' = [claim EXCEPT ![n][k] = [row EXCEPT !.ver = NextVer(copies)]]
  BY DEF PutClaim, copies
<1> QED
  BY <1>3, <1>4 DEF Types

\* So is the row of a new claim.
LEMMA TryClaimTyped ==
  ASSUME Types, NEW n \in Node, NEW w \in Window, NEW e \in 0..MaxEpoch,
         NEW at \in 0..MaxTime, TryClaim(n, w, e, at)
  PROVE  claim' \in [Node -> [ClaimKey -> ClaimRow]]
<1>1. CASE UNCHANGED claim
  BY <1>1 DEF Types
<1>2. CASE PutClaim(n, <<w, n>>, [NoClaim EXCEPT !.epoch = e, !.started = at])
  <2>1. <<w, n>> \in ClaimKey
    BY DEF ClaimKey
  <2>2. [NoClaim EXCEPT !.epoch = e, !.started = at] \in ClaimRow
    BY DEF NoClaim, ClaimRow
  <2> QED
    BY <1>2, <2>1, <2>2, PutClaimTyped
<1> QED
  BY <1>1, <1>2 DEF TryClaim

\* ... and the row of a lease that is taken or renewed.
LEMMA PutLeaseTyped ==
  ASSUME Types, NEW n \in Node, NEW k \in LeaseKey, PutLease(n, k)
  PROVE  lease' \in [Node -> [LeaseKey -> LeaseRow]]
<1> USE Constants
<1> DEFINE copies == [p \in Node |-> lease[p][k]]
<1>1. \A p \in Node : copies[p].ver \in Nat
  BY DEF Types, LeaseRow
<1> HIDE DEF copies
<1>2. NextVer(copies) \in Nat
  BY <1>1, NextVerLater
<1>3. poll[n].at \in 0..MaxTime
  BY DEF Types, PollState
<1>4. [exp |-> poll[n].at + TTL, renew |-> poll[n].at, ver |-> NextVer(copies)] \in LeaseRow
  BY <1>2, <1>3 DEF LeaseRow
<1>5. lease' = [lease EXCEPT ![n][k] =
                  [exp |-> poll[n].at + TTL, renew |-> poll[n].at, ver |-> NextVer(copies)]]
  BY DEF PutLease, copies
<1> QED
  BY <1>4, <1>5 DEF Types

\* A window that is due lies within the clock, and the poll loop may begin on it.
LEMMA DueTyped ==
  ASSUME Types, NEW n \in Node, Due(n)
  PROVE  /\ sched[n].next \in Window
         /\ \A pc \in {"fire", "advance"} : Begin(n, pc) =>
              /\ poll' \in [Node -> PollState]
              /\ \A m \in Node : poll'[m].pc # "idle" => poll'[m].window \in Window
              /\ poll'[n].pc = pc /\ poll'[n].window = sched[n].next
              /\ \A m \in Peers(n) : poll'[m] = poll[m]
<1> USE Constants
<1>1. sched[n] \in SchedRow
  BY DEF Types
<1>2. sched[n].next \in Window /\ sched[n].count \in Nat
  BY <1>1 DEF Types, SchedRow, Due, Window
<1>3. ASSUME NEW pc \in {"fire", "advance"}, Begin(n, pc)
      PROVE  /\ poll' \in [Node -> PollState]
             /\ \A m \in Node : poll'[m].pc # "idle" => poll'[m].window \in Window
             /\ poll'[n].pc = pc /\ poll'[n].window = sched[n].next
             /\ \A m \in Peers(n) : poll'[m] = poll[m]
  <2> DEFINE s == [Idle EXCEPT !.pc = pc, !.window = sched[n].next,
                               !.count = sched[n].count, !.at = now]
  <2>1. s \in PollState /\ s.pc = pc /\ s.window = sched[n].next
    <3>1. Idle \in PollState
      BY DEF Idle, PollState, NoKey, NoLease, LeaseRow
    <3>2. now \in 0..MaxTime /\ sched[n].next \in 0..MaxTime
      BY <1>2 DEF Types, Window
    <3> QED
      BY <1>2, <3>1, <3>2 DEF PollState
  <2>2. poll' = [poll EXCEPT ![n] = s]
    BY <1>3 DEF Begin
  <2> HIDE DEF s
  <2> QED
    BY <1>2, <2>1, <2>2 DEF Types, Peers
<1> QED
  BY <1>2, <1>3

\* To be idle is to stand at no window.
LEMMA IdleTyped ==
  ASSUME Types, NEW n \in Node, poll' = [poll EXCEPT ![n] = Idle]
  PROVE  /\ poll' \in [Node -> PollState]
         /\ \A m \in Node : poll'[m].pc # "idle" => poll'[m].window \in Window
<1>1. Idle \in PollState /\ Idle.pc = "idle"
  BY Constants DEF Idle, PollState, NoKey, NoLease, LeaseRow
<1> QED
  BY <1>1 DEF Types

\* Every step of a poll thread keeps the types.
LEMMA TypesPoll ==
  ASSUME Types, NEW n \in Node, PollStep(n)
  PROVE  Types'
<1> USE Constants
<1>1. CASE ClaimAndFire(n)
  <2>1. sched[n].next \in Window /\ now \in 0..MaxTime
    BY <1>1, DueTyped DEF ClaimAndFire, Types
  <2>2. claim' \in [Node -> [ClaimKey -> ClaimRow]]
    BY <1>1, <2>1, TryClaimTyped DEF ClaimAndFire
  <2>3. /\ poll' \in [Node -> PollState]
        /\ \A m \in Node : poll'[m].pc # "idle" => poll'[m].window \in Window
    BY <1>1, DueTyped DEF ClaimAndFire
  <2> QED
    BY <1>1, <2>2, <2>3 DEF ClaimAndFire, Types
<1>2. CASE ClaimUnderHeldLease(n)
  <2>1. sched[n].next \in Window /\ now \in 0..MaxTime
    BY <1>2, DueTyped DEF ClaimUnderHeldLease, NoClaimYet, LeaseDue, Types
  <2>2. EffectiveLease(n)[2] \in 0..MaxEpoch
    <3>1. EffectiveLease(n) \in LeaseKey
      BY <1>2, EffectiveTyped DEF ClaimUnderHeldLease
    <3> QED
      BY <3>1 DEF LeaseKey
  <2>3. claim' \in [Node -> [ClaimKey -> ClaimRow]]
    BY <1>2, <2>1, <2>2, TryClaimTyped DEF ClaimUnderHeldLease
  <2> QED
    BY <1>2, <2>3 DEF ClaimUnderHeldLease, Types
<1>3. CASE AskAboutLease(n)
  <2>1. sched[n].next \in Window /\ now \in 0..MaxTime
    BY <1>3, DueTyped DEF AskAboutLease, NoClaimYet, LeaseDue, Types
  <2>2. EffectiveLease(n) \in LeaseKey \cup {NoKey}
    BY EffectiveTyped
  <2>3. EffectiveLease(n) # NoKey => lease[n][EffectiveLease(n)] \in LeaseRow
    BY EffectiveTyped DEF Types
  <2>4. PICK A \in SUBSET Asked(n) :
          poll' = [poll EXCEPT ![n] =
                      [Idle EXCEPT !.pc = "lease", !.window = sched[n].next,
                         !.at = now, !.eff = EffectiveLease(n),
                         !.row = IF EffectiveLease(n) = NoKey THEN NoLease
                                 ELSE lease[n][EffectiveLease(n)],
                         !.acked = CheckLeaseAck(n, EffectiveLease(n)[2], A),
                         !.alone = Peers(n) = {} \/ AllDown(n)]]
    BY <1>3 DEF AskAboutLease
  <2> DEFINE row == IF EffectiveLease(n) = NoKey THEN NoLease ELSE lease[n][EffectiveLease(n)]
             s == [Idle EXCEPT !.pc = "lease", !.window = sched[n].next,
                         !.at = now, !.eff = EffectiveLease(n), !.row = row,
                         !.acked = CheckLeaseAck(n, EffectiveLease(n)[2], A),
                         !.alone = Peers(n) = {} \/ AllDown(n)]
  <2>5. row \in LeaseRow
    BY <2>3 DEF NoLease, LeaseRow
  <2>6. Idle \in PollState
    BY DEF Idle, PollState, NoKey, NoLease, LeaseRow
  <2>7. sched[n].next \in 0..MaxTime
    BY <2>1 DEF Window
  <2>8. /\ CheckLeaseAck(n, EffectiveLease(n)[2], A) \in BOOLEAN
        /\ (Peers(n) = {} \/ AllDown(n)) \in BOOLEAN
    BY DEF CheckLeaseAck, AllDown
  <2>9. s \in PollState /\ s.window = sched[n].next
    <3> HIDE DEF row
    <3> QED
      BY <2>1, <2>2, <2>5, <2>6, <2>7, <2>8 DEF PollState
  <2>10. attempt' \in [Node -> {NoTime} \cup 0..MaxTime]
    BY <1>3, <2>1 DEF AskAboutLease, Types
  <2>11. /\ poll' \in [Node -> PollState]
         /\ \A m \in Node : poll'[m].pc # "idle" => poll'[m].window \in Window
    <3>1. poll' = [poll EXCEPT ![n] = s]
      BY <2>4
    <3> HIDE DEF s
    <3> QED
      BY <2>1, <2>9, <3>1 DEF Types
  <2> QED
    BY <1>3, <2>10, <2>11 DEF AskAboutLease, Types
<1> DEFINE Taken(e) == LeaseTo(n, e) /\ poll[n].pc = "lease" /\ e \in 0..MaxEpoch
<1>4. ASSUME NEW e, Taken(e), lease' \in [Node -> [LeaseKey -> LeaseRow]]
      PROVE  Types'
  <2>1. poll[n].window \in Window /\ poll[n].at \in 0..MaxTime
    BY <1>4 DEF Types, PollState
  <2>2. claim' \in [Node -> [ClaimKey -> ClaimRow]]
    BY <1>4, <2>1, TryClaimTyped DEF LeaseTo
  <2>3. /\ poll' \in [Node -> PollState]
        /\ \A m \in Node : poll'[m].pc # "idle" => poll'[m].window \in Window
    BY <1>4, IdleTyped DEF LeaseTo
  <2> QED
    BY <1>4, <2>2, <2>3 DEF LeaseTo, Types
<1>5. ASSUME NEW e \in Nat \ {0}, Acquire(n, e)
      PROVE  e \in 0..MaxEpoch /\ lease' \in [Node -> [LeaseKey -> LeaseRow]]
  <2>1. e \in 1..MaxEpoch
    BY <1>5 DEF Acquire
  <2>2. <<n, e>> \in LeaseKey
    BY <2>1 DEF LeaseKey
  <2> QED
    BY <1>5, <2>1, <2>2, PutLeaseTyped DEF Acquire
<1>6. ASSUME poll[n].eff # NoKey
      PROVE  poll[n].eff \in LeaseKey /\ poll[n].eff[2] \in 1..MaxEpoch
  <2>1. poll[n].eff \in LeaseKey \cup {NoKey}
    BY DEF Types, PollState
  <2> QED
    BY <1>6, <2>1 DEF LeaseKey
<1>7. CASE FirstAcquisition(n)
  BY <1>4, <1>5, <1>7 DEF FirstAcquisition
<1>8. poll[n].eff[1] \in Node => poll[n].eff # NoKey
  BY DEF NoKey
<1>9. CASE HeldLease(n)
  <2>1. poll[n].eff \in LeaseKey /\ poll[n].eff[2] \in 1..MaxEpoch
    BY <1>6, <1>8, <1>9 DEF HeldLease
  <2>2. lease' \in [Node -> [LeaseKey -> LeaseRow]]
    BY <1>9, <2>1, PutLeaseTyped DEF HeldLease, Renew, Types
  <2>3. Taken(poll[n].eff[2])
    BY <1>9, <2>1 DEF HeldLease
  <2> QED
    BY <1>4, <2>2, <2>3
<1>10. CASE Reacquire(n)
  <2>1. poll[n].eff[2] + 1 \in Nat \ {0}
    BY <1>6, <1>8, <1>10 DEF Reacquire
  <2> QED
    BY <1>4, <1>5, <1>10, <2>1 DEF Reacquire
<1>11. CASE TakeOverLease(n)
  <2>1. poll[n].eff[2] + 1 \in Nat \ {0}
    BY <1>6, <1>8, <1>11 DEF TakeOverLease, Peers
  <2> QED
    BY <1>4, <1>5, <1>11, <2>1 DEF TakeOverLease
<1>12. CASE NoLeaseNow(n)
  BY <1>12, IdleTyped DEF NoLeaseNow, Types
<1>13. CASE DispatchClaim(n)
  <2>1. /\ poll' \in [Node -> PollState]
        /\ \A m \in Node : poll'[m].pc # "idle" => poll'[m].window \in Window
    BY <1>13, DueTyped DEF DispatchClaim, LeaseDue
  <2> QED
    BY <1>13, <2>1 DEF DispatchClaim, Types
<1>14. CASE TakeOverClaim(n)
  <2>1. ASSUME NEW j \in ClaimKey
        PROVE  NextVer([p \in Node |-> claim[p][j]]) \in Nat
    <3> DEFINE copies == [p \in Node |-> claim[p][j]]
    <3>1. \A p \in Node : copies[p].ver \in Nat
      BY DEF Types, ClaimRow
    <3> HIDE DEF copies
    <3>2. NextVer(copies) \in Nat
      BY <3>1, NextVerLater
    <3> QED
      BY <3>2 DEF copies
  <2>2. claim' \in [Node -> [ClaimKey -> ClaimRow]]
    <3> DEFINE w == sched[n].next
               new(j) == IF j \in ClaimRows(n, w)
                         THEN [claim[n][j] EXCEPT !.fenced = TRUE,
                                  !.ver = NextVer([p \in Node |-> claim[p][j]])]
                         ELSE claim[n][j]
    <3>1. claim' = [claim EXCEPT ![n] = [j \in ClaimKey |-> new(j)]]
      BY <1>14 DEF TakeOverClaim
    <3>2. \A j \in ClaimKey : new(j) \in ClaimRow
      <4> SUFFICES ASSUME NEW j \in ClaimKey PROVE new(j) \in ClaimRow
        OBVIOUS
      <4>1. claim[n][j] \in ClaimRow
        BY DEF Types
      <4> DEFINE v == NextVer([p \in Node |-> claim[p][j]])
      <4>2. v \in Nat
        BY <2>1
      <4> HIDE DEF v
      <4>3. [claim[n][j] EXCEPT !.fenced = TRUE, !.ver = v] \in ClaimRow
        BY <4>1, <4>2 DEF ClaimRow
      <4> QED
        BY <4>1, <4>3 DEF v
    <3> HIDE DEF new
    <3> QED
      BY <3>1, <3>2 DEF Types
  <2> QED
    BY <1>14, <2>2 DEF TakeOverClaim, Types
<1> DEFINE At(pc) == poll' = [poll EXCEPT ![n].pc = pc] /\ poll[n].pc # "idle"
<1>15. ASSUME NEW pc \in {"finish", "advance"}, At(pc)
       PROVE  /\ poll' \in [Node -> PollState]
              /\ \A m \in Node : poll'[m].pc # "idle" => poll'[m].window \in Window
  <2>1. [poll[n] EXCEPT !.pc = pc] \in PollState
    <3>1. \A s \in PollState : [s EXCEPT !.pc = pc] \in PollState
      BY <1>15 DEF PollState
    <3> QED
      BY <3>1 DEF Types
  <2>2. poll' = [poll EXCEPT ![n] = [poll[n] EXCEPT !.pc = pc]]
    BY <1>15 DEF Types
  <2>3. /\ [poll[n] EXCEPT !.pc = pc].window = poll[n].window
        /\ poll[n].window \in Window
    <3>1. poll[n] \in PollState /\ poll[n].window \in Window
      BY <1>15 DEF Types
    <3>2. \A s \in PollState : [s EXCEPT !.pc = pc].window = s.window
      BY DEF PollState
    <3> QED
      BY <3>1, <3>2
  <2> QED
    BY <2>1, <2>2, <2>3 DEF Types
<1>16. CASE Fire(n)
  <2>1. At("finish") /\ poll[n].window \in Window
    BY <1>16 DEF Fire, Goto, Types
  <2>2. fired' \in [Window -> [Node -> 0..2]]
    <3> DEFINE w == poll[n].window
               c == IF fired[w][n] < 2 THEN fired[w][n] + 1 ELSE fired[w][n]
    <3>1. fired[w][n] \in 0..2 /\ w \in Window
      BY <2>1 DEF Types
    <3>2. c \in 0..2
      BY <3>1
    <3>3. fired' = [fired EXCEPT ![w][n] = c]
      BY <1>16, <3>1 DEF Fire, Types
    <3> HIDE DEF c, w
    <3> QED
      BY <3>1, <3>2, <3>3 DEF Types
  <2> QED
    BY <1>15, <1>16, <2>1, <2>2 DEF Fire, Types
<1>17. CASE Finish(n)
  <2>1. At("advance") /\ <<poll[n].window, n>> \in ClaimKey
    BY <1>17 DEF Finish, Goto, Types, ClaimKey
  <2>2. [claim[n][<<poll[n].window, n>>] EXCEPT !.done = TRUE] \in ClaimRow
    <3>1. claim[n][<<poll[n].window, n>>] \in ClaimRow
      BY <2>1 DEF Types
    <3> QED
      BY <3>1 DEF ClaimRow
  <2>3. claim' \in [Node -> [ClaimKey -> ClaimRow]]
    <3>1. CASE UNCHANGED claim
      BY <3>1 DEF Types
    <3>2. CASE PutClaim(n, <<poll[n].window, n>>,
                        [claim[n][<<poll[n].window, n>>] EXCEPT !.done = TRUE])
      BY <2>1, <2>2, <3>2, PutClaimTyped
    <3> QED
      BY <1>17, <3>1, <3>2 DEF Finish
  <2> QED
    BY <1>15, <1>17, <2>1, <2>3 DEF Finish, Types
<1>18. CASE Advance(n)
  <2>1. /\ poll[n].window \in 1..(MaxTime + Period)
        /\ ComputeNextFire(poll[n].at) \in 1..(MaxTime + Period)
        /\ poll[n].count + 1 \in Nat
    <3>1. poll[n].window \in Window /\ poll[n].at \in 0..MaxTime /\ poll[n].count \in Nat
      BY <1>18 DEF Advance, Types, PollState
    <3>2. poll[n].at % Period \in 0..(Period - 1)
      BY <3>1
    <3> QED
      BY <3>1, <3>2 DEF Window, ComputeNextFire
  <2>2. NextVer(sched) \in Nat
    <3>1. \A p \in Node : sched[p].ver \in Nat
      BY DEF Types, SchedRow
    <3> QED
      BY <3>1, NextVerLater
  <2>3. sched' \in [Node -> SchedRow]
    <3> DEFINE last == MaxFires > 0 /\ poll[n].count + 1 >= MaxFires
               s == [next |-> IF last THEN poll[n].window ELSE ComputeNextFire(poll[n].at),
                     enabled |-> ~last, count |-> poll[n].count + 1, ver |-> NextVer(sched)]
    <3>1. sched' = [sched EXCEPT ![n] = s]
      BY <1>18 DEF Advance
    <3>2. s \in SchedRow
      BY <2>1, <2>2 DEF SchedRow
    <3> HIDE DEF s
    <3> QED
      BY <3>1, <3>2 DEF Types
  <2>4. /\ poll' \in [Node -> PollState]
        /\ \A m \in Node : poll'[m].pc # "idle" => poll'[m].window \in Window
    BY <1>18, IdleTyped DEF Advance
  <2> QED
    BY <1>18, <2>3, <2>4 DEF Advance, Types
<1> QED
  BY <1>1, <1>2, <1>3, <1>7, <1>9, <1>10, <1>11, <1>12, <1>13, <1>14, <1>16, <1>17, <1>18
     DEF PollStep

\* What FenceRunUuid does to the rows of a node: it keeps them and their epochs, and it
\* marks the rows of the windows it is given but for the survivors.
LEMMA FenceMarks ==
  ASSUME Types, NEW n \in Node, NEW cl \in [ClaimKey -> ClaimRow], NEW W
  PROVE  /\ FenceRunUuid(n, cl, W) \in [ClaimKey -> ClaimRow]
         /\ \A k \in ClaimKey :
              /\ FenceRunUuid(n, cl, W)[k].epoch = cl[k].epoch
              /\ FenceRunUuid(n, cl, W)[k].ver > 0 <=> cl[k].ver > 0
              /\ FenceRunUuid(n, cl, W)[k].fenced <=>
                   \/ cl[k].fenced
                   \/ k[1] \in W /\ cl[k].ver > 0 /\ k # SurvivorOf(cl, k[1])
<1> USE Constants
<1> DEFINE v(k) == 1 + MaxOf({cl[k].ver} \cup {claim[p][k].ver : p \in Node})
           hit(k) == k[1] \in W /\ cl[k].ver > 0 /\ ~cl[k].fenced /\ k # SurvivorOf(cl, k[1])
           new(k) == IF hit(k) THEN [cl[k] EXCEPT !.fenced = TRUE, !.ver = v(k)] ELSE cl[k]
<1>1. FenceRunUuid(n, cl, W) = [k \in ClaimKey |-> new(k)]
  BY DEF FenceRunUuid
<1>2. ASSUME NEW k \in ClaimKey PROVE v(k) \in Nat \ {0}
  <2> DEFINE f == [p \in Node |-> claim[p][k].ver]
             V == {f[p] : p \in Node}
             S == {cl[k].ver} \cup V
  <2>1. V \in SUBSET Nat /\ cl[k].ver \in Nat
    BY DEF Types, ClaimRow
  <2>2. IsFiniteSet(V)
    <3> HIDE DEF f
    <3> QED
      BY FiniteValues
  <2>3. S \in SUBSET Nat /\ S # {}
    BY <2>1
  <2>4. IsFiniteSet(S)
    <3> HIDE DEF V
    <3>1. IsFiniteSet({cl[k].ver})
      BY FS_Singleton
    <3> QED
      BY <2>2, <3>1, FS_Union
  <2>5. MaxOf(S) \in Nat
    <3> HIDE DEF S
    <3> QED
      BY <2>3, <2>4, MaxIn
  <2>6. v(k) = 1 + MaxOf(S)
    <3>1. V = {claim[p][k].ver : p \in Node}
      OBVIOUS
    <3> QED
      BY <3>1
  <2> HIDE DEF S, v
  <2> QED
    BY <2>5, <2>6
<1>3. ASSUME NEW k \in ClaimKey
      PROVE  /\ new(k) \in ClaimRow
             /\ new(k).epoch = cl[k].epoch
             /\ new(k).ver > 0 <=> cl[k].ver > 0
             /\ new(k).fenced <=>
                   \/ cl[k].fenced
                   \/ k[1] \in W /\ cl[k].ver > 0 /\ k # SurvivorOf(cl, k[1])
  <2>1. cl[k] \in ClaimRow /\ v(k) \in Nat \ {0}
    BY <1>2
  <2> HIDE DEF v
  <2>2. CASE hit(k)
    <3>1. new(k) = [cl[k] EXCEPT !.fenced = TRUE, !.ver = v(k)]
      BY <2>2
    <3>2. /\ new(k) \in ClaimRow /\ new(k).epoch = cl[k].epoch /\ new(k).ver = v(k)
          /\ new(k).fenced = TRUE
      <4> HIDE DEF new
      <4> QED
        BY <2>1, <3>1 DEF ClaimRow
    <3> HIDE DEF new
    <3> QED
      BY <2>1, <2>2, <3>2
  <2>3. CASE ~hit(k)
    <3>1. new(k) = cl[k]
      BY <2>3
    <3> HIDE DEF new
    <3> QED
      BY <2>1, <2>3, <3>1
  <2> QED
    BY <2>2, <2>3
<1> HIDE DEF new
<1> QED
  BY <1>1, <1>3

\* The claim table of n with the later rows of p.
MergeOf(n, p) == [k \in ClaimKey |-> Newer(claim[n][k], claim[p][k])]

\* The merge of two tables takes each row from one of them, and has every row either has.
LEMMA MergeTakes ==
  ASSUME Types, NEW n \in Node, NEW p \in Node
  PROVE  /\ MergeOf(n, p) \in [ClaimKey -> ClaimRow]
         /\ \A k \in ClaimKey :
              /\ MergeOf(n, p)[k] \in {claim[n][k], claim[p][k]}
              /\ MergeOf(n, p)[k].ver > 0 <=> claim[n][k].ver > 0 \/ claim[p][k].ver > 0
<1>1. \A m \in Node, k \in ClaimKey : claim[m][k] \in ClaimRow /\ claim[m][k].ver \in Nat
  BY DEF Types, ClaimRow
<1>2. \A k \in ClaimKey : MergeOf(n, p)[k] =
        IF claim[p][k].ver > claim[n][k].ver THEN claim[p][k] ELSE claim[n][k]
  BY DEF MergeOf, Newer
<1>3. MergeOf(n, p) \in [ClaimKey -> ClaimRow]
  BY <1>1 DEF MergeOf, Newer
<1> QED
  BY <1>1, <1>2, <1>3

\* Every step of the network, of an administrator and of the clock keeps the types.
LEMMA TypesAround ==
  ASSUME Types
  PROVE  /\ \A n \in Node : ReleaseLease(n) \/ Crash(n) \/ Restart(n) => Types'
         /\ \A n, p \in Node : Pull(n, p) \/ DetectDown(n, p) => Types'
         /\ Cut \/ Mend \/ Tick => Types'
<1> USE Constants
<1>1. ASSUME NEW n \in Node, ReleaseLease(n) PROVE Types'
  <2>1. left' \in Budget
    <3>1. left \in Budget /\ left.release > 0 /\ left' = [left EXCEPT !.release = left.release - 1]
      BY <1>1 DEF ReleaseLease, Types
    <3> QED
      BY <3>1 DEF Budget
  <2>2. lease' \in [Node -> [LeaseKey -> LeaseRow]]
    <3> DEFINE v(k) == NextVer([p \in Node |-> lease[p][k]])
               new(k) == IF lease[n][k].exp > now
                         THEN [lease[n][k] EXCEPT !.exp = now, !.ver = v(k)]
                         ELSE lease[n][k]
    <3>1. lease' = [lease EXCEPT ![n] = [k \in LeaseKey |-> new(k)]]
      BY <1>1 DEF ReleaseLease
    <3>2. ASSUME NEW k \in LeaseKey PROVE new(k) \in LeaseRow
      <4> DEFINE copies == [p \in Node |-> lease[p][k]]
      <4>1. \A p \in Node : copies[p].ver \in Nat
        BY DEF Types, LeaseRow
      <4>2. NextVer(copies) \in Nat
        <5> HIDE DEF copies
        <5> QED
          BY <4>1, NextVerLater
      <4>3. v(k) \in Nat /\ lease[n][k] \in LeaseRow /\ now \in 0..(MaxTime + TTL)
        BY <4>2 DEF Types
      <4> HIDE DEF v
      <4>4. [lease[n][k] EXCEPT !.exp = now, !.ver = v(k)] \in LeaseRow
        BY <4>3 DEF LeaseRow
      <4> QED
        BY <4>3, <4>4
    <3> HIDE DEF new
    <3> QED
      BY <3>1, <3>2 DEF Types
  <2> QED
    BY <1>1, <2>1, <2>2 DEF ReleaseLease, Types
<1>2. ASSUME NEW n \in Node, Crash(n) PROVE Types'
  <2>1. left' \in Budget
    <3>1. left \in Budget /\ left.crash > 0 /\ left' = [left EXCEPT !.crash = left.crash - 1]
      BY <1>2 DEF Crash, Types
    <3> QED
      BY <3>1 DEF Budget
  <2>2. /\ poll' \in [Node -> PollState]
        /\ \A m \in Node : poll'[m].pc # "idle" => poll'[m].window \in Window
    BY <1>2, IdleTyped DEF Crash
  <2> QED
    BY <1>2, <2>1, <2>2 DEF Crash, Types
<1>3. ASSUME NEW n \in Node, Restart(n) PROVE Types'
  BY <1>3 DEF Restart, Types
<1>4. ASSUME NEW n \in Node, NEW p \in Node, Pull(n, p) PROVE Types'
  <2> DEFINE hit == {k[1] : k \in {k \in ClaimKey : MergeOf(n, p)[k] # claim[n][k]}}
  <2>1. claim' = [claim EXCEPT ![n] = FenceRunUuid(n, MergeOf(n, p), hit)]
    BY <1>4 DEF Pull, MergeOf
  <2>2. claim' \in [Node -> [ClaimKey -> ClaimRow]]
    <3> HIDE DEF hit
    <3> QED
      BY <2>1, MergeTakes, FenceMarks DEF Types
  <2>3. lease' \in [Node -> [LeaseKey -> LeaseRow]]
    BY <1>4 DEF Pull, Types, Newer
  <2>4. sched' \in [Node -> SchedRow]
    BY <1>4 DEF Pull, Types, Newer
  <2>5. down' \in [Node -> SUBSET Node] /\ fresh' \in [Node -> SUBSET Node]
    BY <1>4 DEF Pull, Types
  <2> QED
    BY <1>4, <2>2, <2>3, <2>4, <2>5 DEF Pull, Types
<1>5. ASSUME NEW n \in Node, NEW p \in Node, DetectDown(n, p) PROVE Types'
  BY <1>5 DEF DetectDown, Types
<1>6. CASE Cut
  <2>1. left' \in Budget
    BY <1>6 DEF Cut, Types, Budget
  <2> QED
    BY <1>6, <2>1 DEF Cut, Types
<1>7. CASE Mend
  BY <1>7 DEF Mend, Types
<1>8. CASE Tick
  BY <1>8 DEF Tick, Types
<1> QED
  BY <1>1, <1>2, <1>3, <1>4, <1>5, <1>6, <1>7, <1>8

\* The types are inductive ...
LEMMA TypesNext == Types /\ [Next]_vars => Types'
<1> SUFFICES ASSUME Types, [Next]_vars PROVE Types'
  OBVIOUS
<1>1. CASE UNCHANGED vars
  BY <1>1 DEF vars, Types
<1>2. ASSUME NEW n \in Node, PollStep(n) PROVE Types'
  BY <1>2, TypesPoll
<1> QED
  BY <1>1, <1>2, TypesAround DEF Next

\* The type invariant of the run follows.
LEMMA TypesTypeOK == Types => TypeOK
<1> SUFFICES ASSUME Types PROVE TypeOK
  OBVIOUS
<1>1. \A n \in Node : sched[n] \in SchedRow /\ poll[n] \in PollState
  BY DEF Types
<1>2. \A n \in Node : /\ sched[n].next \in 1..(MaxTime + Period)
                      /\ poll[n].pc \in {"idle", "lease", "fire", "finish", "advance"}
  BY <1>1 DEF SchedRow, PollState
<1> QED
  BY <1>2 DEF Types, TypeOK, LeaseRow, ClaimRow

\* The types hold throughout, with the rows of the schedule and the reads a poll thread
\* carries between its steps.
THEOREM TypesHold == Spec => [](Types /\ TypeOK)
<1>1. Spec => []Types
  BY TypesInit, TypesNext, PTL DEF Spec
<1> QED
  BY <1>1, TypesTypeOK, PTL

-----------------------------------------------------------------------------
(* Claims.  The rule orders the rows cl of one node by epoch and id; j is the   *)
(* best row of its window when no other row of the window comes before it.      *)

Before(cl, j, k) ==
  \/ cl[j].epoch > cl[k].epoch
  \/ cl[j].epoch = cl[k].epoch /\ j[2] >= k[2]
IsBest(cl, j) ==
  \A k \in ClaimKey : k[1] = j[1] /\ cl[k].ver > 0 => Before(cl, j, k)

\* SurvivorOf picks the best row, if the window has a row at all.
LEMMA SurvivorIsBest ==
  ASSUME NEW cl \in [ClaimKey -> ClaimRow], NEW w \in Window,
         \E k \in ClaimKey : k[1] = w /\ cl[k].ver > 0
  PROVE  /\ SurvivorOf(cl, w) \in ClaimKey /\ SurvivorOf(cl, w)[1] = w
         /\ cl[SurvivorOf(cl, w)].ver > 0
         /\ IsBest(cl, SurvivorOf(cl, w))
<1> USE Constants
<1> DEFINE rows == {k \in ClaimKey : k[1] = w /\ cl[k].ver > 0}
           a == [k \in rows |-> cl[k].epoch]
           b == [k \in rows |-> k[2]]
<1>1. IsFiniteSet(ClaimKey)
  <2>1. IsFiniteSet(Window)
    BY FS_Interval DEF Window
  <2> QED
    BY <2>1, FS_Product DEF ClaimKey
<1>2. IsFiniteSet(rows) /\ rows # {}
  BY <1>1, FS_Subset
<1>3. \A k \in ClaimKey : k[2] \in Nat /\ cl[k].epoch \in Nat
  <2>1. \A k \in ClaimKey : k[2] \in Node /\ cl[k].epoch \in 0..MaxEpoch
    BY DEF ClaimKey, ClaimRow
  <2>2. Node \subseteq Nat /\ 0..MaxEpoch \subseteq Nat
    OBVIOUS
  <2> QED
    BY ONLY <2>1, <2>2, Zenon
<1>4. a \in [rows -> Nat] /\ b \in [rows -> Nat]
  BY <1>3
<1>5. \E j \in rows : \A k \in rows :
           \/ a[j] > a[k]
           \/ a[j] = a[k] /\ b[j] > b[k]
           \/ a[j] = a[k] /\ b[j] = b[k] /\ b[j] >= b[k]
  <2> HIDE DEF rows, a, b
  <2>1. \A S : IsFiniteSet(S) /\ S # {} => \A f, g, h \in [S -> Nat] :
          \E i \in S : \A k \in S :
             \/ f[i] > f[k]
             \/ f[i] = f[k] /\ g[i] > g[k]
             \/ f[i] = f[k] /\ g[i] = g[k] /\ h[i] >= h[k]
    BY FirstInOrder
  <2> QED
    BY ONLY <1>2, <1>4, <2>1, Zenon
<1>6. \E j \in rows : \A k \in rows : Before(cl, j, k)
  <2>1. PICK i \in rows : \A k \in rows :
           \/ a[i] > a[k]
           \/ a[i] = a[k] /\ b[i] > b[k]
           \/ a[i] = a[k] /\ b[i] = b[k] /\ b[i] >= b[k]
    BY <1>5
  <2>2. SUFFICES ASSUME NEW k \in rows PROVE Before(cl, i, k)
    BY <2>1
  <2>3. /\ a[i] = cl[i].epoch /\ a[k] = cl[k].epoch /\ b[i] = i[2] /\ b[k] = k[2]
        /\ i[2] \in Nat /\ k[2] \in Nat
    BY <1>3
  <2> HIDE DEF a, b
  <2>4. \/ a[i] > a[k]
        \/ a[i] = a[k] /\ b[i] > b[k]
        \/ a[i] = a[k] /\ b[i] = b[k] /\ b[i] >= b[k]
    BY <2>1
  <2> QED
    BY <2>3, <2>4 DEF Before
<1>7. SurvivorOf(cl, w) = CHOOSE j \in rows : \A k \in rows : Before(cl, j, k)
  BY <1>2, Zenon DEF SurvivorOf, Before
<1> HIDE DEF rows
<1>8. SurvivorOf(cl, w) \in rows /\ \A k \in rows : Before(cl, SurvivorOf(cl, w), k)
  BY <1>6, <1>7
<1> QED
  BY <1>8 DEF IsBest, rows

\* The best row is the only one.
LEMMA OneBest ==
  ASSUME NEW cl \in [ClaimKey -> ClaimRow], NEW j \in ClaimKey, NEW k \in ClaimKey,
         j[1] = k[1], cl[j].ver > 0, cl[k].ver > 0, IsBest(cl, j), IsBest(cl, k)
  PROVE  j = k
<1>1. Before(cl, j, k) /\ Before(cl, k, j)
  BY DEF IsBest
<1>2. /\ cl[j].epoch \in Nat /\ cl[k].epoch \in Nat /\ j[2] \in Nat /\ k[2] \in Nat
      /\ j = <<j[1], j[2]>> /\ k = <<k[1], k[2]>>
  <2>1. cl[j] \in ClaimRow /\ cl[k] \in ClaimRow
    OBVIOUS
  <2>2. cl[j].epoch \in 0..MaxEpoch /\ cl[k].epoch \in 0..MaxEpoch
    BY <2>1 DEF ClaimRow
  <2>3. j[2] \in Node /\ k[2] \in Node /\ j = <<j[1], j[2]>> /\ k = <<k[1], k[2]>>
    BY DEF ClaimKey
  <2> QED
    BY <2>2, <2>3, Constants
<1>3. j[2] = k[2]
  BY <1>1, <1>2 DEF Before
<1> QED
  BY <1>2, <1>3

\* A survivor that is named is a row, and the best one.
LEMMA NamedSurvivor ==
  ASSUME NEW cl \in [ClaimKey -> ClaimRow], NEW w \in Window, SurvivorOf(cl, w) # NoKey
  PROVE  /\ SurvivorOf(cl, w) \in ClaimKey /\ SurvivorOf(cl, w)[1] = w
         /\ cl[SurvivorOf(cl, w)].ver > 0
         /\ IsBest(cl, SurvivorOf(cl, w))
<1>1. \E k \in ClaimKey : k[1] = w /\ cl[k].ver > 0
  BY DEF SurvivorOf
<1> QED
  BY <1>1, SurvivorIsBest

\* To be best depends on the rows and epochs of the window alone.
LEMMA BestKept ==
  ASSUME NEW c, NEW d, NEW j \in ClaimKey, IsBest(c, j),
         \A k \in ClaimKey : k[1] = j[1] =>
           /\ d[k].ver > 0 => c[k].ver > 0
           /\ d[k].epoch = c[k].epoch
  PROVE  IsBest(d, j)
  BY DEF IsBest, Before

-----------------------------------------------------------------------------
(* What a step does to the claims                                               *)

\* A claim table with one row written anew.
Puts(n, k, row) ==
  /\ claim'[n][k].ver > 0
  /\ claim'[n][k].epoch = row.epoch /\ claim'[n][k].fenced = row.fenced
  /\ \A p \in Node, j \in ClaimKey : p # n \/ j # k => claim'[p][j] = claim[p][j]

\* The first claim of a window at n.
Claims(n, w, e) ==
  /\ \A k \in ClaimKey : k[1] = w => ~(claim[n][k].ver > 0)
  /\ Puts(n, <<w, n>>, [epoch |-> e, fenced |-> FALSE])

\* Rows and epochs stay, fences stay or are added.
Marks ==
  \A p \in Node, k \in ClaimKey :
    /\ claim'[p][k].ver > 0 <=> claim[p][k].ver > 0
    /\ claim'[p][k].epoch = claim[p][k].epoch
    /\ claim[p][k].fenced => claim'[p][k].fenced

\* ... and none is added.
Keeps == Marks /\ \A p \in Node, k \in ClaimKey : claim'[p][k].fenced => claim[p][k].fenced

\* One pull: the merge of two tables, fenced in the windows it changed.
Merges(n, p) ==
  /\ \A q \in Node : q # n => claim'[q] = claim[q]
  /\ \E W : /\ claim'[n] = FenceRunUuid(n, MergeOf(n, p), W)
            /\ \A k \in ClaimKey : k[1] \notin W => MergeOf(n, p)[k] = claim[n][k]

\* PutClaim writes one row.
LEMMA PutClaimPuts ==
  ASSUME Types, NEW n \in Node, NEW k \in ClaimKey, NEW row \in ClaimRow, PutClaim(n, k, row)
  PROVE  Puts(n, k, row)
<1> DEFINE copies == [p \in Node |-> claim[p][k]]
<1>1. \A p \in Node : copies[p].ver \in Nat
  BY DEF Types, ClaimRow
<1> HIDE DEF copies
<1>2. NextVer(copies) \in Nat \ {0}
  BY <1>1, NextVerLater
<1> DEFINE r == [row EXCEPT !.ver = NextVer(copies)]
<1>3. claim' = [claim EXCEPT ![n][k] = r]
  BY DEF PutClaim, copies
<1>4. r.ver > 0 /\ r.epoch = row.epoch /\ r.fenced = row.fenced
  BY <1>2 DEF ClaimRow
<1> HIDE DEF r
<1>5. /\ claim'[n][k] = r
      /\ \A p \in Node, j \in ClaimKey : p # n \/ j # k => claim'[p][j] = claim[p][j]
  BY <1>3 DEF Types
<1> QED
  BY <1>4, <1>5 DEF Puts

\* TryClaim makes the first claim of a window or none.
LEMMA TryClaimClaims ==
  ASSUME Types, NEW n \in Node, NEW w \in Window, NEW e \in 0..MaxEpoch,
         NEW at \in 0..MaxTime, TryClaim(n, w, e, at)
  PROVE  /\ UNCHANGED claim \/ Claims(n, w, e)
         /\ ClaimRows(n, w) = {} => Claims(n, w, e)
<1> DEFINE row == [NoClaim EXCEPT !.epoch = e, !.started = at]
<1>1. <<w, n>> \in ClaimKey
  BY DEF ClaimKey
<1>2. row \in ClaimRow /\ row.epoch = e /\ row.fenced = FALSE
  BY DEF NoClaim, ClaimRow
<1>3. ASSUME ClaimRows(n, w) = {} PROVE Claims(n, w, e)
  <2>1. PutClaim(n, <<w, n>>, row)
    BY <1>3 DEF TryClaim
  <2> HIDE DEF row
  <2>2. Puts(n, <<w, n>>, row)
    BY <1>1, <1>2, <2>1, PutClaimPuts
  <2>3. \A k \in ClaimKey : k[1] = w => ~(claim[n][k].ver > 0)
    BY <1>3 DEF ClaimRows
  <2> QED
    BY <1>2, <2>2, <2>3 DEF Claims, Puts
<1> QED
  BY <1>3 DEF TryClaim

\* Every step claims a window, marks rows or merges two tables; without a takeover it
\* marks none but in a merge.
LEMMA ClaimStep ==
  ASSUME Types, [Next]_vars
  PROVE  /\ \/ Marks
            \/ \E n \in Node, w \in Window, e \in 0..MaxEpoch : Claims(n, w, e)
            \/ \E n, p \in Node : Merges(n, p)
         /\ \/ Keeps
            \/ \E n \in Node : TakeOverClaim(n)
            \/ \E n \in Node, w \in Window, e \in 0..MaxEpoch : Claims(n, w, e)
            \/ \E n, p \in Node : Merges(n, p)
<1> USE Constants
<1> DEFINE New == \E n \in Node, w \in Window, e \in 0..MaxEpoch : Claims(n, w, e)
<1>1. UNCHANGED claim => Keeps
  BY DEF Keeps, Marks
<1>2. Keeps => Marks
  BY DEF Keeps
<1>3. ASSUME NEW n \in Node, ClaimAndFire(n) PROVE Keeps \/ New
  <2>1. sched[n].next \in Window /\ now \in 0..MaxTime
    BY <1>3, DueTyped DEF ClaimAndFire, Types
  <2> QED
    BY <1>1, <1>3, <2>1, TryClaimClaims DEF ClaimAndFire
<1>4. ASSUME NEW n \in Node, ClaimUnderHeldLease(n) PROVE Keeps \/ New
  <2>1. sched[n].next \in Window /\ now \in 0..MaxTime
    BY <1>4, DueTyped DEF ClaimUnderHeldLease, NoClaimYet, LeaseDue, Types
  <2>2. EffectiveLease(n)[2] \in 0..MaxEpoch
    <3>1. EffectiveLease(n) \in LeaseKey
      BY <1>4, EffectiveTyped DEF ClaimUnderHeldLease
    <3> QED
      BY <3>1 DEF LeaseKey
  <2> QED
    BY <1>1, <1>4, <2>1, <2>2, TryClaimClaims DEF ClaimUnderHeldLease
<1>5. ASSUME NEW n \in Node, NEW e \in 0..MaxEpoch, LeaseTo(n, e), poll[n].pc = "lease"
      PROVE  Keeps \/ New
  <2>1. poll[n].window \in Window /\ poll[n].at \in 0..MaxTime
    BY <1>5 DEF Types, PollState
  <2> QED
    BY <1>1, <1>5, <2>1, TryClaimClaims DEF LeaseTo
<1>6. ASSUME NEW n \in Node, poll[n].eff[1] \in Node
      PROVE  poll[n].eff[2] \in 1..MaxEpoch
  <2>1. poll[n].eff \in LeaseKey \cup {NoKey} /\ poll[n].eff # NoKey
    BY <1>6 DEF Types, PollState, NoKey
  <2> QED
    BY <2>1 DEF LeaseKey
<1>7. ASSUME NEW n \in Node, FirstAcquisition(n) PROVE Keeps \/ New
  BY <1>5, <1>7 DEF FirstAcquisition
<1>8. ASSUME NEW n \in Node, HeldLease(n) PROVE Keeps \/ New
  <2>1. poll[n].eff[2] \in 0..MaxEpoch /\ LeaseTo(n, poll[n].eff[2]) /\ poll[n].pc = "lease"
    BY <1>6, <1>8 DEF HeldLease
  <2> QED
    BY <1>5, <2>1
<1>9. ASSUME NEW n \in Node, Reacquire(n) PROVE Keeps \/ New
  <2>1. /\ poll[n].eff[2] + 1 \in 0..MaxEpoch /\ LeaseTo(n, poll[n].eff[2] + 1)
        /\ poll[n].pc = "lease"
    BY <1>6, <1>9 DEF Reacquire, Acquire
  <2> QED
    BY <1>5, <2>1
<1>10. ASSUME NEW n \in Node, TakeOverLease(n) PROVE Keeps \/ New
  <2>1. /\ poll[n].eff[2] + 1 \in 0..MaxEpoch /\ LeaseTo(n, poll[n].eff[2] + 1)
        /\ poll[n].pc = "lease"
    <3>1. poll[n].eff[1] \in Node
      BY <1>10 DEF TakeOverLease, Peers
    <3>2. poll[n].eff[2] \in 1..MaxEpoch
      BY <1>6, <3>1
    <3> QED
      BY <1>10, <3>2 DEF TakeOverLease, Acquire
  <2> QED
    BY <1>5, <2>1
<1>11. ASSUME NEW n \in Node, TakeOverClaim(n) PROVE Marks
  <2> DEFINE w == sched[n].next
             new(j) == IF j \in ClaimRows(n, w)
                       THEN [claim[n][j] EXCEPT !.fenced = TRUE,
                                !.ver = NextVer([p \in Node |-> claim[p][j]])]
                       ELSE claim[n][j]
  <2>1. claim' = [claim EXCEPT ![n] = [j \in ClaimKey |-> new(j)]]
    BY <1>11 DEF TakeOverClaim
  <2>2. ASSUME NEW j \in ClaimKey
        PROVE  /\ new(j).ver > 0 <=> claim[n][j].ver > 0
               /\ new(j).epoch = claim[n][j].epoch
               /\ claim[n][j].fenced => new(j).fenced
    <3> DEFINE copies == [p \in Node |-> claim[p][j]]
    <3>1. \A p \in Node : copies[p].ver \in Nat
      BY DEF Types, ClaimRow
    <3>2. NextVer(copies) \in Nat \ {0}
      <4> HIDE DEF copies
      <4> QED
        BY <3>1, NextVerLater
    <3> DEFINE v == NextVer([p \in Node |-> claim[p][j]])
    <3>3. v \in Nat \ {0} /\ claim[n][j] \in ClaimRow
      BY <3>2 DEF Types
    <3>4. j \in ClaimRows(n, w) => claim[n][j].ver > 0
      BY DEF ClaimRows
    <3> HIDE DEF v
    <3>5. new(j) = IF j \in ClaimRows(n, w)
                   THEN [claim[n][j] EXCEPT !.fenced = TRUE, !.ver = v] ELSE claim[n][j]
      BY DEF v
    <3> HIDE DEF new
    <3> QED
      BY <3>3, <3>4, <3>5 DEF ClaimRow
  <2> HIDE DEF new
  <2>3. \A p \in Node, j \in ClaimKey :
          claim'[p][j] = IF p = n THEN new(j) ELSE claim[p][j]
    BY <2>1 DEF Types
  <2> QED
    BY <2>2, <2>3 DEF Marks
<1>12. ASSUME NEW n \in Node, Finish(n) PROVE Keeps
  <2> DEFINE k == <<poll[n].window, n>>
             row == [claim[n][k] EXCEPT !.done = TRUE]
  <2>1. k \in ClaimKey /\ claim[n][k] \in ClaimRow
    BY <1>12 DEF Finish, Types, ClaimKey
  <2>2. /\ row \in ClaimRow /\ row.epoch = claim[n][k].epoch
        /\ row.fenced = claim[n][k].fenced
    <3> HIDE DEF k
    <3> QED
      BY <2>1 DEF ClaimRow
  <2>3. UNCHANGED claim \/ (claim[n][k].ver # 0 /\ PutClaim(n, k, row))
    BY <1>12 DEF Finish
  <2> HIDE DEF row, k
  <2>4. CASE claim[n][k].ver # 0 /\ PutClaim(n, k, row)
    <3>1. Puts(n, k, row)
      BY <2>1, <2>2, <2>4, PutClaimPuts
    <3>2. claim[n][k].ver > 0
      BY <2>1, <2>4 DEF ClaimRow
    <3> QED
      BY <2>1, <2>2, <3>1, <3>2 DEF Puts, Keeps, Marks
  <2> QED
    BY <1>1, <2>3, <2>4
<1>13. ASSUME NEW n \in Node, NEW p \in Node, Pull(n, p) PROVE Merges(n, p)
  <2> DEFINE hit == {k[1] : k \in {k \in ClaimKey : MergeOf(n, p)[k] # claim[n][k]}}
  <2>1. claim' = [claim EXCEPT ![n] = FenceRunUuid(n, MergeOf(n, p), hit)]
    BY <1>13 DEF Pull, MergeOf
  <2>2. \A k \in ClaimKey : k[1] \notin hit => MergeOf(n, p)[k] = claim[n][k]
    OBVIOUS
  <2> HIDE DEF hit
  <2> QED
    BY <2>1, <2>2 DEF Merges, Types
<1>14. ASSUME NEW n \in Node, PollStep(n) PROVE Keeps \/ TakeOverClaim(n) \/ New
  <2>1. CASE AskAboutLease(n) \/ NoLeaseNow(n) \/ DispatchClaim(n) \/ Fire(n) \/ Advance(n)
    BY <1>1, <2>1 DEF AskAboutLease, NoLeaseNow, DispatchClaim, Fire, Advance
  <2> QED
    BY <1>3, <1>4, <1>7, <1>8, <1>9, <1>10, <1>12, <1>14, <2>1 DEF PollStep
<1>15. ASSUME NEW n \in Node, NEW p \in Node, 
              ReleaseLease(n) \/ Crash(n) \/ Restart(n) \/ DetectDown(n, p) \/ Cut \/ Mend \/ Tick
       PROVE  Keeps
  BY <1>1, <1>15 DEF ReleaseLease, Crash, Restart, DetectDown, Cut, Mend, Tick
<1>16. UNCHANGED vars => Keeps
  BY <1>1 DEF vars
<1> HIDE DEF New
<1>17. \/ Keeps
       \/ \E n \in Node : TakeOverClaim(n)
       \/ New
       \/ \E n, p \in Node : Merges(n, p)
  BY <1>13, <1>14, <1>15, <1>16 DEF Next
<1> QED
  BY <1>2, <1>11, <1>17 DEF New

\* Rows are never lost.
LEMMA RowsStay ==
  ASSUME Types, [Next]_vars, NEW p \in Node, NEW k \in ClaimKey, claim[p][k].ver > 0
  PROVE  claim'[p][k].ver > 0
<1>1. CASE Marks
  BY <1>1 DEF Marks
<1>2. ASSUME NEW n \in Node, NEW w \in Window, NEW e \in 0..MaxEpoch, Claims(n, w, e)
      PROVE  claim'[p][k].ver > 0
  BY <1>2 DEF Claims, Puts
<1>3. ASSUME NEW n \in Node, NEW q \in Node, Merges(n, q) PROVE claim'[p][k].ver > 0
  <2>1. CASE p # n
    BY <1>3, <2>1 DEF Merges
  <2>2. CASE p = n
    <3>1. MergeOf(n, q) \in [ClaimKey -> ClaimRow] /\ MergeOf(n, q)[k].ver > 0
      BY <2>2, MergeTakes
    <3>2. PICK W : claim'[n] = FenceRunUuid(n, MergeOf(n, q), W)
      BY <1>3 DEF Merges
    <3> QED
      BY <2>2, <3>1, <3>2, FenceMarks
  <2> QED
    BY <2>1, <2>2
<1> QED
  BY <1>1, <1>2, <1>3, ClaimStep

-----------------------------------------------------------------------------
(* The tripwire                                                                 *)

\* A claim starts at its claimant; copies agree on its epoch; and of a window's rows at
\* one node all but the best are fenced.
StartsAtClaimant ==
  \A p \in Node, k \in ClaimKey : claim[p][k].ver > 0 => claim[k[2]][k].ver > 0
SameEpoch ==
  \A p, q \in Node, k \in ClaimKey :
    claim[p][k].ver > 0 /\ claim[q][k].ver > 0 => claim[p][k].epoch = claim[q][k].epoch
LosersFenced ==
  \A p \in Node, k \in ClaimKey :
    claim[p][k].ver > 0 /\ ~claim[p][k].fenced => IsBest(claim[p], k)
ClaimInv == StartsAtClaimant /\ SameEpoch /\ LosersFenced

\* Who fires, or has fired, has a claim.
FirerClaims ==
  \A n \in Node :
    /\ poll[n].pc = "fire" => claim[n][<<poll[n].window, n>>].ver > 0
    /\ \A w \in Window : fired[w][n] > 0 => claim[n][<<w, n>>].ver > 0

\* One claim more: nobody has another copy of it, and no other row of its window is there.
LEMMA ClaimInvClaims ==
  ASSUME Types, ClaimInv, NEW n \in Node, NEW w \in Window, NEW e \in 0..MaxEpoch,
         Claims(n, w, e)
  PROVE  ClaimInv'
<1> USE Constants
<1> DEFINE key == <<w, n>>
<1>1. key \in ClaimKey /\ key[1] = w /\ key[2] = n
  BY DEF ClaimKey
<1>2. /\ claim'[n][key].ver > 0 /\ claim'[n][key].epoch = e
      /\ ~claim'[n][key].fenced
      /\ \A p \in Node, j \in ClaimKey : p # n \/ j # key => claim'[p][j] = claim[p][j]
      /\ \A k \in ClaimKey : k[1] = w => ~(claim[n][k].ver > 0)
  BY DEF Claims, Puts
<1> HIDE DEF key
<1>3. \A k \in ClaimKey : k[2] \in Node
  BY DEF ClaimKey
<1>4. \A p \in Node : ~(claim[p][key].ver > 0)
  BY <1>1, <1>2 DEF ClaimInv, StartsAtClaimant
<1>5. StartsAtClaimant'
  <2> SUFFICES ASSUME NEW p \in Node, NEW k \in ClaimKey, claim'[p][k].ver > 0
               PROVE  claim'[k[2]][k].ver > 0
    BY DEF StartsAtClaimant
  <2>1. CASE k = key
    BY <1>1, <1>2, <2>1
  <2>2. CASE k # key
    <3>1. claim'[p][k] = claim[p][k] /\ claim'[k[2]][k] = claim[k[2]][k]
      BY <1>2, <1>3, <2>2
    <3> QED
      BY <3>1 DEF ClaimInv, StartsAtClaimant
  <2> QED
    BY <2>1, <2>2
<1>6. SameEpoch'
  BY <1>2, <1>4 DEF ClaimInv, SameEpoch
<1>7. LosersFenced'
  <2> SUFFICES ASSUME NEW p \in Node, NEW k \in ClaimKey, claim'[p][k].ver > 0,
                      ~claim'[p][k].fenced
               PROVE  IsBest(claim'[p], k)
    BY DEF LosersFenced
  <2>1. CASE p = n /\ k = key
    <3>1. \A j \in ClaimKey : j[1] = k[1] /\ claim'[p][j].ver > 0 => j = k
      BY <1>1, <1>2, <2>1
    <3>2. Before(claim'[p], k, k)
      BY <1>1, <1>2, <2>1 DEF Before
    <3> QED
      BY <3>1, <3>2 DEF IsBest
  <2>2. CASE ~(p = n /\ k = key)
    <3>1. claim'[p][k] = claim[p][k] /\ IsBest(claim[p], k)
      BY <1>2, <2>2 DEF ClaimInv, LosersFenced
    <3>2. \A j \in ClaimKey : j[1] = k[1] => claim'[p][j] = claim[p][j]
      BY <1>1, <1>2, <2>2, <3>1
    <3> QED
      BY <3>1, <3>2, BestKept
  <2> QED
    BY <2>1, <2>2
<1> QED
  BY <1>5, <1>6, <1>7 DEF ClaimInv

\* A merge: each row is one of the two nodes', and what lost in a window it changed is
\* fenced on the spot.
LEMMA ClaimInvMerges ==
  ASSUME Types, ClaimInv, NEW n \in Node, NEW p \in Node, Merges(n, p)
  PROVE  ClaimInv'
<1> DEFINE m == MergeOf(n, p)
<1>1. m \in [ClaimKey -> ClaimRow]
  BY MergeTakes
<1>2. PICK W : /\ claim'[n] = FenceRunUuid(n, m, W)
               /\ \A k \in ClaimKey : k[1] \notin W => m[k] = claim[n][k]
  BY DEF Merges
<1>3. \A q \in Node : q # n => claim'[q] = claim[q]
  BY DEF Merges
<1>4. ASSUME NEW k \in ClaimKey
      PROVE  /\ claim'[n][k].epoch = m[k].epoch
             /\ claim'[n][k].ver > 0 <=> m[k].ver > 0
             /\ claim'[n][k].fenced <=>
                  m[k].fenced \/ (k[1] \in W /\ m[k].ver > 0 /\ k # SurvivorOf(m, k[1]))
  BY <1>1, <1>2, FenceMarks
<1>5. ASSUME NEW k \in ClaimKey
      PROVE  /\ m[k] \in {claim[n][k], claim[p][k]}
             /\ m[k].ver > 0 <=> claim[n][k].ver > 0 \/ claim[p][k].ver > 0
  BY MergeTakes
<1> HIDE DEF m
<1>6. \A k \in ClaimKey : k[1] \in Window /\ k[2] \in Node
  BY DEF ClaimKey
<1>7. \A q \in Node, k \in ClaimKey : claim[q][k].ver > 0 => claim'[q][k].ver > 0
  BY <1>3, <1>4, <1>5
<1>8. \A q \in Node, k \in ClaimKey : claim'[q][k].ver > 0 =>
        \E r \in Node : claim[r][k].ver > 0 /\ claim'[q][k].epoch = claim[r][k].epoch
  BY <1>3, <1>4, <1>5
<1>9. StartsAtClaimant'
  BY <1>6, <1>7, <1>8 DEF ClaimInv, StartsAtClaimant
<1>10. SameEpoch'
  BY <1>8 DEF ClaimInv, SameEpoch
<1>11. LosersFenced'
  <2> SUFFICES ASSUME NEW q \in Node, NEW k \in ClaimKey, claim'[q][k].ver > 0,
                      ~claim'[q][k].fenced
               PROVE  IsBest(claim'[q], k)
    BY DEF LosersFenced
  <2>1. CASE q # n
    BY <1>3, <2>1 DEF ClaimInv, LosersFenced
  <2>2. CASE q = n /\ k[1] \in W
    <3>1. k = SurvivorOf(m, k[1]) /\ m[k].ver > 0
      BY <1>4, <2>2
    <3>2. IsBest(m, k)
      BY <1>1, <1>6, <3>1, SurvivorIsBest
    <3> QED
      BY <1>4, <2>2, <3>2, BestKept
  <2>3. CASE q = n /\ k[1] \notin W
    <3>1. \A j \in ClaimKey : j[1] = k[1] =>
            /\ claim'[q][j].epoch = claim[q][j].epoch
            /\ claim'[q][j].ver > 0 <=> claim[q][j].ver > 0
            /\ claim'[q][j].fenced <=> claim[q][j].fenced
      BY <1>2, <1>4, <2>3
    <3>2. IsBest(claim[q], k)
      BY <3>1 DEF ClaimInv, LosersFenced
    <3> QED
      BY <3>1, <3>2, BestKept
  <2> QED
    BY <2>1, <2>2, <2>3
<1> QED
  BY <1>9, <1>10, <1>11 DEF ClaimInv

\* The claim rules hold of empty tables.
LEMMA ClaimInvInit == Init => ClaimInv
  BY DEF Init, NoClaim, ClaimInv, StartsAtClaimant, SameEpoch, LosersFenced, ClaimKey

\* ... and every step keeps them.
LEMMA ClaimInvNext ==
  ASSUME Types, ClaimInv, [Next]_vars
  PROVE  ClaimInv'
<1>1. CASE Marks
  <2>1. \A k \in ClaimKey : k[2] \in Node
    BY DEF ClaimKey
  <2>2. StartsAtClaimant'
    BY <1>1, <2>1 DEF ClaimInv, StartsAtClaimant, Marks
  <2>3. SameEpoch'
    BY <1>1 DEF ClaimInv, SameEpoch, Marks
  <2>4. LosersFenced'
    <3> SUFFICES ASSUME NEW p \in Node, NEW k \in ClaimKey, claim'[p][k].ver > 0,
                        ~claim'[p][k].fenced
                 PROVE  IsBest(claim'[p], k)
      BY DEF LosersFenced
    <3>1. IsBest(claim[p], k)
      BY <1>1 DEF Marks, ClaimInv, LosersFenced
    <3>2. \A j \in ClaimKey : /\ claim'[p][j].ver > 0 => claim[p][j].ver > 0
                              /\ claim'[p][j].epoch = claim[p][j].epoch
      BY <1>1 DEF Marks
    <3> QED
      BY <3>1, <3>2, BestKept
  <2> QED
    BY <2>2, <2>3, <2>4 DEF ClaimInv
<1> QED
  BY <1>1, ClaimStep, ClaimInvClaims, ClaimInvMerges

\* How a poll thread comes to fire: it goes on firing, it has just made the first claim
\* of an at-least-once window, or it dispatches a claim of its own; and what is counted
\* as fired was about to fire.
LEMMA FireMoves ==
  ASSUME Types, [Next]_vars, NEW n \in Node
  PROVE  /\ poll'[n].pc = "fire" =>
              \/ /\ poll[n].pc = "fire" /\ poll'[n].window = poll[n].window
                 /\ \A w \in Window : fired'[w][n] = fired[w][n]
              \/ /\ ClaimAndFire(n) /\ ClaimRows(n, sched[n].next) = {}
                 /\ poll'[n].window = sched[n].next /\ fired' = fired
              \/ /\ DispatchClaim(n) /\ ~claim[n][<<sched[n].next, n>>].done
                 /\ poll'[n].window = sched[n].next /\ fired' = fired
         /\ \A w \in Window :
              fired'[w][n] = fired[w][n] \/ (Fire(n) /\ w = poll[n].window)
<1> DEFINE Going == poll[n].pc = "fire" /\ poll'[n].window = poll[n].window
           Same == poll'[n].pc = "fire" => Going
<1>1. ASSUME NEW m \in Node, poll' = [poll EXCEPT ![m] = Idle] PROVE Same
  BY <1>1 DEF Types, Idle
<1>2. UNCHANGED poll => Same
  OBVIOUS
<1>3. ASSUME NEW m \in Node, NEW pc \in {"finish", "advance"}, Goto(m, pc) PROVE Same
  BY <1>3 DEF Goto, Types, PollState
<1>4. ASSUME NEW m \in Node, NEW pc \in {"fire", "advance"}, Due(m), Begin(m, pc)
      PROVE  /\ m # n => Same
             /\ m = n => poll'[n].pc = pc /\ poll'[n].window = sched[n].next
  BY <1>4, DueTyped DEF Peers
<1>5. ASSUME UNCHANGED vars PROVE Same /\ fired' = fired
  BY <1>5 DEF vars
<1>6. ASSUME NEW m \in Node, 
             ReleaseLease(m) \/ Crash(m) \/ Restart(m) \/ Cut \/ Mend \/ Tick
      PROVE  Same /\ fired' = fired
  BY <1>1, <1>2, <1>6 DEF ReleaseLease, Crash, Restart, Cut, Mend, Tick
<1>7. ASSUME NEW m \in Node, NEW p \in Node, Pull(m, p) \/ DetectDown(m, p)
      PROVE  Same /\ fired' = fired
  BY <1>2, <1>7 DEF Pull, DetectDown
<1>8. ASSUME NEW m \in Node, 
             ClaimUnderHeldLease(m) \/ FirstAcquisition(m) \/ HeldLease(m) \/ Reacquire(m)
             \/ TakeOverLease(m) \/ NoLeaseNow(m) \/ TakeOverClaim(m) \/ Advance(m)
      PROVE  Same /\ fired' = fired
  BY <1>1, <1>2, <1>8 DEF ClaimUnderHeldLease, FirstAcquisition, HeldLease, Reacquire,
       TakeOverLease, NoLeaseNow, TakeOverClaim, Advance, LeaseTo
<1>9. ASSUME NEW m \in Node, AskAboutLease(m) PROVE Same /\ fired' = fired
  <2>1. PICK s : poll' = [poll EXCEPT ![m] = s] /\ s.pc = "lease"
    <3> DEFINE k == EffectiveLease(m)
               r == IF k = NoKey THEN NoLease ELSE lease[m][k]
               d == Peers(m) = {} \/ AllDown(m)
               s(c) == [Idle EXCEPT !.pc = "lease", !.window = sched[m].next, !.at = now,
                                    !.eff = k, !.row = r, !.acked = c, !.alone = d]
    <3>1. PICK A \in SUBSET Asked(m) : poll' = [poll EXCEPT ![m] = s(CheckLeaseAck(m, k[2], A))]
      BY <1>9 DEF AskAboutLease
    <3> HIDE DEF k, r, d
    <3>2. s(CheckLeaseAck(m, k[2], A)).pc = "lease"
      BY DEF Idle
    <3> HIDE DEF s
    <3> QED
      BY <3>1, <3>2
  <2> QED
    BY <1>9, <2>1 DEF AskAboutLease, Types
<1>10. ASSUME NEW m \in Node, Finish(m) PROVE Same /\ fired' = fired
  BY <1>3, <1>10 DEF Finish
<1>11. ASSUME NEW m \in Node, Fire(m)
       PROVE  /\ Same /\ (m = n => poll'[n].pc = "finish")
              /\ \A w \in Window : m # n \/ w # poll[n].window => fired'[w][n] = fired[w][n]
  <2>1. Same
    BY <1>3, <1>11 DEF Fire
  <2>2. m = n => poll'[n].pc = "finish"
    BY <1>11 DEF Fire, Goto, Types, PollState
  <2>3. \A w \in Window : m # n \/ w # poll[n].window => fired'[w][n] = fired[w][n]
    BY <1>11 DEF Fire, Types
  <2> QED
    BY <2>1, <2>2, <2>3
<1>12. ASSUME NEW m \in Node, ClaimAndFire(m)
       PROVE  /\ fired' = fired
              /\ Same \/ (m = n /\ poll'[n].window = sched[n].next
                          /\ (poll'[n].pc = "fire" => ClaimRows(n, sched[n].next) = {}))
  BY <1>4, <1>12 DEF ClaimAndFire
<1>13. ASSUME NEW m \in Node, DispatchClaim(m)
       PROVE  /\ fired' = fired
              /\ Same \/ (m = n /\ poll'[n].window = sched[n].next
                          /\ (poll'[n].pc = "fire" => ~claim[n][<<sched[n].next, n>>].done))
  BY <1>4, <1>13 DEF DispatchClaim, LeaseDue
<1> HIDE DEF Same
<1>14. \/ Same /\ fired' = fired
       \/ ClaimAndFire(n) \/ DispatchClaim(n)
       \/ \E m \in Node : Fire(m)
  BY <1>5, <1>6, <1>7, <1>8, <1>9, <1>10, <1>12, <1>13 DEF Next, PollStep
<1>15. CASE Same /\ fired' = fired
  BY <1>15 DEF Same
<1>16. CASE ClaimAndFire(n)
  BY <1>12, <1>16 DEF Same
<1>17. CASE DispatchClaim(n)
  BY <1>13, <1>17 DEF Same
<1>18. ASSUME NEW m \in Node, Fire(m)
       PROVE  /\ poll'[n].pc = "fire" => Going /\ \A w \in Window : fired'[w][n] = fired[w][n]
              /\ \A w \in Window :
                   fired'[w][n] = fired[w][n] \/ (Fire(n) /\ w = poll[n].window)
  BY <1>11, <1>18 DEF Same
<1> QED
  BY <1>14, <1>15, <1>16, <1>17, <1>18

\* Whoever fires keeps its claim.
LEMMA FirerClaimsInit == Init => FirerClaims
  BY DEF Init, Idle, FirerClaims

\* ... for a row is never lost, and to fire takes one.
LEMMA FirerClaimsNext ==
  ASSUME Types, FirerClaims, [Next]_vars
  PROVE  FirerClaims'
<1> SUFFICES ASSUME NEW n \in Node
             PROVE  /\ poll'[n].pc = "fire" => claim'[n][<<poll'[n].window, n>>].ver > 0
                    /\ \A w \in Window : fired'[w][n] > 0 => claim'[n][<<w, n>>].ver > 0
  BY DEF FirerClaims
<1> DEFINE Mine(w) == <<w, n>>
<1>1. \A w \in Window : Mine(w) \in ClaimKey
  BY DEF ClaimKey
<1>2. ASSUME NEW w \in Window, claim[n][Mine(w)].ver > 0 PROVE claim'[n][Mine(w)].ver > 0
  BY <1>1, <1>2, RowsStay
<1>3. poll[n].pc = "fire" => poll[n].window \in Window /\ claim[n][Mine(poll[n].window)].ver > 0
  BY DEF Types, FirerClaims
<1>4. ASSUME poll'[n].pc = "fire" PROVE claim'[n][Mine(poll'[n].window)].ver > 0
  <2>1. CASE poll[n].pc = "fire" /\ poll'[n].window = poll[n].window
    BY <1>2, <1>3, <2>1
  <2>2. CASE /\ ClaimAndFire(n) /\ ClaimRows(n, sched[n].next) = {}
             /\ poll'[n].window = sched[n].next
    <3>1. sched[n].next \in Window /\ now \in 0..MaxTime /\ 0 \in 0..MaxEpoch
      BY <2>2, DueTyped, Constants DEF ClaimAndFire, Types
    <3>2. TryClaim(n, sched[n].next, 0, now)
      BY <2>2 DEF ClaimAndFire
    <3>3. Claims(n, sched[n].next, 0)
      BY <2>2, <3>1, <3>2, TryClaimClaims
    <3> QED
      BY <2>2, <3>3 DEF Claims, Puts
  <2>3. CASE DispatchClaim(n) /\ poll'[n].window = sched[n].next
    <3>1. sched[n].next \in Window
      BY <2>3, DueTyped DEF DispatchClaim, LeaseDue
    <3>2. SurvivorOf(claim[n], sched[n].next) = Mine(sched[n].next)
      BY <2>3 DEF DispatchClaim, GetByUuid
    <3>3. Mine(sched[n].next) # NoKey
      BY <3>1, Constants DEF NoKey
    <3>4. claim[n][Mine(sched[n].next)].ver > 0
      BY <3>1, <3>2, <3>3, NamedSurvivor DEF Types
    <3> QED
      BY <1>2, <2>3, <3>1, <3>4
  <2> QED
    BY <1>4, <2>1, <2>2, <2>3, FireMoves
<1>5. ASSUME NEW w \in Window, fired'[w][n] > 0 PROVE claim'[n][Mine(w)].ver > 0
  <2>1. CASE fired'[w][n] = fired[w][n]
    BY <1>2, <1>5, <2>1 DEF FirerClaims
  <2>2. CASE Fire(n) /\ w = poll[n].window
    BY <1>2, <1>3, <2>2 DEF Fire
  <2> QED
    BY <2>1, <2>2, FireMoves
<1> QED
  BY <1>4, <1>5

\* A set with more than one member has two of them.
LEMMA TwoOf ==
  ASSUME NEW S \in SUBSET Node, Cardinality(S) > 1
  PROVE  \E n, p \in S : n # p
<1> SUFFICES ASSUME \A n, p \in S : n = p PROVE FALSE
  OBVIOUS
<1>1. CASE S = {}
  BY <1>1, FS_EmptySet
<1>2. CASE S # {}
  <2>1. PICK n \in S : S = {n}
    BY <1>2
  <2> QED
    BY <2>1, FS_Singleton
<1> QED
  BY <1>1, <1>2

\* A node that has seen two claims of a window shows one of them fenced.
BothSeenFenced ==
  \A m, n, p \in Node, w \in Window :
    n # p /\ claim[m][<<w, n>>].ver > 0 /\ claim[m][<<w, p>>].ver > 0
    => claim[m][<<w, n>>].fenced \/ claim[m][<<w, p>>].fenced

\* The invariant of the tripwire.
Tripwire == Types /\ ClaimInv /\ FirerClaims

\* The invariant of the tripwire holds at first.
LEMMA TripwireInit == Init => Tripwire
  BY TypesInit, ClaimInvInit, FirerClaimsInit DEF Tripwire

\* ... and every step keeps it.
LEMMA TripwireNext == Tripwire /\ [Next]_vars => Tripwire'
  BY TypesNext, ClaimInvNext, FirerClaimsNext DEF Tripwire

\* What it gives.
LEMMA TripwireShows == Tripwire => BothSeenFenced /\ DoubleFireSurfaces
<1> SUFFICES ASSUME Tripwire PROVE BothSeenFenced /\ DoubleFireSurfaces
  OBVIOUS
<1>1. ASSUME NEW m \in Node, NEW n \in Node, NEW p \in Node, NEW w \in Window, n # p,
             claim[m][<<w, n>>].ver > 0, claim[m][<<w, p>>].ver > 0
      PROVE  claim[m][<<w, n>>].fenced \/ claim[m][<<w, p>>].fenced
  <2>1. /\ <<w, n>> \in ClaimKey /\ <<w, p>> \in ClaimKey /\ <<w, n>> # <<w, p>>
        /\ claim[m] \in [ClaimKey -> ClaimRow]
    BY <1>1 DEF ClaimKey, Tripwire, Types
  <2> SUFFICES ASSUME ~claim[m][<<w, n>>].fenced, ~claim[m][<<w, p>>].fenced PROVE FALSE
    OBVIOUS
  <2>2. IsBest(claim[m], <<w, n>>) /\ IsBest(claim[m], <<w, p>>)
    BY <1>1, <2>1 DEF Tripwire, ClaimInv, LosersFenced
  <2> QED
    BY <1>1, <2>1, <2>2, OneBest
<1>2. BothSeenFenced
  BY <1>1 DEF BothSeenFenced
<1>3. ASSUME NEW w \in Window, Cardinality({n \in Node : fired[w][n] > 0}) > 1,
             \A n, p \in Node, c \in Node : claim[n][<<w, c>>] = claim[p][<<w, c>>]
      PROVE  \E n, c \in Node : claim[n][<<w, c>>].fenced
  <2>1. PICK n, p \in {n \in Node : fired[w][n] > 0} : n # p
    BY <1>3, TwoOf
  <2>2. claim[n][<<w, n>>].ver > 0 /\ claim[p][<<w, p>>].ver > 0
    BY <2>1 DEF Tripwire, FirerClaims
  <2>3. claim[n][<<w, p>>].ver > 0
    BY <1>3, <2>1, <2>2
  <2> QED
    BY <1>1, <2>1, <2>2, <2>3
<1> QED
  BY <1>2, <1>3 DEF DoubleFireSurfaces

\* A double fire never goes unseen: in every deployment, whatever crashes, is cut off or is
\* taken for dead, a node that has seen two claims of a window has one of them fenced, so
\* that once the rows are reconciled the fence shows (FenceRunUuid after every apply).
THEOREM DoubleFireAlwaysSurfaces == Spec => [](BothSeenFenced /\ DoubleFireSurfaces)
<1>1. Spec => []Tripwire
  BY TripwireInit, TripwireNext, PTL DEF Spec
<1> QED
  BY <1>1, TripwireShows, PTL

-----------------------------------------------------------------------------
(* At least once                                                                *)

\* Who is about to fire a window has not fired it, and nobody has fired one twice.
FiresOnce ==
  \A n \in Node :
    /\ poll[n].pc = "fire" => fired[poll[n].window][n] = 0
    /\ \A w \in Window : fired[w][n] <= 1

\* A window is fired right after its first claim, and a claim is never lost.
LEMMA FiresOnceNext ==
  ASSUME Semantics = "at_least_once", Types, FirerClaims, FiresOnce, [Next]_vars
  PROVE  FiresOnce'
<1> SUFFICES ASSUME NEW n \in Node
             PROVE  /\ poll'[n].pc = "fire" => fired'[poll'[n].window][n] = 0
                    /\ \A w \in Window : fired'[w][n] <= 1
  BY DEF FiresOnce
<1>1. poll[n].pc = "fire" => poll[n].window \in Window /\ fired[poll[n].window][n] = 0
  BY DEF Types, FiresOnce
<1>2. ~DispatchClaim(n)
  BY DEF DispatchClaim, LeaseDue
<1>3. ASSUME poll'[n].pc = "fire" PROVE fired'[poll'[n].window][n] = 0
  <2>1. CASE /\ poll[n].pc = "fire" /\ poll'[n].window = poll[n].window
             /\ \A w \in Window : fired'[w][n] = fired[w][n]
    BY <1>1, <2>1
  <2>2. CASE /\ ClaimAndFire(n) /\ ClaimRows(n, sched[n].next) = {}
             /\ poll'[n].window = sched[n].next /\ fired' = fired
    <3>1. sched[n].next \in Window
      BY <2>2, DueTyped DEF ClaimAndFire
    <3>2. <<sched[n].next, n>> \in ClaimKey
      BY <3>1 DEF ClaimKey
    <3>3. ~(claim[n][<<sched[n].next, n>>].ver > 0)
      BY <2>2, <3>2 DEF ClaimRows
    <3>4. ~(fired[sched[n].next][n] > 0)
      BY <3>1, <3>3 DEF FirerClaims
    <3>5. fired[sched[n].next][n] \in 0..2
      BY <3>1 DEF Types
    <3> QED
      BY <2>2, <3>4, <3>5
  <2> QED
    BY <1>2, <1>3, <2>1, <2>2, FireMoves
<1>4. ASSUME NEW w \in Window PROVE fired'[w][n] <= 1
  <2>1. CASE fired'[w][n] = fired[w][n]
    BY <2>1 DEF FiresOnce
  <2>2. CASE Fire(n) /\ w = poll[n].window
    <3>1. fired[w][n] = 0
      BY <1>1, <2>2 DEF Fire
    <3>2. fired' = [fired EXCEPT ![w][n] = IF @ < 2 THEN @ + 1 ELSE @]
      BY <2>2 DEF Fire
    <3> QED
      BY <3>1, <3>2 DEF Types
  <2> QED
    BY <2>1, <2>2, FireMoves
<1> QED
  BY <1>3, <1>4

\* An at-least-once window is fired no more than once by a node, however often it crashes
\* between claim, fire, finish and state update, and whatever it pulls from its peers
\* (TryClaim before the fire callback).
THEOREM AtMostOnceANode ==
  ASSUME Semantics = "at_least_once"
  PROVE  Spec => []FiredOncePerNode
<1>1. Init => FiresOnce
  BY DEF Init, Idle, FiresOnce
<1>2. Spec => [](Types /\ FirerClaims)
  BY TripwireInit, TripwireNext, PTL DEF Spec, Tripwire
<1>3. Types /\ FirerClaims /\ FiresOnce /\ [Next]_vars => FiresOnce'
  BY FiresOnceNext
<1>4. FiresOnce => FiredOncePerNode
  BY DEF FiresOnce, FiredOncePerNode
<1> QED
  BY <1>1, <1>2, <1>3, <1>4, PTL DEF Spec

-----------------------------------------------------------------------------
(* The election: nobody crashes, and nobody is taken for dead               *)

ElectNext == Next /\ AllAlive
NobodyDown == \A n \in Node : down[n] = {}

\* A fence is put on a row only where a better one is.
FencedIsBeaten ==
  \A p \in Node, k \in ClaimKey :
    claim[p][k].ver > 0 /\ claim[p][k].fenced => ~IsBest(claim[p], k)
Elected == Tripwire /\ NobodyDown /\ FencedIsBeaten

\* Nobody is taken for dead, so nobody takes a claim over.
LEMMA NobodyDownNext ==
  ASSUME Types, NobodyDown, [ElectNext]_vars
  PROVE  NobodyDown' /\ \A n \in Node : ~TakeOverClaim(n)
<1>1. NobodyDown'
  BY DEF NobodyDown, ElectNext, AllAlive, vars
<1>2. \A n \in Node : ~TakeOverClaim(n)
  BY DEF NobodyDown, TakeOverClaim, AllDown
<1> QED
  BY <1>1, <1>2

\* The order of two rows is the same at every node that has both.
LEMMA SameOrder ==
  ASSUME Types, ClaimInv, NEW p \in Node, NEW q \in Node, NEW j \in ClaimKey, NEW k \in ClaimKey,
         claim[p][j].ver > 0, claim[p][k].ver > 0, claim[q][j].ver > 0, claim[q][k].ver > 0
  PROVE  Before(claim[p], j, k) <=> Before(claim[q], j, k)
<1>1. claim[p][j].epoch = claim[q][j].epoch /\ claim[p][k].epoch = claim[q][k].epoch
  BY DEF ClaimInv, SameEpoch
<1> QED
  BY <1>1 DEF Before

\* What the rows of n are after it has pulled from p: the two nodes' rows, ordered as they
\* were, fenced where one of them had a fence or where the row lost.
LEMMA MergedRows ==
  ASSUME Types, ClaimInv, NEW n \in Node, NEW p \in Node, Merges(n, p)
  PROVE  /\ \A q \in Node : q # n => claim'[q] = claim[q]
         /\ \A k \in ClaimKey :
              /\ claim'[n][k].ver > 0 <=> claim[n][k].ver > 0 \/ claim[p][k].ver > 0
              /\ \A q \in {n, p} : claim[q][k].ver > 0 => claim'[n][k].epoch = claim[q][k].epoch
              /\ claim'[n][k].ver > 0 /\ claim'[n][k].fenced =>
                   \/ \E q \in {n, p} : claim[q][k].ver > 0 /\ claim[q][k].fenced
                   \/ ~IsBest(claim'[n], k)
<1> DEFINE m == MergeOf(n, p)
<1>1. m \in [ClaimKey -> ClaimRow]
  BY MergeTakes
<1>2. PICK W : claim'[n] = FenceRunUuid(n, m, W)
  BY DEF Merges
<1>3. ASSUME NEW k \in ClaimKey
      PROVE  /\ claim'[n][k].epoch = m[k].epoch
             /\ claim'[n][k].ver > 0 <=> m[k].ver > 0
             /\ claim'[n][k].fenced <=>
                  m[k].fenced \/ (k[1] \in W /\ m[k].ver > 0 /\ k # SurvivorOf(m, k[1]))
  BY <1>1, <1>2, FenceMarks
<1>4. ASSUME NEW k \in ClaimKey
      PROVE  /\ m[k] \in {claim[n][k], claim[p][k]}
             /\ m[k].ver > 0 <=> claim[n][k].ver > 0 \/ claim[p][k].ver > 0
  BY MergeTakes
<1> HIDE DEF m
<1>5. \A k \in ClaimKey : k[1] \in Window
  BY DEF ClaimKey
<1>6. ASSUME NEW k \in ClaimKey, NEW q \in {n, p}, claim[q][k].ver > 0
      PROVE  claim'[n][k].epoch = claim[q][k].epoch
  <2>1. PICK r \in {n, p} : m[k] = claim[r][k] /\ claim[r][k].ver > 0
    BY <1>4, <1>6
  <2> QED
    BY <1>3, <1>6, <2>1 DEF ClaimInv, SameEpoch
<1>7. ASSUME NEW k \in ClaimKey, claim'[n][k].ver > 0, claim'[n][k].fenced
      PROVE  \/ \E q \in {n, p} : claim[q][k].ver > 0 /\ claim[q][k].fenced
             \/ ~IsBest(claim'[n], k)
  <2>1. m[k].ver > 0
    BY <1>3, <1>7
  <2>2. CASE m[k].fenced
    BY <1>4, <2>1, <2>2
  <2>3. CASE k # SurvivorOf(m, k[1])
    <3> DEFINE s == SurvivorOf(m, k[1])
    <3>1. s \in ClaimKey /\ s[1] = k[1] /\ m[s].ver > 0 /\ IsBest(m, s)
      BY <1>1, <1>5, <2>1, SurvivorIsBest
    <3>2. ~IsBest(m, k)
      BY <1>1, <2>1, <2>3, <3>1, OneBest
    <3>3. \A j \in ClaimKey : (m[j].ver > 0 => claim'[n][j].ver > 0) /\ m[j].epoch = claim'[n][j].epoch
      BY <1>3
    <3> QED
      BY <3>2, <3>3, BestKept
  <2> QED
    BY <1>3, <1>7, <2>2, <2>3
<1>8. \A q \in Node : q # n => claim'[q] = claim[q]
  BY DEF Merges
<1> QED
  BY <1>3, <1>4, <1>6, <1>7, <1>8

\* Fenced rows stay beaten: a merge only adds rows, and orders them alike.
LEMMA FencedIsBeatenNext ==
  ASSUME Types, ClaimInv, NobodyDown, FencedIsBeaten, [ElectNext]_vars
  PROVE  FencedIsBeaten'
<1> SUFFICES ASSUME NEW q \in Node, NEW k \in ClaimKey, claim'[q][k].ver > 0,
                    claim'[q][k].fenced
             PROVE  ~IsBest(claim'[q], k)
  BY DEF FencedIsBeaten
<1>1. CASE Keeps
  <2>1. ~IsBest(claim[q], k)
    BY <1>1 DEF Keeps, Marks, FencedIsBeaten
  <2>2. \A j \in ClaimKey : /\ claim[q][j].ver > 0 => claim'[q][j].ver > 0
                            /\ claim[q][j].epoch = claim'[q][j].epoch
    BY <1>1 DEF Keeps, Marks
  <2> QED
    BY <2>1, <2>2, BestKept
<1>2. ASSUME NEW n \in Node, NEW w \in Window, NEW e \in 0..MaxEpoch, Claims(n, w, e)
      PROVE  ~IsBest(claim'[q], k)
  <2>1. <<w, n>> \in ClaimKey /\ <<w, n>>[1] = w
    BY DEF ClaimKey
  <2>2. q # n \/ k # <<w, n>>
    BY <1>2 DEF Claims, Puts
  <2>3. claim'[q][k] = claim[q][k]
    BY <1>2, <2>2 DEF Claims, Puts
  <2>4. ~IsBest(claim[q], k)
    BY <2>3 DEF FencedIsBeaten
  <2>5. q = n => k[1] # w
    BY <1>2, <2>3 DEF Claims
  <2>6. \A j \in ClaimKey : j[1] = k[1] => claim'[q][j] = claim[q][j]
    BY <1>2, <2>1, <2>5 DEF Claims, Puts
  <2> QED
    BY <2>4, <2>6, BestKept
<1>3. ASSUME NEW n \in Node, NEW p \in Node, Merges(n, p)
      PROVE  ~IsBest(claim'[q], k)
  <2>1. CASE q # n
    BY <1>3, <2>1, MergedRows DEF FencedIsBeaten
  <2>2. CASE q = n /\ \E r \in {n, p} : claim[r][k].ver > 0 /\ claim[r][k].fenced
    <3>1. PICK r \in {n, p} : claim[r][k].ver > 0 /\ claim[r][k].fenced
      BY <2>2
    <3>2. PICK j \in ClaimKey : /\ j[1] = k[1] /\ claim[r][j].ver > 0
                               /\ ~Before(claim[r], k, j)
      BY <3>1 DEF FencedIsBeaten, IsBest
    <3>3. /\ claim'[n][j].ver > 0
          /\ claim'[n][j].epoch = claim[r][j].epoch /\ claim'[n][k].epoch = claim[r][k].epoch
      BY <1>3, <3>1, <3>2, MergedRows
    <3>4. ~Before(claim'[n], k, j)
      BY <3>2, <3>3 DEF Before
    <3> QED
      BY <2>2, <3>2, <3>3, <3>4 DEF IsBest
  <2> QED
    BY <1>3, <2>1, <2>2, MergedRows
<1>4. [Next]_vars
  BY DEF ElectNext
<1> QED
  BY <1>1, <1>2, <1>3, <1>4, ClaimStep, NobodyDownNext

\* The invariant of the election holds at first.
LEMMA ElectedInit == Init => Elected
<1> SUFFICES ASSUME Init PROVE Elected
  OBVIOUS
<1>1. Tripwire
  BY TripwireInit
<1>2. NobodyDown /\ FencedIsBeaten
  BY DEF Init, NobodyDown, FencedIsBeaten, NoClaim, ClaimKey
<1> QED
  BY <1>1, <1>2 DEF Elected

\* ... and every step of it keeps it.
LEMMA ElectedNext == Elected /\ [ElectNext]_vars => Elected'
<1> SUFFICES ASSUME Elected, [ElectNext]_vars PROVE Elected'
  OBVIOUS
<1>1. [Next]_vars
  BY DEF ElectNext
<1>2. Tripwire'
  BY <1>1, TripwireNext DEF Elected
<1> QED
  BY <1>2, NobodyDownNext, FencedIsBeatenNext DEF Elected, Tripwire

\* It leaves the survivor unfenced.
LEMMA ElectedUnfenced == Elected => SurvivorUnfenced
<1> SUFFICES ASSUME Elected, NEW n \in Node, NEW w \in Window, GetByUuid(n, w) # NoKey
             PROVE  ~claim[n][GetByUuid(n, w)].fenced
  BY DEF SurvivorUnfenced
<1>1. /\ GetByUuid(n, w) \in ClaimKey /\ claim[n][GetByUuid(n, w)].ver > 0
      /\ IsBest(claim[n], GetByUuid(n, w))
  BY NamedSurvivor DEF GetByUuid, Elected, Tripwire, Types
<1> QED
  BY <1>1 DEF Elected, FencedIsBeaten
-----------------------------------------------------------------------------
(* One winner on two nodes.  With a third node two nodes may both fire: one     *)
(* confirms a claim, later pulls a better one from the third, and confirms that *)
(* too.                                                                         *)

TwoNodes == \E a, b \in Node : Node = {a, b}

\* Every node has the claim of n, and takes it for the best of its window.
Won(w, n) ==
  \A p \in Node : claim[p][<<w, n>>].ver > 0 /\ IsBest(claim[p], <<w, n>>)

\* Who fires, or has fired, has won.
Winners ==
  \A n \in Node :
    /\ poll[n].pc = "fire" => Won(poll[n].window, n)
    /\ \A w \in Window : fired[w][n] > 0 => Won(w, n)

\* What has been won stays won: nobody claims a window it has a row of, and a pull brings
\* only rows that some node has already found not to be better.
LEMMA WonStays ==
  ASSUME Types, ClaimInv, NobodyDown, [ElectNext]_vars,
         NEW w \in Window, NEW n \in Node, Won(w, n)
  PROVE  Won(w, n)'
<1> DEFINE key == <<w, n>>
<1>1. key \in ClaimKey /\ key[1] = w
  BY DEF ClaimKey
<1>2. \A p \in Node : claim[p][key].ver > 0 /\ IsBest(claim[p], key)
  BY DEF Won
<1>3. SUFFICES ASSUME NEW p \in Node
               PROVE  claim'[p][key].ver > 0 /\ IsBest(claim'[p], key)
  BY DEF Won
<1> HIDE DEF key
<1>4. [Next]_vars
  BY DEF ElectNext
<1>5. claim'[p][key].ver > 0
  BY <1>1, <1>2, <1>4, RowsStay
<1>6. CASE Keeps
  BY <1>1, <1>2, <1>6, BestKept DEF Keeps, Marks
<1>7. ASSUME NEW m \in Node, NEW v \in Window, NEW e \in 0..MaxEpoch, Claims(m, v, e)
      PROVE  IsBest(claim'[p], key)
  <2>1. v # w
    BY <1>1, <1>2, <1>7 DEF Claims
  <2>2. \A j \in ClaimKey : j[1] = w => claim'[p][j] = claim[p][j]
    <3>1. <<v, m>>[1] = v
      OBVIOUS
    <3> QED
      BY <1>7, <2>1, <3>1 DEF Claims, Puts
  <2> QED
    BY <1>1, <1>2, <2>2, BestKept
<1>8. ASSUME NEW m \in Node, NEW q \in Node, Merges(m, q)
      PROVE  IsBest(claim'[p], key)
  <2>1. CASE p # m
    BY <1>2, <1>8, <2>1 DEF Merges
  <2>2. CASE p = m
    <3> SUFFICES ASSUME NEW k \in ClaimKey, k[1] = w, claim'[p][k].ver > 0
                 PROVE  Before(claim'[p], key, k)
      BY <1>1 DEF IsBest
    <3>1. PICK r \in {m, q} : claim[r][k].ver > 0
      BY <1>8, <2>2, MergedRows
    <3>2. Before(claim[r], key, k)
      BY <1>1, <1>2, <3>1 DEF IsBest
    <3>3. claim'[p][k].epoch = claim[r][k].epoch /\ claim'[p][key].epoch = claim[r][key].epoch
      BY <1>1, <1>2, <1>8, <2>2, <3>1, MergedRows
    <3> QED
      BY <3>2, <3>3 DEF Before
  <2> QED
    BY <2>1, <2>2
<1>9. Keeps \/ (\E m \in Node, v \in Window, e \in 0..MaxEpoch : Claims(m, v, e))
      \/ (\E m, q \in Node : Merges(m, q))
  BY <1>4, ClaimStep, NobodyDownNext
<1> QED
  BY <1>5, <1>6, <1>7, <1>8, <1>9

\* A dispatched claim has won: its claimant and the only peer both name it the survivor.
LEMMA DispatchWins ==
  ASSUME TwoNodes, Types, NobodyDown, NEW n \in Node, DispatchClaim(n),
         ~claim[n][<<sched[n].next, n>>].done
  PROVE  sched[n].next \in Window /\ Won(sched[n].next, n)
<1> DEFINE w == sched[n].next  key == <<w, n>>
<1>1. w \in Window
  BY DueTyped DEF DispatchClaim, LeaseDue
<1>2. key # NoKey
  BY <1>1, Constants DEF NoKey
<1>3. SurvivorOf(claim[n], w) = key
  BY DEF DispatchClaim, GetByUuid
<1>4. PICK A \in SUBSET Asked(n) : Confirmed(n, w, A)
  BY DEF DispatchClaim
<1>5. ~AllDown(n)
  BY DEF AllDown, NobodyDown
<1>6. Peers(n) = {} \/ \E p \in A : SurvivorOf(claim[p], w) = key
  BY <1>4, <1>5 DEF Confirmed, ConfirmedMine, GetByUuid
<1>7. A \subseteq Peers(n)
  BY DEF Asked
<1> HIDE DEF w, key
<1>8. \A p \in Node : p # n => SurvivorOf(claim[p], w) = key
  <2>1. PICK a, b \in Node : Node = {a, b}
    BY DEF TwoNodes
  <2> QED
    BY <1>6, <1>7, <2>1 DEF Peers
<1>9. ASSUME NEW p \in Node PROVE claim[p][key].ver > 0 /\ IsBest(claim[p], key)
  <2>1. SurvivorOf(claim[p], w) = key /\ claim[p] \in [ClaimKey -> ClaimRow]
    BY <1>3, <1>8 DEF Types
  <2> QED
    BY <1>1, <1>2, <2>1, NamedSurvivor
<1> QED
  BY <1>1, <1>9 DEF Won, w, key

\* So whoever fires has won.
LEMMA WinnersInit == Init => Winners
  BY DEF Init, Idle, Winners

\* ... and goes on having won.
LEMMA WinnersNext ==
  ASSUME TwoNodes, Semantics = "lease_required", Types, ClaimInv, NobodyDown, Winners,
         [ElectNext]_vars
  PROVE  Winners'
<1>1. [Next]_vars
  BY DEF ElectNext
<1> SUFFICES ASSUME NEW n \in Node
             PROVE  /\ poll'[n].pc = "fire" => Won(poll[n].window, n)'
                    /\ \A w \in Window : fired'[w][n] > 0 => Won(w, n)'
  BY DEF Winners
<1>2. ASSUME NEW w \in Window, Won(w, n) PROVE Won(w, n)'
  BY <1>2, WonStays
<1>3. poll[n].pc = "fire" => poll[n].window \in Window /\ Won(poll[n].window, n)
  BY DEF Types, Winners
<1>4. ASSUME poll'[n].pc = "fire" PROVE Won(poll[n].window, n)'
  <2>1. PICK w \in Window : poll'[n].window = w /\ Won(w, n)
    <3>1. CASE poll[n].pc = "fire" /\ poll'[n].window = poll[n].window
      BY <1>3, <3>1
    <3>2. CASE /\ DispatchClaim(n) /\ ~claim[n][<<sched[n].next, n>>].done
               /\ poll'[n].window = sched[n].next
      BY <3>2, DispatchWins
    <3>3. ~ClaimAndFire(n)
      BY DEF ClaimAndFire
    <3> QED
      BY <1>1, <1>4, <3>1, <3>2, <3>3, FireMoves
  <2>2. Won(w, n)'
    BY <1>2, <2>1
  <2> QED
    BY ONLY <2>1, <2>2 DEF Won
<1>5. ASSUME NEW w \in Window, fired'[w][n] > 0 PROVE Won(w, n)'
  <2>1. CASE fired'[w][n] = fired[w][n]
    BY <1>2, <1>5, <2>1 DEF Winners
  <2>2. CASE Fire(n) /\ w = poll[n].window
    BY <1>2, <1>3, <2>2 DEF Fire
  <2> QED
    BY <1>1, <2>1, <2>2, FireMoves
<1> QED
  BY <1>4, <1>5

\* Two nodes cannot both have won a window.
LEMMA WinnersAlone == Types /\ Winners => OneFiringNode
<1> SUFFICES ASSUME Types, Winners, NEW w \in Window
             PROVE  Cardinality({n \in Node : fired[w][n] > 0}) <= 1
  BY DEF OneFiringNode
<1> DEFINE F == {n \in Node : fired[w][n] > 0}
<1>1. Cardinality(F) \in Nat
  BY Constants, FS_Subset, FS_CardinalityType
<1>2. ASSUME NEW n \in F, NEW p \in F PROVE n = p
  <2>1. /\ <<w, n>> \in ClaimKey /\ <<w, p>> \in ClaimKey
        /\ claim[n] \in [ClaimKey -> ClaimRow]
    BY DEF ClaimKey, Types
  <2>2. /\ claim[n][<<w, n>>].ver > 0 /\ IsBest(claim[n], <<w, n>>)
        /\ claim[n][<<w, p>>].ver > 0 /\ IsBest(claim[n], <<w, p>>)
    BY DEF Winners, Won
  <2>3. <<w, n>> = <<w, p>>
    BY <2>1, <2>2, OneBest
  <2> QED
    BY <2>3
<1>3. ~(Cardinality(F) > 1)
  <2> HIDE DEF F
  <2>1. F \in SUBSET Node
    BY DEF F
  <2> QED
    BY <1>2, <2>1, TwoOf
<1> QED
  BY <1>1, <1>3
-----------------------------------------------------------------------------
(* The deployments of MCLease                                               *)

MCInv ==
  /\ Tripwire
  /\ setting \in {"tripwire", "election"}
  /\ setting = "election" => /\ Elected
                             /\ TwoNodes /\ Semantics = "lease_required" => Winners

\* The invariant of both deployments.
LEMMA MCInvariant == MCSpec => []MCInv
<1>1. MCInit => MCInv
  BY TripwireInit, ElectedInit, WinnersInit DEF MCInit, MCInv
<1>2. MCInv /\ [MCNext]_<<vars, setting>> => MCInv'
  <2> SUFFICES ASSUME MCInv, [MCNext]_<<vars, setting>> PROVE MCInv'
    OBVIOUS
  <2>1. [Next]_vars /\ setting' = setting
    BY DEF MCNext
  <2>2. Tripwire'
    BY <2>1, TripwireNext DEF MCInv
  <2>3. ASSUME setting = "election"
        PROVE  Elected' /\ (TwoNodes /\ Semantics = "lease_required" => Winners')
    <3>1. [ElectNext]_vars
      BY <2>3 DEF MCNext, ElectNext
    <3>2. Elected /\ (TwoNodes /\ Semantics = "lease_required" => Winners)
      BY <2>3 DEF MCInv
    <3>3. Elected'
      BY <3>1, <3>2, ElectedNext
    <3> QED
      BY <3>1, <3>2, <3>3, WinnersNext DEF Elected, Tripwire
  <2> QED
    BY <2>1, <2>2, <2>3 DEF MCInv, TwoNodes
<1> QED
  BY <1>1, <1>2, PTL DEF MCSpec

\* The tripwire of the run, for any number of nodes and both semantics: a window that two
\* nodes have fired shows a fence once its rows are reconciled (FenceTaskRun after apply).
THEOREM TripwireAlwaysFires == MCSpec => []TripwireFires
<1>1. MCInv => TripwireFires
  BY TripwireShows DEF MCInv, TripwireFires
<1> QED
  BY <1>1, MCInvariant, PTL

\* Where nobody crashes or is taken for dead, the row every node takes for the survivor is
\* never fenced, on any number of nodes: a window has somebody to fire it (FenceRunUuid).
THEOREM WinnerNeverFenced == MCSpec => []WinnerUnfenced
<1>1. MCInv => WinnerUnfenced
  BY ElectedUnfenced DEF MCInv, WinnerUnfenced
<1> QED
  BY <1>1, MCInvariant, PTL

\* ... and on two nodes under lease_required the election has one winner: no window is
\* fired by both, whatever the lease times, the cut and the released leases
\* (ProcessDueSchedules, TaskRunStore).
THEOREM OneWinnerOfTwo ==
  ASSUME TwoNodes, Semantics = "lease_required"
  PROVE  MCSpec => []OneWinner
<1>1. MCInv => OneWinner
  <2> SUFFICES ASSUME MCInv PROVE OneWinner
    OBVIOUS
  <2>1. TypeOK
    BY TypesTypeOK DEF MCInv, Tripwire
  <2>2. setting = "election" => OneFiringNode
    BY WinnersAlone DEF MCInv, Tripwire
  <2> QED
    BY <2>1, <2>2 DEF OneWinner
<1> QED
  BY <1>1, MCInvariant, PTL
=============================================================================
