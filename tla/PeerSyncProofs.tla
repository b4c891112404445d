--------------------------- MODULE PeerSyncProofs ---------------------------
(***************************************************************************)
(* Proofs about PeerSync: types under every fault, order of the history,   *)
(* cursors, and convergence as far as it goes.  An assumption on Races,    *)
(* Clocks, MaxLosses or MaxApplyFails rules out a behaviour of the code    *)
(* that the model allows; section 4 of the README says which and why.      *)
(***************************************************************************)
EXTENDS PeerSync, FiniteSetTheorems, TLAPS

\* A set of nodes has a least element: of its initial segments, take a minimal
\* one.
LEMMA LeastIn ==
  ASSUME NEW S \in SUBSET Nat, IsFiniteSet(S), S # {}
  PROVE  Least(S) \in S
<1> DEFINE Seg(x) == {y \in S : y <= x}
           T == {Seg(x) : x \in S}
<1>1. T \subseteq SUBSET S /\ T # {}
  OBVIOUS
<1>2. IsWellFoundedOn(StrictSubsetOrdering(S), SUBSET S)
  BY FS_StrictSubsetOrderingWellFounded, FS_FiniteSubsetsOfFinite
<1>3. PICK D \in T : \A E \in T : ~(<<E, D>> \in StrictSubsetOrdering(S))
  <2> HIDE DEF T
  <2> QED
    BY <1>1, <1>2, WFMin
<1>4. PICK x \in S : D = Seg(x)
  BY <1>3
<1>5. \A y \in S : x <= y
  <2> SUFFICES ASSUME NEW y \in S, y < x PROVE FALSE
    OBVIOUS
  <2>1. Seg(y) \in T /\ Seg(y) \subseteq D /\ x \in D /\ x \notin Seg(y)
    <3>1. x \in Nat /\ y \in Nat /\ \A z \in S : z \in Nat /\ (z <= y => z <= x)
      OBVIOUS
    <3>2. Seg(y) \subseteq Seg(x)
      BY <3>1
    <3>3. x \in Seg(x) /\ x \notin Seg(y)
      BY <3>1
    <3> QED
      BY <1>4, <3>2, <3>3
  <2>2. Seg(y) \in SUBSET S /\ D \in SUBSET S
    BY <1>4
  <2> HIDE DEF Seg, T
  <2>3. <<Seg(y), D>> \in StrictSubsetOrdering(S)
    BY <2>1, <2>2 DEF StrictSubsetOrdering
  <2> QED
    BY <1>3, <2>1, <2>3
<1> QED
  BY <1>5 DEF Least

-----------------------------------------------------------------------------
(* Types, and where a sync thread may stand                                *)

PCs == {"idle", "fetch", "apply", "decided", "published", "written", "cleared", "finish",
        "rewind"}
Pass == [pc : PCs, peer : Node, max : Nat, count : Nat, upto : Nat, more : BOOLEAN,
         batch : Nat, applied : BOOLEAN]
Healths == {"connecting", "healthy", "down", "incompatible"}

RowTypes ==
  /\ tab \in [Node -> [Row -> Write \cup {NoRow}]]
  /\ ver \in [Node -> [Row -> Stamp \cup {NoStamp}]]
  /\ outbox \in [Node -> Seq(Record)]
  /\ ctx \in [Node -> [row : Row \cup {"none"}, stamp : Stamp \cup {NoStamp}]]
  /\ clock \in [Node -> 0..MaxMs]
CursorTypes ==
  /\ saved \in [Node -> [Node -> Nat]] /\ cur \in [Node -> [Node -> Nat]]
  /\ known \in [Node -> SUBSET Node]
PeerTypes ==
  /\ health \in [Node -> [Node -> Healths]]
  /\ fails \in [Node -> [Node -> 0..FailuresBeforeDown]]
  /\ pass \in [Node -> Pass]
BoundTypes ==
  /\ writes \in Nat
  /\ left \in [crash : 0..MaxCrashes, loss : 0..MaxLosses, fault : 0..MaxFaults,
               apply : 0..MaxApplyFails]
Typed == RowTypes /\ CursorTypes /\ PeerTypes /\ BoundTypes

\* Cursors and batches end within the outbox they read; while a record is being
\* applied it is one of the batch, and the published context is its own.
Batch == {"apply", "decided", "published", "written", "cleared"}
Busy == {"decided", "published", "written", "cleared"}
PlacedAt(n) ==
  /\ pass[n].peer \in PeerList[n]
  /\ \A p \in Node : saved[n][p] <= Len(outbox[p]) /\ cur[n][p] <= Len(outbox[p])
  /\ ctx[n].row # "none" => ctx[n].stamp \in Stamp
  /\ pass[n].pc \in Batch => pass[n].upto <= Len(outbox[pass[n].peer])
  /\ pass[n].pc \in Busy => cur[n][pass[n].peer] < pass[n].upto
  /\ pass[n].pc \in {"published", "written"}
       => ctx[n] = [row |-> Current(n).row, stamp |-> Current(n).stamp]
Placed == \A n \in Node : PlacedAt(n)

TypeInv == Typed /\ Placed

\* What the constants are.
LEMMA Constants ==
  /\ Node \subseteq Nat /\ IsFiniteSet(Node) /\ IsFiniteSet(Row) /\ "none" \notin Row
  /\ PeerList \in [Node -> SUBSET Node] /\ \A n \in Node : PeerList[n] # {}
  /\ MaxMs \in Nat /\ MaxWrites \in Nat /\ BatchLimit \in Nat /\ FailuresBeforeDown \in Nat
  /\ MaxCrashes \in Nat /\ MaxLosses \in Nat /\ MaxFaults \in Nat /\ MaxApplyFails \in Nat
  BY PeerSyncAssumption

\* There is a first peer, and a next one.
LEMMA Peers ==
  ASSUME NEW n \in Node
  PROVE  /\ Least(PeerList[n]) \in PeerList[n]
         /\ \A p \in Node : NextPeer(n, p) \in PeerList[n]
<1>1. PeerList[n] \in SUBSET Nat /\ IsFiniteSet(PeerList[n]) /\ PeerList[n] # {}
  BY Constants, FS_Subset
<1>2. Least(PeerList[n]) \in PeerList[n]
  BY <1>1, LeastIn
<1>3. ASSUME NEW p \in Node PROVE NextPeer(n, p) \in PeerList[n]
  <2> DEFINE later == {q \in PeerList[n] : q > p}
  <2>1. later \in SUBSET Nat /\ IsFiniteSet(later) /\ later \subseteq PeerList[n]
    BY <1>1, FS_Subset
  <2>2. NextPeer(n, p) = Least(IF later = {} THEN PeerList[n] ELSE later)
    BY DEF NextPeer
  <2> HIDE DEF later
  <2>3. later # {} => Least(later) \in later
    BY <2>1, LeastIn
  <2> QED
    BY <1>2, <2>1, <2>2, <2>3
<1> QED
  BY <1>2, <1>3

\* The first state is well typed.
LEMMA InitTyped == Init => TypeInv
<1> SUFFICES ASSUME Init PROVE TypeInv
  OBVIOUS
<1>1. RowTypes
  BY Constants DEF Init, RowTypes, NoCtx
<1>2. CursorTypes /\ BoundTypes
  BY Constants DEF Init, CursorTypes, BoundTypes
<1>3. \A n \in Node : Least(PeerList[n]) \in PeerList[n] /\ Least(PeerList[n]) \in Node
  BY Peers, Constants
<1>4. pass \in [Node -> Pass]
  BY <1>3 DEF Init, Idle, Pass, PCs
<1>5. PeerTypes
  BY <1>4, Constants DEF Init, PeerTypes, Healths
<1>6. Placed
  BY <1>3 DEF Init, Placed, PlacedAt, Batch, Busy, Idle, NoCtx
<1> QED
  BY <1>1, <1>2, <1>5, <1>6 DEF TypeInv, Typed

\* Outboxes are only appended to.
Grows ==
  \A p \in Node :
    /\ Len(outbox[p]) <= Len(outbox'[p])
    /\ \A k \in 1..Len(outbox[p]) : outbox'[p][k] = outbox[p][k]

\* What a trigger does to the rows, the versions and the outbox.
LEMMA Fired ==
  ASSUME TypeInv, NEW n \in Node, NEW r \in Row, NEW op \in {"upsert", "delete"},
         NEW v \in Write \cup {NoRow}, NEW t, StampFor(n, r, t) \in Stamp,
         Trigger(n, r, op, v, t)
  PROVE  /\ tab' \in [Node -> [Row -> Write \cup {NoRow}]]
         /\ ver' \in [Node -> [Row -> Stamp \cup {NoStamp}]]
         /\ outbox' \in [Node -> Seq(Record)] /\ Grows
<1> DEFINE rec == [row |-> r, op |-> op, val |-> v, stamp |-> StampFor(n, r, t)]
<1>1. rec \in Record
  BY DEF Record
<1>2. /\ tab' = [tab EXCEPT ![n][r] = v] /\ ver' = [ver EXCEPT ![n][r] = rec.stamp]
      /\ outbox' = [outbox EXCEPT ![n] = Append(@, rec)]
  BY DEF Trigger
<1>3. rec.stamp \in Stamp
  OBVIOUS
<1> HIDE DEF rec
<1>4. /\ tab' \in [Node -> [Row -> Write \cup {NoRow}]]
      /\ ver' \in [Node -> [Row -> Stamp \cup {NoStamp}]]
  BY <1>2, <1>3 DEF TypeInv, Typed, RowTypes
<1>5. outbox \in [Node -> Seq(Record)]
  BY DEF TypeInv, Typed, RowTypes
<1>6. outbox' \in [Node -> Seq(Record)]
  BY <1>1, <1>2, <1>5
<1>7. Grows
  BY <1>1, <1>2, <1>5 DEF Grows
<1> QED
  BY <1>4, <1>6, <1>7

\* What a node's part of the state is.
LEMMA Here ==
  ASSUME TypeInv, NEW n \in Node
  PROVE  /\ pass[n] \in Pass /\ pass[n].peer \in Node /\ pass[n].peer \in PeerList[n]
         /\ PeerList[n] \subseteq Node
         /\ cur[n] \in [Node -> Nat] /\ saved[n] \in [Node -> Nat] /\ known[n] \subseteq Node
         /\ pass[n].upto \in Nat /\ outbox[n] \in Seq(Record)
         /\ \A p \in Node : outbox[p] \in Seq(Record) /\ Len(outbox[p]) \in Nat
         /\ ctx[n] \in [row : Row \cup {"none"}, stamp : Stamp \cup {NoStamp}]
         /\ clock[n] \in 0..MaxMs
         /\ ver[n] \in [Row -> Stamp \cup {NoStamp}] /\ tab[n] \in [Row -> Write \cup {NoRow}]
<1>1. /\ pass \in [Node -> Pass] /\ cur \in [Node -> [Node -> Nat]] /\ saved \in [Node -> [Node -> Nat]]
      /\ known \in [Node -> SUBSET Node] /\ outbox \in [Node -> Seq(Record)]
      /\ tab \in [Node -> [Row -> Write \cup {NoRow}]]
      /\ ver \in [Node -> [Row -> Stamp \cup {NoStamp}]]
      /\ ctx \in [Node -> [row : Row \cup {"none"}, stamp : Stamp \cup {NoStamp}]]
      /\ clock \in [Node -> 0..MaxMs]
  BY DEF TypeInv, Typed, RowTypes, CursorTypes, PeerTypes
<1>2. pass[n] \in Pass
  BY <1>1
<1>3. pass[n].peer \in Node /\ pass[n].upto \in Nat
  BY <1>2 DEF Pass
<1>4. pass[n].peer \in PeerList[n] /\ PeerList[n] \subseteq Node
  BY Constants DEF TypeInv, Placed, PlacedAt
<1>5. \A p \in Node : outbox[p] \in Seq(Record) /\ Len(outbox[p]) \in Nat
  BY <1>1
<1> QED
  BY <1>1, <1>2, <1>3, <1>4, <1>5

\* The record being applied stays where it is.
LEMMA CurrentStays ==
  ASSUME TypeInv, Grows, NEW n \in Node, pass'[n].peer = pass[n].peer, cur'[n] = cur[n],
         pass[n].pc \in Busy
  PROVE  /\ Current(n)' = Current(n) /\ Current(n) \in Record
         /\ cur[n][pass[n].peer] + 1 \in 1..Len(outbox[pass[n].peer])
<1> DEFINE p == pass[n].peer
           k == cur[n][p] + 1
<1>1. /\ p \in Node /\ cur[n][p] \in Nat /\ pass[n].upto \in Nat
      /\ outbox[p] \in Seq(Record) /\ Len(outbox[p]) \in Nat
  BY Here
<1>2. cur[n][p] < pass[n].upto /\ pass[n].upto <= Len(outbox[p])
  BY DEF TypeInv, Placed, PlacedAt, Busy, Batch
<1>3. k \in 1..Len(outbox[p])
  BY <1>1, <1>2
<1>4. Current(n) = outbox[p][k] /\ Current(n)' = outbox'[p][k]
  BY DEF Current
<1> HIDE DEF p, k
<1>5. outbox'[p][k] = outbox[p][k]
  BY <1>1, <1>3 DEF Grows
<1>6. outbox[p][k] \in Record
  BY <1>1, <1>3
<1> QED
  BY <1>3, <1>4, <1>5, <1>6 DEF p, k

\* A node whose sync thread does not move stays placed.
LEMMA PlacedStays ==
  ASSUME TypeInv, Grows, NEW n \in Node, ctx'[n] = ctx[n], saved'[n] = saved[n],
         cur'[n] = cur[n], pass'[n] = pass[n]
  PROVE  PlacedAt(n)'
<1>0. PlacedAt(n)
  BY DEF TypeInv, Placed
<1>1. ASSUME NEW p \in Node, NEW k \in Nat, k <= Len(outbox[p])
      PROVE  k <= Len(outbox'[p])
  <2>1. Len(outbox[p]) <= Len(outbox'[p])
    BY DEF Grows
  <2>2. Len(outbox[p]) \in Nat
    BY Here
  <2>3. Len(outbox'[p]) \in Nat \/ Len(outbox'[p]) \notin Nat
    OBVIOUS
  <2> QED
    BY <1>1, <2>1, <2>2
<1>2. /\ pass[n].peer \in Node /\ saved[n] \in [Node -> Nat] /\ cur[n] \in [Node -> Nat]
      /\ pass[n].upto \in Nat
  BY Here
<1>3. \A p \in Node : saved'[n][p] <= Len(outbox'[p]) /\ cur'[n][p] <= Len(outbox'[p])
  BY <1>0, <1>1, <1>2 DEF PlacedAt
<1>4. pass[n].pc \in Batch => pass[n].upto <= Len(outbox'[pass[n].peer])
  BY <1>0, <1>1, <1>2 DEF PlacedAt
<1>5. pass[n].pc \in {"published", "written"} => Current(n)' = Current(n)
  BY CurrentStays DEF Busy
<1> QED
  BY <1>0, <1>3, <1>4, <1>5 DEF PlacedAt

\* If the others stay, and the node that moves is placed, all are.
LEMMA OneMoves ==
  ASSUME TypeInv, Grows, NEW n \in Node, PlacedAt(n)',
         \A m \in Node \ {n} : /\ ctx'[m] = ctx[m] /\ saved'[m] = saved[m]
                               /\ cur'[m] = cur[m] /\ pass'[m] = pass[m]
  PROVE  Placed'
<1>1. ASSUME NEW m \in Node, m # n PROVE PlacedAt(m)'
  BY <1>1, PlacedStays
<1> QED
  BY <1>1 DEF Placed

\* Turning to the next peer, with cursors that are inside the outboxes.
LEMMA NextTyped ==
  ASSUME TypeInv, Grows, NEW n \in Node, NextInRound(n), UNCHANGED ctx,
         \A m \in Node \ {n} : saved'[m] = saved[m] /\ cur'[m] = cur[m],
         \A p \in Node : saved'[n][p] <= Len(outbox'[p]) /\ cur'[n][p] <= Len(outbox'[p])
  PROVE  pass' \in [Node -> Pass] /\ Placed'
<1> DEFINE p == NextPeer(n, pass[n].peer)
<1>1. p \in PeerList[n] /\ p \in Node
  BY Peers, Here
<1>2. pass' = [pass EXCEPT ![n] = Idle(p)]
  BY DEF NextInRound
<1> HIDE DEF p
<1>3. Idle(p) \in Pass /\ Idle(p).pc = "idle" /\ Idle(p).peer = p
  BY <1>1 DEF Idle, Pass, PCs
<1>4. pass \in [Node -> Pass]
  BY DEF TypeInv, Typed, PeerTypes
<1>5. pass' \in [Node -> Pass] /\ pass'[n] = Idle(p) /\ \A m \in Node \ {n} : pass'[m] = pass[m]
  BY <1>2, <1>3, <1>4
<1>6. PlacedAt(n)
  BY DEF TypeInv, Placed
<1>7. PlacedAt(n)'
  BY <1>1, <1>3, <1>5, <1>6 DEF PlacedAt, Batch, Busy
<1> QED
  BY <1>5, <1>7, OneMoves

\* A step that leaves the rows and the outboxes alone.
LEMMA Still == ASSUME TypeInv, UNCHANGED outbox PROVE Grows
  BY Here DEF Grows

\* The cursor stays inside the outbox when it is moved over a record.
LEMMA CursorTyped ==
  ASSUME TypeInv, NEW n \in Node, NEW k \in Nat, k <= Len(outbox[pass[n].peer]),
         CursorTo(n, k), UNCHANGED outbox
  PROVE  /\ saved' \in [Node -> [Node -> Nat]] /\ cur' \in [Node -> [Node -> Nat]]
         /\ saved'[n][pass[n].peer] = k /\ cur'[n][pass[n].peer] = k
         /\ \A m \in Node \ {n} : saved'[m] = saved[m] /\ cur'[m] = cur[m]
         /\ \A p \in Node : /\ saved'[n][p] <= Len(outbox'[p]) /\ cur'[n][p] <= Len(outbox'[p])
                            /\ p # pass[n].peer => saved'[n][p] = saved[n][p] /\ cur'[n][p] = cur[n][p]
<1>1. /\ saved \in [Node -> [Node -> Nat]] /\ cur \in [Node -> [Node -> Nat]]
      /\ pass[n].peer \in Node /\ PlacedAt(n)
  BY Here DEF TypeInv, Typed, CursorTypes, Placed
<1>2. /\ saved' = [saved EXCEPT ![n][pass[n].peer] = k]
      /\ cur' = [cur EXCEPT ![n][pass[n].peer] = k]
  BY DEF CursorTo
<1>3. saved' \in [Node -> [Node -> Nat]] /\ cur' \in [Node -> [Node -> Nat]]
  BY <1>1, <1>2
<1>4. \A m \in Node \ {n} : saved'[m] = saved[m] /\ cur'[m] = cur[m]
  BY <1>1, <1>2
<1>5. /\ saved'[n] = [saved[n] EXCEPT ![pass[n].peer] = k]
      /\ cur'[n] = [cur[n] EXCEPT ![pass[n].peer] = k]
  BY <1>1, <1>2
<1>6. \A p \in Node : /\ saved'[n][p] <= Len(outbox'[p]) /\ cur'[n][p] <= Len(outbox'[p])
                      /\ p # pass[n].peer => saved'[n][p] = saved[n][p] /\ cur'[n][p] = cur[n][p]
  BY <1>1, <1>5 DEF PlacedAt
<1> QED
  BY <1>1, <1>3, <1>4, <1>5, <1>6

\* Where a changed program counter may stand.
LEMMA GoTyped ==
  ASSUME TypeInv, UNCHANGED outbox, NEW n \in Node, NEW q \in Pass, pass' = [pass EXCEPT ![n] = q],
         q.peer = pass[n].peer, UNCHANGED saved,
         \A m \in Node \ {n} : ctx'[m] = ctx[m] /\ cur'[m] = cur[m],
         \A p \in Node : cur'[n][p] <= Len(outbox[p]),
         ctx'[n].row # "none" => ctx'[n].stamp \in Stamp,
         q.pc \in Batch => q.upto <= Len(outbox[q.peer]),
         q.pc \in Busy => cur'[n][q.peer] < q.upto,
         q.pc \in {"published", "written"}
           => ctx'[n] = [row |-> Current(n)'.row, stamp |-> Current(n)'.stamp]
  PROVE  pass' \in [Node -> Pass] /\ Placed'
<1>1. /\ pass \in [Node -> Pass] /\ PlacedAt(n) /\ Grows
  BY Still DEF TypeInv, Typed, PeerTypes, Placed
<1>2. pass' \in [Node -> Pass] /\ pass'[n] = q /\ \A m \in Node \ {n} : pass'[m] = pass[m]
  BY <1>1
<1>3. PlacedAt(n)'
  BY <1>1, <1>2 DEF PlacedAt
<1> QED
  BY <1>1, <1>2, <1>3, OneMoves

\* A failed contact counts the failure and turns to the next peer.
LEMMA FailedTyped ==
  ASSUME TypeInv, NEW n \in Node, NEW state \in Healths, ContactFailed(n, state),
         UNCHANGED <<outbox, ctx, saved, cur>>
  PROVE  PeerTypes' /\ Placed'
<1> DEFINE p == pass[n].peer
           f == IF fails[n][p] < FailuresBeforeDown THEN fails[n][p] + 1 ELSE fails[n][p]
           h == IF state # "incompatible" /\ f >= FailuresBeforeDown THEN "down" ELSE state
<1>1. /\ p \in Node /\ fails \in [Node -> [Node -> 0..FailuresBeforeDown]]
      /\ health \in [Node -> [Node -> Healths]]
  BY Here DEF TypeInv, Typed, PeerTypes
<1>2. f \in 0..FailuresBeforeDown
  <2>1. fails[n][p] \in 0..FailuresBeforeDown /\ FailuresBeforeDown \in Nat
    BY <1>1, Constants
  <2> QED
    BY <2>1
<1>3. h \in Healths
  BY DEF Healths
<1>4. /\ fails' = [fails EXCEPT ![n][p] = f] /\ health' = [health EXCEPT ![n][p] = h]
      /\ NextInRound(n)
  BY DEF ContactFailed
<1> HIDE DEF f, h, p
<1>5. fails' \in [Node -> [Node -> 0..FailuresBeforeDown]] /\ health' \in [Node -> [Node -> Healths]]
  BY <1>1, <1>2, <1>3, <1>4
<1>6. Grows /\ PlacedAt(n)
  BY Still DEF TypeInv, Placed
<1>7. pass' \in [Node -> Pass] /\ Placed'
  BY <1>4, <1>6, NextTyped DEF PlacedAt
<1> QED
  BY <1>5, <1>7 DEF PeerTypes

\* A failed contact only counts the failure.
LEMMA HandshakeFailsTyped == ASSUME TypeInv, NEW n \in Node, HandshakeFails(n) PROVE TypeInv'
<1>1. /\ UNCHANGED <<disk, cur, known, clock, writes>>
      /\ left.fault > 0 /\ left' = [left EXCEPT !.fault = @ - 1]
  BY DEF HandshakeFails
<1>2. health[n][pass[n].peer] \in Healths /\ "incompatible" \in Healths
  <2>1. pass[n].peer \in Node /\ health \in [Node -> [Node -> Healths]]
    BY Here DEF TypeInv, Typed, PeerTypes
  <2> QED
    BY <2>1 DEF Healths
<1>3. PICK s \in Healths : ContactFailed(n, s)
  BY <1>2 DEF HandshakeFails
<1>4. PeerTypes' /\ Placed'
  BY <1>1, <1>3, FailedTyped DEF disk
<1>5. RowTypes' /\ CursorTypes'
  BY <1>1 DEF TypeInv, Typed, RowTypes, CursorTypes, disk
<1>6. BoundTypes'
  BY <1>1, Constants DEF TypeInv, Typed, BoundTypes
<1> QED
  BY <1>4, <1>5, <1>6 DEF TypeInv, Typed

\* The handshake reads the saved cursor, which is within the peer's outbox.
LEMMA HandshakeTyped == ASSUME TypeInv, NEW n \in Node, Handshake(n) PROVE TypeInv'
<1> DEFINE p == pass[n].peer
           q == [pass[n] EXCEPT !.pc = "fetch",
                   !.max = IF p \in Digests THEN Len(outbox[p]) ELSE 0,
                   !.count = IF p \in Digests THEN Count(p) ELSE 0]
<1>1. /\ UNCHANGED <<disk, health, fails, clock, writes, left>>
      /\ cur' = [cur EXCEPT ![n][p] = Adopted(n, p)]
      /\ known' = [known EXCEPT ![n] = @ \cup {p}]
  BY DEF Handshake
<1>2. /\ pass \in [Node -> Pass] /\ pass[n] \in Pass /\ p \in Node /\ PlacedAt(n)
      /\ cur \in [Node -> [Node -> Nat]] /\ saved \in [Node -> [Node -> Nat]]
      /\ known \in [Node -> SUBSET Node] /\ Len(outbox[p]) \in Nat
  BY Here DEF TypeInv, Typed, PeerTypes, CursorTypes, Placed
<1>3. pass' = [pass EXCEPT ![n] = q]
  BY <1>2 DEF Handshake
<1>4. Count(p) \in Nat
  <2>1. {r \in Row : tab[p][r] # NoRow} \subseteq Row
    OBVIOUS
  <2> QED
    BY <2>1, Constants, FS_Subset, FS_CardinalityType DEF Count
<1>5. q \in Pass /\ q.pc = "fetch" /\ q.peer = p
  BY <1>2, <1>4 DEF Pass, PCs
<1>6. Adopted(n, p) \in Nat /\ Adopted(n, p) <= Len(outbox[p])
  BY <1>2 DEF Adopted, PlacedAt
<1> HIDE DEF q
<1>7. /\ cur' \in [Node -> [Node -> Nat]] /\ known' \in [Node -> SUBSET Node]
      /\ \A m \in Node \ {n} : cur'[m] = cur[m]
      /\ \A x \in Node : cur'[n][x] <= Len(outbox[x])
  <2> HIDE DEF p
  <2>1. cur' \in [Node -> [Node -> Nat]] /\ known' \in [Node -> SUBSET Node]
    BY <1>1, <1>2, <1>6
  <2>2. \A m \in Node \ {n} : cur'[m] = cur[m]
    BY <1>1, <1>2
  <2>3. \A x \in Node : cur'[n][x] = IF x = p THEN Adopted(n, p) ELSE cur[n][x]
    BY <1>1, <1>2
  <2>4. \A x \in Node : cur'[n][x] <= Len(outbox[x])
    BY <2>3, <1>2, <1>6 DEF PlacedAt
  <2> QED
    BY <2>1, <2>2, <2>4
<1>8. UNCHANGED <<outbox, ctx, saved>>
  BY <1>1 DEF disk
<1>9. pass' \in [Node -> Pass] /\ Placed'
  BY <1>2, <1>3, <1>5, <1>7, <1>8, GoTyped DEF PlacedAt, Batch, Busy
<1>10. RowTypes' /\ CursorTypes' /\ PeerTypes' /\ BoundTypes'
  BY <1>1, <1>7, <1>9 DEF TypeInv, Typed, RowTypes, CursorTypes, PeerTypes, BoundTypes, disk
<1> QED
  BY <1>9, <1>10 DEF TypeInv, Typed

\* A batch ends within the outbox it was fetched from.
LEMMA FetchTyped == ASSUME TypeInv, NEW n \in Node, FetchOutboxSince(n) PROVE TypeInv'
<1> DEFINE p == pass[n].peer
           last == IF cur[n][p] + BatchLimit < Len(outbox[p])
                   THEN cur[n][p] + BatchLimit ELSE Len(outbox[p])
           q == [pass[n] EXCEPT !.pc = "apply", !.upto = last,
                   !.more = last < Len(outbox[p]), !.batch = @ + 1]
<1>1. UNCHANGED <<disk, memory, clock, writes, left>>
  BY DEF FetchOutboxSince
<1>2. /\ pass \in [Node -> Pass] /\ pass[n] \in Pass /\ p \in Node /\ PlacedAt(n)
      /\ cur[n][p] \in Nat /\ Len(outbox[p]) \in Nat /\ BatchLimit \in Nat
  BY Here, Constants DEF TypeInv, Typed, PeerTypes, Placed
<1>3. pass' = [pass EXCEPT ![n] = q]
  BY <1>2 DEF FetchOutboxSince
<1>4. last \in Nat /\ last <= Len(outbox[p])
  BY <1>2
<1>5. q \in Pass /\ q.pc = "apply" /\ q.peer = p /\ q.upto = last
  <2>1. pass[n].batch + 1 \in Nat /\ (last < Len(outbox[p])) \in BOOLEAN
    BY <1>2 DEF Pass
  <2> DEFINE more == last < Len(outbox[p])
             batch == pass[n].batch + 1
  <2>2. q = [pass[n] EXCEPT !.pc = "apply", !.upto = last, !.more = more, !.batch = batch]
    BY <1>2 DEF Pass
  <2>3. more \in BOOLEAN /\ batch \in Nat
    BY <2>1
  <2> HIDE DEF last, more, batch, q, p
  <2>4. [pass[n] EXCEPT !.pc = "apply", !.upto = last, !.more = more, !.batch = batch] \in Pass
    BY <1>2, <1>4, <2>3 DEF Pass, PCs
  <2> QED
    BY <1>2, <2>2, <2>4 DEF Pass, p
<1> HIDE DEF q, last
<1>6. UNCHANGED <<outbox, ctx, saved, cur>>
  BY <1>1 DEF disk, memory
<1>7. pass' \in [Node -> Pass] /\ Placed'
  BY <1>2, <1>3, <1>4, <1>5, <1>6, GoTyped DEF PlacedAt, Batch, Busy
<1>8. RowTypes' /\ CursorTypes' /\ PeerTypes' /\ BoundTypes'
  BY <1>1, <1>7 DEF TypeInv, Typed, RowTypes, CursorTypes, PeerTypes, BoundTypes, disk, memory
<1> QED
  BY <1>7, <1>8 DEF TypeInv, Typed

\* A step that only moves the program counter, the published context or nothing of
\* a batch in progress.
LEMMA PcTyped ==
  ASSUME TypeInv, NEW n \in Node, NEW pc \in PCs, Goto(n, pc), UNCHANGED outbox, UNCHANGED saved,
         UNCHANGED cur, \A m \in Node \ {n} : ctx'[m] = ctx[m],
         ctx'[n].row # "none" => ctx'[n].stamp \in Stamp,
         pc \in Batch => pass[n].upto <= Len(outbox[pass[n].peer]),
         pc \in Busy => cur[n][pass[n].peer] < pass[n].upto,
         pc \in {"published", "written"}
           => ctx'[n] = [row |-> Current(n).row, stamp |-> Current(n).stamp]
  PROVE  pass' \in [Node -> Pass] /\ Placed' /\ pass'[n] = [pass[n] EXCEPT !.pc = pc]
<1> DEFINE q == [pass[n] EXCEPT !.pc = pc]
<1>1. pass \in [Node -> Pass] /\ pass[n] \in Pass /\ PlacedAt(n)
  BY Here DEF TypeInv, Typed, PeerTypes, Placed
<1>2. pass' = [pass EXCEPT ![n] = q]
  BY <1>1 DEF Goto
<1>3. q \in Pass /\ q.pc = pc /\ q.peer = pass[n].peer /\ q.upto = pass[n].upto
  BY <1>1 DEF Pass
<1> HIDE DEF q
<1>4. pass'[n] = q
  BY <1>1, <1>2
<1>5. Current(n)' = Current(n)
  BY <1>3, <1>4 DEF Current
<1>6. \A p \in Node : cur'[n][p] <= Len(outbox[p])
  BY <1>1 DEF PlacedAt
<1>7. pass' \in [Node -> Pass] /\ Placed'
  BY <1>2, <1>3, <1>5, <1>6, GoTyped
<1> QED
  BY <1>4, <1>7 DEF q

\* A failed fetch ends the pass with that peer.
LEMMA FetchFailsTyped == ASSUME TypeInv, NEW n \in Node, FetchFails(n) PROVE TypeInv'
<1>1. /\ UNCHANGED <<disk, cur, known, clock, writes>>
      /\ left.fault > 0 /\ left' = [left EXCEPT !.fault = @ - 1]
  BY DEF FetchFails
<1>2. UNCHANGED <<outbox, ctx, saved, cur>>
  BY <1>1 DEF disk
<1>3. PlacedAt(n) /\ pass[n].peer \in Node
  BY Here DEF TypeInv, Placed
<1>4. PeerTypes' /\ Placed'
  <2>1. CASE pass[n].applied
    <3>1. Goto(n, "finish") /\ UNCHANGED <<health, fails>>
      BY <2>1 DEF FetchFails
    <3>2. pass' \in [Node -> Pass] /\ Placed'
      BY <1>2, <1>3, <3>1, PcTyped DEF PlacedAt, Batch, Busy, PCs
    <3> QED
      BY <3>1, <3>2 DEF TypeInv, Typed, PeerTypes
  <2>2. CASE ~pass[n].applied
    <3>1. ContactFailed(n, health[n][pass[n].peer])
      BY <2>2 DEF FetchFails
    <3>2. health[n][pass[n].peer] \in Healths
      BY <1>3 DEF TypeInv, Typed, PeerTypes
    <3> QED
      BY <1>2, <3>1, <3>2, FailedTyped
  <2> QED
    BY <2>1, <2>2
<1>5. RowTypes' /\ CursorTypes'
  BY <1>1 DEF TypeInv, Typed, RowTypes, CursorTypes, disk
<1>6. BoundTypes'
  BY <1>1, Constants DEF TypeInv, Typed, BoundTypes
<1> QED
  BY <1>4, <1>5, <1>6 DEF TypeInv, Typed

\* The record that is next in the batch.
LEMMA NextRecord ==
  ASSUME TypeInv, NEW n \in Node, pass[n].pc \in Batch, MoreToApply(n)
  PROVE  /\ cur[n][pass[n].peer] + 1 \in 1..Len(outbox[pass[n].peer])
         /\ cur[n][pass[n].peer] + 1 <= pass[n].upto
         /\ cur[n][pass[n].peer] \in Nat
         /\ Current(n) \in Record
<1> DEFINE p == pass[n].peer
<1>1. /\ p \in Node /\ cur[n][p] \in Nat /\ pass[n].upto \in Nat /\ Len(outbox[p]) \in Nat
      /\ PlacedAt(n) /\ outbox[p] \in Seq(Record)
  BY Here DEF TypeInv, Placed
<1>2. cur[n][p] < pass[n].upto /\ pass[n].upto <= Len(outbox[p])
  BY <1>1 DEF MoreToApply, PlacedAt
<1>3. cur[n][p] + 1 \in 1..Len(outbox[p]) /\ cur[n][p] + 1 <= pass[n].upto
  BY <1>1, <1>2
<1>4. Current(n) \in Record
  BY <1>1, <1>3 DEF Current
<1> QED
  BY <1>1, <1>3, <1>4

\* A node in the middle of a record has not reached the end of its batch.
LEMMA BusyMore ==
  ASSUME TypeInv, NEW n \in Node, pass[n].pc \in Busy
  PROVE  pass[n].pc \in Batch /\ MoreToApply(n)
  BY DEF TypeInv, Placed, PlacedAt, Busy, Batch, MoreToApply

\* A skipped record is stepped over within the batch.
LEMMA SkipTyped == ASSUME TypeInv, NEW n \in Node, Skip(n) PROVE TypeInv'
<1>1. /\ pass[n].pc = "apply" /\ MoreToApply(n) /\ CursorTo(n, cur[n][pass[n].peer] + 1)
      /\ UNCHANGED <<tab, ver, outbox, ctx, known, health, fails, clock, pass, writes, left>>
  BY DEF Skip
<1>2. /\ cur[n][pass[n].peer] + 1 \in Nat
      /\ cur[n][pass[n].peer] + 1 <= Len(outbox[pass[n].peer])
  <2>1. pass[n].pc \in Batch
    BY <1>1 DEF Batch
  <2>2. Len(outbox[pass[n].peer]) \in Nat
    BY Here
  <2> QED
    BY <1>1, <2>1, <2>2, NextRecord
<1>3. /\ saved' \in [Node -> [Node -> Nat]] /\ cur' \in [Node -> [Node -> Nat]]
      /\ \A m \in Node \ {n} : saved'[m] = saved[m] /\ cur'[m] = cur[m]
      /\ \A p \in Node : saved'[n][p] <= Len(outbox'[p]) /\ cur'[n][p] <= Len(outbox'[p])
  BY <1>1, <1>2, CursorTyped
<1>4. PlacedAt(n) /\ Grows
  BY <1>1, Still DEF TypeInv, Placed
<1>5. PlacedAt(n)'
  BY <1>1, <1>3, <1>4 DEF PlacedAt, Batch, Busy
<1>6. Placed'
  BY <1>1, <1>3, <1>4, <1>5, OneMoves
<1>7. RowTypes' /\ CursorTypes' /\ PeerTypes' /\ BoundTypes'
  BY <1>1, <1>3 DEF TypeInv, Typed, RowTypes, CursorTypes, PeerTypes, BoundTypes
<1> QED
  BY <1>6, <1>7 DEF TypeInv, Typed

\* A record that wins is the next one of the batch.
LEMMA DecideTyped == ASSUME TypeInv, NEW n \in Node, Decide(n) PROVE TypeInv'
<1>1. /\ pass[n].pc = "apply" /\ MoreToApply(n) /\ Goto(n, "decided")
      /\ UNCHANGED <<disk, memory, clock, writes, left>>
  BY DEF Decide
<1>2. PlacedAt(n) /\ UNCHANGED <<outbox, saved, cur, ctx>>
  BY <1>1 DEF TypeInv, Placed, disk, memory
<1>3. pass' \in [Node -> Pass] /\ Placed'
  BY <1>1, <1>2, PcTyped DEF PlacedAt, Batch, Busy, PCs, MoreToApply
<1>4. RowTypes' /\ CursorTypes' /\ PeerTypes' /\ BoundTypes'
  BY <1>1, <1>3 DEF TypeInv, Typed, RowTypes, CursorTypes, PeerTypes, BoundTypes, disk, memory
<1> QED
  BY <1>3, <1>4 DEF TypeInv, Typed

\* The published context is the stamp of the record at hand.
LEMMA PublishTyped == ASSUME TypeInv, NEW n \in Node, PublishContext(n) PROVE TypeInv'
<1> DEFINE c == [row |-> Current(n).row, stamp |-> Current(n).stamp]
<1>1. /\ pass[n].pc = "decided" /\ ctx' = [ctx EXCEPT ![n] = c] /\ Goto(n, "published")
      /\ UNCHANGED <<tab, ver, outbox, saved, memory, clock, writes, left>>
  BY DEF PublishContext
<1>2. /\ PlacedAt(n) /\ Current(n) \in Record /\ UNCHANGED cur
      /\ ctx \in [Node -> [row : Row \cup {"none"}, stamp : Stamp \cup {NoStamp}]]
  BY <1>1, BusyMore, NextRecord DEF TypeInv, Typed, RowTypes, Placed, memory, Busy
<1>3. c \in [row : Row \cup {"none"}, stamp : Stamp \cup {NoStamp}] /\ c.stamp \in Stamp
  BY <1>2 DEF Record
<1> HIDE DEF c
<1>4. /\ ctx' \in [Node -> [row : Row \cup {"none"}, stamp : Stamp \cup {NoStamp}]]
      /\ ctx'[n] = c /\ \A m \in Node \ {n} : ctx'[m] = ctx[m]
  BY <1>1, <1>2, <1>3
<1>5. pass' \in [Node -> Pass] /\ Placed'
  <2>1. pass[n].upto <= Len(outbox[pass[n].peer]) /\ cur[n][pass[n].peer] < pass[n].upto
    BY <1>1, <1>2 DEF PlacedAt, Batch, Busy
  <2> QED
    BY <1>1, <1>2, <1>3, <1>4, <2>1, PcTyped DEF c, PCs
<1>6. RowTypes' /\ CursorTypes' /\ PeerTypes' /\ BoundTypes'
  BY <1>1, <1>4, <1>5 DEF TypeInv, Typed, RowTypes, CursorTypes, PeerTypes, BoundTypes, memory
<1> QED
  BY <1>5, <1>6 DEF TypeInv, Typed

\* A refused apply leaves the rows and clears the context.
LEMMA ApplyFailsTyped == ASSUME TypeInv, NEW n \in Node, ApplyFails(n) PROVE TypeInv'
<1>1. /\ pass[n].pc = "published" /\ Goto(n, "written")
      /\ left.apply > 0 /\ left' = [left EXCEPT !.apply = @ - 1]
      /\ UNCHANGED <<disk, memory, clock, writes>>
  BY DEF ApplyFails
<1>2. PlacedAt(n) /\ UNCHANGED <<outbox, saved, cur, ctx>>
  BY <1>1 DEF TypeInv, Placed, disk, memory
<1>3. pass' \in [Node -> Pass] /\ Placed'
  BY <1>1, <1>2, PcTyped DEF PlacedAt, Batch, Busy, PCs
<1>4. RowTypes' /\ CursorTypes' /\ PeerTypes'
  BY <1>1, <1>3 DEF TypeInv, Typed, RowTypes, CursorTypes, PeerTypes, disk, memory
<1>5. BoundTypes'
  BY <1>1, Constants DEF TypeInv, Typed, BoundTypes
<1> QED
  BY <1>3, <1>4, <1>5 DEF TypeInv, Typed

\* Clearing the context leaves the rest.
LEMMA ClearTyped == ASSUME TypeInv, NEW n \in Node, ClearContext(n) PROVE TypeInv'
<1>1. /\ pass[n].pc = "written" /\ ctx' = [ctx EXCEPT ![n] = NoCtx] /\ Goto(n, "cleared")
      /\ UNCHANGED <<tab, ver, outbox, saved, memory, clock, writes, left>>
  BY DEF ClearContext
<1>2. /\ PlacedAt(n) /\ UNCHANGED cur
      /\ ctx \in [Node -> [row : Row \cup {"none"}, stamp : Stamp \cup {NoStamp}]]
  BY <1>1 DEF TypeInv, Typed, RowTypes, Placed, memory
<1>3. NoCtx \in [row : Row \cup {"none"}, stamp : Stamp \cup {NoStamp}] /\ NoCtx.row = "none"
  BY DEF NoCtx
<1>4. /\ ctx' \in [Node -> [row : Row \cup {"none"}, stamp : Stamp \cup {NoStamp}]]
      /\ ctx'[n] = NoCtx /\ \A m \in Node \ {n} : ctx'[m] = ctx[m]
  BY <1>1, <1>2, <1>3
<1>5. pass' \in [Node -> Pass] /\ Placed'
  <2>1. pass[n].upto <= Len(outbox[pass[n].peer]) /\ cur[n][pass[n].peer] < pass[n].upto
    BY <1>1, <1>2 DEF PlacedAt, Batch, Busy
  <2> QED
    BY <1>1, <1>2, <1>3, <1>4, <2>1, PcTyped DEF PCs
<1>6. RowTypes' /\ CursorTypes' /\ PeerTypes' /\ BoundTypes'
  BY <1>1, <1>4, <1>5 DEF TypeInv, Typed, RowTypes, CursorTypes, PeerTypes, BoundTypes, memory
<1> QED
  BY <1>5, <1>6 DEF TypeInv, Typed

\* The cursor moves by one, to a record of the batch.
LEMMA AdvanceTyped == ASSUME TypeInv, NEW n \in Node, AdvanceCursor(n) PROVE TypeInv'
<1>1. /\ pass[n].pc = "cleared" /\ CursorTo(n, cur[n][pass[n].peer] + 1) /\ Goto(n, "apply")
      /\ UNCHANGED <<tab, ver, outbox, ctx, known, health, fails, clock, writes, left>>
  BY DEF AdvanceCursor
<1>2. /\ cur[n][pass[n].peer] + 1 \in Nat
      /\ cur[n][pass[n].peer] + 1 <= Len(outbox[pass[n].peer])
  <2>1. pass[n].pc \in Batch /\ MoreToApply(n)
    BY <1>1, BusyMore DEF Busy
  <2>2. Len(outbox[pass[n].peer]) \in Nat
    BY Here
  <2> QED
    BY <1>1, <2>1, <2>2, NextRecord
<1>3. /\ saved' \in [Node -> [Node -> Nat]] /\ cur' \in [Node -> [Node -> Nat]]
      /\ \A m \in Node \ {n} : saved'[m] = saved[m] /\ cur'[m] = cur[m]
      /\ \A p \in Node : saved'[n][p] <= Len(outbox'[p]) /\ cur'[n][p] <= Len(outbox'[p])
  BY <1>1, <1>2, CursorTyped
<1>4. PlacedAt(n) /\ Grows /\ pass \in [Node -> Pass] /\ pass[n] \in Pass
  BY <1>1, Here, Still DEF TypeInv, Typed, PeerTypes, Placed
<1>5. /\ pass' \in [Node -> Pass] /\ pass'[n] = [pass[n] EXCEPT !.pc = "apply"]
      /\ \A m \in Node \ {n} : pass'[m] = pass[m]
  <2> DEFINE q == [pass[n] EXCEPT !.pc = "apply"]
  <2>1. q \in Pass /\ pass' = [pass EXCEPT ![n] = q]
    BY <1>1, <1>4 DEF Goto, Pass, PCs
  <2> HIDE DEF q
  <2>2. pass' \in [Node -> Pass] /\ pass'[n] = q /\ \A m \in Node \ {n} : pass'[m] = pass[m]
    BY <1>4, <2>1
  <2> QED
    BY <2>2 DEF q
<1>6. PlacedAt(n)'
  <2>1. pass'[n].pc = "apply" /\ pass'[n].peer = pass[n].peer /\ pass'[n].upto = pass[n].upto
    BY <1>4, <1>5 DEF Pass
  <2> QED
    BY <1>1, <1>3, <1>4, <2>1 DEF PlacedAt, Batch, Busy
<1>7. Placed'
  BY <1>1, <1>3, <1>4, <1>5, <1>6, OneMoves
<1>8. RowTypes' /\ CursorTypes' /\ PeerTypes' /\ BoundTypes'
  BY <1>1, <1>3, <1>5 DEF TypeInv, Typed, RowTypes, CursorTypes, PeerTypes, BoundTypes
<1> QED
  BY <1>7, <1>8 DEF TypeInv, Typed

\* After a batch the thread fetches the next or finishes.
LEMMA EndBatchTyped == ASSUME TypeInv, NEW n \in Node, EndBatch(n) PROVE TypeInv'
<1>1. PICK pc \in {"fetch", "finish"} : Goto(n, pc)
  BY DEF EndBatch
<1>2. UNCHANGED <<disk, memory, clock, writes, left>>
  BY DEF EndBatch
<1>3. PlacedAt(n) /\ UNCHANGED <<outbox, saved, cur, ctx>> /\ pc \in PCs
  BY <1>2 DEF TypeInv, Placed, disk, memory, PCs
<1>4. pass' \in [Node -> Pass] /\ Placed'
  BY <1>1, <1>2, <1>3, PcTyped DEF PlacedAt, Batch, Busy
<1>5. RowTypes' /\ CursorTypes' /\ PeerTypes' /\ BoundTypes'
  BY <1>2, <1>4 DEF TypeInv, Typed, RowTypes, CursorTypes, PeerTypes, BoundTypes, disk, memory
<1> QED
  BY <1>4, <1>5 DEF TypeInv, Typed

\* A contacted peer is healthy again.
LEMMA ContactedTyped ==
  ASSUME TypeInv, NEW n \in Node, Contacted(n)
  PROVE  /\ health' \in [Node -> [Node -> Healths]]
         /\ fails' \in [Node -> [Node -> 0..FailuresBeforeDown]]
<1>1. /\ health \in [Node -> [Node -> Healths]] /\ 0 \in 0..FailuresBeforeDown
      /\ fails \in [Node -> [Node -> 0..FailuresBeforeDown]] /\ pass[n].peer \in Node
      /\ "healthy" \in Healths
  BY Here, Constants DEF TypeInv, Typed, PeerTypes, Healths
<1>2. health' = [health EXCEPT ![n][pass[n].peer] = "healthy"]
  BY DEF Contacted
<1>3. fails' = [fails EXCEPT ![n][pass[n].peer] = 0]
  BY DEF Contacted
<1> QED
  BY <1>1, <1>2, <1>3

\* A finished pass turns to the next peer, or to the heal rule.
LEMMA FinishTyped == ASSUME TypeInv, NEW n \in Node, FinishPass(n) PROVE TypeInv'
<1>1. Contacted(n) /\ NextInRound(n) /\ UNCHANGED <<disk, cur, known, clock, writes, left>>
  BY DEF FinishPass
<1>2. PlacedAt(n) /\ UNCHANGED <<outbox, saved, cur, ctx>> /\ Grows
  BY <1>1, Still DEF TypeInv, Placed, disk
<1>3. pass' \in [Node -> Pass] /\ Placed'
  BY <1>1, <1>2, NextTyped DEF PlacedAt
<1>4. RowTypes' /\ CursorTypes' /\ PeerTypes' /\ BoundTypes'
  BY <1>1, <1>3, ContactedTyped
     DEF TypeInv, Typed, RowTypes, CursorTypes, PeerTypes, BoundTypes, disk
<1> QED
  BY <1>3, <1>4 DEF TypeInv, Typed

\* Forgetting the versions of a table keeps the types.
LEMMA HealClearTyped == ASSUME TypeInv, NEW n \in Node, HealClear(n) PROVE TypeInv'
<1>1. /\ Contacted(n) /\ Goto(n, "rewind") /\ ver' = [ver EXCEPT ![n] = [r \in Row |-> NoStamp]]
      /\ UNCHANGED <<tab, outbox, ctx, saved, cur, known, clock, writes, left>>
  BY DEF HealClear
<1>2. PlacedAt(n) /\ UNCHANGED <<outbox, saved, cur, ctx>>
  BY <1>1 DEF TypeInv, Placed
<1>3. pass' \in [Node -> Pass] /\ Placed'
  BY <1>1, <1>2, PcTyped DEF PlacedAt, Batch, Busy, PCs
<1>4. RowTypes' /\ CursorTypes' /\ PeerTypes' /\ BoundTypes'
  BY <1>1, <1>3, ContactedTyped
     DEF TypeInv, Typed, RowTypes, CursorTypes, PeerTypes, BoundTypes
<1> QED
  BY <1>3, <1>4 DEF TypeInv, Typed

\* A rewound cursor is zero.
LEMMA HealRewindTyped == ASSUME TypeInv, NEW n \in Node, HealRewind(n) PROVE TypeInv'
<1>1. /\ CursorTo(n, 0) /\ NextInRound(n)
      /\ UNCHANGED <<tab, ver, outbox, ctx, known, health, fails, clock, writes, left>>
  BY DEF HealRewind
<1>2. /\ saved' \in [Node -> [Node -> Nat]] /\ cur' \in [Node -> [Node -> Nat]]
      /\ \A m \in Node \ {n} : saved'[m] = saved[m] /\ cur'[m] = cur[m]
      /\ \A p \in Node : saved'[n][p] <= Len(outbox'[p]) /\ cur'[n][p] <= Len(outbox'[p])
  <2>1. Len(outbox[pass[n].peer]) \in Nat
    BY Here
  <2>2. 0 <= Len(outbox[pass[n].peer])
    BY <2>1
  <2> QED
    BY <1>1, <2>2, CursorTyped
<1>3. pass' \in [Node -> Pass] /\ Placed'
  BY <1>1, <1>2, Still, NextTyped
<1>4. RowTypes' /\ CursorTypes' /\ PeerTypes' /\ BoundTypes'
  BY <1>1, <1>2, <1>3 DEF TypeInv, Typed, RowTypes, CursorTypes, PeerTypes, BoundTypes
<1> QED
  BY <1>3, <1>4 DEF TypeInv, Typed

\* A restarted node has its disk and starts a round over.
LEMMA CrashTyped == ASSUME TypeInv, NEW n \in Node, Crash(n) PROVE TypeInv'
<1> DEFINE p == Least(PeerList[n])
<1>1. /\ left.crash > 0 /\ left' = [left EXCEPT !.crash = @ - 1]
      /\ cur' = [cur EXCEPT ![n] = [q \in Node |-> 0]]
      /\ known' = [known EXCEPT ![n] = {}]
      /\ health' = [health EXCEPT ![n] = [q \in Node |-> "connecting"]]
      /\ fails' = [fails EXCEPT ![n] = [q \in Node |-> 0]]
      /\ pass' = [pass EXCEPT ![n] = Idle(p)]
      /\ UNCHANGED <<disk, clock, writes>>
  BY DEF Crash
<1>2. p \in PeerList[n] /\ p \in Node
  BY Peers, Here
<1> HIDE DEF p
<1>3. Idle(p) \in Pass /\ Idle(p).pc = "idle" /\ Idle(p).peer = p
  BY <1>2 DEF Idle, Pass, PCs
<1>4. /\ pass \in [Node -> Pass] /\ cur \in [Node -> [Node -> Nat]]
      /\ known \in [Node -> SUBSET Node] /\ health \in [Node -> [Node -> Healths]]
      /\ fails \in [Node -> [Node -> 0..FailuresBeforeDown]] /\ PlacedAt(n)
  BY DEF TypeInv, Typed, CursorTypes, PeerTypes, Placed
<1>5. /\ pass' \in [Node -> Pass] /\ pass'[n] = Idle(p) /\ \A m \in Node \ {n} : pass'[m] = pass[m]
  BY <1>1, <1>3, <1>4
<1>6. /\ cur' \in [Node -> [Node -> Nat]] /\ known' \in [Node -> SUBSET Node]
      /\ cur'[n] = [q \in Node |-> 0] /\ \A m \in Node \ {n} : cur'[m] = cur[m]
  BY <1>1, <1>4
<1>7. health' \in [Node -> [Node -> Healths]]
  BY <1>1, <1>4 DEF Healths
<1>8. fails' \in [Node -> [Node -> 0..FailuresBeforeDown]]
  BY <1>1, <1>4, Constants
<1>9. UNCHANGED <<outbox, ctx, saved>> /\ Grows
  BY <1>1, Still DEF disk
<1>10. \A q \in Node : saved'[n][q] <= Len(outbox'[q]) /\ cur'[n][q] <= Len(outbox'[q])
  <2>1. \A q \in Node : 0 <= Len(outbox[q])
    BY Here
  <2> QED
    BY <1>4, <1>6, <1>9, <2>1 DEF PlacedAt
<1>11. PlacedAt(n)'
  BY <1>2, <1>3, <1>4, <1>5, <1>9, <1>10 DEF PlacedAt, Batch, Busy
<1>12. Placed'
  BY <1>5, <1>6, <1>9, <1>11, OneMoves
<1>13. BoundTypes'
  BY <1>1, Constants DEF TypeInv, Typed, BoundTypes
<1>14. RowTypes' /\ CursorTypes' /\ PeerTypes'
  BY <1>1, <1>5, <1>6, <1>7, <1>8 DEF TypeInv, Typed, RowTypes, CursorTypes, PeerTypes, disk
<1> QED
  BY <1>12, <1>13, <1>14 DEF TypeInv, Typed

\* A lost row leaves the versions and the outboxes.
LEMMA LoseTyped ==
  ASSUME TypeInv, NEW n \in Node, NEW r \in Row, LoseRow(n, r)
  PROVE  TypeInv'
<1>1. /\ left.loss > 0 /\ left' = [left EXCEPT !.loss = @ - 1]
      /\ tab' = [tab EXCEPT ![n][r] = NoRow]
      /\ UNCHANGED <<ver, outbox, ctx, saved, memory, clock, pass, writes>>
  BY DEF LoseRow
<1>2. tab' \in [Node -> [Row -> Write \cup {NoRow}]]
  BY <1>1 DEF TypeInv, Typed, RowTypes
<1>3. BoundTypes'
  BY <1>1, Constants DEF TypeInv, Typed, BoundTypes
<1>4. RowTypes' /\ CursorTypes' /\ PeerTypes'
  BY <1>1, <1>2 DEF TypeInv, Typed, RowTypes, CursorTypes, PeerTypes, memory
<1>5. Placed'
  BY <1>1, Still, PlacedStays DEF Placed, memory
<1> QED
  BY <1>3, <1>4, <1>5 DEF TypeInv, Typed

\* The stamp a trigger uses is one.
LEMMA StampTyped ==
  ASSUME TypeInv, NEW n \in Node, NEW r \in Row, NEW t \in 1..MaxMs
  PROVE  StampFor(n, r, t) \in Stamp
<1>1. r # "none" /\ PlacedAt(n)
  BY Constants DEF TypeInv, Placed
<1>2. ctx[n].row = r => ctx[n].stamp \in Stamp
  BY <1>1 DEF PlacedAt
<1> QED
  BY <1>2 DEF StampFor, Stamp

\* The record a trigger of n leaves for a write of row r.
Left(n, r, op, v, t) == [row |-> r, op |-> op, val |-> v, stamp |-> StampFor(n, r, t)]

\* What a trigger that leaves the record rec does.
Fires(n, rec) ==
  /\ tab' = [tab EXCEPT ![n][rec.row] = rec.val]
  /\ ver' = [ver EXCEPT ![n][rec.row] = rec.stamp]
  /\ outbox' = [outbox EXCEPT ![n] = Append(@, rec)]

\* What a write of a local thread does.
LEMMA WriteIs ==
  ASSUME TypeInv, NEW n \in Node, NEW r \in Row, LocalUpsert(n, r) \/ LocalDelete(n, r)
  PROVE  \E op \in {"upsert", "delete"} : \E v \in Write \cup {NoRow} : \E t \in 1..MaxMs :
           /\ t >= clock[n] /\ LocalStampAllowed(n, r, t) /\ RaceAllowed(n, r)
           /\ Left(n, r, op, v, t) \in Record /\ Fires(n, Left(n, r, op, v, t))
           /\ op = "upsert" <=> v # NoRow
           /\ clock' = [clock EXCEPT ![n] = t]
           /\ writes < MaxWrites /\ writes' = writes + 1
           /\ UNCHANGED <<ctx, saved, memory, pass, left>>
<1>1. writes \in Nat /\ MaxWrites \in Nat
  BY Constants DEF TypeInv, Typed, BoundTypes
<1>2. PICK op \in {"upsert", "delete"}, v \in Write \cup {NoRow} :
        LocalWrite(n, r, op, v) /\ (op = "upsert" <=> v # NoRow)
  <2>1. CASE LocalUpsert(n, r)
    <3>1. LocalWrite(n, r, "upsert", writes + 1) /\ writes < MaxWrites
      BY <2>1 DEF LocalUpsert, LocalWrite
    <3>2. writes + 1 \in Write /\ writes + 1 # NoRow
      BY <1>1, <3>1 DEF Write, NoRow
    <3> QED
      BY <3>1, <3>2
  <2>2. CASE LocalDelete(n, r)
    BY <2>2 DEF LocalDelete
  <2> QED
    BY <2>1, <2>2
<1>3. PICK t \in 1..MaxMs :
        /\ t >= clock[n] /\ LocalStampAllowed(n, r, t)
        /\ Trigger(n, r, op, v, t) /\ clock' = [clock EXCEPT ![n] = t]
  BY <1>2 DEF LocalWrite
<1>4. Left(n, r, op, v, t) \in Record
  BY StampTyped DEF Left, Record
<1>5. Fires(n, Left(n, r, op, v, t))
  BY <1>3 DEF Fires, Trigger, Left
<1> QED
  BY <1>2, <1>3, <1>4, <1>5 DEF LocalWrite

\* The rows, the versions and the outbox after a trigger.
LEMMA FiresTyped ==
  ASSUME TypeInv, NEW n \in Node, NEW rec \in Record, Fires(n, rec)
  PROVE  /\ tab' \in [Node -> [Row -> Write \cup {NoRow}]]
         /\ ver' \in [Node -> [Row -> Stamp \cup {NoStamp}]]
         /\ outbox' \in [Node -> Seq(Record)] /\ Grows
         /\ Len(outbox'[n]) = Len(outbox[n]) + 1 /\ outbox'[n][Len(outbox[n]) + 1] = rec
         /\ \A m \in Node \ {n} : outbox'[m] = outbox[m] /\ ver'[m] = ver[m] /\ tab'[m] = tab[m]
         /\ ver'[n] = [ver[n] EXCEPT ![rec.row] = rec.stamp]
         /\ tab'[n] = [tab[n] EXCEPT ![rec.row] = rec.val]
<1>1. rec.row \in Row /\ rec.stamp \in Stamp /\ rec.val \in Write \cup {NoRow}
  BY DEF Record
<1>2. /\ tab' = [tab EXCEPT ![n][rec.row] = rec.val]
      /\ ver' = [ver EXCEPT ![n][rec.row] = rec.stamp]
      /\ outbox' = [outbox EXCEPT ![n] = Append(@, rec)]
  BY DEF Fires
<1>3. /\ tab \in [Node -> [Row -> Write \cup {NoRow}]]
      /\ ver \in [Node -> [Row -> Stamp \cup {NoStamp}]]
      /\ outbox \in [Node -> Seq(Record)]
  BY DEF TypeInv, Typed, RowTypes
<1>4. /\ tab' \in [Node -> [Row -> Write \cup {NoRow}]]
      /\ ver' \in [Node -> [Row -> Stamp \cup {NoStamp}]]
  BY <1>1, <1>2, <1>3
<1>5. outbox' \in [Node -> Seq(Record)]
  BY <1>2, <1>3
<1>6. Grows /\ Len(outbox'[n]) = Len(outbox[n]) + 1 /\ outbox'[n][Len(outbox[n]) + 1] = rec
  BY <1>2, <1>3 DEF Grows
<1>7. \A m \in Node \ {n} : outbox'[m] = outbox[m] /\ ver'[m] = ver[m] /\ tab'[m] = tab[m]
  BY <1>2, <1>3
<1>8. /\ ver'[n] = [ver[n] EXCEPT ![rec.row] = rec.stamp]
      /\ tab'[n] = [tab[n] EXCEPT ![rec.row] = rec.val]
  BY <1>2, <1>3
<1> QED
  BY <1>4, <1>5, <1>6, <1>7, <1>8

\* A local write leaves one record more, under the node's clock or the context.
LEMMA WriteTyped ==
  ASSUME TypeInv, NEW n \in Node, NEW r \in Row, LocalUpsert(n, r) \/ LocalDelete(n, r)
  PROVE  TypeInv'
<1>1. PICK rec \in Record, t \in 1..MaxMs :
        /\ Fires(n, rec) /\ clock' = [clock EXCEPT ![n] = t] /\ writes' = writes + 1
        /\ UNCHANGED <<ctx, saved, memory, pass, left>>
  BY WriteIs
<1>2. /\ tab' \in [Node -> [Row -> Write \cup {NoRow}]]
      /\ ver' \in [Node -> [Row -> Stamp \cup {NoStamp}]]
      /\ outbox' \in [Node -> Seq(Record)] /\ Grows
  BY <1>1, FiresTyped
<1>3. clock' \in [Node -> 0..MaxMs]
  <2>1. t \in 0..MaxMs
    BY <1>1, Constants
  <2> QED
    BY <1>1, <2>1 DEF TypeInv, Typed, RowTypes
<1>4. RowTypes' /\ CursorTypes' /\ PeerTypes' /\ BoundTypes'
  BY <1>1, <1>2, <1>3 DEF TypeInv, Typed, RowTypes, CursorTypes, PeerTypes, BoundTypes, memory
<1>5. Placed'
  BY <1>1, <1>2, PlacedStays DEF Placed, memory
<1> QED
  BY <1>4, <1>5 DEF TypeInv, Typed

\* What the statement that applies a record does: nothing to an absent row that is
\* to be deleted, otherwise a trigger fires with the published stamp and leaves
\* the very record that is applied.
LEMMA ApplyIs ==
  ASSUME TypeInv, NEW n \in Node, ApplyStatement(n)
  PROVE  /\ pass[n].pc = "published" /\ Current(n) \in Record
         /\ pass' = [pass EXCEPT ![n] = [pass[n] EXCEPT !.pc = "written", !.applied = TRUE]]
         /\ UNCHANGED <<ctx, saved, memory, clock, writes, left>>
         /\ \/ /\ Current(n).op = "delete" /\ tab[n][Current(n).row] = NoRow
               /\ UNCHANGED <<tab, ver, outbox>>
            \/ /\ ~(Current(n).op = "delete" /\ tab[n][Current(n).row] = NoRow)
               /\ Fires(n, Current(n))
<1>1. /\ pass[n].pc = "published" /\ Current(n) \in Record
  BY BusyMore, NextRecord DEF ApplyStatement, Busy
<1>2. ctx[n].row = Current(n).row /\ ctx[n].stamp = Current(n).stamp
  <2>1. PlacedAt(n)
    BY DEF TypeInv, Placed
  <2>2. ctx[n] = [row |-> Current(n).row, stamp |-> Current(n).stamp]
    BY <1>1, <2>1 DEF PlacedAt
  <2> QED
    BY <2>2
<1>3. pass' = [pass EXCEPT ![n] = [pass[n] EXCEPT !.pc = "written", !.applied = TRUE]]
  <2>1. pass \in [Node -> Pass]
    BY DEF TypeInv, Typed, PeerTypes
  <2> QED
    BY <2>1 DEF ApplyStatement
<1>4. Left(n, Current(n).row, Current(n).op, Current(n).val, clock[n]) = Current(n)
  BY <1>1, <1>2 DEF Left, StampFor, Record
<1>5. \/ /\ Current(n).op = "delete" /\ tab[n][Current(n).row] = NoRow
         /\ UNCHANGED <<tab, ver, outbox>>
      \/ /\ ~(Current(n).op = "delete" /\ tab[n][Current(n).row] = NoRow)
         /\ Trigger(n, Current(n).row, Current(n).op, Current(n).val, clock[n])
  BY DEF ApplyStatement
<1>6. Trigger(n, Current(n).row, Current(n).op, Current(n).val, clock[n])
        => Fires(n, Left(n, Current(n).row, Current(n).op, Current(n).val, clock[n]))
  BY DEF Trigger, Fires, Left
<1> QED
  BY <1>1, <1>3, <1>4, <1>5, <1>6 DEF ApplyStatement

\* So does an apply statement.
LEMMA ApplyTyped == ASSUME TypeInv, NEW n \in Node, ApplyStatement(n) PROVE TypeInv'
<1> DEFINE q == [pass[n] EXCEPT !.pc = "written", !.applied = TRUE]
<1>1. /\ pass[n].pc = "published" /\ pass' = [pass EXCEPT ![n] = q]
      /\ UNCHANGED <<ctx, saved, memory, clock, writes, left>>
  BY ApplyIs
<1>2. /\ tab' \in [Node -> [Row -> Write \cup {NoRow}]]
      /\ ver' \in [Node -> [Row -> Stamp \cup {NoStamp}]]
      /\ outbox' \in [Node -> Seq(Record)] /\ Grows
  <2>1. CASE UNCHANGED <<tab, ver, outbox>>
    BY <2>1, Still DEF TypeInv, Typed, RowTypes
  <2>2. CASE Fires(n, Current(n))
    BY <2>2, ApplyIs, FiresTyped
  <2> QED
    BY <2>1, <2>2, ApplyIs
<1>3. pass \in [Node -> Pass] /\ pass[n] \in Pass /\ PlacedAt(n)
  BY Here DEF TypeInv, Typed, PeerTypes, Placed
<1>4. q \in Pass /\ q.pc = "written" /\ q.peer = pass[n].peer /\ q.upto = pass[n].upto
  BY <1>3 DEF Pass, PCs
<1> HIDE DEF q
<1>5. pass' \in [Node -> Pass] /\ pass'[n] = q /\ \A m \in Node \ {n} : pass'[m] = pass[m]
  BY <1>1, <1>3, <1>4
<1>6. UNCHANGED cur
  BY <1>1 DEF memory
<1>7. Current(n)' = Current(n)
  BY <1>1, <1>2, <1>4, <1>5, <1>6, CurrentStays DEF Busy
<1>8. Len(outbox[q.peer]) <= Len(outbox'[q.peer]) /\ Len(outbox[q.peer]) \in Nat /\ q.upto \in Nat
      /\ Len(outbox'[q.peer]) \in Nat
  <2>1. q.peer \in Node
    BY <1>4, Here
  <2> QED
    BY <1>2, <1>4, <2>1, Here DEF Grows
<1>9. PlacedAt(n)'
  <2>1. \A p \in Node : saved'[n][p] <= Len(outbox'[p]) /\ cur'[n][p] <= Len(outbox'[p])
    <3> SUFFICES ASSUME NEW p \in Node
                 PROVE  saved[n][p] <= Len(outbox'[p]) /\ cur[n][p] <= Len(outbox'[p])
      BY <1>1, <1>6
    <3>1. /\ saved[n][p] \in Nat /\ cur[n][p] \in Nat /\ Len(outbox[p]) \in Nat
          /\ Len(outbox'[p]) \in Nat
      BY <1>2, Here
    <3>2. saved[n][p] <= Len(outbox[p]) /\ cur[n][p] <= Len(outbox[p])
      BY <1>3 DEF PlacedAt
    <3>3. Len(outbox[p]) <= Len(outbox'[p])
      BY <1>2 DEF Grows
    <3> QED
      BY <3>1, <3>2, <3>3
  <2>2. q.upto <= Len(outbox'[q.peer])
    <3>1. q.upto <= Len(outbox[q.peer])
      BY <1>1, <1>3, <1>4 DEF PlacedAt, Batch
    <3> QED
      BY <1>8, <3>1
  <2>3. cur'[n][q.peer] < q.upto
    BY <1>1, <1>3, <1>4, <1>6 DEF PlacedAt, Busy
  <2> QED
    BY <1>1, <1>3, <1>4, <1>5, <1>7, <2>1, <2>2, <2>3 DEF PlacedAt
<1>10. Placed'
  BY <1>1, <1>2, <1>5, <1>6, <1>9, OneMoves
<1>11. RowTypes' /\ CursorTypes' /\ PeerTypes' /\ BoundTypes'
  BY <1>1, <1>2, <1>5 DEF TypeInv, Typed, RowTypes, CursorTypes, PeerTypes, BoundTypes, memory
<1> QED
  BY <1>10, <1>11 DEF TypeInv, Typed

\* Nothing changes when nothing moves.
LEMMA IdleTyped == ASSUME TypeInv, UNCHANGED vars PROVE TypeInv'
<1>1. Typed'
  BY DEF TypeInv, Typed, RowTypes, CursorTypes, PeerTypes, BoundTypes, vars, disk, memory
<1>2. Placed'
  BY Still, PlacedStays DEF Placed, vars, disk, memory
<1> QED
  BY <1>1, <1>2 DEF TypeInv

\* Types are kept by every step of every node.
LEMMA StepTyped == TypeInv /\ [Next]_vars => TypeInv'
<1> SUFFICES ASSUME TypeInv, [Next]_vars PROVE TypeInv'
  OBVIOUS
<1>1. CASE UNCHANGED vars
  BY <1>1, IdleTyped
<1>2. ASSUME NEW n \in Node, SyncStep(n) PROVE TypeInv'
  BY <1>2, HandshakeTyped, FetchTyped, SkipTyped, DecideTyped, PublishTyped, ApplyTyped,
     ClearTyped, AdvanceTyped, EndBatchTyped, FinishTyped, HealClearTyped, HealRewindTyped
     DEF SyncStep
<1>3. ASSUME NEW n \in Node,
             HandshakeFails(n) \/ FetchFails(n) \/ ApplyFails(n) \/ Crash(n)
      PROVE  TypeInv'
  BY <1>3, HandshakeFailsTyped, FetchFailsTyped, ApplyFailsTyped, CrashTyped
<1>4. ASSUME NEW n \in Node, NEW r \in Row,
             LocalUpsert(n, r) \/ LocalDelete(n, r) \/ LoseRow(n, r)
      PROVE  TypeInv'
  BY <1>4, WriteTyped, LoseTyped
<1> QED
  BY <1>1, <1>2, <1>3, <1>4 DEF Next

\* The type invariant holds in every reachable state.
LEMMA AlwaysTyped == Spec => []TypeInv
  BY InitTyped, StepTyped, PTL DEF Spec

\* Spec => []TypeOK: the rows, versions, records, stamps and cursors are always of
\* their shapes, a sync thread always works on one of its configured peers, and no
\* cursor passes the end of the outbox it reads, whatever writes race, calls fail,
\* nodes crash and rows are lost (PullFromPeer, SetPeerCursor).
THEOREM TypesAlwaysHold == Spec => []TypeOK
<1>1. TypeInv => TypeOK
  <2> SUFFICES ASSUME TypeInv PROVE TypeOK
    OBVIOUS
  <2>1. \A n \in Node : outbox[n] \in Seq(Record) /\ pass[n].peer \in PeerList[n]
    BY Here
  <2>2. \A n, p \in Node : saved[n][p] \in 0..Len(outbox[p]) /\ cur[n][p] \in 0..Len(outbox[p])
    <3> SUFFICES ASSUME NEW n \in Node, NEW p \in Node
                 PROVE  saved[n][p] \in 0..Len(outbox[p]) /\ cur[n][p] \in 0..Len(outbox[p])
      OBVIOUS
    <3>1. saved[n][p] \in Nat /\ cur[n][p] \in Nat /\ Len(outbox[p]) \in Nat
      BY Here
    <3>2. saved[n][p] <= Len(outbox[p]) /\ cur[n][p] <= Len(outbox[p])
      BY DEF TypeInv, Placed, PlacedAt
    <3> QED
      BY <3>1, <3>2
  <2> QED
    BY <2>1, <2>2 DEF TypeOK, TypeInv, Typed, RowTypes, PeerTypes, Healths
<1> QED
  BY <1>1, AlwaysTyped, PTL

-----------------------------------------------------------------------------
(* Who changes what                                                        *)

\* A step of node n, of its environment or of one of its threads.
StepOf(n) ==
  \/ SyncStep(n)
  \/ HandshakeFails(n) \/ FetchFails(n) \/ ApplyFails(n) \/ Crash(n)
  \/ \E r \in Row : LocalUpsert(n, r) \/ LocalDelete(n, r) \/ LoseRow(n, r)

\* What node m holds on disk and in memory, but for the state of its contacts.
Same(m) ==
  /\ tab'[m] = tab[m] /\ ver'[m] = ver[m] /\ outbox'[m] = outbox[m] /\ ctx'[m] = ctx[m]
  /\ saved'[m] = saved[m] /\ cur'[m] = cur[m] /\ clock'[m] = clock[m] /\ pass'[m] = pass[m]
  /\ known'[m] = known[m]

\* A node changes its own state only.
LEMMA OthersKeep ==
  ASSUME TypeInv, NEW n \in Node, StepOf(n), NEW m \in Node, m # n
  PROVE  Same(m)
<1>0. /\ pass \in [Node -> Pass] /\ tab \in [Node -> [Row -> Write \cup {NoRow}]]
      /\ ver \in [Node -> [Row -> Stamp \cup {NoStamp}]] /\ outbox \in [Node -> Seq(Record)]
      /\ ctx \in [Node -> [row : Row \cup {"none"}, stamp : Stamp \cup {NoStamp}]]
      /\ clock \in [Node -> 0..MaxMs] /\ saved \in [Node -> [Node -> Nat]]
      /\ cur \in [Node -> [Node -> Nat]] /\ known \in [Node -> SUBSET Node]
  BY DEF TypeInv, Typed, RowTypes, CursorTypes, PeerTypes
<1>1. CASE Handshake(n)
  BY <1>0, <1>1 DEF Handshake, Same, disk
<1>2. CASE FetchOutboxSince(n)
  BY <1>0, <1>2 DEF FetchOutboxSince, Same, disk, memory
<1>3. CASE Skip(n)
  BY <1>0, <1>3 DEF Skip, CursorTo, Same
<1>4. CASE Decide(n)
  BY <1>0, <1>4 DEF Decide, Goto, Same, disk, memory
<1>5. CASE PublishContext(n)
  BY <1>0, <1>5 DEF PublishContext, Goto, Same, memory
<1>6. CASE ApplyStatement(n)
  <2>1. /\ pass' = [pass EXCEPT ![n] = [pass[n] EXCEPT !.pc = "written", !.applied = TRUE]]
        /\ UNCHANGED <<ctx, saved, memory, clock, writes, left>>
    BY <1>6, ApplyIs
  <2>2. tab'[m] = tab[m] /\ ver'[m] = ver[m] /\ outbox'[m] = outbox[m]
    <3>1. CASE UNCHANGED <<tab, ver, outbox>>
      BY <3>1
    <3>2. CASE Fires(n, Current(n))
      <4>1. Current(n) \in Record
        BY <1>6, ApplyIs
      <4> QED
        BY <3>2, <4>1, FiresTyped
    <3> QED
      BY <1>6, <3>1, <3>2, ApplyIs
  <2> QED
    BY <1>0, <2>1, <2>2 DEF Same, memory
<1>7. CASE ClearContext(n)
  BY <1>0, <1>7 DEF ClearContext, Goto, Same, memory
<1>8. CASE AdvanceCursor(n)
  BY <1>0, <1>8 DEF AdvanceCursor, Goto, CursorTo, Same
<1>9. CASE EndBatch(n)
  BY <1>0, <1>9 DEF EndBatch, Goto, Same, disk, memory
<1>10. CASE FinishPass(n)
  BY <1>0, <1>10 DEF FinishPass, NextInRound, Same, disk
<1>11. CASE HealClear(n)
  BY <1>0, <1>11 DEF HealClear, Goto, Same
<1>12. CASE HealRewind(n)
  BY <1>0, <1>12 DEF HealRewind, NextInRound, CursorTo, Same
<1>13. CASE HandshakeFails(n)
  BY <1>0, <1>13 DEF HandshakeFails, ContactFailed, NextInRound, Same, disk
<1>14. CASE FetchFails(n)
  BY <1>0, <1>14 DEF FetchFails, ContactFailed, NextInRound, Goto, Same, disk
<1>15. CASE ApplyFails(n)
  BY <1>0, <1>15 DEF ApplyFails, Goto, Same, disk, memory
<1>16. CASE Crash(n)
  BY <1>0, <1>16 DEF Crash, Same, disk
<1>17. ASSUME NEW r \in Row, LocalUpsert(n, r) \/ LocalDelete(n, r) PROVE Same(m)
  <2>1. PICK rec \in Record, t \in 1..MaxMs :
          /\ Fires(n, rec) /\ clock' = [clock EXCEPT ![n] = t]
          /\ UNCHANGED <<ctx, saved, memory, pass, left>>
    BY <1>17, WriteIs
  <2> QED
    BY <1>0, <2>1, FiresTyped DEF Same, memory
<1>18. ASSUME NEW r \in Row, LoseRow(n, r) PROVE Same(m)
  BY <1>0, <1>18 DEF LoseRow, Same, memory
<1> QED
  BY <1>1, <1>2, <1>3, <1>4, <1>5, <1>6, <1>7, <1>8, <1>9, <1>10, <1>11, <1>12, <1>13, <1>14,
     <1>15, <1>16, <1>17, <1>18 DEF StepOf, SyncStep

\* The rows of a node change by a write of its own, by the record it applies, by a
\* healing that forgets the versions, and by a loss.
LEMMA RowsOf ==
  ASSUME TypeInv, NEW n \in Node, StepOf(n)
  PROVE  \/ UNCHANGED <<tab, ver, outbox, clock>>
         \/ \E r \in Row : LocalUpsert(n, r) \/ LocalDelete(n, r)
         \/ ApplyStatement(n)
         \/ HealClear(n)
         \/ \E r \in Row : LoseRow(n, r)
<1>1. CASE Handshake(n)
  BY <1>1 DEF Handshake, disk
<1>2. CASE FetchOutboxSince(n)
  BY <1>2 DEF FetchOutboxSince, disk
<1>3. CASE Skip(n)
  BY <1>3 DEF Skip
<1>4. CASE Decide(n)
  BY <1>4 DEF Decide, disk
<1>5. CASE PublishContext(n)
  BY <1>5 DEF PublishContext
<1>6. CASE ClearContext(n)
  BY <1>6 DEF ClearContext
<1>7. CASE AdvanceCursor(n)
  BY <1>7 DEF AdvanceCursor
<1>8. CASE EndBatch(n)
  BY <1>8 DEF EndBatch, disk
<1>9. CASE FinishPass(n)
  BY <1>9 DEF FinishPass, disk
<1>10. CASE HealRewind(n)
  BY <1>10 DEF HealRewind
<1>11. CASE HandshakeFails(n)
  BY <1>11 DEF HandshakeFails, disk
<1>12. CASE FetchFails(n)
  BY <1>12 DEF FetchFails, disk
<1>13. CASE ApplyFails(n)
  BY <1>13 DEF ApplyFails, disk
<1>14. CASE Crash(n)
  BY <1>14 DEF Crash, disk
<1> QED
  BY <1>1, <1>2, <1>3, <1>4, <1>5, <1>6, <1>7, <1>8, <1>9, <1>10, <1>11, <1>12, <1>13, <1>14
     DEF StepOf, SyncStep

-----------------------------------------------------------------------------
(* Last writer wins                                                        *)

\* Stamps are ordered.
LEMMA StampOrder ==
  ASSUME NEW s \in Stamp \cup {NoStamp}, NEW t \in Stamp \cup {NoStamp},
         NEW u \in Stamp \cup {NoStamp}
  PROVE  /\ Older(s, t) \/ s = t \/ Older(t, s)
         /\ ~Older(s, s) /\ (Older(s, t) => ~Older(t, s) /\ s # t)
         /\ ~Older(s, t) /\ Older(s, u) => Older(t, u)
         /\ ~Older(s, t) /\ ~Older(u, s) => ~Older(u, t)
         /\ ~Older(s, t) /\ u[1] > s[1] => Older(t, u)
         /\ s[1] > t[1] => ~Older(s, t) /\ s # t
         /\ t \in Stamp => Older(NoStamp, t)
         /\ Older(s, t) => t \in Stamp
         /\ s[1] \in Int /\ s[2] \in Int
<1>0. \A x \in Stamp : /\ x[1] \in 1..MaxMs /\ x[2] \in Node /\ x = <<x[1], x[2]>>
                        /\ x[1] \in Nat /\ x[2] \in Nat /\ x[1] >= 1 /\ x[2] >= 0
  <2> SUFFICES ASSUME NEW x \in Stamp
               PROVE  /\ x[1] \in 1..MaxMs /\ x[2] \in Node /\ x = <<x[1], x[2]>>
                      /\ x[1] \in Nat /\ x[2] \in Nat /\ x[1] >= 1 /\ x[2] >= 0
    OBVIOUS
  <2>1. x[1] \in 1..MaxMs /\ x[2] \in Node /\ x = <<x[1], x[2]>>
    BY DEF Stamp
  <2>2. x[2] \in Nat
    BY <2>1, Constants
  <2> DEFINE x1 == x[1]
             x2 == x[2]
  <2> HIDE DEF x1, x2
  <2>3. x1 \in 1..MaxMs /\ x2 \in Nat
    BY <2>1, <2>2 DEF x1, x2
  <2>4. x1 \in Nat /\ x1 >= 1 /\ x2 >= 0
    BY <2>3, Constants
  <2> QED
    BY <2>1, <2>2, <2>4 DEF x1, x2
<1>1. \A x \in Stamp \cup {NoStamp} : x[1] \in Int /\ x[2] \in Int /\ x = <<x[1], x[2]>>
  <2>1. \A x \in Stamp : x[1] \in Int /\ x[2] \in Int /\ x = <<x[1], x[2]>>
    BY <1>0
  <2> QED
    BY <2>1 DEF NoStamp
<1>2. \A x \in Stamp : x[1] >= 1 /\ x[2] >= 0
  BY <1>0
<1>3. NoStamp[1] = -1 /\ NoStamp[2] = -1
  BY DEF NoStamp
<1> DEFINE s1 == s[1]  s2 == s[2]  t1 == t[1]  t2 == t[2]  u1 == u[1]  u2 == u[2]
<1>4. /\ s1 \in Int /\ s2 \in Int /\ t1 \in Int /\ t2 \in Int /\ u1 \in Int /\ u2 \in Int
      /\ s = <<s1, s2>> /\ t = <<t1, t2>>
  BY <1>1
<1>5. /\ Older(s, t) <=> (s1 < t1 \/ (s1 = t1 /\ s2 < t2))
      /\ Older(t, s) <=> (t1 < s1 \/ (t1 = s1 /\ t2 < s2))
      /\ Older(s, u) <=> (s1 < u1 \/ (s1 = u1 /\ s2 < u2))
      /\ Older(u, s) <=> (u1 < s1 \/ (u1 = s1 /\ u2 < s2))
      /\ Older(t, u) <=> (t1 < u1 \/ (t1 = u1 /\ t2 < u2))
      /\ Older(u, t) <=> (u1 < t1 \/ (u1 = t1 /\ u2 < t2))
      /\ Older(s, s) <=> (s1 < s1 \/ (s1 = s1 /\ s2 < s2))
  BY DEF Older
<1>6. t \in Stamp => Older(NoStamp, t)
  BY <1>2, <1>3, <1>1 DEF Older
<1>7. Older(s, t) => t \in Stamp
  <2>1. ~Older(s, NoStamp)
    <3>1. s \in Stamp => s1 >= 1 /\ s2 >= 0
      BY <1>2
    <3>2. s = NoStamp => s1 = -1 /\ s2 = -1
      BY <1>3
    <3> QED
      BY <1>3, <1>4, <3>1, <3>2 DEF Older
  <2> QED
    BY <2>1
<1> HIDE DEF s1, s2, t1, t2, u1, u2
<1>8. Older(s, t) \/ s = t \/ Older(t, s)
  BY <1>4, <1>5
<1>9. ~Older(s, s) /\ (Older(s, t) => ~Older(t, s) /\ s # t)
  BY <1>4, <1>5
<1>10. ~Older(s, t) /\ Older(s, u) => Older(t, u)
  BY <1>4, <1>5
<1>11. ~Older(s, t) /\ ~Older(u, s) => ~Older(u, t)
  BY <1>4, <1>5
<1>12. ~Older(s, t) /\ u1 > s1 => Older(t, u)
  BY <1>4, <1>5
<1>13. s1 > t1 => ~Older(s, t) /\ s # t
  BY <1>4, <1>5
<1> QED
  BY <1>4, <1>6, <1>7, <1>8, <1>9, <1>10, <1>11, <1>12, <1>13 DEF s1, s2, t1, t2, u1, u2

\* No row is older than a record of it in the node's own outbox.
Covered ==
  \A n \in Node : \A k \in 1..Len(outbox[n]) : ~Older(ver[n][outbox[n][k].row], outbox[n][k].stamp)
\* A stamp names one record, wherever copies of it have come to.
OneRecord ==
  \A n, m \in Node : \A j \in 1..Len(outbox[n]) : \A k \in 1..Len(outbox[m]) :
    outbox[n][j].stamp = outbox[m][k].stamp => outbox[n][j] = outbox[m][k]
\* No stamp is ahead of the clock of the node that gave it.
Past ==
  \A n \in Node : \A k \in 1..Len(outbox[n]) :
    outbox[n][k].stamp[1] <= clock[outbox[n][k].stamp[2]]
\* A version is the stamp of a record of the outbox; a deleted row is not there.
Recorded ==
  \A n \in Node : \A r \in Row : ver[n][r] # NoStamp =>
    \E k \in 1..Len(outbox[n]) :
      /\ outbox[n][k].row = r /\ outbox[n][k].stamp = ver[n][r]
      /\ outbox[n][k].op = "delete" => tab[n][r] = NoRow
\* Upserts carry contents, deletes carry none.
Shaped ==
  \A n \in Node : \A k \in 1..Len(outbox[n]) : outbox[n][k].op = "upsert" <=> outbox[n][k].val # NoRow
\* What has been decided to be newer than the row still is when it is applied.
Winning ==
  \A n \in Node : pass[n].pc \in {"decided", "published"} => Wins(n, Current(n))

RowsInv == Covered /\ OneRecord /\ Past /\ Recorded /\ Shaped /\ HistoryOrdered
HistInv == RowsInv /\ Winning

\* The record of an outbox.
LEMMA InOutbox ==
  ASSUME TypeInv, NEW n \in Node, NEW k \in 1..Len(outbox[n])
  PROVE  /\ outbox[n][k] \in Record /\ outbox[n][k].row \in Row /\ outbox[n][k].stamp \in Stamp
         /\ outbox[n][k].stamp[2] \in Node /\ outbox[n][k].stamp[1] \in 1..MaxMs
         /\ ver[n][outbox[n][k].row] \in Stamp \cup {NoStamp}
<1>1. outbox[n][k] \in Record
  BY Here
<1>2. outbox[n][k].row \in Row /\ outbox[n][k].stamp \in Stamp
  BY <1>1 DEF Record
<1> QED
  BY <1>1, <1>2, Here DEF Stamp

\* Without races a write of a local thread gets a stamp of its own, later than the
\* clock of the node and the version of the row.
LEMMA OwnStamp ==
  ASSUME TypeInv, Races = {}, Clocks \in {"monotone", "synchronised"},
         NEW n \in Node, NEW r \in Row, NEW t \in 1..MaxMs,
         LocalStampAllowed(n, r, t), RaceAllowed(n, r)
  PROVE  /\ StampFor(n, r, t) = <<t, n>> /\ t > clock[n] /\ t > ver[n][r][1]
         /\ ~Applying(n, r)
<1>1. ctx[n].row # r /\ ~Applying(n, r)
  BY DEF RaceAllowed
<1> QED
  BY <1>1 DEF StampFor, LocalStampAllowed

\* After a trigger an outbox holds what it held, and the new record.
LEMMA AfterFires ==
  ASSUME TypeInv, NEW n \in Node, NEW rec \in Record, Fires(n, rec),
         NEW m \in Node, NEW j \in 1..Len(outbox'[m])
  PROVE  \/ j \in 1..Len(outbox[m]) /\ outbox'[m][j] = outbox[m][j]
         \/ m = n /\ j = Len(outbox[n]) + 1 /\ outbox'[m][j] = rec
<1>1. Len(outbox[m]) \in Nat
  BY Here
<1>2. /\ outbox' \in [Node -> Seq(Record)] /\ Grows
      /\ Len(outbox'[n]) = Len(outbox[n]) + 1 /\ outbox'[n][Len(outbox[n]) + 1] = rec
      /\ m # n => outbox'[m] = outbox[m]
  BY FiresTyped
<1>3. CASE m # n
  BY <1>2, <1>3
<1>4. CASE m = n
  <2>1. CASE j \in 1..Len(outbox[n])
    BY <1>2, <1>4, <2>1 DEF Grows
  <2>2. CASE j \notin 1..Len(outbox[n])
    <3>1. j = Len(outbox[n]) + 1
      BY <1>1, <1>2, <1>4, <2>2
    <3> QED
      BY <1>2, <1>4, <3>1
  <2> QED
    BY <1>4, <2>1, <2>2
<1> QED
  BY <1>3, <1>4

\* A new record that is newer than its row keeps the rows in order.
LEMMA FiresKeep ==
  ASSUME TypeInv, RowsInv, NEW n \in Node, NEW rec \in Record, Fires(n, rec),
         Older(ver[n][rec.row], rec.stamp),
         \A m \in Node : \A k \in 1..Len(outbox[m]) :
           outbox[m][k].stamp = rec.stamp => outbox[m][k] = rec,
         rec.op = "upsert" <=> rec.val # NoRow,
         \A m \in Node : clock'[m] \in Int /\ clock[m] <= clock'[m],
         rec.stamp[1] <= clock'[rec.stamp[2]]
  PROVE  RowsInv'
<1>1. rec.row \in Row /\ rec.stamp \in Stamp /\ rec.op \in {"upsert", "delete"}
  BY DEF Record
<1>2. /\ \A m \in Node \ {n} : outbox'[m] = outbox[m] /\ ver'[m] = ver[m] /\ tab'[m] = tab[m]
      /\ ver'[n] = [ver[n] EXCEPT ![rec.row] = rec.stamp]
      /\ tab'[n] = [tab[n] EXCEPT ![rec.row] = rec.val]
      /\ outbox' \in [Node -> Seq(Record)]
      /\ Len(outbox'[n]) = Len(outbox[n]) + 1 /\ outbox'[n][Len(outbox[n]) + 1] = rec
  BY FiresTyped
<1>0. Grows
  BY FiresTyped
<1>3. /\ ver[n] \in [Row -> Stamp \cup {NoStamp}] /\ tab[n] \in [Row -> Write \cup {NoRow}]
      /\ ver[n][rec.row] \in Stamp \cup {NoStamp}
  BY <1>1, Here
<1>4. \A k \in 1..Len(outbox[n]) : outbox[n][k].row = rec.row => Older(outbox[n][k].stamp, rec.stamp)
  <2> SUFFICES ASSUME NEW k \in 1..Len(outbox[n]), outbox[n][k].row = rec.row
               PROVE  Older(outbox[n][k].stamp, rec.stamp)
    OBVIOUS
  <2>1. ~Older(ver[n][rec.row], outbox[n][k].stamp) /\ outbox[n][k].stamp \in Stamp
    BY InOutbox DEF RowsInv, Covered
  <2> QED
    BY <1>1, <1>3, <2>1, StampOrder
<1>5. Covered'
  <2> SUFFICES ASSUME NEW m \in Node, NEW j \in 1..Len(outbox'[m])
               PROVE  ~Older(ver'[m][outbox'[m][j].row], outbox'[m][j].stamp)
    BY DEF Covered
  <2>1. CASE j \in 1..Len(outbox[m]) /\ outbox'[m][j] = outbox[m][j]
    <3>1. /\ ~Older(ver[m][outbox[m][j].row], outbox[m][j].stamp)
          /\ outbox[m][j].row \in Row /\ outbox[m][j].stamp \in Stamp
      BY <2>1, InOutbox DEF RowsInv, Covered
    <3>2. CASE m = n /\ outbox[m][j].row = rec.row
      <4>1. ver'[n][rec.row] = rec.stamp
        BY <1>1, <1>2, <1>3
      <4>2. Older(outbox[n][j].stamp, rec.stamp)
        BY <1>4, <2>1, <3>2
      <4>3. ~Older(rec.stamp, outbox[n][j].stamp)
        BY <1>1, <3>1, <3>2, <4>2, StampOrder
      <4> QED
        BY <2>1, <3>2, <4>1, <4>3
    <3>3. CASE ~(m = n /\ outbox[m][j].row = rec.row)
      <4>1. ver'[m][outbox[m][j].row] = ver[m][outbox[m][j].row]
        BY <1>2, <1>3, <3>1, <3>3
      <4> QED
        BY <2>1, <3>1, <4>1
    <3> QED
      BY <3>2, <3>3
  <2>2. CASE m = n /\ outbox'[m][j] = rec
    <3>1. ver'[n][rec.row] = rec.stamp
      BY <1>1, <1>2, <1>3
    <3> QED
      BY <1>1, <2>2, <3>1, StampOrder
  <2> QED
    BY <2>1, <2>2, AfterFires
<1>6. OneRecord'
  <2> SUFFICES ASSUME NEW a \in Node, NEW b \in Node, NEW j \in 1..Len(outbox'[a]),
                      NEW k \in 1..Len(outbox'[b]), outbox'[a][j].stamp = outbox'[b][k].stamp
               PROVE  outbox'[a][j] = outbox'[b][k]
    BY DEF OneRecord
  <2>1. (j \in 1..Len(outbox[a]) /\ outbox'[a][j] = outbox[a][j]) \/ outbox'[a][j] = rec
    BY AfterFires
  <2>2. (k \in 1..Len(outbox[b]) /\ outbox'[b][k] = outbox[b][k]) \/ outbox'[b][k] = rec
    BY AfterFires
  <2> QED
    BY <2>1, <2>2 DEF RowsInv, OneRecord
<1>7. Past'
  <2> SUFFICES ASSUME NEW m \in Node, NEW j \in 1..Len(outbox'[m])
               PROVE  outbox'[m][j].stamp[1] <= clock'[outbox'[m][j].stamp[2]]
    BY DEF Past
  <2>1. CASE j \in 1..Len(outbox[m]) /\ outbox'[m][j] = outbox[m][j]
    <3> DEFINE s == outbox[m][j].stamp
    <3>1. s[2] \in Node /\ s[1] \in 1..MaxMs
      BY <2>1, InOutbox
    <3>2. s[1] <= clock[s[2]]
      BY <2>1 DEF RowsInv, Past
    <3>3. s[1] \in Int /\ clock[s[2]] \in Int /\ clock'[s[2]] \in Int /\ clock[s[2]] <= clock'[s[2]]
      <4>1. s[1] \in Int
        BY <3>1, Constants
      <4>2. \A p \in Node : clock[p] \in 0..MaxMs
        BY Here
      <4>3. \A p \in Node : clock[p] \in Int
        BY <4>2, Constants
      <4> QED
        BY <3>1, <4>1, <4>3
    <3> HIDE DEF s
    <3>4. s[1] <= clock'[s[2]]
      BY <3>2, <3>3
    <3> QED
      BY <2>1, <3>4 DEF s
  <2>2. CASE outbox'[m][j] = rec
    BY <2>2
  <2> QED
    BY <2>1, <2>2, AfterFires
<1>8. Recorded'
  <2> SUFFICES ASSUME NEW m \in Node, NEW r \in Row, ver'[m][r] # NoStamp
               PROVE  \E k \in 1..Len(outbox'[m]) :
                        /\ outbox'[m][k].row = r /\ outbox'[m][k].stamp = ver'[m][r]
                        /\ outbox'[m][k].op = "delete" => tab'[m][r] = NoRow
    BY DEF Recorded
  <2>1. CASE m = n /\ r = rec.row
    <3>1. ver'[n][r] = rec.stamp /\ tab'[n][r] = rec.val
      BY <1>1, <1>2, <1>3, <2>1
    <3>2. Len(outbox[n]) + 1 \in 1..Len(outbox'[n])
      <4>1. Len(outbox[n]) \in Nat
        BY Here
      <4> QED
        BY <1>2, <4>1
    <3> QED
      BY <1>2, <2>1, <3>1, <3>2
  <2>2. CASE ~(m = n /\ r = rec.row)
    <3>1. ver'[m][r] = ver[m][r] /\ tab'[m][r] = tab[m][r]
      BY <1>2, <1>3, <2>2
    <3>2. PICK k \in 1..Len(outbox[m]) :
            /\ outbox[m][k].row = r /\ outbox[m][k].stamp = ver[m][r]
            /\ outbox[m][k].op = "delete" => tab[m][r] = NoRow
      BY <3>1 DEF RowsInv, Recorded
    <3>3. k \in 1..Len(outbox'[m]) /\ outbox'[m][k] = outbox[m][k]
      <4>1. Len(outbox[m]) \in Nat /\ Len(outbox'[m]) \in Nat
        BY <1>2, Here
      <4>2. Len(outbox[m]) <= Len(outbox'[m]) /\ outbox'[m][k] = outbox[m][k]
        BY <1>0 DEF Grows
      <4> QED
        BY <4>1, <4>2
    <3> QED
      BY <3>1, <3>2, <3>3
  <2> QED
    BY <2>1, <2>2
<1>9. Shaped'
  <2> SUFFICES ASSUME NEW m \in Node, NEW j \in 1..Len(outbox'[m])
               PROVE  outbox'[m][j].op = "upsert" <=> outbox'[m][j].val # NoRow
    BY DEF Shaped
  <2> QED
    BY AfterFires DEF RowsInv, Shaped
<1>10. HistoryOrdered'
  <2> SUFFICES ASSUME NEW m \in Node, NEW j \in DOMAIN outbox'[m], NEW i \in 1..(j - 1),
                      outbox'[m][i].row = outbox'[m][j].row
               PROVE  \/ Older(outbox'[m][i].stamp, outbox'[m][j].stamp)
                      \/ /\ outbox'[m][i].stamp = outbox'[m][j].stamp
                         /\ outbox'[m][i].op = "upsert" /\ outbox'[m][j].op = "delete"
    BY DEF HistoryOrdered
  <2>1. j \in 1..Len(outbox'[m]) /\ Len(outbox'[m]) \in Nat /\ Len(outbox[m]) \in Nat
    BY <1>2, Here
  <2>2. i \in 1..Len(outbox'[m]) /\ i < j
    BY <2>1
  <2>3. CASE j \in 1..Len(outbox[m]) /\ outbox'[m][j] = outbox[m][j]
    <3>1. i \in 1..Len(outbox[m])
      BY <2>1, <2>2, <2>3
    <3>2. outbox'[m][i] = outbox[m][i]
      BY <1>0, <3>1 DEF Grows
    <3>3. j \in DOMAIN outbox[m]
      BY <2>3, Here
    <3> QED
      BY <2>3, <3>2, <3>3 DEF RowsInv, HistoryOrdered
  <2>4. CASE m = n /\ j = Len(outbox[n]) + 1 /\ outbox'[m][j] = rec
    <3>1. i \in 1..Len(outbox[n])
      BY <2>1, <2>2, <2>4
    <3>2. outbox'[m][i] = outbox[n][i]
      BY <1>0, <2>4, <3>1 DEF Grows
    <3> QED
      BY <1>4, <2>4, <3>1, <3>2
  <2> QED
    BY <2>1, <2>3, <2>4, AfterFires
<1> QED
  BY <1>5, <1>6, <1>7, <1>8, <1>9, <1>10 DEF RowsInv

\* Every step only appends to the outboxes.
LEMMA AllGrow == ASSUME TypeInv, NEW n \in Node, StepOf(n) PROVE Grows
<1>1. CASE UNCHANGED <<tab, ver, outbox, clock>>
  BY <1>1, Still
<1>2. ASSUME NEW r \in Row, LocalUpsert(n, r) \/ LocalDelete(n, r) PROVE Grows
  <2>1. PICK rec \in Record : Fires(n, rec)
    BY <1>2, WriteIs
  <2> QED
    BY <2>1, FiresTyped
<1>3. CASE ApplyStatement(n)
  BY <1>3, ApplyIs, FiresTyped, Still
<1>4. CASE HealClear(n)
  BY <1>4, Still DEF HealClear
<1>5. ASSUME NEW r \in Row, LoseRow(n, r) PROVE Grows
  BY <1>5, Still DEF LoseRow
<1> QED
  BY <1>1, <1>2, <1>3, <1>4, <1>5, RowsOf

\* How a node comes to be, or stays, in the middle of a record.
LEMMA BusyBy ==
  ASSUME TypeInv, NEW n \in Node, StepOf(n), pass'[n].pc \in Busy
  PROVE  \/ Decide(n) \/ PublishContext(n) \/ ApplyStatement(n) \/ ApplyFails(n) \/ ClearContext(n)
         \/ \E r \in Row : LocalUpsert(n, r) \/ LocalDelete(n, r) \/ LoseRow(n, r)
<1>0. pass \in [Node -> Pass] /\ pass[n] \in Pass
  BY Here DEF TypeInv, Typed, PeerTypes
<1>1. ASSUME NextInRound(n) PROVE FALSE
  BY <1>0, <1>1 DEF NextInRound, Idle, Busy
<1>2. ~Handshake(n)
  BY <1>0 DEF Handshake, Pass, Busy
<1>3. ~FetchOutboxSince(n)
  BY <1>0 DEF FetchOutboxSince, Pass, Busy
<1>4. ~Skip(n)
  BY <1>0 DEF Skip, Busy
<1>5. ~AdvanceCursor(n)
  BY <1>0 DEF AdvanceCursor, Goto, Pass, Busy
<1>6. ~EndBatch(n)
  BY <1>0 DEF EndBatch, Goto, Pass, Busy
<1>7. ~FinishPass(n) /\ ~HealRewind(n)
  BY <1>1 DEF FinishPass, HealRewind
<1>8. ~HealClear(n)
  BY <1>0 DEF HealClear, Goto, Pass, Busy
<1>9. ~HandshakeFails(n)
  BY <1>1 DEF HandshakeFails, ContactFailed
<1>10. ~FetchFails(n)
  BY <1>0, <1>1 DEF FetchFails, ContactFailed, Goto, Pass, Busy
<1>11. ~Crash(n)
  BY <1>0 DEF Crash, Idle, Busy
<1> QED
  BY <1>2, <1>3, <1>4, <1>5, <1>6, <1>7, <1>8, <1>9, <1>10, <1>11 DEF StepOf, SyncStep

\* A step that leaves versions and outboxes alone, and at most loses rows.
LEMMA RowsStay ==
  ASSUME TypeInv, RowsInv, UNCHANGED <<ver, outbox, clock>>,
         \A m \in Node : \A r \in Row : tab'[m][r] = tab[m][r] \/ tab'[m][r] = NoRow
  PROVE  RowsInv'
<1>1. Covered' /\ OneRecord' /\ Past' /\ Shaped' /\ HistoryOrdered'
  BY DEF RowsInv, Covered, OneRecord, Past, Shaped, HistoryOrdered
<1>2. Recorded'
  <2> SUFFICES ASSUME NEW m \in Node, NEW r \in Row, ver[m][r] # NoStamp
               PROVE  \E k \in 1..Len(outbox[m]) :
                        /\ outbox[m][k].row = r /\ outbox[m][k].stamp = ver[m][r]
                        /\ outbox[m][k].op = "delete" => tab'[m][r] = NoRow
    BY DEF Recorded
  <2>1. PICK k \in 1..Len(outbox[m]) :
          /\ outbox[m][k].row = r /\ outbox[m][k].stamp = ver[m][r]
          /\ outbox[m][k].op = "delete" => tab[m][r] = NoRow
    BY DEF RowsInv, Recorded
  <2> QED
    BY <2>1
<1> QED
  BY <1>1, <1>2 DEF RowsInv

\* A local write goes to the end of its row's history, under a stamp nobody has.
LEMMA WriteKeeps ==
  ASSUME TypeInv, RowsInv, Races = {}, Clocks \in {"monotone", "synchronised"},
         NEW n \in Node, NEW r \in Row, LocalUpsert(n, r) \/ LocalDelete(n, r)
  PROVE  RowsInv'
<1>1. PICK op \in {"upsert", "delete"}, v \in Write \cup {NoRow}, t \in 1..MaxMs :
        /\ LocalStampAllowed(n, r, t) /\ RaceAllowed(n, r)
        /\ Left(n, r, op, v, t) \in Record /\ Fires(n, Left(n, r, op, v, t))
        /\ op = "upsert" <=> v # NoRow
        /\ clock' = [clock EXCEPT ![n] = t]
  BY WriteIs
<1>2. StampFor(n, r, t) = <<t, n>> /\ t > clock[n] /\ t > ver[n][r][1]
  BY <1>1, OwnStamp
<1> DEFINE rec == Left(n, r, op, v, t)
<1>3. /\ rec.row = r /\ rec.stamp = <<t, n>> /\ rec.op = op /\ rec.val = v
      /\ rec.stamp[1] = t /\ rec.stamp[2] = n
  BY <1>2 DEF Left
<1>4. rec \in Record /\ Fires(n, rec) /\ (rec.op = "upsert" <=> rec.val # NoRow)
  BY <1>1, <1>3
<1> HIDE DEF rec
<1>5. rec.stamp \in Stamp
  BY <1>4 DEF Record
<1>6. Older(ver[n][r], rec.stamp)
  <2>1. ver[n][r] \in Stamp \cup {NoStamp}
    BY Here
  <2>2. ~Older(ver[n][r], ver[n][r]) /\ rec.stamp[1] > ver[n][r][1]
    BY <1>2, <1>3, <2>1, StampOrder
  <2> QED
    BY <1>5, <2>1, <2>2, StampOrder
<1>7. \A m \in Node : \A k \in 1..Len(outbox[m]) :
        outbox[m][k].stamp = rec.stamp => outbox[m][k] = rec
  <2> SUFFICES ASSUME NEW m \in Node, NEW k \in 1..Len(outbox[m]), outbox[m][k].stamp = rec.stamp
               PROVE  FALSE
    OBVIOUS
  <2>1. t <= clock[n]
    BY <1>3 DEF RowsInv, Past
  <2>2. clock[n] \in 0..MaxMs
    BY Here
  <2>3. clock[n] \in Int /\ t \in Int
    BY <2>2, Constants
  <2> QED
    BY <1>2, <2>1, <2>3
<1>8. \A m \in Node : clock'[m] \in Int /\ clock[m] <= clock'[m]
  <2> SUFFICES ASSUME NEW m \in Node PROVE clock'[m] \in Int /\ clock[m] <= clock'[m]
    OBVIOUS
  <2>1. clock \in [Node -> 0..MaxMs] /\ t \in Int
    BY Constants DEF TypeInv, Typed, RowTypes
  <2>2. clock'[m] = IF m = n THEN t ELSE clock[m]
    BY <1>1, <2>1
  <2>3. clock[m] \in Int /\ clock[n] \in Int
    BY <2>1, Constants
  <2> QED
    BY <1>2, <2>1, <2>2, <2>3
<1>9. rec.stamp[1] <= clock'[rec.stamp[2]]
  <2>1. clock'[n] = t /\ t \in Int
    BY <1>1, Constants DEF TypeInv, Typed, RowTypes
  <2> QED
    BY <1>3, <2>1
<1> QED
  BY <1>3, <1>4, <1>6, <1>7, <1>8, <1>9, FiresKeep

\* What is applied wins, and a delete that only ties finds no row.
LEMMA ApplyNewer ==
  ASSUME TypeInv, RowsInv, NEW n \in Node, Wins(n, Current(n)), ApplyStatement(n)
  PROVE  \/ UNCHANGED <<tab, ver, outbox>>
         \/ Fires(n, Current(n)) /\ Older(ver[n][Current(n).row], Current(n).stamp)
<1> DEFINE p == pass[n].peer
           k == cur[n][p] + 1
<1>1. p \in Node /\ k \in 1..Len(outbox[p]) /\ Current(n) = outbox[p][k] /\ Current(n) \in Record
  BY Here, ApplyIs, BusyMore, NextRecord DEF Busy, Current
<1> HIDE DEF p, k
<1>2. CASE TieDeleteWins(n, Current(n))
  <2>1. /\ Current(n).op = "delete" /\ ver[n][Current(n).row] = Current(n).stamp
        /\ Current(n).row \in Row /\ Current(n).stamp \in Stamp
    BY <1>1, <1>2 DEF TieDeleteWins, Record
  <2>2. ver[n][Current(n).row] # NoStamp
    BY <2>1, StampOrder
  <2>3. PICK j \in 1..Len(outbox[n]) :
          /\ outbox[n][j].stamp = Current(n).stamp
          /\ outbox[n][j].op = "delete" => tab[n][Current(n).row] = NoRow
    BY <2>1, <2>2 DEF RowsInv, Recorded
  <2>4. outbox[n][j] = Current(n)
    BY <1>1, <2>3 DEF RowsInv, OneRecord
  <2>5. tab[n][Current(n).row] = NoRow
    BY <2>1, <2>3, <2>4
  <2> QED
    BY <2>1, <2>5, ApplyIs
<1> QED
  BY <1>2, ApplyIs DEF Wins

\* An applied record is newer than what the row was, so history goes on in order.
LEMMA ApplyKeeps ==
  ASSUME TypeInv, RowsInv, NEW n \in Node, Wins(n, Current(n)), ApplyStatement(n)
  PROVE  RowsInv'
<1> DEFINE p == pass[n].peer
           k == cur[n][p] + 1
           rec == Current(n)
<1>1. p \in Node /\ k \in 1..Len(outbox[p]) /\ rec = outbox[p][k] /\ rec \in Record
  BY Here, ApplyIs, BusyMore, NextRecord DEF Busy, Current
<1>2. UNCHANGED clock
  BY ApplyIs
<1>3. CASE UNCHANGED <<tab, ver, outbox>>
  BY <1>2, <1>3, RowsStay
<1>4. CASE Fires(n, rec) /\ Older(ver[n][rec.row], rec.stamp)
  <2> HIDE DEF rec, k, p
  <2>1. \A m \in Node : \A j \in 1..Len(outbox[m]) : outbox[m][j].stamp = rec.stamp => outbox[m][j] = rec
    BY <1>1 DEF RowsInv, OneRecord
  <2>2. (rec.op = "upsert" <=> rec.val # NoRow) /\ rec.stamp[1] <= clock[rec.stamp[2]]
    BY <1>1 DEF RowsInv, Shaped, Past
  <2>3. \A m \in Node : clock'[m] \in Int /\ clock[m] <= clock'[m]
    <3> SUFFICES ASSUME NEW m \in Node PROVE clock[m] \in Int /\ clock[m] <= clock[m]
      BY <1>2
    <3>1. clock[m] \in 0..MaxMs
      BY Here
    <3>2. clock[m] \in Int
      BY <3>1, Constants
    <3> QED
      BY <3>2
  <2> QED
    BY <1>1, <1>2, <1>4, <2>1, <2>2, <2>3, FiresKeep
<1> QED
  BY <1>3, <1>4, ApplyNewer

\* A node in the middle of a record that only its surroundings change.
LEMMA WinningStays ==
  ASSUME TypeInv, Grows, NEW n \in Node, pass'[n].peer = pass[n].peer, cur'[n] = cur[n],
         pass[n].pc \in {"decided", "published"}, Wins(n, Current(n)),
         ver'[n][Current(n).row] = ver[n][Current(n).row]
  PROVE  Wins(n, Current(n))'
<1>1. Current(n)' = Current(n)
  BY CurrentStays DEF Busy
<1>2. Older(ver'[n][Current(n)'.row], Current(n)'.stamp) <=> Older(ver[n][Current(n).row], Current(n).stamp)
  BY <1>1
<1> QED
  BY <1>1, <1>2 DEF Wins, TieDeleteWins

\* A local write spares the row that is being applied.
LEMMA WriteSpares ==
  ASSUME TypeInv, Races = {}, Clocks \in {"monotone", "synchronised"},
         NEW n \in Node, NEW r \in Row, LocalUpsert(n, r) \/ LocalDelete(n, r)
  PROVE  /\ pass' = pass /\ cur' = cur /\ ~Applying(n, r)
         /\ \A x \in Row : x # r => ver'[n][x] = ver[n][x] /\ tab'[n][x] = tab[n][x]
<1>1. PICK op \in {"upsert", "delete"}, v \in Write \cup {NoRow}, t \in 1..MaxMs :
        /\ LocalStampAllowed(n, r, t) /\ RaceAllowed(n, r)
        /\ Left(n, r, op, v, t) \in Record /\ Fires(n, Left(n, r, op, v, t))
        /\ UNCHANGED <<ctx, saved, memory, pass, left>>
  BY WriteIs
<1> DEFINE rec == Left(n, r, op, v, t)
<1>2. rec.row = r /\ rec \in Record /\ Fires(n, rec)
  BY <1>1 DEF Left
<1> HIDE DEF rec
<1>3. \A x \in Row : x # r => ver'[n][x] = ver[n][x] /\ tab'[n][x] = tab[n][x]
  <2>1. /\ ver'[n] = [ver[n] EXCEPT ![r] = rec.stamp] /\ tab'[n] = [tab[n] EXCEPT ![r] = rec.val]
    BY <1>2, FiresTyped
  <2>2. ver[n] \in [Row -> Stamp \cup {NoStamp}] /\ tab[n] \in [Row -> Write \cup {NoRow}]
    BY Here
  <2> QED
    BY <2>1, <2>2
<1> QED
  BY <1>1, <1>3, OwnStamp DEF memory

\* Until it is applied, the record at hand stays newer than the row: nobody else
\* writes that row, as Races is empty.
LEMMA WinningKept ==
  ASSUME TypeInv, Winning, Races = {}, Clocks \in {"monotone", "synchronised"},
         NEW n \in Node, StepOf(n)
  PROVE  Winning'
<1>0. Grows
  BY AllGrow
<1> SUFFICES ASSUME NEW m \in Node, pass'[m].pc \in {"decided", "published"}
             PROVE  Wins(m, Current(m))'
  BY DEF Winning
<1>1. CASE m # n
  <2>1. Same(m)
    BY <1>1, OthersKeep
  <2> QED
    BY <1>0, <2>1, WinningStays DEF Same, Winning
<1>2. CASE m = n
  <2>0. pass \in [Node -> Pass] /\ pass[n] \in Pass
    BY Here DEF TypeInv, Typed, PeerTypes
  <2>1. CASE Decide(n)
    <3>1. /\ Wins(n, Current(n)) /\ UNCHANGED <<disk, memory, clock, writes, left>>
          /\ pass' = [pass EXCEPT ![n].pc = "decided"]
      BY <2>1 DEF Decide, Goto
    <3>2. pass'[n].peer = pass[n].peer /\ UNCHANGED <<ver, outbox, cur>>
      BY <2>0, <3>1 DEF Pass, disk, memory
    <3>3. Current(n)' = Current(n)
      BY <3>2 DEF Current
    <3> QED
      BY <1>2, <3>1, <3>2, <3>3 DEF Wins, TieDeleteWins
  <2>2. CASE PublishContext(n)
    <3>1. /\ pass[n].pc = "decided" /\ UNCHANGED <<ver, memory>>
          /\ pass' = [pass EXCEPT ![n].pc = "published"]
      BY <2>2 DEF PublishContext, Goto
    <3>2. pass'[n].peer = pass[n].peer /\ UNCHANGED cur /\ Wins(n, Current(n))
      BY <2>0, <3>1 DEF Pass, memory, Winning
    <3> QED
      BY <1>0, <1>2, <3>1, <3>2, WinningStays
  <2>3. ~ApplyStatement(n)
    <3> SUFFICES ASSUME ApplyStatement(n) PROVE FALSE
      OBVIOUS
    <3>1. pass' = [pass EXCEPT ![n] = [pass[n] EXCEPT !.pc = "written", !.applied = TRUE]]
      BY ApplyIs
    <3> QED
      BY <1>2, <2>0, <3>1 DEF Pass
  <2>4. ~ApplyFails(n) /\ ~ClearContext(n)
    BY <1>2, <2>0 DEF ApplyFails, ClearContext, Goto, Pass
  <2>5. ASSUME NEW r \in Row, LocalUpsert(n, r) \/ LocalDelete(n, r)
        PROVE  Wins(m, Current(m))'
    <3>1. /\ pass' = pass /\ cur' = cur /\ ~Applying(n, r)
          /\ \A x \in Row : x # r => ver'[n][x] = ver[n][x]
      BY <2>5, WriteSpares
    <3>2. Wins(n, Current(n)) /\ Current(n).row \in Row /\ Current(n).row # r
      <4>1. Current(n) \in Record
        BY <1>2, <3>1, BusyMore, NextRecord DEF Busy
      <4> QED
        BY <1>2, <3>1, <4>1 DEF Winning, Applying, Record
    <3> QED
      BY <1>0, <1>2, <3>1, <3>2, WinningStays
  <2>6. ASSUME NEW r \in Row, LoseRow(n, r) PROVE Wins(m, Current(m))'
    <3>1. UNCHANGED <<ver, pass, cur>>
      BY <2>6 DEF LoseRow, memory
    <3> QED
      BY <1>0, <1>2, <3>1, WinningStays DEF Winning
  <2> QED
    BY <1>2, <2>1, <2>2, <2>3, <2>4, <2>5, <2>6, BusyBy DEF Busy
<1> QED
  BY <1>1, <1>2

\* The history invariant is inductive.
LEMMA HistStep ==
  ASSUME Races = {}, Digests = {}, Clocks \in {"monotone", "synchronised"},
         TypeInv, HistInv, [Next]_vars
  PROVE  HistInv'
<1>1. CASE UNCHANGED vars
  <2>1. RowsInv'
    BY <1>1, RowsStay DEF HistInv, vars, disk
  <2>2. Winning'
    BY <1>1 DEF HistInv, vars, disk, memory, Winning, Wins, TieDeleteWins, Current
  <2> QED
    BY <2>1, <2>2 DEF HistInv
<1>2. ASSUME NEW n \in Node, StepOf(n) PROVE HistInv'
  <2>1. Winning'
    BY <1>2, WinningKept DEF HistInv
  <2>2. RowsInv'
    <3>1. CASE UNCHANGED <<tab, ver, outbox, clock>>
      BY <3>1, RowsStay DEF HistInv
    <3>2. ASSUME NEW r \in Row, LocalUpsert(n, r) \/ LocalDelete(n, r) PROVE RowsInv'
      BY <3>2, WriteKeeps DEF HistInv
    <3>3. CASE ApplyStatement(n)
      <4>1. Wins(n, Current(n))
        BY <3>3 DEF HistInv, Winning, ApplyStatement
      <4> QED
        BY <3>3, <4>1, ApplyKeeps DEF HistInv
    <3>4. ~HealClear(n)
      BY DEF HealClear, Short
    <3>5. ASSUME NEW r \in Row, LoseRow(n, r) PROVE RowsInv'
      <4>1. /\ UNCHANGED <<ver, outbox, clock>> /\ tab' = [tab EXCEPT ![n][r] = NoRow]
        BY <3>5 DEF LoseRow
      <4>2. \A m \in Node : \A x \in Row : tab'[m][x] = tab[m][x] \/ tab'[m][x] = NoRow
        BY <4>1 DEF TypeInv, Typed, RowTypes
      <4> QED
        BY <4>1, <4>2, RowsStay DEF HistInv
    <3> QED
      BY <1>2, <3>1, <3>2, <3>3, <3>4, <3>5, RowsOf
  <2> QED
    BY <2>1, <2>2 DEF HistInv
<1> QED
  BY <1>1, <1>2 DEF Next, StepOf

\* It holds at the start.
LEMMA HistInit == Init => HistInv
  BY DEF Init, HistInv, RowsInv, Covered, OneRecord, Past, Recorded, Shaped, Winning,
         HistoryOrdered, Idle

\* It always holds.
LEMMA AlwaysHist ==
  ASSUME Races = {}, Digests = {}, Clocks \in {"monotone", "synchronised"}
  PROVE  Spec => []HistInv
<1>1. TypeInv /\ HistInv /\ [Next]_vars => HistInv'
  BY HistStep
<1> QED
  BY <1>1, AlwaysTyped, HistInit, PTL DEF Spec

\* Spec => []HistoryOrdered, for any topology, any number of rows and writes, and
\* whatever is lost, fails or crashes: as long as no local write hits the row that
\* is being applied, healing does not forget versions and clocks do not step back
\* behind the version they replace, every outbox lists the changes of a row by
\* growing stamps, so no older change replaces a newer one and no echo is recorded
\* twice (ApplyRemoteChange, the animus_sync triggers).
THEOREM LastWriterWins ==
  ASSUME Races = {}, Digests = {}, Clocks \in {"monotone", "synchronised"}
  PROVE  Spec => []HistoryOrdered
<1>1. HistInv => HistoryOrdered
  BY DEF HistInv, RowsInv
<1> QED
  BY <1>1, AlwaysHist, PTL

-----------------------------------------------------------------------------
(* What a cursor has passed                                                *)

\* In memory and on disk a cursor is the same, once the peer is known; a sync
\* thread at work knows its peer and is inside its batch.
CursorInv ==
  /\ \A n, p \in Node : p \in known[n] => cur[n][p] = saved[n][p]
  /\ \A n \in Node : pass[n].pc # "idle" => pass[n].peer \in known[n]
  /\ \A n \in Node : pass[n].pc \in Batch => cur[n][pass[n].peer] <= pass[n].upto

\* An upsert that has been applied is covered before its cursor moves.
AppliedCovers ==
  \A n \in Node : pass[n].pc \in {"written", "cleared"} /\ Current(n).op = "upsert"
    => ~Older(ver[n][Current(n).row], Current(n).stamp)

CoverInv == CursorInv /\ CursorCovers /\ AppliedCovers

\* No version goes back.
VersionsGrow == \A n \in Node : \A r \in Row : ~Older(ver'[n][r], ver[n][r])

\* Versions are stamps, or none.
LEMMA VersionTypes ==
  ASSUME TypeInv, NEW n \in Node, NEW r \in Row PROVE ver[n][r] \in Stamp \cup {NoStamp}
  BY Here

\* A trigger that fires for a newer record makes the row's version grow.
LEMMA NewerGrows ==
  ASSUME TypeInv, NEW n \in Node, NEW rec \in Record, Fires(n, rec),
         Older(ver[n][rec.row], rec.stamp)
  PROVE  VersionsGrow
<1> SUFFICES ASSUME NEW m \in Node, NEW r \in Row PROVE ~Older(ver'[m][r], ver[m][r])
  BY DEF VersionsGrow
<1>1. /\ m # n => ver'[m] = ver[m]
      /\ ver'[n] = [ver[n] EXCEPT ![rec.row] = rec.stamp]
  BY FiresTyped
<1>2. rec.row \in Row /\ rec.stamp \in Stamp \cup {NoStamp}
  BY DEF Record
<1>3. ver[m][r] \in Stamp \cup {NoStamp} /\ ver[n] \in [Row -> Stamp \cup {NoStamp}]
  BY Here
<1>4. CASE m = n /\ r = rec.row
  <2>1. ver'[n][r] = rec.stamp
    BY <1>1, <1>2, <1>3, <1>4
  <2> QED
    BY <1>2, <1>3, <1>4, <2>1, StampOrder
<1>5. CASE ~(m = n /\ r = rec.row)
  <2>1. ver'[m][r] = ver[m][r]
    BY <1>1, <1>2, <1>3, <1>5
  <2> QED
    BY <1>3, <2>1, StampOrder
<1> QED
  BY <1>4, <1>5

\* Versions that stay do not shrink.
LEMMA SameGrows == ASSUME TypeInv, UNCHANGED ver PROVE VersionsGrow
  BY VersionTypes, StampOrder DEF VersionsGrow

\* What a local write leaves is newer than what the row was.
LEMMA WriteNewer ==
  ASSUME TypeInv, Races = {}, Clocks \in {"monotone", "synchronised"},
         NEW n \in Node, NEW r \in Row, LocalUpsert(n, r) \/ LocalDelete(n, r)
  PROVE  \E rec \in Record :
           /\ Fires(n, rec) /\ rec.row = r /\ Older(ver[n][r], rec.stamp)
           /\ rec.op = "upsert" <=> rec.val # NoRow
           /\ LocalStampAllowed(n, r, rec.stamp[1])
<1>1. PICK op \in {"upsert", "delete"}, v \in Write \cup {NoRow}, t \in 1..MaxMs :
        /\ LocalStampAllowed(n, r, t) /\ RaceAllowed(n, r)
        /\ Left(n, r, op, v, t) \in Record /\ Fires(n, Left(n, r, op, v, t))
        /\ op = "upsert" <=> v # NoRow
  BY WriteIs
<1>2. StampFor(n, r, t) = <<t, n>> /\ t > ver[n][r][1]
  BY <1>1, OwnStamp
<1> DEFINE rec == Left(n, r, op, v, t)
<1>3. rec.row = r /\ rec.op = op /\ rec.val = v /\ rec.stamp = <<t, n>> /\ rec.stamp[1] = t
  BY <1>2 DEF Left
<1>4. rec \in Record /\ Fires(n, rec)
  BY <1>1
<1> HIDE DEF rec
<1>5. Older(ver[n][r], rec.stamp)
  <2>1. ver[n][r] \in Stamp \cup {NoStamp} /\ rec.stamp \in Stamp
    BY <1>4, VersionTypes DEF Record
  <2>2. ~Older(ver[n][r], ver[n][r]) /\ rec.stamp[1] > ver[n][r][1]
    BY <1>2, <1>3, <2>1, StampOrder
  <2> QED
    BY <2>1, <2>2, StampOrder
<1> QED
  BY <1>1, <1>3, <1>4, <1>5

\* No step takes a version back.
LEMMA StepGrows ==
  ASSUME Races = {}, Digests = {}, Clocks \in {"monotone", "synchronised"},
         TypeInv, HistInv, NEW n \in Node, StepOf(n)
  PROVE  VersionsGrow
<1>1. CASE UNCHANGED <<tab, ver, outbox, clock>>
  BY <1>1, SameGrows
<1>2. ASSUME NEW r \in Row, LocalUpsert(n, r) \/ LocalDelete(n, r) PROVE VersionsGrow
  <2>1. PICK rec \in Record : Fires(n, rec) /\ Older(ver[n][rec.row], rec.stamp)
    BY <1>2, WriteNewer
  <2> QED
    BY <2>1, NewerGrows
<1>3. CASE ApplyStatement(n)
  <2>1. Wins(n, Current(n)) /\ Current(n) \in Record
    BY <1>3, ApplyIs DEF HistInv, Winning
  <2>2. CASE UNCHANGED <<tab, ver, outbox>>
    BY <2>2, SameGrows
  <2>3. CASE Fires(n, Current(n)) /\ Older(ver[n][Current(n).row], Current(n).stamp)
    BY <2>1, <2>3, NewerGrows
  <2> QED
    BY <1>3, <2>1, <2>2, <2>3, ApplyNewer DEF HistInv
<1>4. ~HealClear(n)
  BY DEF HealClear, Short
<1>5. ASSUME NEW r \in Row, LoseRow(n, r) PROVE VersionsGrow
  BY <1>5, SameGrows DEF LoseRow
<1> QED
  BY <1>1, <1>2, <1>3, <1>4, <1>5, RowsOf

\* What is covered stays so.
LEMMA CoverStays ==
  ASSUME TypeInv, TypeInv', VersionsGrow, NEW n \in Node, NEW r \in Row,
         NEW s \in Stamp, ~Older(ver[n][r], s)
  PROVE  ~Older(ver'[n][r], s)
<1>1. ver[n][r] \in Stamp \cup {NoStamp}
  BY VersionTypes
<1>2. ver'[n][r] \in Stamp \cup {NoStamp}
  BY DEF TypeInv, Typed, RowTypes
<1>3. ~Older(ver'[n][r], ver[n][r])
  BY DEF VersionsGrow
<1> QED
  BY <1>1, <1>2, <1>3, StampOrder

\* CursorInv, of one node.
CursorAt(n) ==
  /\ \A p \in Node : p \in known[n] => cur[n][p] = saved[n][p]
  /\ pass[n].pc # "idle" => pass[n].peer \in known[n]
  /\ pass[n].pc \in Batch => cur[n][pass[n].peer] <= pass[n].upto

\* The cursor invariant, node by node.
LEMMA CursorInvIs == CursorInv <=> \A n \in Node : CursorAt(n)
  BY DEF CursorInv, CursorAt

\* The contacts of a node that only turns to another program counter.
LEMMA GoCursor ==
  ASSUME TypeInv, NEW n \in Node, CursorAt(n), NEW pc \in PCs, Goto(n, pc),
         UNCHANGED <<cur, known, saved>>, pass[n].pc # "idle",
         pc \in Batch => cur[n][pass[n].peer] <= pass[n].upto
  PROVE  CursorAt(n)'
<1>1. pass \in [Node -> Pass] /\ pass[n] \in Pass
  BY Here DEF TypeInv, Typed, PeerTypes
<1>2. pass'[n] = [pass[n] EXCEPT !.pc = pc]
  BY <1>1 DEF Goto
<1>3. pass'[n].pc = pc /\ pass'[n].peer = pass[n].peer /\ pass'[n].upto = pass[n].upto
  BY <1>1, <1>2 DEF Pass
<1> QED
  BY <1>3 DEF CursorAt

\* The next round starts from the cursors on disk.
LEMMA TurnCursor ==
  ASSUME TypeInv, NEW n \in Node, NextInRound(n),
         \A p \in Node : p \in known'[n] => cur'[n][p] = saved'[n][p]
  PROVE  CursorAt(n)'
<1>1. pass \in [Node -> Pass]
  BY DEF TypeInv, Typed, PeerTypes
<1>2. pass'[n].pc = "idle"
  BY <1>1 DEF NextInRound, Idle
<1> QED
  BY <1>2 DEF CursorAt, Batch

\* A node's own step keeps its cursors in step.
LEMMA CursorAtStep ==
  ASSUME TypeInv, NEW n \in Node, CursorAt(n), StepOf(n)
  PROVE  CursorAt(n)'
<1> DEFINE p == pass[n].peer
<1>0. /\ pass \in [Node -> Pass] /\ pass[n] \in Pass /\ p \in Node
      /\ known \in [Node -> SUBSET Node] /\ cur \in [Node -> [Node -> Nat]]
      /\ saved \in [Node -> [Node -> Nat]] /\ Len(outbox[p]) \in Nat /\ PlacedAt(n)
      /\ cur[n][p] \in Nat /\ pass[n].upto \in Nat
  BY Here DEF TypeInv, Typed, PeerTypes, CursorTypes, Placed
<1>1. CASE Handshake(n)
  <2>1. /\ UNCHANGED saved /\ cur' = [cur EXCEPT ![n][p] = Adopted(n, p)]
        /\ known' = [known EXCEPT ![n] = @ \cup {p}]
    BY <1>1 DEF Handshake, disk
  <2>2. pass'[n].pc = "fetch" /\ pass'[n].peer = p
    BY <1>0, <1>1 DEF Handshake, Pass
  <2>3. known'[n] = known[n] \cup {p}
    BY <1>0, <2>1
  <2>4. \A q \in Node : cur'[n][q] = IF q = p THEN Adopted(n, p) ELSE cur[n][q]
    BY <1>0, <2>1
  <2>5. Adopted(n, p) = saved[n][p]
    BY <1>0 DEF Adopted, CursorAt
  <2> HIDE DEF p
  <2>6. \A q \in Node : q \in known'[n] => cur'[n][q] = saved'[n][q]
    BY <2>1, <2>3, <2>4, <2>5 DEF CursorAt
  <2> QED
    BY <2>2, <2>3, <2>6 DEF CursorAt, Batch
<1>2. CASE FetchOutboxSince(n)
  <2> DEFINE last == IF cur[n][p] + BatchLimit < Len(outbox[p])
                     THEN cur[n][p] + BatchLimit ELSE Len(outbox[p])
  <2>1. UNCHANGED <<saved, cur, known>> /\ pass[n].pc = "fetch"
    BY <1>2 DEF FetchOutboxSince, disk, memory
  <2>2. pass'[n].pc = "apply" /\ pass'[n].peer = p /\ pass'[n].upto = last
    BY <1>0, <1>2 DEF FetchOutboxSince, Pass
  <2>3. cur[n][p] <= last
    <3>1. cur[n][p] <= Len(outbox[p]) /\ BatchLimit \in Nat
      BY <1>0, Constants DEF PlacedAt
    <3> QED
      BY <1>0, <3>1
  <2> QED
    BY <2>1, <2>2, <2>3 DEF CursorAt
<1>3. ASSUME CursorTo(n, cur[n][p] + 1), pass[n].pc \in {"apply", "cleared"}, UNCHANGED known,
             cur[n][p] < pass[n].upto, pass'[n].pc = "apply", pass'[n].peer = p,
             pass'[n].upto = pass[n].upto
      PROVE  CursorAt(n)'
  <2>1. /\ saved' = [saved EXCEPT ![n][p] = cur[n][p] + 1]
        /\ cur' = [cur EXCEPT ![n][p] = cur[n][p] + 1]
    BY <1>3 DEF CursorTo
  <2>2. \A q \in Node : /\ saved'[n][q] = IF q = p THEN cur[n][p] + 1 ELSE saved[n][q]
                        /\ cur'[n][q] = IF q = p THEN cur[n][p] + 1 ELSE cur[n][q]
    BY <1>0, <2>1
  <2>3. cur'[n][p] = cur[n][p] + 1 /\ cur[n][p] + 1 <= pass[n].upto
    BY <1>0, <1>3, <2>2
  <2> QED
    BY <1>0, <1>3, <2>2, <2>3 DEF CursorAt
<1>4. CASE Skip(n)
  <2>1. /\ pass[n].pc = "apply" /\ MoreToApply(n) /\ CursorTo(n, cur[n][p] + 1)
        /\ UNCHANGED <<known, pass>>
    BY <1>4 DEF Skip
  <2> QED
    BY <1>3, <2>1 DEF MoreToApply
<1>5. CASE AdvanceCursor(n)
  <2>1. /\ pass[n].pc = "cleared" /\ CursorTo(n, cur[n][p] + 1) /\ Goto(n, "apply")
        /\ UNCHANGED known
    BY <1>5 DEF AdvanceCursor
  <2>2. pass'[n].pc = "apply" /\ pass'[n].peer = p /\ pass'[n].upto = pass[n].upto
    BY <1>0, <2>1 DEF Goto, Pass
  <2>3. cur[n][p] < pass[n].upto
    BY <1>0, <2>1 DEF PlacedAt, Busy
  <2> QED
    BY <1>3, <2>1, <2>2, <2>3
<1>6. CASE Decide(n)
  <2>1. UNCHANGED <<cur, known, saved>> /\ Goto(n, "decided") /\ pass[n].pc = "apply"
    BY <1>6 DEF Decide, disk, memory
  <2> QED
    BY <2>1, GoCursor DEF CursorAt, Batch, PCs
<1>7. CASE PublishContext(n)
  <2>1. UNCHANGED <<cur, known, saved>> /\ Goto(n, "published") /\ pass[n].pc = "decided"
    BY <1>7 DEF PublishContext, memory
  <2> QED
    BY <2>1, GoCursor DEF CursorAt, Batch, PCs
<1>8. CASE ApplyStatement(n)
  <2>1. /\ pass[n].pc = "published" /\ UNCHANGED <<cur, known, saved>>
        /\ pass' = [pass EXCEPT ![n] = [pass[n] EXCEPT !.pc = "written", !.applied = TRUE]]
    BY <1>8, ApplyIs DEF memory
  <2>2. pass'[n].pc = "written" /\ pass'[n].peer = p /\ pass'[n].upto = pass[n].upto
    BY <1>0, <2>1 DEF Pass
  <2> QED
    BY <2>1, <2>2 DEF CursorAt, Batch
<1>9. CASE ApplyFails(n)
  <2>1. UNCHANGED <<cur, known, saved>> /\ Goto(n, "written") /\ pass[n].pc = "published"
    BY <1>9 DEF ApplyFails, disk, memory
  <2> QED
    BY <2>1, GoCursor DEF CursorAt, Batch, PCs
<1>10. CASE ClearContext(n)
  <2>1. UNCHANGED <<cur, known, saved>> /\ Goto(n, "cleared") /\ pass[n].pc = "written"
    BY <1>10 DEF ClearContext, memory
  <2> QED
    BY <2>1, GoCursor DEF CursorAt, Batch, PCs
<1>11. CASE EndBatch(n)
  <2>1. PICK pc \in {"fetch", "finish"} : Goto(n, pc)
    BY <1>11 DEF EndBatch
  <2>2. UNCHANGED <<cur, known, saved>> /\ pass[n].pc = "apply" /\ pc \in PCs /\ pc \notin Batch
    BY <1>11 DEF EndBatch, disk, memory, PCs, Batch
  <2> QED
    BY <2>1, <2>2, GoCursor
<1>12. CASE FinishPass(n)
  <2>1. UNCHANGED <<cur, known, saved>> /\ NextInRound(n)
    BY <1>12 DEF FinishPass, disk
  <2> QED
    BY <2>1, TurnCursor DEF CursorAt
<1>13. CASE HealClear(n)
  <2>1. UNCHANGED <<cur, known, saved>> /\ Goto(n, "rewind") /\ pass[n].pc = "finish"
    BY <1>13 DEF HealClear
  <2> QED
    BY <2>1, GoCursor DEF Batch, PCs
<1>14. CASE HealRewind(n)
  <2>1. UNCHANGED known /\ CursorTo(n, 0) /\ NextInRound(n)
    BY <1>14 DEF HealRewind
  <2>2. saved' = [saved EXCEPT ![n][p] = 0] /\ cur' = [cur EXCEPT ![n][p] = 0]
    BY <2>1 DEF CursorTo
  <2>3. \A q \in Node : /\ saved'[n][q] = IF q = p THEN 0 ELSE saved[n][q]
                        /\ cur'[n][q] = IF q = p THEN 0 ELSE cur[n][q]
    BY <1>0, <2>2
  <2> QED
    BY <2>1, <2>3, TurnCursor DEF CursorAt
<1>15. CASE HandshakeFails(n)
  <2>1. UNCHANGED <<cur, known, saved>> /\ NextInRound(n)
    BY <1>15 DEF HandshakeFails, ContactFailed, disk
  <2> QED
    BY <2>1, TurnCursor DEF CursorAt
<1>16. CASE FetchFails(n)
  <2>1. UNCHANGED <<cur, known, saved>> /\ pass[n].pc = "fetch"
    BY <1>16 DEF FetchFails, disk
  <2>2. Goto(n, "finish") \/ NextInRound(n)
    BY <1>16 DEF FetchFails, ContactFailed
  <2>3. CASE Goto(n, "finish")
    BY <2>1, <2>3, GoCursor DEF Batch, PCs
  <2>4. CASE NextInRound(n)
    BY <2>1, <2>4, TurnCursor DEF CursorAt
  <2> QED
    BY <2>2, <2>3, <2>4
<1>17. CASE Crash(n)
  BY <1>0, <1>17 DEF Crash, CursorAt, Idle, Batch
<1>18. ASSUME NEW r \in Row, LocalUpsert(n, r) \/ LocalDelete(n, r) PROVE CursorAt(n)'
  <2>1. UNCHANGED <<saved, memory, pass>>
    BY <1>18, WriteIs
  <2> QED
    BY <2>1 DEF CursorAt, memory
<1>19. ASSUME NEW r \in Row, LoseRow(n, r) PROVE CursorAt(n)'
  BY <1>19 DEF LoseRow, CursorAt, memory
<1> QED
  BY <1>1, <1>2, <1>4, <1>5, <1>6, <1>7, <1>8, <1>9, <1>10, <1>11, <1>12, <1>13, <1>14, <1>15,
     <1>16, <1>17, <1>18, <1>19 DEF StepOf, SyncStep

\* The cursors in memory and on disk are kept in step by every step.
LEMMA CursorStep == TypeInv /\ CursorInv /\ [Next]_vars => CursorInv'
<1> SUFFICES ASSUME TypeInv, CursorInv, [Next]_vars PROVE CursorInv'
  OBVIOUS
<1>1. CASE UNCHANGED vars
  BY <1>1 DEF CursorInv, vars, disk, memory
<1>2. ASSUME NEW n \in Node, StepOf(n) PROVE CursorInv'
  <2> SUFFICES ASSUME NEW m \in Node PROVE CursorAt(m)'
    BY DEF CursorInv, CursorAt
  <2>1. CASE m = n
    BY <1>2, <2>1, CursorAtStep, CursorInvIs
  <2>2. CASE m # n
    <3>1. Same(m) /\ CursorAt(m)
      BY <1>2, <2>2, OthersKeep, CursorInvIs
    <3> QED
      BY <3>1 DEF CursorAt, Same
  <2> QED
    BY <2>1, <2>2
<1> QED
  BY <1>1, <1>2 DEF Next, StepOf

\* What a saved cursor is past after a step, it was past before, unless the record
\* has just been skipped or is the one that has been dealt with.
LEMMA PassedBy ==
  ASSUME TypeInv, CursorInv, NEW n \in Node, StepOf(n),
         NEW m \in Node, NEW p \in Node, NEW k \in 1..saved'[m][p]
  PROVE  \/ k \in 1..saved[m][p] /\ k \in 1..Len(outbox[p]) /\ outbox'[p][k] = outbox[p][k]
         \/ /\ m = n /\ p = pass[n].peer /\ (Skip(n) \/ AdvanceCursor(n))
            /\ k = cur[n][p] + 1 /\ k \in 1..Len(outbox[p]) /\ outbox[p][k] = Current(n)
            /\ outbox'[p][k] = outbox[p][k]
<1>0. /\ saved \in [Node -> [Node -> Nat]] /\ saved[m][p] \in Nat /\ Len(outbox[p]) \in Nat
      /\ saved[m][p] <= Len(outbox[p]) /\ Grows
  BY Here, AllGrow DEF TypeInv, Typed, CursorTypes, Placed, PlacedAt
<1>1. CASE k \in 1..saved[m][p]
  <2>1. k \in 1..Len(outbox[p])
    BY <1>0, <1>1
  <2> QED
    BY <1>0, <1>1, <2>1 DEF Grows
<1>2. CASE k \notin 1..saved[m][p]
  <2>1. saved'[m][p] # saved[m][p]
    BY <1>2
  <2>2. m = n
    BY <2>1, OthersKeep DEF Same
  <2>3. ASSUME CursorTo(n, cur[n][pass[n].peer] + 1), pass[n].pc \in {"apply", "cleared"},
               pass[n].pc \in Batch, MoreToApply(n), UNCHANGED outbox
        PROVE  /\ p = pass[n].peer /\ k = cur[n][p] + 1 /\ k \in 1..Len(outbox[p])
               /\ outbox[p][k] = Current(n) /\ outbox'[p][k] = outbox[p][k]
    <3>1. pass[n].peer \in Node /\ saved' = [saved EXCEPT ![n][pass[n].peer] = cur[n][pass[n].peer] + 1]
      BY <2>3, Here DEF CursorTo
    <3>2. p = pass[n].peer /\ saved'[n][p] = cur[n][p] + 1
      BY <1>0, <2>1, <2>2, <3>1
    <3>3. cur[n][p] = saved[n][p]
      BY <2>3, <3>2 DEF CursorInv
    <3>4. k = cur[n][p] + 1
      BY <1>0, <1>2, <2>2, <3>2, <3>3
    <3>5. cur[n][p] + 1 \in 1..Len(outbox[p])
      BY <2>3, <3>2, NextRecord
    <3> QED
      BY <2>3, <3>2, <3>4, <3>5 DEF Current
  <2>4. CASE Skip(n)
    <3>1. pass[n].pc \in Batch
      BY <2>4 DEF Skip, Batch
    <3> QED
      BY <2>2, <2>3, <2>4, <3>1 DEF Skip
  <2>5. CASE AdvanceCursor(n)
    <3>1. pass[n].pc \in Batch /\ MoreToApply(n)
      BY <2>5, BusyMore DEF AdvanceCursor, Busy
    <3> QED
      BY <2>2, <2>3, <2>5, <3>1 DEF AdvanceCursor
  <2>6. ~HealRewind(n)
    <3> SUFFICES ASSUME HealRewind(n) PROVE FALSE
      OBVIOUS
    <3>1. saved' = [saved EXCEPT ![n][pass[n].peer] = 0] /\ pass[n].peer \in Node
      BY Here DEF HealRewind, CursorTo
    <3>2. saved'[n][p] = 0
      BY <1>0, <2>1, <2>2, <3>1
    <3> QED
      BY <2>2, <3>2
  <2>7. saved'[n] = saved[n] \/ Skip(n) \/ AdvanceCursor(n) \/ HealRewind(n)
    <3>1. CASE Handshake(n) \/ FetchOutboxSince(n) \/ Decide(n) \/ EndBatch(n) \/ FinishPass(n)
      BY <3>1 DEF Handshake, FetchOutboxSince, Decide, EndBatch, FinishPass, disk
    <3>2. CASE PublishContext(n) \/ ClearContext(n) \/ ApplyStatement(n) \/ HealClear(n)
      BY <3>2 DEF PublishContext, ClearContext, ApplyStatement, HealClear
    <3>3. CASE HandshakeFails(n) \/ FetchFails(n) \/ ApplyFails(n) \/ Crash(n)
      BY <3>3 DEF HandshakeFails, FetchFails, ApplyFails, Crash, disk
    <3>4. ASSUME NEW r \in Row, LocalUpsert(n, r) \/ LocalDelete(n, r) \/ LoseRow(n, r)
          PROVE  saved' = saved
      BY <3>4, WriteIs DEF LoseRow
    <3> QED
      BY <3>1, <3>2, <3>3, <3>4 DEF StepOf, SyncStep
  <2> QED
    BY <2>1, <2>2, <2>4, <2>5, <2>6, <2>7
<1> QED
  BY <1>1, <1>2

\* What a saved cursor has passed stays covered: versions only grow, and the cursor
\* moves only past a record that was applied or lost.
LEMMA CoversStep ==
  ASSUME Races = {}, Digests = {}, Clocks \in {"monotone", "synchronised"}, MaxApplyFails = 0,
         TypeInv, TypeInv', HistInv, CoverInv, NEW n \in Node, StepOf(n)
  PROVE  CursorCovers'
<1>0. VersionsGrow
  BY StepGrows
<1> SUFFICES ASSUME NEW m \in Node, NEW p \in Node, p \in PeerList[m], NEW k \in 1..saved'[m][p],
                    outbox'[p][k].op = "upsert"
             PROVE  ~Older(ver'[m][outbox'[p][k].row], outbox'[p][k].stamp)
  <2>1. \A m \in Node : PeerList[m] \subseteq Node
    BY Here
  <2> QED
    BY <2>1 DEF CursorCovers
<1>1. k \in 1..Len(outbox[p]) /\ outbox'[p][k] = outbox[p][k]
  BY PassedBy DEF CoverInv
<1>2. outbox[p][k].row \in Row /\ outbox[p][k].stamp \in Stamp /\ outbox[p][k] \in Record
  BY <1>1, InOutbox
<1>3. ~Older(ver[m][outbox[p][k].row], outbox[p][k].stamp)
  <2>1. CASE k \in 1..saved[m][p]
    BY <1>1, <2>1 DEF CoverInv, CursorCovers
  <2>2. CASE m = n /\ outbox[p][k] = Current(n) /\ Skip(n)
    BY <2>2 DEF Skip, Wins
  <2>3. CASE m = n /\ outbox[p][k] = Current(n) /\ AdvanceCursor(n)
    <3>1. pass[n].pc \in {"written", "cleared"} /\ Current(n).op = "upsert"
      BY <1>1, <2>3 DEF AdvanceCursor
    <3> QED
      BY <2>3, <3>1 DEF CoverInv, AppliedCovers
  <2> QED
    BY <2>1, <2>2, <2>3, PassedBy DEF CoverInv
<1> QED
  BY <1>0, <1>1, <1>2, <1>3, CoverStays

\* A record applied, and not yet stepped over, is covered too.
LEMMA AppliedStep ==
  ASSUME Races = {}, Digests = {}, Clocks \in {"monotone", "synchronised"}, MaxApplyFails = 0,
         TypeInv, TypeInv', HistInv, CoverInv, NEW n \in Node, StepOf(n)
  PROVE  AppliedCovers'
<1>0. VersionsGrow /\ Grows
  BY StepGrows, AllGrow
<1> SUFFICES ASSUME NEW m \in Node, pass'[m].pc \in {"written", "cleared"},
                    Current(m)'.op = "upsert"
             PROVE  ~Older(ver'[m][Current(m)'.row], Current(m)'.stamp)
  BY DEF AppliedCovers
<1>1. ASSUME pass[m].pc \in {"written", "cleared"}, pass'[m].peer = pass[m].peer, cur'[m] = cur[m]
      PROVE  ~Older(ver'[m][Current(m)'.row], Current(m)'.stamp)
  <2>1. Current(m)' = Current(m) /\ Current(m) \in Record
    BY <1>0, <1>1, CurrentStays DEF Busy
  <2>2. ~Older(ver[m][Current(m).row], Current(m).stamp)
    BY <1>1, <2>1 DEF CoverInv, AppliedCovers
  <2>3. Current(m).row \in Row /\ Current(m).stamp \in Stamp
    BY <2>1 DEF Record
  <2> QED
    BY <1>0, <2>1, <2>2, <2>3, CoverStays
<1>2. CASE m # n
  BY <1>1, <1>2, OthersKeep DEF Same
<1>3. CASE m = n
  <2>0. pass \in [Node -> Pass] /\ pass[n] \in Pass
    BY Here DEF TypeInv, Typed, PeerTypes
  <2>1. ~Decide(n) /\ ~PublishContext(n)
    BY <1>3, <2>0 DEF Decide, PublishContext, Goto, Pass
  <2>2. ~ApplyFails(n)
    BY DEF ApplyFails, TypeInv, Typed, BoundTypes
  <2>3. CASE ApplyStatement(n)
    <3>1. /\ pass[n].pc = "published" /\ Current(n) \in Record /\ UNCHANGED cur
          /\ pass' = [pass EXCEPT ![n] = [pass[n] EXCEPT !.pc = "written", !.applied = TRUE]]
      BY <2>3, ApplyIs DEF memory
    <3>2. pass'[n].peer = pass[n].peer
      BY <2>0, <3>1 DEF Pass
    <3>3. Current(n)' = Current(n)
      BY <1>0, <3>1, <3>2, CurrentStays DEF Busy
    <3>4. Fires(n, Current(n)) /\ Current(n).row \in Row /\ Current(n).stamp \in Stamp
      BY <1>3, <2>3, <3>1, <3>3, ApplyIs DEF Record
    <3>5. ver'[n] = [ver[n] EXCEPT ![Current(n).row] = Current(n).stamp]
      BY <3>1, <3>4, FiresTyped
    <3>6. ver'[n][Current(n).row] = Current(n).stamp
      BY <3>4, <3>5, Here
    <3> QED
      BY <1>3, <3>3, <3>4, <3>6, StampOrder
  <2>4. CASE ClearContext(n)
    <3>1. pass[n].pc = "written" /\ UNCHANGED cur /\ pass' = [pass EXCEPT ![n].pc = "cleared"]
      BY <2>4 DEF ClearContext, Goto, memory
    <3>2. pass'[n].peer = pass[n].peer
      BY <2>0, <3>1 DEF Pass
    <3> QED
      BY <1>1, <1>3, <3>1, <3>2
  <2>5. ASSUME NEW r \in Row, LocalUpsert(n, r) \/ LocalDelete(n, r) \/ LoseRow(n, r)
        PROVE  UNCHANGED <<pass, cur>>
    BY <2>5, WriteIs DEF LoseRow, memory
  <2> QED
    BY <1>1, <1>3, <2>1, <2>2, <2>3, <2>4, <2>5, BusyBy DEF Busy
<1> QED
  BY <1>2, <1>3

\* The cursor invariant is inductive.
LEMMA CoverStep ==
  ASSUME Races = {}, Digests = {}, Clocks \in {"monotone", "synchronised"}, MaxApplyFails = 0,
         TypeInv, TypeInv', HistInv, CoverInv, [Next]_vars
  PROVE  CoverInv'
<1>1. CASE UNCHANGED vars
  BY <1>1 DEF CoverInv, CursorInv, CursorCovers, AppliedCovers, Current, vars, disk, memory
<1>2. ASSUME NEW n \in Node, StepOf(n) PROVE CoverInv'
  BY <1>2, CursorStep, CoversStep, AppliedStep DEF CoverInv
<1> QED
  BY <1>1, <1>2 DEF Next, StepOf

\* It holds at the start.
LEMMA CoverInit == Init => CoverInv
<1> SUFFICES ASSUME Init PROVE CoverInv
  OBVIOUS
<1>1. CursorInv /\ AppliedCovers
  BY DEF Init, CursorInv, AppliedCovers, Idle, Batch
<1>2. CursorCovers
  <2> SUFFICES ASSUME NEW n \in Node, NEW p \in PeerList[n], NEW k \in 1..saved[n][p] PROVE FALSE
    BY DEF CursorCovers
  <2>1. p \in Node
    BY Constants
  <2>2. saved[n][p] = 0
    BY <2>1 DEF Init
  <2> QED
    BY <2>2
<1> QED
  BY <1>1, <1>2 DEF CoverInv

\* It always holds, with the types and the history it rests on.
LEMMA AlwaysCovered ==
  ASSUME Races = {}, Digests = {}, Clocks \in {"monotone", "synchronised"}, MaxApplyFails = 0
  PROVE  Spec => [](TypeInv /\ HistInv /\ CoverInv)
<1>1. TypeInv /\ TypeInv' /\ HistInv /\ CoverInv /\ [Next]_vars => CoverInv'
  BY CoverStep
<1> QED
  BY <1>1, AlwaysTyped, AlwaysHist, CoverInit, PTL DEF Spec

\* Spec => []CursorsSound: a saved cursor never runs ahead of what has been applied,
\* through crashes, failed exchanges and lost rows, for any topology; apply
\* statements the database refuses are assumed away, as the code steps over them
\* (PullFromPeer, GetPeerCursor).
THEOREM CursorsAlwaysSound ==
  ASSUME Races = {}, Digests = {}, Clocks \in {"monotone", "synchronised"}, MaxApplyFails = 0
  PROVE  Spec => []CursorsSound
<1>1. CoverInv /\ TypeOK => CursorsSound
  BY DEF CoverInv, CursorsSound
<1> QED
  BY <1>1, AlwaysCovered, TypesAlwaysHold, PTL

-----------------------------------------------------------------------------
(* Convergence                                                             *)

\* While no row is lost behind the triggers' back, a row holds what the record of
\* its version holds, and a row without a version is not there.
Kept ==
  \A n \in Node : \A r \in Row :
    IF ver[n][r] = NoStamp THEN tab[n][r] = NoRow
    ELSE \E k \in 1..Len(outbox[n]) :
           outbox[n][k].row = r /\ outbox[n][k].stamp = ver[n][r] /\ outbox[n][k].val = tab[n][r]

\* A trigger that fires records the row it leaves.
LEMMA KeptFires ==
  ASSUME TypeInv, Kept, NEW n \in Node, NEW rec \in Record, Fires(n, rec)
  PROVE  Kept'
<1>1. /\ \A m \in Node \ {n} : outbox'[m] = outbox[m] /\ ver'[m] = ver[m] /\ tab'[m] = tab[m]
      /\ ver'[n] = [ver[n] EXCEPT ![rec.row] = rec.stamp]
      /\ tab'[n] = [tab[n] EXCEPT ![rec.row] = rec.val]
      /\ Len(outbox'[n]) = Len(outbox[n]) + 1 /\ outbox'[n][Len(outbox[n]) + 1] = rec
  BY FiresTyped
<1>2. /\ ver[n] \in [Row -> Stamp \cup {NoStamp}] /\ tab[n] \in [Row -> Write \cup {NoRow}]
      /\ rec.row \in Row /\ rec.stamp \in Stamp /\ Len(outbox[n]) \in Nat
  BY Here DEF Record
<1>3. rec.stamp # NoStamp
  BY <1>2, StampOrder
<1> SUFFICES ASSUME NEW m \in Node, NEW r \in Row
             PROVE  IF ver'[m][r] = NoStamp THEN tab'[m][r] = NoRow
                    ELSE \E k \in 1..Len(outbox'[m]) :
                           /\ outbox'[m][k].row = r /\ outbox'[m][k].stamp = ver'[m][r]
                           /\ outbox'[m][k].val = tab'[m][r]
  BY DEF Kept
<1>4. CASE m # n
  BY <1>1, <1>4 DEF Kept
<1>5. CASE m = n /\ r = rec.row
  <2>1. ver'[n][r] = rec.stamp /\ tab'[n][r] = rec.val
    BY <1>1, <1>2, <1>5
  <2>2. Len(outbox[n]) + 1 \in 1..Len(outbox'[n])
    BY <1>1, <1>2
  <2> QED
    BY <1>1, <1>3, <1>5, <2>1, <2>2
<1>6. CASE m = n /\ r # rec.row
  <2>1. ver'[n][r] = ver[n][r] /\ tab'[n][r] = tab[n][r]
    BY <1>1, <1>2, <1>6
  <2>2. \A k \in 1..Len(outbox[n]) : k \in 1..Len(outbox'[n]) /\ outbox'[n][k] = outbox[n][k]
    <3>1. \A k \in 1..Len(outbox[n]) : outbox'[n][k] = outbox[n][k]
      BY FiresTyped DEF Grows
    <3> QED
      BY <1>1, <1>2, <3>1
  <2> QED
    BY <1>6, <2>1, <2>2 DEF Kept
<1> QED
  BY <1>4, <1>5, <1>6

\* Rows agree with their records after every step, as none is lost.
LEMMA KeptStep ==
  ASSUME Races = {}, Digests = {}, Clocks \in {"monotone", "synchronised"}, MaxLosses = 0,
         TypeInv, HistInv, Kept, [Next]_vars
  PROVE  Kept'
<1>1. CASE UNCHANGED <<tab, ver, outbox>>
  BY <1>1 DEF Kept
<1>2. ASSUME NEW n \in Node, StepOf(n) PROVE Kept'
  <2>1. ASSUME NEW r \in Row, LocalUpsert(n, r) \/ LocalDelete(n, r) PROVE Kept'
    BY <2>1, WriteNewer, KeptFires
  <2>2. CASE ApplyStatement(n)
    <3>1. Wins(n, Current(n)) /\ Current(n) \in Record
      BY <2>2, ApplyIs DEF HistInv, Winning
    <3>2. UNCHANGED <<tab, ver, outbox>> \/ Fires(n, Current(n))
      BY <2>2, <3>1, ApplyNewer DEF HistInv
    <3> QED
      BY <1>1, <3>1, <3>2, KeptFires
  <2>3. ~HealClear(n)
    BY DEF HealClear, Short
  <2>4. ASSUME NEW r \in Row, LoseRow(n, r) PROVE FALSE
    BY <2>4 DEF LoseRow, TypeInv, Typed, BoundTypes
  <2> QED
    BY <1>1, <1>2, <2>1, <2>2, <2>3, <2>4, RowsOf
<1> QED
  BY <1>1, <1>2 DEF Next, StepOf, vars, disk

\* They agree at the start.
LEMMA KeptInit == Init => Kept
  BY DEF Init, Kept

\* They always agree.
LEMMA AlwaysKept ==
  ASSUME Races = {}, Digests = {}, Clocks \in {"monotone", "synchronised"}, MaxLosses = 0
  PROVE  Spec => []Kept
<1>1. TypeInv /\ HistInv /\ Kept /\ [Next]_vars => Kept'
  BY KeptStep
<1> QED
  BY <1>1, AlwaysTyped, AlwaysHist, KeptInit, PTL DEF Spec

\* Whatever set of nodes one takes, one outside pulls from one inside: the changes
\* of every node reach every other.  Rings, stars pulled both ways and full meshes
\* are connected.
Connected ==
  \A S \in SUBSET Node : S # {} /\ S # Node => \E n \in Node \ S : PeerList[n] \cap S # {}

\* Nodes that have the same version of a row hold the same.
LEMMA SameVersion ==
  ASSUME TypeInv, RowsInv, Kept, NEW n \in Node, NEW m \in Node, NEW r \in Row,
         ver[n][r] = ver[m][r]
  PROVE  tab[n][r] = tab[m][r]
<1>1. CASE ver[n][r] = NoStamp
  BY <1>1 DEF Kept
<1>2. CASE ver[n][r] # NoStamp
  <2>1. PICK j \in 1..Len(outbox[n]) : outbox[n][j].stamp = ver[n][r] /\ outbox[n][j].val = tab[n][r]
    BY <1>2 DEF Kept
  <2>2. PICK k \in 1..Len(outbox[m]) : outbox[m][k].stamp = ver[m][r] /\ outbox[m][k].val = tab[m][r]
    BY <1>2 DEF Kept
  <2>3. outbox[n][j] = outbox[m][k]
    BY <2>1, <2>2 DEF RowsInv, OneRecord
  <2> QED
    BY <2>1, <2>2, <2>3
<1> QED
  BY <1>1, <1>2

\* Where every outbox is consumed, the newest version of a row has been covered by
\* each neighbour, then by each neighbour's, and so by all.
LEMMA NewestSpreads ==
  ASSUME Connected, TypeInv, RowsInv, CursorCovers, Kept
  PROVE  NewestReaches
<1> SUFFICES ASSUME Quiescent, NEW n \in Node, NEW r \in Row, tab[n][r] # NoRow,
                    \A m \in Node : ~Older(ver[n][r], ver[m][r])
             PROVE  \A m \in Node : tab[m][r] = tab[n][r]
  BY DEF NewestReaches
<1> DEFINE S == {m \in Node : ver[m][r] = ver[n][r]}
<1>1. ver[n][r] # NoStamp
  BY DEF Kept
<1>2. PICK i \in 1..Len(outbox[n]) :
        outbox[n][i].row = r /\ outbox[n][i].stamp = ver[n][r] /\ outbox[n][i].val = tab[n][r]
  BY <1>1 DEF Kept
<1>3. outbox[n][i].op = "upsert"
  BY <1>2 DEF RowsInv, Shaped
<1>4. ASSUME NEW m \in Node, NEW p \in PeerList[m], p \in S PROVE m \in S
  <2>1. p \in Node /\ ver[p][r] = ver[n][r]
    BY <1>4
  <2>2. PICK k \in 1..Len(outbox[p]) : outbox[p][k].stamp = ver[p][r]
    BY <1>1, <2>1 DEF Kept
  <2>3. outbox[p][k] = outbox[n][i]
    BY <1>2, <2>1, <2>2 DEF RowsInv, OneRecord
  <2>4. saved[m][p] = Len(outbox[p])
    BY DEF Quiescent
  <2>5. ~Older(ver[m][r], ver[n][r])
    BY <1>2, <1>3, <2>1, <2>2, <2>3, <2>4 DEF CursorCovers
  <2>6. ~Older(ver[n][r], ver[m][r])
    OBVIOUS
  <2> QED
    BY <2>5, <2>6, VersionTypes, StampOrder
<1>5. S = Node
  <2>1. n \in S /\ S \in SUBSET Node
    OBVIOUS
  <2> HIDE DEF S
  <2>2. S # Node => \E m \in Node \ S : PeerList[m] \cap S # {}
    BY <2>1 DEF Connected
  <2> QED
    BY <1>4, <2>2
<1> QED
  BY <1>5, SameVersion

\* Spec => []NewestReaches, for any connected topology of any size: once every
\* outbox is consumed, a row whose newest version is an upsert is the same on every
\* node (SyncStore's promise to converge without coordination, where it holds: a
\* delete that finds no row leaves no version behind and is not passed on).
THEOREM NewestReachesAll ==
  ASSUME Races = {}, Digests = {}, Clocks \in {"monotone", "synchronised"},
         MaxApplyFails = 0, MaxLosses = 0, Connected
  PROVE  Spec => []NewestReaches
<1>1. TypeInv /\ HistInv /\ CoverInv /\ Kept => NewestReaches
  BY NewestSpreads DEF HistInv, CoverInv
<1> QED
  BY <1>1, AlwaysCovered, AlwaysKept, PTL

-----------------------------------------------------------------------------
(* Deletes, where every node has one peer                                  *)

\* Deletes that a cursor has passed, or is about to pass, are in force.
DeletesInForce ==
  /\ \A n \in Node : \A p \in PeerList[n] : \A k \in 1..saved[n][p] :
       outbox[p][k].op = "delete" => Gone(n, outbox[p][k])
  /\ \A n \in Node : pass[n].pc \in {"written", "cleared"} /\ Current(n).op = "delete"
       => Gone(n, Current(n))

OnePeer == \A n \in Node : \A p, q \in PeerList[n] : p = q

\* What a cursor has passed has been fetched.
LEMMA PassedFetched ==
  ASSUME TypeInv, CursorInv, NEW n \in Node, NEW p \in PeerList[n], NEW k \in 1..saved[n][p]
  PROVE  k \in 1..Fetched(n, p)
<1>1. /\ p \in Node /\ saved[n][p] \in Nat /\ pass[n].upto \in Nat
  BY Here
<1>2. CASE pass[n].peer = p /\ pass[n].pc \in Batch
  <2>1. saved[n][p] <= pass[n].upto
    BY <1>1, <1>2 DEF CursorInv, Batch
  <2>2. Fetched(n, p) = pass[n].upto
    BY <1>2 DEF Fetched, Batch
  <2> QED
    BY <1>1, <2>1, <2>2
<1>3. CASE ~(pass[n].peer = p /\ pass[n].pc \in Batch)
  BY <1>3 DEF Fetched, Batch
<1> QED
  BY <1>2, <1>3

\* A delete that is in force stays in force: a local write is later than anything
\* fetched, and what comes after the delete in the peer's outbox is newer.
LEMMA GoneStays ==
  ASSUME Races = {}, Digests = {}, Clocks = "synchronised", MaxLosses = 0,
         TypeInv, TypeInv', HistInv, OnePeer, NEW n \in Node, StepOf(n),
         NEW p \in PeerList[n], NEW k \in 1..Fetched(n, p), k \in 1..Len(outbox[p]),
         outbox[p][k].op = "delete", Gone(n, outbox[p][k]),
         ApplyStatement(n) => k \in 1..cur[n][p]
  PROVE  \/ ~Older(ver'[n][outbox[p][k].row], outbox[p][k].stamp)
         \/ tab'[n][outbox[p][k].row] = NoRow
<1> DEFINE d == outbox[p][k]
<1>0. p \in Node /\ VersionsGrow /\ Clocks \in {"monotone", "synchronised"}
  BY Here, StepGrows
<1>1. d \in Record /\ d.row \in Row /\ d.stamp \in Stamp
  BY <1>0, InOutbox
<1>2. CASE ~Older(ver[n][d.row], d.stamp)
  BY <1>0, <1>1, <1>2, CoverStays
<1>3. CASE tab[n][d.row] = NoRow
  <2>1. CASE UNCHANGED tab
    BY <1>3, <2>1
  <2>2. ASSUME NEW u \in Record, Fires(n, u), u.row = d.row, ~Older(u.stamp, d.stamp)
        PROVE  ~Older(ver'[n][d.row], d.stamp)
    <3>1. ver'[n] = [ver[n] EXCEPT ![u.row] = u.stamp]
      BY <2>2, FiresTyped
    <3>2. ver'[n][d.row] = u.stamp
      BY <1>1, <2>2, <3>1, Here
    <3> QED
      BY <2>2, <3>2
  <2>3. ASSUME NEW u \in Record, Fires(n, u), u.row # d.row
        PROVE  tab'[n][d.row] = NoRow
    <3>1. tab'[n] = [tab[n] EXCEPT ![u.row] = u.val]
      BY <2>3, FiresTyped
    <3> QED
      BY <1>1, <1>3, <2>3, <3>1, Here
  <2>4. ASSUME NEW r \in Row, LocalUpsert(n, r) \/ LocalDelete(n, r)
        PROVE  ~Older(ver'[n][d.row], d.stamp) \/ tab'[n][d.row] = NoRow
    <3>1. PICK u \in Record : Fires(n, u) /\ u.row = r /\ LocalStampAllowed(n, r, u.stamp[1])
      BY <1>0, <2>4, WriteNewer
    <3>2. u.stamp[1] > d.stamp[1]
      BY <3>1 DEF LocalStampAllowed
    <3>3. u.stamp \in Stamp
      BY <3>1 DEF Record
    <3>4. ~Older(u.stamp, d.stamp)
      BY <1>1, <3>2, <3>3, StampOrder
    <3> QED
      BY <2>2, <2>3, <3>1, <3>4
  <2>5. CASE ApplyStatement(n)
    <3> DEFINE u == Current(n)
    <3>1. pass[n].pc = "published" /\ u \in Record
      BY <2>5, ApplyIs
    <3>2. UNCHANGED <<tab, ver, outbox>> \/ Fires(n, u)
      BY <2>5, <3>1, ApplyNewer DEF HistInv, Winning
    <3>3. pass[n].peer = p
      BY Here DEF OnePeer
    <3>4. /\ cur[n][p] + 1 \in 1..Len(outbox[p]) /\ u = outbox[p][cur[n][p] + 1]
          /\ cur[n][p] \in Nat
      BY <3>1, <3>3, BusyMore, NextRecord DEF Busy, Current
    <3>5. k \in 1..(cur[n][p] + 1) - 1
      BY <2>5, <3>4
    <3>6. cur[n][p] + 1 \in DOMAIN outbox[p]
      BY <1>0, <3>4, Here
    <3>7. u.row = d.row => Older(d.stamp, u.stamp)
      BY <1>0, <3>4, <3>5, <3>6 DEF HistInv, RowsInv, HistoryOrdered
    <3> HIDE DEF u
    <3>8. u.row = d.row => ~Older(u.stamp, d.stamp)
      <4>1. u.stamp \in Stamp
        BY <3>1 DEF Record
      <4> QED
        BY <1>1, <3>7, <4>1, StampOrder
    <3> QED
      BY <2>1, <2>2, <2>3, <3>1, <3>2, <3>8
  <2>6. ~HealClear(n)
    BY DEF HealClear, Short
  <2>7. ASSUME NEW r \in Row, LoseRow(n, r) PROVE FALSE
    BY <2>7 DEF LoseRow, TypeInv, Typed, BoundTypes
  <2> QED
    BY <2>1, <2>4, <2>5, <2>6, <2>7, RowsOf
<1> QED
  BY <1>2, <1>3 DEF Gone

\* A delete that a cursor has passed stays in force: only a later write, which under
\* synchronised clocks has a later stamp, brings the row back.
LEMMA PassedDeletesStep ==
  ASSUME Races = {}, Digests = {}, Clocks = "synchronised", MaxLosses = 0, MaxApplyFails = 0,
         TypeInv, TypeInv', HistInv, CoverInv, OnePeer, DeletesInForce, NEW n \in Node, StepOf(n),
         NEW m \in Node, NEW p \in PeerList[m], NEW k \in 1..saved'[m][p],
         outbox'[p][k].op = "delete"
  PROVE  Gone(m, outbox[p][k])' 
<1>0. p \in Node /\ CursorInv /\ Grows
  BY Here, AllGrow DEF CoverInv
<1>1. k \in 1..Len(outbox[p]) /\ outbox'[p][k] = outbox[p][k]
  BY <1>0, PassedBy
<1>2. CASE k \in 1..saved[m][p]
  <2>1. Gone(m, outbox[p][k])
    BY <1>1, <1>2 DEF DeletesInForce
  <2>2. CASE m = n
    <3>1. k \in 1..Fetched(n, p)
      BY <1>0, <1>2, <2>2, PassedFetched
    <3>2. ApplyStatement(n) => k \in 1..cur[n][p]
      <4> SUFFICES ASSUME ApplyStatement(n) PROVE k \in 1..cur[n][p]
        OBVIOUS
      <4>1. pass[n].peer = p
        BY <2>2, Here DEF OnePeer
      <4>2. cur[n][p] = saved[n][p]
        BY <1>0, <4>1, ApplyIs DEF CursorInv
      <4> QED
        BY <1>2, <2>2, <4>2
    <3> QED
      BY <1>1, <2>1, <2>2, <3>1, <3>2, GoneStays DEF Gone
  <2>3. CASE m # n
    <3>1. Same(m)
      BY <2>3, OthersKeep
    <3> QED
      BY <1>1, <2>1, <3>1 DEF Gone, Same
  <2> QED
    BY <2>2, <2>3
<1>3. CASE k \notin 1..saved[m][p]
  <2>1. /\ m = n /\ (Skip(n) \/ AdvanceCursor(n)) /\ outbox[p][k] = Current(n)
    BY <1>0, <1>3, PassedBy
  <2>2. UNCHANGED <<tab, ver, outbox>>
    BY <2>1 DEF Skip, AdvanceCursor
  <2>3. Gone(n, Current(n))
    <3>1. CASE Skip(n)
      BY <3>1 DEF Skip, Wins, Gone
    <3>2. CASE AdvanceCursor(n)
      <4>1. pass[n].pc = "cleared" /\ Current(n).op = "delete"
        BY <1>1, <2>1, <3>2 DEF AdvanceCursor
      <4> QED
        BY <4>1 DEF DeletesInForce
    <3> QED
      BY <2>1, <3>1, <3>2
  <2> QED
    BY <2>1, <2>2, <2>3 DEF Gone
<1> QED
  BY <1>2, <1>3

\* So does a delete that was applied and is about to be passed.
LEMMA AppliedDeletesStep ==
  ASSUME Races = {}, Digests = {}, Clocks = "synchronised", MaxLosses = 0, MaxApplyFails = 0,
         TypeInv, TypeInv', HistInv, CoverInv, OnePeer, DeletesInForce, NEW n \in Node, StepOf(n),
         NEW m \in Node, pass'[m].pc \in {"written", "cleared"}, Current(m)'.op = "delete"
  PROVE  Gone(m, Current(m))'
<1>0. Grows /\ CursorInv
  BY AllGrow DEF CoverInv
<1>1. ASSUME pass[m].pc \in {"written", "cleared"}, pass'[m].peer = pass[m].peer, cur'[m] = cur[m]
      PROVE  Gone(m, Current(m))'
  <2> DEFINE p == pass[m].peer
             k == cur[m][p] + 1
  <2>1. /\ Current(m)' = Current(m) /\ Current(m) \in Record /\ k \in 1..Len(outbox[p])
        /\ Current(m) = outbox[p][k] /\ p \in PeerList[m]
    BY <1>0, <1>1, CurrentStays, Here DEF Busy, Current
  <2>2. Gone(m, Current(m))
    BY <1>1, <2>1 DEF DeletesInForce
  <2>3. CASE m # n
    <3>1. Same(m)
      BY <2>3, OthersKeep
    <3> QED
      BY <2>1, <2>2, <3>1 DEF Gone, Same
  <2>4. CASE m = n
    <3>1. k \in 1..Fetched(n, p)
      <4>1. pass[n].pc \in Batch /\ MoreToApply(n)
        BY <1>1, <2>4, BusyMore DEF Busy
      <4>2. k <= pass[n].upto /\ cur[n][p] \in Nat /\ pass[n].upto \in Nat
        BY <2>4, <4>1, NextRecord, Here
      <4>3. Fetched(n, p) = pass[n].upto
        BY <2>4, <4>1 DEF Fetched, Batch
      <4> QED
        BY <2>4, <4>2, <4>3
    <3>2. ~ApplyStatement(n)
      BY <1>1, <2>4 DEF ApplyStatement
    <3>3. Gone(n, outbox[p][k]) /\ outbox[p][k].op = "delete"
      BY <2>1, <2>2, <2>4
    <3> DEFINE d == outbox[p][k]
    <3>4. ~Older(ver'[n][d.row], d.stamp) \/ tab'[n][d.row] = NoRow
      BY <2>1, <2>4, <3>1, <3>2, <3>3, GoneStays
    <3> QED
      BY <2>1, <2>4, <3>4 DEF Gone
  <2> QED
    BY <2>3, <2>4
<1>2. CASE m # n
  BY <1>1, <1>2, OthersKeep DEF Same
<1>3. CASE m = n
  <2>0. pass \in [Node -> Pass] /\ pass[n] \in Pass
    BY Here DEF TypeInv, Typed, PeerTypes
  <2>1. ~Decide(n) /\ ~PublishContext(n)
    BY <1>3, <2>0 DEF Decide, PublishContext, Goto, Pass
  <2>2. ~ApplyFails(n)
    BY DEF ApplyFails, TypeInv, Typed, BoundTypes
  <2>3. CASE ApplyStatement(n)
    <3>1. /\ pass[n].pc = "published" /\ Current(n) \in Record /\ UNCHANGED cur
          /\ pass' = [pass EXCEPT ![n] = [pass[n] EXCEPT !.pc = "written", !.applied = TRUE]]
      BY <2>3, ApplyIs DEF memory
    <3>2. pass'[n].peer = pass[n].peer
      BY <2>0, <3>1 DEF Pass
    <3>3. Current(n)' = Current(n) /\ Current(n).row \in Row /\ Current(n).stamp \in Stamp
      BY <1>0, <3>1, <3>2, CurrentStays DEF Busy, Record
    <3>4. CASE tab[n][Current(n).row] = NoRow /\ UNCHANGED <<tab, ver, outbox>>
      BY <1>3, <3>3, <3>4 DEF Gone
    <3>5. CASE Fires(n, Current(n))
      <4>1. ver'[n] = [ver[n] EXCEPT ![Current(n).row] = Current(n).stamp]
        BY <3>1, <3>5, FiresTyped
      <4>2. ver'[n][Current(n).row] = Current(n).stamp
        BY <3>3, <4>1, Here
      <4> QED
        BY <1>3, <3>3, <4>2, StampOrder DEF Gone
    <3> QED
      BY <2>3, <3>4, <3>5, ApplyIs
  <2>4. CASE ClearContext(n)
    <3>1. pass[n].pc = "written" /\ UNCHANGED cur /\ pass' = [pass EXCEPT ![n].pc = "cleared"]
      BY <2>4 DEF ClearContext, Goto, memory
    <3>2. pass'[n].peer = pass[n].peer
      BY <2>0, <3>1 DEF Pass
    <3> QED
      BY <1>1, <1>3, <3>1, <3>2
  <2>5. ASSUME NEW r \in Row, LocalUpsert(n, r) \/ LocalDelete(n, r) \/ LoseRow(n, r)
        PROVE  UNCHANGED <<pass, cur>>
    BY <2>5, WriteIs DEF LoseRow, memory
  <2> QED
    BY <1>1, <1>3, <2>1, <2>2, <2>3, <2>4, <2>5, BusyBy DEF Busy
<1> QED
  BY <1>2, <1>3

\* The invariant of the deletes is inductive.
LEMMA DeletesStep ==
  ASSUME Races = {}, Digests = {}, Clocks = "synchronised", MaxLosses = 0, MaxApplyFails = 0,
         OnePeer, TypeInv, TypeInv', HistInv, CoverInv, DeletesInForce, [Next]_vars
  PROVE  DeletesInForce'
<1>1. CASE UNCHANGED vars
  BY <1>1 DEF DeletesInForce, Gone, Current, vars, disk, memory
<1>2. ASSUME NEW n \in Node, StepOf(n) PROVE DeletesInForce'
  <2>1. ASSUME NEW m \in Node, NEW p \in PeerList[m], NEW k \in 1..saved'[m][p],
               outbox'[p][k].op = "delete"
        PROVE  Gone(m, outbox[p][k])'
    BY <1>2, <2>1, PassedDeletesStep
  <2>2. ASSUME NEW m \in Node, pass'[m].pc \in {"written", "cleared"}, Current(m)'.op = "delete"
        PROVE  Gone(m, Current(m))'
    BY <1>2, <2>2, AppliedDeletesStep
  <2> QED
    BY <2>1, <2>2 DEF DeletesInForce
<1> QED
  BY <1>1, <1>2 DEF Next, StepOf

\* It holds at the start.
LEMMA DeletesInit == Init => DeletesInForce
<1> SUFFICES ASSUME Init PROVE DeletesInForce
  OBVIOUS
<1>1. ASSUME NEW n \in Node, NEW p \in PeerList[n], NEW k \in 1..saved[n][p] PROVE FALSE
  <2>1. p \in Node
    BY Constants
  <2>2. saved[n][p] = 0
    BY <2>1 DEF Init
  <2> QED
    BY <2>2
<1>2. \A n \in Node : pass[n].pc = "idle"
  BY DEF Init, Idle
<1> QED
  BY <1>1, <1>2 DEF DeletesInForce

\* Two nodes that have consumed each other's outboxes agree: take the one with the
\* newer version of a row; what its record says, the other one has.
LEMMA TwoAgree ==
  ASSUME NEW a \in Node, NEW b \in Node, Node = {a, b}, TypeInv, RowsInv, CursorCovers, Kept,
         DeletesInForce, Quiescent
  PROVE  Agreed
<1>1. PeerList[a] = {b} /\ PeerList[b] = {a}
  BY PeerSyncAssumption
<1>2. ASSUME NEW n \in Node, NEW m \in Node, n \in PeerList[m], NEW r \in Row,
             ~Older(ver[n][r], ver[m][r])
      PROVE  tab[n][r] = tab[m][r]
  <2>1. CASE ver[n][r] = NoStamp
    <3>1. ver[m][r] = NoStamp
      BY <1>2, <2>1, VersionTypes, StampOrder
    <3> QED
      BY <2>1, <3>1, SameVersion
  <2>2. CASE ver[n][r] # NoStamp
    <3>1. PICK k \in 1..Len(outbox[n]) :
            outbox[n][k].row = r /\ outbox[n][k].stamp = ver[n][r] /\ outbox[n][k].val = tab[n][r]
      BY <2>2 DEF Kept
    <3>2. saved[m][n] = Len(outbox[n]) /\ outbox[n][k] \in Record
      BY <1>2, InOutbox DEF Quiescent
    <3>3. CASE ~Older(ver[m][r], ver[n][r])
      <4>1. ver[m][r] = ver[n][r]
        BY <1>2, <3>3, VersionTypes, StampOrder
      <4> QED
        BY <4>1, SameVersion
    <3>4. CASE Older(ver[m][r], ver[n][r])
      <4>1. outbox[n][k].op = "delete"
        BY <1>2, <3>1, <3>2, <3>4 DEF CursorCovers, Record
      <4>2. tab[m][r] = NoRow
        BY <1>2, <3>1, <3>2, <3>4, <4>1 DEF DeletesInForce, Gone
      <4>3. tab[n][r] = NoRow
        <5>1. outbox[n][k].op # "upsert"
          BY <4>1
        <5> QED
          BY <3>1, <5>1 DEF RowsInv, Shaped
      <4> QED
        BY <4>2, <4>3
    <3> QED
      BY <3>3, <3>4
  <2> QED
    BY <2>1, <2>2
<1>3. \A r \in Row : tab[a][r] = tab[b][r]
  <2> SUFFICES ASSUME NEW r \in Row PROVE tab[a][r] = tab[b][r]
    OBVIOUS
  <2>1. ~Older(ver[a][r], ver[b][r]) \/ ~Older(ver[b][r], ver[a][r])
    BY VersionTypes, StampOrder
  <2> QED
    BY <1>1, <1>2, <2>1
<1>4. tab[a] \in [Row -> Write \cup {NoRow}] /\ tab[b] \in [Row -> Write \cup {NoRow}]
  BY Here
<1>5. tab[a] = tab[b]
  BY <1>3, <1>4
<1> QED
  BY <1>5 DEF Agreed

\* The deletes stay in force where every node has one peer.
LEMMA AlwaysDeleted ==
  ASSUME Races = {}, Digests = {}, Clocks = "synchronised", MaxApplyFails = 0, MaxLosses = 0,
         OnePeer
  PROVE  Spec => [](TypeInv /\ HistInv /\ CoverInv /\ Kept /\ DeletesInForce)
<1>1. TypeInv /\ TypeInv' /\ HistInv /\ CoverInv /\ DeletesInForce /\ [Next]_vars
        => DeletesInForce'
  BY DeletesStep
<1>2. Spec => [](TypeInv /\ HistInv /\ CoverInv) /\ []Kept
  BY AlwaysCovered, AlwaysKept
<1> QED
  BY <1>1, <1>2, DeletesInit, PTL DEF Spec

\* Spec => []Delivered where every node pulls from one peer, as in a ring of any
\* size or between two nodes: newest upserts reach all, and no node that has passed
\* a delete gets the row back by something older (PullFromPeer, ApplyRemoteChange).
\* It needs clocks that never give a write a stamp older than what the node has
\* fetched, and no second peer, from which that older upsert could come.
THEOREM DeliveredStays ==
  ASSUME Races = {}, Digests = {}, Clocks = "synchronised", MaxApplyFails = 0, MaxLosses = 0,
         OnePeer, Connected
  PROVE  Spec => []Delivered
<1>1. TypeInv /\ HistInv /\ CoverInv /\ Kept /\ DeletesInForce => Delivered
  BY NewestSpreads DEF HistInv, CoverInv, Delivered, DeletesInForce
<1> QED
  BY <1>1, AlwaysDeleted, PTL

\* Spec => []Converged, for two nodes, any number of rows, writes, deletes and
\* crashes: if neither node gives a write a stamp older than what it has already
\* fetched, the two hold the same rows whenever each has consumed the other's
\* outbox.  Merely monotone clocks do not give this, nor does a third node (a delete
\* that finds no row leaves no version that a late, older upsert would lose to).
THEOREM TwoNodesConverge ==
  ASSUME Races = {}, Digests = {}, Clocks = "synchronised", MaxApplyFails = 0, MaxLosses = 0,
         NEW a \in Node, NEW b \in Node, Node = {a, b}
  PROVE  Spec => []Converged
<1>1. OnePeer
  BY PeerSyncAssumption DEF OnePeer
<1>2. TypeInv /\ HistInv /\ CoverInv /\ Kept /\ DeletesInForce => Converged
  BY TwoAgree DEF HistInv, CoverInv, Converged
<1> QED
  BY <1>1, <1>2, AlwaysDeleted, PTL
=============================================================================
