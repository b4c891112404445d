--------------------------- MODULE LeaseScheduler ---------------------------
(***************************************************************************)
(* The scheduler's fire loop on federated nodes                            *)
(* (kernel/scheduler/Scheduler.cpp, TaskRunStore.cpp,                      *)
(* ScheduleLeaseStore.cpp).  One recurring schedule is replicated to every *)
(* node; each node polls it and must decide who fires a due window.        *)
(*                                                                         *)
(* at_least_once: claim the window in task_runs, fire, finish, advance.    *)
(* lease_required: acquire or renew a lease, claim under its epoch, let    *)
(* the claim age until peers can have seen it, ask the peers which claim   *)
(* they take for the survivor, and only then fire, finish and advance.     *)
(*                                                                         *)
(* Replication is the job of PeerSync; here one sync pass is one step that *)
(* brings a node every row of which the peer has a later version, with     *)
(* clocks good enough that a later write has a later version.  A window is *)
(* named by the time it falls due.                                         *)
(***************************************************************************)
EXTENDS Integers, FiniteSets

CONSTANTS
  Node,        \* node ids; the ids of a node's rows grow with its node id
  Semantics,   \* "at_least_once" or "lease_required"
  Period,      \* the schedule falls due at the multiples of Period
  MaxFires,    \* max_fires, 0 for no limit
  TTL,         \* m_leaseTtlMs
  RenewEvery,  \* m_leaseRenewEveryMs
  Grace,       \* m_leaseGraceMs
  RetryEvery,  \* m_leaseRetryEveryMs
  Visibility,  \* m_claimVisibilityMs
  MaxTime,     \* bound of the clock
  MaxEpoch,    \* bound of the lease epochs
  MaxCrashes,  \* bound: crashes of all nodes together
  MaxCuts,     \* bound: times the network between the nodes is cut
  MaxReleases, \* bound: force-released leases
  FalseDown,   \* whether a cut may make a node take a live peer for down
  Timely       \* whether nodes that reach each other sync within a tick

ASSUME LeaseSchedulerAssumption ==
  /\ Node \subseteq Nat \ {0} /\ IsFiniteSet(Node) /\ Node # {}
  /\ Semantics \in {"at_least_once", "lease_required"}
  /\ {Period, TTL, MaxEpoch} \subseteq Nat \ {0}
  /\ {MaxFires, RenewEvery, Grace, RetryEvery, Visibility, MaxTime, MaxCrashes,
      MaxCuts, MaxReleases} \subseteq Nat
  /\ {FalseDown, Timely} \subseteq BOOLEAN

VARIABLES
  now,      \* the clock of all nodes
  sched,    \* sched[n]: the row of table schedules at n
  lease,    \* lease[n][k]: the rows of schedule_leases at n
  claim,    \* claim[n][k]: the rows of task_runs at n
  up,       \* up[n]: the process of n is running
  link,     \* the nodes can reach each other
  down,     \* down[n]: peers whose PeerState::state is "down" at n
  fresh,    \* fresh[n]: peers n has pulled from since the clock moved
  attempt,  \* attempt[n]: m_leaseAttemptMs, NoTime before the first attempt
  poll,     \* poll[n]: where the poll thread of n stands
  fired,    \* fired[w][n]: how often n has fired window w (at most 2 counted)
  left      \* environment events that may still happen

vars == <<now, sched, lease, claim, up, link, down, fresh, attempt, poll, fired,
          left>>

-----------------------------------------------------------------------------
(* Rows.  A row's version is 0 where it does not exist. *)

Window == 1..MaxTime
LeaseKey == Node \X (1..MaxEpoch)      \* holder and epoch
ClaimKey == Window \X Node             \* window and claimant
NoTime == -1
NoKey == <<0, 0>>
NoLease == [exp |-> 0, renew |-> 0, ver |-> 0]
NoClaim == [epoch |-> 0, started |-> 0, done |-> FALSE, fenced |-> FALSE,
            ver |-> 0]
Idle == [pc |-> "idle", window |-> 0, count |-> 0, at |-> 0, eff |-> NoKey,
         row |-> NoLease, acked |-> FALSE, alone |-> FALSE]

MaxOf(S) == CHOOSE x \in S : \A y \in S : x >= y
Peers(n) == Node \ {n}
Reachable(n, p) == up[p] /\ link

(* The version a write of n gives a row: later than every copy of it *)
NextVer(copies) == 1 + MaxOf({copies[n].ver : n \in Node})

Init ==
  /\ now = 0
  /\ sched = [n \in Node |-> [next |-> Period, enabled |-> TRUE, count |-> 0,
                              ver |-> 1]]
  /\ lease = [n \in Node |-> [k \in LeaseKey |-> NoLease]]
  /\ claim = [n \in Node |-> [k \in ClaimKey |-> NoClaim]]
  /\ up = [n \in Node |-> TRUE]
  /\ link = TRUE
  /\ down = [n \in Node |-> {}]
  /\ fresh = [n \in Node |-> {}]
  /\ attempt = [n \in Node |-> NoTime]
  /\ poll = [n \in Node |-> Idle]
  /\ fired = [w \in Window |-> [n \in Node |-> 0]]
  /\ left = [crash |-> MaxCrashes, cut |-> MaxCuts, release |-> MaxReleases]

-----------------------------------------------------------------------------
(* ScheduleLeaseStore *)

(* ORDER BY epoch DESC, expires_ms DESC, id DESC LIMIT 1 *)
Above(n, j, k) ==
  \/ j[2] > k[2]
  \/ j[2] = k[2] /\ lease[n][j].exp > lease[n][k].exp
  \/ j[2] = k[2] /\ lease[n][j].exp = lease[n][k].exp /\ j[1] >= k[1]
EffectiveLease(n) ==
  LET rows == {k \in LeaseKey : lease[n][k].ver > 0}
  IN  IF rows = {} THEN NoKey
      ELSE CHOOSE j \in rows : \A k \in rows : Above(n, j, k)

(* Acquire and Renew, at the time the poll thread read the lease *)
PutLease(n, k) ==
  lease' = [lease EXCEPT ![n][k] =
              [exp |-> poll[n].at + TTL, renew |-> poll[n].at,
               ver |-> NextVer([p \in Node |-> lease[p][k]])]]
Acquire(n, epoch) == epoch <= MaxEpoch /\ PutLease(n, <<n, epoch>>)
Renew(n, k) == PutLease(n, k)

-----------------------------------------------------------------------------
(* TaskRunStore *)

ClaimRows(n, w) == {k \in ClaimKey : k[1] = w /\ claim[n][k].ver > 0}

(* ORDER BY epoch DESC, id DESC LIMIT 1, over the rows cl of one node *)
SurvivorOf(cl, w) ==
  LET rows == {k \in ClaimKey : k[1] = w /\ cl[k].ver > 0}
  IN  IF rows = {} THEN NoKey
      ELSE CHOOSE j \in rows : \A k \in rows :
             \/ cl[j].epoch > cl[k].epoch
             \/ cl[j].epoch = cl[k].epoch /\ j[2] >= k[2]
GetByUuid(n, w) == SurvivorOf(claim[n], w)

PutClaim(n, k, row) ==
  claim' = [claim EXCEPT ![n][k] =
              [row EXCEPT !.ver = NextVer([p \in Node |-> claim[p][k]])]]

(* INSERT ... WHERE NOT EXISTS: leaves the table alone if the window has a  *)
(* row of anybody.                                                          *)
TryClaim(n, w, epoch, at) ==
  IF ClaimRows(n, w) # {} THEN UNCHANGED claim
  ELSE PutClaim(n, <<w, n>>, [NoClaim EXCEPT !.epoch = epoch, !.started = at])

(* FenceRunUuid on the rows cl of node n, window by window: all but the     *)
(* survivor are fenced, which is a write of n.                              *)
FenceRunUuid_KeepsOwn(n, cl, windows) ==
  [k \in ClaimKey |->
     IF k[1] \in windows /\ cl[k].ver > 0 /\ ~cl[k].fenced /\ k[2] # n
     THEN [cl[k] EXCEPT !.fenced = TRUE,
             !.ver = 1 + MaxOf({cl[k].ver} \cup {claim[p][k].ver : p \in Node})]
     ELSE cl[k]]
FenceRunUuid_None(n, cl, windows) == cl
FenceRunUuid(n, cl, windows) ==
  [k \in ClaimKey |->
     IF k[1] \in windows /\ cl[k].ver > 0 /\ ~cl[k].fenced
          /\ k # SurvivorOf(cl, k[1])
     THEN [cl[k] EXCEPT !.fenced = TRUE,
             !.ver = 1 + MaxOf({cl[k].ver} \cup {claim[p][k].ver : p \in Node})]
     ELSE cl[k]]

-----------------------------------------------------------------------------
(* PeerSyncService: what a node learns from its peers *)

AllDown(n) == Peers(n) # {} /\ Peers(n) \subseteq down[n]
Asked(n) == {p \in Peers(n) \ down[n] : Reachable(n, p)}
(* What the peers A that answered say; any request may fail *)
CheckLeaseAck(n, epoch, A) == \E p \in A : EffectiveLease(p) = <<n, epoch>>
ConfirmedMine(n, w, A) == \E p \in A : GetByUuid(p, w) = <<w, n>>
ShowsOther(n, w, A) ==
  \E p \in A : GetByUuid(p, w) \notin {NoKey, <<w, n>>}

-----------------------------------------------------------------------------
(* ProcessDueSchedules *)

Goto(n, pc) == poll' = [poll EXCEPT ![n].pc = pc]
Due(n) == /\ up[n] /\ poll[n].pc = "idle"
          /\ sched[n].enabled /\ sched[n].next <= now
Begin(n, pc) ==
  poll' = [poll EXCEPT ![n] = [Idle EXCEPT !.pc = pc, !.window = sched[n].next,
                                           !.count = sched[n].count, !.at = now]]

(* at_least_once: a window that has a row is not fired but still advanced *)
ClaimAndFire_RetriesRunning(n) ==
  /\ Semantics = "at_least_once" /\ Due(n)
  /\ Begin(n, IF \E k \in ClaimRows(n, sched[n].next) : claim[n][k].done
              THEN "advance" ELSE "fire")
  /\ TryClaim(n, sched[n].next, 0, now)
  /\ UNCHANGED <<now, sched, lease, up, link, down, fresh, attempt, fired, left>>
ClaimAndFire_SkipsLost(n) ==
  /\ Semantics = "at_least_once" /\ Due(n)
  /\ ClaimRows(n, sched[n].next) = {}
  /\ Begin(n, "fire")
  /\ TryClaim(n, sched[n].next, 0, now)
  /\ UNCHANGED <<now, sched, lease, up, link, down, fresh, attempt, fired, left>>
ClaimAndFire(n) ==
  /\ Semantics = "at_least_once" /\ Due(n)
  /\ Begin(n, IF ClaimRows(n, sched[n].next) = {} THEN "fire" ELSE "advance")
  /\ TryClaim(n, sched[n].next, 0, now)
  /\ UNCHANGED <<now, sched, lease, up, link, down, fresh, attempt, fired, left>>

LeaseDue(n) == Semantics = "lease_required" /\ Due(n)
NoClaimYet(n) == LeaseDue(n) /\ GetByUuid(n, sched[n].next) = NoKey
Throttled(n) == attempt[n] # NoTime /\ now - attempt[n] < RetryEvery

(* LeaseEpochForDispatch, inside the retry window: only a lease in hand *)
ClaimUnderHeldLease(n) ==
  /\ NoClaimYet(n) /\ Throttled(n)
  /\ LET k == EffectiveLease(n)
     IN  /\ k # NoKey /\ k[1] = n /\ lease[n][k].exp > now
         /\ TryClaim(n, sched[n].next, k[2], now)
  /\ UNCHANGED <<now, sched, lease, up, link, down, fresh, attempt, poll, fired, left>>

(* ... and outside it: read the effective lease and ask the peers *)
AskAboutLease(n) ==
  /\ NoClaimYet(n) /\ ~Throttled(n)
  /\ attempt' = [attempt EXCEPT ![n] = now]
  /\ \E A \in SUBSET Asked(n) :
       LET k == EffectiveLease(n)
       IN  poll' = [poll EXCEPT ![n] =
                      [Idle EXCEPT !.pc = "lease", !.window = sched[n].next,
                         !.at = now, !.eff = k,
                         !.row = IF k = NoKey THEN NoLease ELSE lease[n][k],
                         !.acked = CheckLeaseAck(n, k[2], A),
                         !.alone = Peers(n) = {} \/ AllDown(n)]]
  /\ UNCHANGED <<now, sched, lease, claim, up, link, down, fresh, fired, left>>

(* The lease rules, on what has been read and answered; the claim follows *)
Valid(n) == poll[n].row.exp > poll[n].at
LeaseTo(n, epoch) ==
  /\ TryClaim(n, poll[n].window, epoch, poll[n].at)
  /\ poll' = [poll EXCEPT ![n] = Idle]
  /\ UNCHANGED <<now, sched, up, link, down, fresh, attempt, fired, left>>

FirstAcquisition(n) ==
  /\ poll[n].pc = "lease" /\ poll[n].eff = NoKey
  /\ Acquire(n, 1)
  /\ LeaseTo(n, 1)

HeldLease(n) ==
  /\ poll[n].pc = "lease" /\ poll[n].eff[1] = n
  /\ LET k == poll[n].eff
     IN  /\ Valid(n)
         /\ IF poll[n].at >= poll[n].row.renew + RenewEvery
                 /\ (poll[n].acked \/ poll[n].alone)
            THEN Renew(n, k) ELSE UNCHANGED lease
         /\ LeaseTo(n, k[2])

(* Self-fenced: back only if a peer still sees my epoch, or there is none *)
MayReacquire(n) == poll[n].acked \/ poll[n].alone
Reacquire(n) ==
  /\ poll[n].pc = "lease" /\ poll[n].eff[1] = n
  /\ ~Valid(n) /\ MayReacquire(n)
  /\ Acquire(n, poll[n].eff[2] + 1)
  /\ LeaseTo(n, poll[n].eff[2] + 1)

MayTakeOver(n) ==
  /\ poll[n].row.exp + Grace < poll[n].at
  /\ poll[n].alone
TakeOverLease(n) ==
  /\ poll[n].pc = "lease" /\ poll[n].eff[1] \in Peers(n)
  /\ MayTakeOver(n)
  /\ Acquire(n, poll[n].eff[2] + 1)
  /\ LeaseTo(n, poll[n].eff[2] + 1)

NoLeaseNow(n) ==
  /\ poll[n].pc = "lease" /\ poll[n].eff # NoKey
  /\ \/ poll[n].eff[1] = n /\ ~Valid(n) /\ ~MayReacquire(n)
     \/ poll[n].eff[1] # n /\ ~MayTakeOver(n)
  /\ poll' = [poll EXCEPT ![n] = Idle]
  /\ UNCHANGED <<now, sched, lease, claim, up, link, down, fresh, attempt, fired, left>>

(* Phase 2: an aged claim of mine that no peer contradicts *)
Aged(n, k) == now - claim[n][k].started > Visibility
Confirmed_NotDenied(n, w, A) == ~ShowsOther(n, w, A)
Confirmed(n, w, A) ==
  /\ ~ShowsOther(n, w, A)
  /\ Peers(n) = {} \/ AllDown(n) \/ ConfirmedMine(n, w, A)
DispatchClaim(n) ==
  /\ LeaseDue(n)
  /\ LET w == sched[n].next  k == <<w, n>>
     IN  /\ GetByUuid(n, w) = k /\ ~claim[n][k].fenced
         /\ ~claim[n][k].done =>
              Aged(n, k) /\ \E A \in SUBSET Asked(n) : Confirmed(n, w, A)
         /\ Begin(n, IF claim[n][k].done THEN "advance" ELSE "fire")
  /\ UNCHANGED <<now, sched, lease, claim, up, link, down, fresh, attempt, fired, left>>

(* TakeOverStaleClaim: fence every row of the window, then TryClaim, which  *)
(* finds the window taken.  A fence that changes nothing and overtakes no   *)
(* other copy is left out.                                                  *)
TakeOverClaim(n) ==
  /\ LeaseDue(n)
  /\ LET w == sched[n].next  k == GetByUuid(n, w)
     IN  /\ k # NoKey
         /\ k[2] # n \/ claim[n][k].fenced
         /\ AllDown(n)
         /\ ~claim[n][k].done
         /\ claim[n][k].started < now - (2 * Visibility + Grace)
         /\ \E j \in ClaimRows(n, w) :
              \/ ~claim[n][j].fenced
              \/ \E p \in Peers(n) : claim[p][j].ver > claim[n][j].ver
         /\ claim' = [claim EXCEPT ![n] = [j \in ClaimKey |->
              IF j \in ClaimRows(n, w)
              THEN [claim[n][j] EXCEPT !.fenced = TRUE,
                      !.ver = NextVer([p \in Node |-> claim[p][j]])]
              ELSE claim[n][j]]]
  /\ UNCHANGED <<now, sched, lease, up, link, down, fresh, attempt, poll, fired, left>>

(* The fire callback, Finish of the node's own row, and the state update *)
Fire(n) ==
  /\ poll[n].pc = "fire"
  /\ fired' = [fired EXCEPT ![poll[n].window][n] = IF @ < 2 THEN @ + 1 ELSE @]
  /\ Goto(n, "finish")
  /\ UNCHANGED <<now, sched, lease, claim, up, link, down, fresh, attempt, left>>

Finish(n) ==
  /\ poll[n].pc = "finish"
  /\ LET k == <<poll[n].window, n>>
     IN  IF claim[n][k].ver = 0 THEN UNCHANGED claim
         ELSE PutClaim(n, k, [claim[n][k] EXCEPT !.done = TRUE])
  /\ Goto(n, "advance")
  /\ UNCHANGED <<now, sched, lease, up, link, down, fresh, attempt, fired, left>>

(* ComputeNextFireImpl: the first minute after the poll that the cron       *)
(* expression names; a tick of the clock is a minute.                       *)
ComputeNextFire_SkipsOne(t) == t - (t % Period) + 2 * Period
ComputeNextFire(t) == t - (t % Period) + Period
Advance(n) ==
  /\ poll[n].pc = "advance"
  /\ LET last == MaxFires > 0 /\ poll[n].count + 1 >= MaxFires
     IN  sched' = [sched EXCEPT ![n] =
                     [next |-> IF last THEN poll[n].window
                               ELSE ComputeNextFire(poll[n].at),
                      enabled |-> ~last, count |-> poll[n].count + 1,
                      ver |-> NextVer(sched)]]
  /\ poll' = [poll EXCEPT ![n] = Idle]
  /\ UNCHANGED <<now, lease, claim, up, link, down, fresh, attempt, fired, left>>

(* Scheduler::ReleaseLease: every live row of the schedule expires *)
ReleaseLease(n) ==
  /\ up[n] /\ left.release > 0
  /\ left' = [left EXCEPT !.release = @ - 1]
  /\ \E k \in LeaseKey : lease[n][k].exp > now
  /\ lease' = [lease EXCEPT ![n] = [k \in LeaseKey |->
       IF lease[n][k].exp > now
       THEN [lease[n][k] EXCEPT !.exp = now,
               !.ver = NextVer([p \in Node |-> lease[p][k]])]
       ELSE lease[n][k]]]
  /\ UNCHANGED <<now, sched, claim, up, link, down, fresh, attempt, poll, fired>>

-----------------------------------------------------------------------------
(* Replication, peer states and the environment *)

Newer(mine, theirs) == IF theirs.ver > mine.ver THEN theirs ELSE mine
Pull(n, p) ==
  /\ up[n] /\ p \in Peers(n) /\ Reachable(n, p)
  /\ LET merged == [k \in ClaimKey |-> Newer(claim[n][k], claim[p][k])]
         hit == {k[1] : k \in {k \in ClaimKey : merged[k] # claim[n][k]}}
     IN  claim' = [claim EXCEPT ![n] = FenceRunUuid(n, merged, hit)]
  /\ lease' = [lease EXCEPT ![n] =
                 [k \in LeaseKey |-> Newer(lease[n][k], lease[p][k])]]
  /\ sched' = [sched EXCEPT ![n] = Newer(sched[n], sched[p])]
  /\ down' = [down EXCEPT ![n] = @ \ {p}]
  /\ fresh' = [fresh EXCEPT ![n] = IF Timely THEN @ \cup {p} ELSE {}]
  /\ UNCHANGED <<now, up, link, attempt, poll, fired, left>>

DetectDown(n, p) ==
  /\ up[n] /\ p \in Peers(n) \ down[n]
  /\ ~Reachable(n, p) /\ (FalseDown \/ ~up[p])
  /\ down' = [down EXCEPT ![n] = @ \cup {p}]
  /\ UNCHANGED <<now, sched, lease, claim, up, link, fresh, attempt, poll, fired, left>>

Crash(n) ==
  /\ up[n] /\ left.crash > 0
  /\ left' = [left EXCEPT !.crash = @ - 1]
  /\ up' = [up EXCEPT ![n] = FALSE]
  /\ down' = [down EXCEPT ![n] = {}]
  /\ attempt' = [attempt EXCEPT ![n] = NoTime]
  /\ poll' = [poll EXCEPT ![n] = Idle]
  /\ UNCHANGED <<now, sched, lease, claim, link, fresh, fired>>

Restart(n) ==
  /\ ~up[n]
  /\ up' = [up EXCEPT ![n] = TRUE]
  /\ UNCHANGED <<now, sched, lease, claim, link, down, fresh, attempt, poll, fired, left>>

Cut ==
  /\ link /\ left.cut > 0
  /\ left' = [left EXCEPT !.cut = @ - 1]
  /\ link' = FALSE
  /\ UNCHANGED <<now, sched, lease, claim, up, down, fresh, attempt, poll, fired>>

Mend ==
  /\ ~link /\ link' = TRUE
  /\ UNCHANGED <<now, sched, lease, claim, up, down, fresh, attempt, poll, fired, left>>

(* A timely deployment: between two ticks every node pulls from every peer  *)
(* it reaches, and no poll thread lingers between fire and state update.    *)
InTime ==
  \A n \in Node : up[n] =>
    /\ \A p \in Peers(n) : Reachable(n, p) => p \in fresh[n]
    /\ poll[n].pc \in {"idle", "lease"}
Tick ==
  /\ now < MaxTime
  /\ Timely => InTime
  /\ now' = now + 1
  /\ fresh' = [n \in Node |-> {}]
  /\ UNCHANGED <<sched, lease, claim, up, link, down, attempt, poll, fired, left>>

PollStep(n) ==
  \/ ClaimAndFire(n)
  \/ ClaimUnderHeldLease(n) \/ AskAboutLease(n)
  \/ FirstAcquisition(n) \/ HeldLease(n) \/ Reacquire(n) \/ TakeOverLease(n)
  \/ NoLeaseNow(n)
  \/ DispatchClaim(n) \/ TakeOverClaim(n)
  \/ Fire(n) \/ Finish(n) \/ Advance(n)

Next ==
  \/ \E n \in Node : PollStep(n) \/ ReleaseLease(n) \/ Crash(n) \/ Restart(n)
  \/ \E n, p \in Node : Pull(n, p) \/ DetectDown(n, p)
  \/ Cut \/ Mend \/ Tick

Spec == Init /\ [][Next]_vars

(* PollLoop polls for ever, and a crashed process is started again *)
FairSpec ==
  Spec /\ \A n \in Node : WF_vars(PollStep(n)) /\ WF_vars(Restart(n))

-----------------------------------------------------------------------------
(* Properties *)

(* Type invariant of the schedule, the stores and the poll loop. *)
TypeOK ==
  /\ now \in 0..MaxTime
  /\ \A n \in Node : sched[n].next \in 1..(MaxTime + Period)
  /\ lease \in [Node -> [LeaseKey -> [exp : 0..(MaxTime + TTL),
                                      renew : 0..MaxTime, ver : Nat]]]
  /\ claim \in [Node -> [ClaimKey -> [epoch : 0..MaxEpoch, started : 0..MaxTime,
                                      done : BOOLEAN, fenced : BOOLEAN,
                                      ver : Nat]]]
  /\ down \in [Node -> SUBSET Node]
  /\ attempt \in [Node -> {NoTime} \cup 0..MaxTime]
  /\ \A n \in Node : poll[n].pc \in {"idle", "lease", "fire", "finish", "advance"}

(* Two-phase dispatch elects one winner: no window is fired by two nodes,   *)
(* although both may acquire a lease and claim it at the same time          *)
(* (ProcessDueSchedules, the survivor rule of TaskRunStore).                *)
OneFiringNode ==
  \A w \in Window : Cardinality({n \in Node : fired[w][n] > 0}) <= 1

(* A claim is made before the fire and outlives a crash: a node fires an    *)
(* at-least-once window no more than once, however often it is restarted    *)
(* between claim, fire, finish and state update (TryClaim).                 *)
FiredOncePerNode == \A w \in Window : \A n \in Node : fired[w][n] <= 1

(* A schedule does not wedge on a window that has been processed: as long   *)
(* as it is enabled, a due window is left behind (ProcessDueSchedules).     *)
Overdue(n) == sched[n].enabled /\ sched[n].next <= now
NeverWedges == \A n \in Node : Overdue(n) ~> ~Overdue(n)

(* Whoever is fenced has lost to somebody: the row every node takes for the *)
(* survivor of a window is never fenced, so the window has somebody to fire *)
(* it (FenceRunUuid; TakeOverStaleClaim promises a fresh claim).            *)
SurvivorUnfenced ==
  \A n \in Node : \A w \in Window :
    LET k == GetByUuid(n, w)
    IN  k # NoKey => ~claim[n][k].fenced

(* The double-fire tripwire: when two nodes have fired a window (a cut or a *)
(* crash, taken for a dead peer) and the network has reconciled its rows,   *)
(* one of the claims is marked as fenced on every node, although a late     *)
(* Finish of the loser may overwrite the mark (FenceTaskRun after apply).   *)
DoubleFireSurfaces ==
  \A w \in Window :
    /\ Cardinality({n \in Node : fired[w][n] > 0}) > 1
    /\ \A n, p \in Node, c \in Node : claim[n][<<w, c>>] = claim[p][<<w, c>>]
    => \E n, c \in Node : claim[n][<<w, c>>].fenced

(* A window is left behind only when it has been processed: the schedule    *)
(* has been advanced past a claimed window only if somebody fired it        *)
(* (TaskRunStore's reading of a lost claim).                                *)
AdvancedMeansFired ==
  \A n \in Node : \A k \in ClaimKey :
    /\ claim[n][k].ver > 0 /\ sched[n].next > k[1]
    => \E p \in Node : fired[k[1]][p] > 0

(* A lease-required window is fired only under a valid lease of the node    *)
(* that fires it (the comment on ScheduleDescriptor::semantics).            *)
FiresUnderLease ==
  \A n \in Node : poll[n].pc = "fire" /\ Semantics = "lease_required"
    => LET k == EffectiveLease(n) IN k # NoKey /\ k[1] = n

(* Two leases of the same epoch are the mark of a symmetric takeover, never *)
(* of the first acquisition (the comment on ScheduleLeaseStore).            *)
FirstEpochUnique ==
  \A n \in Node : \A p \in Node \ {n} :
    ~(lease[n][<<n, 1>>].ver > 0 /\ lease[n][<<p, 1>>].ver > 0)

=============================================================================
