------------------------------ MODULE PeerSync ------------------------------
(***************************************************************************)
(* Federation of agent-global tables (kernel/data/SyncStore.cpp and        *)
(* kernel/PeerSyncService.cpp).  Every write of a replicated table fires a *)
(* trigger that stamps the row's version with (ms, origin) and appends a   *)
(* record to the node's outbox.  Each node runs one sync thread that pulls *)
(* the outboxes of its peers past a cursor and applies the records under   *)
(* "last writer wins" on the stamps.  While a record is applied, the row   *)
(* sync_control carries the stamp of the record, and triggers that fire on *)
(* that row use it in place of (now, this node): the echo of the change    *)
(* ties with the original on every node and dies.                          *)
(*                                                                         *)
(* One replicated table is modelled.  A row's contents are the number of   *)
(* the write that produced them.  The sync thread interleaves with local   *)
(* writes of other threads statement by statement, as each statement is a  *)
(* database transaction of its own.                                        *)
(***************************************************************************)
EXTENDS Integers, Sequences, FiniteSets, SequencesExt

CONSTANTS
  Node,           \* node ids, positive integers (ties are broken by node id)
  PeerList,       \* PeerList[n]: the peers n is configured to pull from
  Row,            \* the rows of the replicated table
  MaxMs,          \* bound: clocks read 1 .. MaxMs
  MaxWrites,      \* bound: local writes of all nodes together
  MaxCrashes,     \* bound: crashes of all nodes together
  MaxLosses,      \* bound: rows that vanish behind the triggers' back
  MaxFaults,      \* bound: failed HTTP exchanges
  MaxApplyFails,  \* bound: apply statements the database refuses
  MaxOutbox,      \* bound: local writes stop when an outbox is this long
  BatchLimit,     \* m_batchLimit
  MaxBatches,     \* batches per pass (50 in PullFromPeer)
  FailuresBeforeDown, \* m_failuresBeforeDown
  Digests,        \* nodes whose handshake reports digests (older ones do not)
  Clocks,         \* what is assumed of the clocks, see LocalStampAllowed
  Races           \* which local writes may hit a row being applied

ASSUME PeerSyncAssumption ==
  /\ Node \subseteq Nat \ {0} /\ IsFiniteSet(Node) /\ Cardinality(Node) > 1
  /\ IsFiniteSet(Row) /\ "none" \notin Row
  /\ PeerList \in [Node -> SUBSET Node]
  /\ \A n \in Node : PeerList[n] # {} /\ n \notin PeerList[n]
  /\ {MaxMs, MaxWrites, BatchLimit, MaxBatches, FailuresBeforeDown}
       \subseteq Nat \ {0}
  /\ {MaxCrashes, MaxLosses, MaxFaults, MaxApplyFails, MaxOutbox} \subseteq Nat
  /\ Digests \subseteq Node
  /\ Clocks \in {"synchronised", "monotone", "distinct", "free"}
  /\ Races \subseteq {"check", "context", "leftover"}

VARIABLES
  tab,      \* tab[n][r]: the row's contents at n, NoRow if there is none
  ver,      \* ver[n][r]: sync_row_versions, NoStamp if there is no entry
  outbox,   \* outbox[n]: sync_outbox, in id order
  ctx,      \* ctx[n]: the apply columns of sync_control
  saved,    \* saved[n][p]: sync_peer_state
  clock,    \* clock[n]: the latest time a trigger of n has read
  cur,      \* cur[n][p]: PeerState::cursor, in memory
  known,    \* known[n]: peers whose nodeId has been learned since the start
  health,   \* health[n][p]: PeerState::state
  fails,    \* fails[n][p]: consecutiveFailures, capped at FailuresBeforeDown
  pass,     \* pass[n]: where the sync thread of n stands in SyncOnce
  writes,   \* local writes so far
  left      \* environment events that may still happen

disk == <<tab, ver, outbox, ctx, saved>>
memory == <<cur, known, health, fails>>
vars == <<disk, memory, clock, pass, writes, left>>

-----------------------------------------------------------------------------
(* Stamps and records *)

NoRow == 0
NoStamp == <<-1, -1>>
NoCtx == [row |-> "none", stamp |-> NoStamp]
Older(s, t) == s[1] < t[1] \/ (s[1] = t[1] /\ s[2] < t[2])

Write == 1..MaxWrites
Stamp == (1..MaxMs) \X Node
Record == [row : Row, op : {"upsert", "delete"}, val : Write \cup {NoRow},
           stamp : Stamp]

(* The peer after p in m_peers, in a round *)
Least(S) == CHOOSE p \in S : \A q \in S : p <= q
NextPeer(n, p) ==
  LET later == {q \in PeerList[n] : q > p}
  IN  Least(IF later = {} THEN PeerList[n] ELSE later)

(* The row count that TableDigests reports *)
Count(n) == Cardinality({r \in Row : tab[n][r] # NoRow})

Idle(p) == [pc |-> "idle", peer |-> p, max |-> 0, count |-> 0, upto |-> 0,
            more |-> FALSE, batch |-> 0, applied |-> FALSE]

Init ==
  /\ tab = [n \in Node |-> [r \in Row |-> NoRow]]
  /\ ver = [n \in Node |-> [r \in Row |-> NoStamp]]
  /\ outbox = [n \in Node |-> <<>>]
  /\ ctx = [n \in Node |-> NoCtx]
  /\ saved = [n \in Node |-> [p \in Node |-> 0]]
  /\ clock = [n \in Node |-> 0]
  /\ cur = [n \in Node |-> [p \in Node |-> 0]]
  /\ known = [n \in Node |-> {}]
  /\ health = [n \in Node |-> [p \in Node |-> "connecting"]]
  /\ fails = [n \in Node |-> [p \in Node |-> 0]]
  /\ pass = [n \in Node |-> Idle(Least(PeerList[n]))]
  /\ writes = 0
  /\ left = [crash |-> MaxCrashes, loss |-> MaxLosses, fault |-> MaxFaults,
             apply |-> MaxApplyFails]

-----------------------------------------------------------------------------
(* Local writes and their triggers *)

(* The row the sync thread of n is busy with, and the record itself *)
Current(n) == outbox[pass[n].peer][cur[n][pass[n].peer] + 1]
Applying(n, r) == /\ pass[n].pc \in {"decided", "published", "written"}
                  /\ Current(n).row = r

(* A write racing the apply of its own row, by the kind of race *)
RaceAllowed(n, r) ==
  /\ (Applying(n, r) /\ ctx[n].row # r) => "check" \in Races
  /\ (Applying(n, r) /\ ctx[n].row = r) => "context" \in Races
  /\ (~Applying(n, r) /\ ctx[n].row = r) => "leftover" \in Races

(* The records of p that n has fetched                                      *)
Fetched(n, p) ==
  IF pass[n].peer = p /\ pass[n].pc \in {"apply", "decided", "published", "written", "cleared"}
  THEN pass[n].upto ELSE saved[n][p]

(* What the deployment's clocks guarantee of the time t a trigger reads:    *)
(* "distinct": later than the node's own last write; "monotone": also later *)
(* than the version it replaces; "synchronised": also later than any record *)
(* the node has fetched, so clocks differ by less than a record takes to    *)
(* travel; "free": only not earlier than the node's own last write.         *)
LocalStampAllowed(n, r, t) ==
  \/ /\ Clocks = "synchronised" /\ t > clock[n] /\ t > ver[n][r][1]
     /\ \A p \in PeerList[n] : \A k \in 1..Fetched(n, p) : t > outbox[p][k].stamp[1]
  \/ Clocks = "monotone" /\ t > clock[n] /\ t > ver[n][r][1]
  \/ Clocks = "distinct" /\ t > clock[n]
  \/ Clocks = "free"

(* SqliteStampMs, SqliteStampOrigin and animus_sync_upsert/_delete *)
StampFor_AlwaysLocal(n, r, t) == <<t, n>>
StampFor(n, r, t) == IF ctx[n].row = r THEN ctx[n].stamp ELSE <<t, n>>

(* What the triggers of an insert, update or delete leave behind; "t" is    *)
(* the clock they read.                                                     *)
Trigger(n, r, op, v, t) ==
  LET s == StampFor(n, r, t)
  IN  /\ tab' = [tab EXCEPT ![n][r] = v]
      /\ ver' = [ver EXCEPT ![n][r] = s]
      /\ outbox' = [outbox EXCEPT ![n] =
                      Append(@, [row |-> r, op |-> op, val |-> v, stamp |-> s])]

LocalWrite(n, r, op, v) ==
  /\ writes < MaxWrites
  /\ Len(outbox[n]) < MaxOutbox
  /\ RaceAllowed(n, r)
  /\ \E t \in {t \in 1..MaxMs : t >= clock[n]} :
       /\ LocalStampAllowed(n, r, t)
       /\ Trigger(n, r, op, v, t)
       /\ clock' = [clock EXCEPT ![n] = t]
  /\ writes' = writes + 1
  /\ UNCHANGED <<ctx, saved, memory, pass, left>>

LocalUpsert(n, r) == LocalWrite(n, r, "upsert", writes + 1)

(* DELETE of an absent row touches no row and fires no trigger *)
LocalDelete(n, r) == tab[n][r] # NoRow /\ LocalWrite(n, r, "delete", NoRow)

-----------------------------------------------------------------------------
(* SyncOnce: handshake, pull, apply *)

Goto(n, pc) == pass' = [pass EXCEPT ![n].pc = pc]
NextInRound(n) ==
  pass' = [pass EXCEPT ![n] = Idle(NextPeer(n, pass[n].peer))]

(* The failure branch of SyncOnce *)
ContactFailed(n, state) ==
  LET p == pass[n].peer
      f == IF fails[n][p] < FailuresBeforeDown THEN fails[n][p] + 1
           ELSE fails[n][p]
  IN  /\ fails' = [fails EXCEPT ![n][p] = f]
      /\ health' = [health EXCEPT ![n][p] =
                      IF state # "incompatible" /\ f >= FailuresBeforeDown
                      THEN "down" ELSE state]
      /\ NextInRound(n)

HandshakeFails(n) ==
  /\ pass[n].pc = "idle"
  /\ left.fault > 0
  /\ left' = [left EXCEPT !.fault = @ - 1]
  /\ \E s \in {health[n][pass[n].peer], "incompatible"} : ContactFailed(n, s)
  /\ UNCHANGED <<disk, cur, known, clock, writes>>

(* A restarted node adopts the cursor it has saved *)
Adopted(n, p) == IF p \in known[n] THEN cur[n][p] ELSE saved[n][p]

Handshake(n) ==
  /\ pass[n].pc = "idle"
  /\ LET p == pass[n].peer
     IN  /\ cur' = [cur EXCEPT ![n][p] = Adopted(n, p)]
         /\ known' = [known EXCEPT ![n] = @ \cup {p}]
         /\ pass' = [pass EXCEPT ![n].pc = "fetch",
                                 ![n].max = IF p \in Digests
                                            THEN Len(outbox[p]) ELSE 0,
                                 ![n].count = IF p \in Digests THEN Count(p)
                                              ELSE 0]
  /\ UNCHANGED <<disk, health, fails, clock, writes, left>>

(* GET /api/v1/sync/outbox?since=cursor&limit=batch *)
FetchOutboxSince(n) ==
  /\ pass[n].pc = "fetch"
  /\ LET p == pass[n].peer
         last == IF cur[n][p] + BatchLimit < Len(outbox[p])
                 THEN cur[n][p] + BatchLimit
                 ELSE Len(outbox[p])
     IN  pass' = [pass EXCEPT ![n].pc = "apply",
                              ![n].upto = last,
                              ![n].more = last < Len(outbox[p]),
                              ![n].batch = @ + 1]
  /\ UNCHANGED <<disk, memory, clock, writes, left>>

(* A failed fetch ends the pull; it is a failed pass only if nothing has    *)
(* been applied in this pass.                                               *)
FetchFails(n) ==
  /\ pass[n].pc = "fetch"
  /\ left.fault > 0
  /\ left' = [left EXCEPT !.fault = @ - 1]
  /\ IF pass[n].applied
     THEN Goto(n, "finish") /\ UNCHANGED <<health, fails>>
     ELSE ContactFailed(n, health[n][pass[n].peer])
  /\ UNCHANGED <<disk, cur, known, clock, writes>>

MoreToApply(n) == cur[n][pass[n].peer] < pass[n].upto

(* ApplyRemoteChange: stale, echo or tie, except that the delete of a tie   *)
(* at a third node wins.                                                    *)
TieDeleteWins(n, rec) ==
  /\ rec.op = "delete"
  /\ rec.stamp = ver[n][rec.row]
  /\ rec.stamp[2] # n
Wins_TiesToo(n, rec) == ~Older(rec.stamp, ver[n][rec.row])
Wins_ByNode(n, rec) == rec.stamp[1] > ver[n][rec.row][1]
Wins(n, rec) == Older(ver[n][rec.row], rec.stamp) \/ TieDeleteWins(n, rec)

(* The cursor moves in memory and on disk after every record *)
CursorTo(n, k) ==
  /\ cur' = [cur EXCEPT ![n][pass[n].peer] = k]
  /\ saved' = [saved EXCEPT ![n][pass[n].peer] = k]

Skip_NotSaved(n) ==
  /\ pass[n].pc = "apply" /\ MoreToApply(n)
  /\ ~Wins(n, Current(n))
  /\ cur' = [cur EXCEPT ![n][pass[n].peer] = @ + 1]
  /\ UNCHANGED <<tab, ver, outbox, ctx, saved, known, health, fails, clock, pass,
                 writes, left>>
Skip(n) ==
  /\ pass[n].pc = "apply" /\ MoreToApply(n)
  /\ ~Wins(n, Current(n))
  /\ CursorTo(n, cur[n][pass[n].peer] + 1)
  /\ UNCHANGED <<tab, ver, outbox, ctx, known, health, fails, clock, pass,
                 writes, left>>

Decide(n) ==
  /\ pass[n].pc = "apply" /\ MoreToApply(n)
  /\ Wins(n, Current(n))
  /\ Goto(n, "decided")
  /\ UNCHANGED <<disk, memory, clock, writes, left>>

PublishContext(n) ==
  /\ pass[n].pc = "decided"
  /\ ctx' = [ctx EXCEPT ![n] = [row |-> Current(n).row,
                                stamp |-> Current(n).stamp]]
  /\ Goto(n, "published")
  /\ UNCHANGED <<tab, ver, outbox, saved, memory, clock, writes, left>>

(* ApplyUpsert, ApplyDelete: the triggers fire with the published stamp; a  *)
(* delete that finds no row fires none.                                     *)
ApplyStatement(n) ==
  /\ pass[n].pc = "published"
  /\ LET rec == Current(n)
     IN  IF rec.op = "delete" /\ tab[n][rec.row] = NoRow
         THEN UNCHANGED <<tab, ver, outbox>>
         ELSE Trigger(n, rec.row, rec.op, rec.val, clock[n])
  /\ pass' = [pass EXCEPT ![n].pc = "written", ![n].applied = TRUE]
  /\ UNCHANGED <<ctx, saved, memory, clock, writes, left>>

ApplyFails(n) ==
  /\ pass[n].pc = "published"
  /\ left.apply > 0
  /\ left' = [left EXCEPT !.apply = @ - 1]
  /\ Goto(n, "written")
  /\ UNCHANGED <<disk, memory, clock, writes>>

ClearContext(n) ==
  /\ pass[n].pc = "written"
  /\ ctx' = [ctx EXCEPT ![n] = NoCtx]
  /\ Goto(n, "cleared")
  /\ UNCHANGED <<tab, ver, outbox, saved, memory, clock, writes, left>>

AdvanceCursor_Twice(n) ==
  /\ pass[n].pc = "cleared"
  /\ CursorTo(n, cur[n][pass[n].peer] + 2)
  /\ Goto(n, "apply")
  /\ UNCHANGED <<tab, ver, outbox, ctx, known, health, fails, clock, writes,
                 left>>
AdvanceCursor_BatchEnd(n) ==
  /\ pass[n].pc = "cleared"
  /\ CursorTo(n, pass[n].upto)
  /\ Goto(n, "apply")
  /\ UNCHANGED <<tab, ver, outbox, ctx, known, health, fails, clock, writes,
                 left>>
AdvanceCursor(n) ==
  /\ pass[n].pc = "cleared"
  /\ CursorTo(n, cur[n][pass[n].peer] + 1)
  /\ Goto(n, "apply")
  /\ UNCHANGED <<tab, ver, outbox, ctx, known, health, fails, clock, writes,
                 left>>

EndBatch(n) ==
  /\ pass[n].pc = "apply" /\ ~MoreToApply(n)
  /\ Goto(n, IF pass[n].more /\ pass[n].batch < MaxBatches THEN "fetch"
             ELSE "finish")
  /\ UNCHANGED <<disk, memory, clock, writes, left>>

-----------------------------------------------------------------------------
(* SyncOnce: end of a pass and anti-entropy *)

Contacted(n) ==
  LET p == pass[n].peer
  IN  /\ health' = [health EXCEPT ![n][p] = "healthy"]
      /\ fails' = [fails EXCEPT ![n][p] = 0]

(* The peer's outbox is consumed and yet it reports more rows than we have *)
Short_Never(n) == FALSE
Short(n) ==
  LET p == pass[n].peer
  IN  /\ p \in Digests
      /\ cur[n][p] > 0
      /\ cur[n][p] >= pass[n].max
      /\ Count(n) < pass[n].count

FinishPass(n) ==
  /\ pass[n].pc = "finish" /\ ~Short(n)
  /\ Contacted(n)
  /\ NextInRound(n)
  /\ UNCHANGED <<disk, cur, known, clock, writes, left>>

(* ClearTableVersions, then the cursors back to 0 *)
HealClear_KeepsVersions(n) ==
  /\ pass[n].pc = "finish" /\ Short(n)
  /\ Contacted(n)
  /\ Goto(n, "rewind")
  /\ UNCHANGED <<disk, cur, known, clock, writes, left>>
HealClear(n) ==
  /\ pass[n].pc = "finish" /\ Short(n)
  /\ Contacted(n)
  /\ ver' = [ver EXCEPT ![n] = [r \in Row |-> NoStamp]]
  /\ Goto(n, "rewind")
  /\ UNCHANGED <<tab, outbox, ctx, saved, cur, known, clock, writes, left>>

HealRewind(n) ==
  /\ pass[n].pc = "rewind"
  /\ CursorTo(n, 0)
  /\ NextInRound(n)
  /\ UNCHANGED <<tab, ver, outbox, ctx, known, health, fails, clock, writes,
                 left>>

-----------------------------------------------------------------------------
(* The environment *)

(* The process dies and is started again: memory is lost, the disk is not.  *)
(* EnsureSchema keeps the row of sync_control as it is.                     *)
Crash(n) ==
  /\ left.crash > 0
  /\ left' = [left EXCEPT !.crash = @ - 1]
  /\ cur' = [cur EXCEPT ![n] = [p \in Node |-> 0]]
  /\ known' = [known EXCEPT ![n] = {}]
  /\ health' = [health EXCEPT ![n] = [p \in Node |-> "connecting"]]
  /\ fails' = [fails EXCEPT ![n] = [p \in Node |-> 0]]
  /\ pass' = [pass EXCEPT ![n] = Idle(Least(PeerList[n]))]
  /\ UNCHANGED <<disk, clock, writes>>

(* A partial restore: the row is gone, its version and the cursors are not *)
LoseRow(n, r) ==
  /\ left.loss > 0
  /\ tab[n][r] # NoRow
  /\ left' = [left EXCEPT !.loss = @ - 1]
  /\ tab' = [tab EXCEPT ![n][r] = NoRow]
  /\ UNCHANGED <<ver, outbox, ctx, saved, memory, clock, pass, writes>>

SyncStep(n) ==
  \/ Handshake(n) \/ FetchOutboxSince(n)
  \/ Skip(n) \/ Decide(n) \/ PublishContext(n) \/ ApplyStatement(n)
  \/ ClearContext(n) \/ AdvanceCursor(n) \/ EndBatch(n)
  \/ FinishPass(n) \/ HealClear(n) \/ HealRewind(n)

Next ==
  \E n \in Node :
    \/ SyncStep(n)
    \/ HandshakeFails(n) \/ FetchFails(n) \/ ApplyFails(n) \/ Crash(n)
    \/ \E r \in Row : LocalUpsert(n, r) \/ LocalDelete(n, r) \/ LoseRow(n, r)

Spec == Init /\ [][Next]_vars

(* RunLoop calls SyncOnce for ever; failures are bounded, not fair *)
FairSpec == Spec /\ \A n \in Node : WF_vars(SyncStep(n))

-----------------------------------------------------------------------------
(* Properties *)

(* Type invariant: the records, stamps and cursors the code stores are of   *)
(* the shapes its schema declares, and cursors stay inside the outboxes.    *)
TypeOK ==
  /\ tab \in [Node -> [Row -> Write \cup {NoRow}]]
  /\ ver \in [Node -> [Row -> Stamp \cup {NoStamp}]]
  /\ \A n \in Node : outbox[n] \in Seq(Record)
  /\ ctx \in [Node -> [row : Row \cup {"none"}, stamp : Stamp \cup {NoStamp}]]
  /\ \A n, p \in Node : saved[n][p] \in 0..Len(outbox[p])
                        /\ cur[n][p] \in 0..Len(outbox[p])
  /\ health \in [Node -> [Node -> {"connecting", "healthy", "down",
                                   "incompatible"}]]
  /\ fails \in [Node -> [Node -> 0..FailuresBeforeDown]]
  /\ \A n \in Node : pass[n].peer \in PeerList[n]

(* Last writer wins: a node's outbox, which records everything that ever    *)
(* happened to a row there, lists the changes of one row by strictly        *)
(* growing (ms, origin), or the delete of a tie after its upsert.  So an    *)
(* older change never replaces a newer one, whatever the peers it came      *)
(* through, and an echo never enters an outbox a second time                *)
(* (ApplyRemoteChange).                                                     *)
HistoryOrdered ==
  \A n \in Node : \A j \in DOMAIN outbox[n] : \A i \in 1..(j - 1) :
    LET a == outbox[n][i]  b == outbox[n][j]
    IN  a.row = b.row => \/ Older(a.stamp, b.stamp)
                         \/ a.stamp = b.stamp /\ a.op = "upsert"
                            /\ b.op = "delete"

(* A saved cursor never runs ahead of what has been applied: every upsert   *)
(* at or before it is covered by the row's version, so a restart that       *)
(* resumes from it misses nothing (PullFromPeer, GetPeerCursor).            *)
CursorCovers ==
  \A n \in Node : \A p \in PeerList[n] : \A k \in 1..saved[n][p] :
    LET rec == outbox[p][k]
    IN  rec.op = "upsert" => ~Older(ver[n][rec.row], rec.stamp)

(* The state is of its types, and its cursors cover what they passed.       *)
CursorsSound == TypeOK /\ CursorCovers

(* Every outbox has been consumed by every peer, and no replay is due *)
Quiescent ==
  \A n \in Node : /\ pass[n].pc # "rewind"
                  /\ \A p \in PeerList[n] : saved[n][p] = Len(outbox[p])
Agreed == \A n, p \in Node : tab[n] = tab[p]

(* When everybody has consumed every outbox and the newest version of a row *)
(* is an upsert, every node holds the row as that upsert left it            *)
(* (ApplyRemoteChange).                                                     *)
NewestReaches ==
  Quiescent =>
    \A n \in Node : \A r \in Row :
      tab[n][r] # NoRow /\ (\A m \in Node : ~Older(ver[n][r], ver[m][r]))
        => \A m \in Node : tab[m][r] = tab[n][r]

(* The node has the delete rec or something newer, or no such row.          *)
Gone(n, rec) == ~Older(ver[n][rec.row], rec.stamp) \/ tab[n][rec.row] = NoRow

(* What has been delivered stays: the newest upsert is everywhere, and a    *)
(* delete whose record a node has passed is not undone there by an older    *)
(* upsert (PullFromPeer, ApplyRemoteChange).                                *)
Delivered ==
  /\ NewestReaches
  /\ \A n \in Node : \A p \in PeerList[n] : \A k \in 1..saved[n][p] :
       outbox[p][k].op = "delete" => Gone(n, outbox[p][k])

(* "so the network converges without coordination" (SyncStore.h:21): when   *)
(* everybody has consumed every outbox, all nodes hold the same rows.  It   *)
(* takes two nodes with synchronised clocks: a delete that finds no row     *)
(* fires no trigger, so it leaves no version that a late, older upsert      *)
(* would lose to, and no record for the next node.                          *)
Converged == Quiescent => Agreed

(* Echoes die: once the writes stop, the outboxes stop growing and every    *)
(* cursor reaches the end, in spite of crashes, failed exchanges and failed *)
(* applies (PullFromPeer's defer-don't-block policy).                       *)
Quiesces == <>[]Quiescent

(* Anti-entropy: rows lost behind the triggers' back come back, and in the  *)
(* end all nodes agree for good (the heal branch of SyncOnce).              *)
HealRestores == <>[]Agreed

(* Both: the traffic dies down and the rows agree, whatever was lost,       *)
(* failed or crashed on the way (PullFromPeer, SyncOnce).                   *)
Recovers == Quiesces /\ HealRestores

-----------------------------------------------------------------------------
(* Topologies for the instances.  Everybody pulls from everybody:           *)
FullMesh == [n \in Node |-> Node \ {n}]

(* Everybody pulls from one neighbour: changes travel as echoes only.       *)
Ring == [n \in Node |-> {IF n = 1 THEN Cardinality(Node) ELSE n - 1}]
=============================================================================
