------------------------ MODULE ScheduleEditsProofs ------------------------
(***************************************************************************)
(* Proofs about ScheduleEdits, for any schedules and any bounds: whatever  *)
(* the poll thread, the admin PUT and the tool write back of the rows they *)
(* have read, no window is dispatched twice and a deleted schedule stays   *)
(* deleted.                                                                *)
(***************************************************************************)
EXTENDS ScheduleEdits, Integers, TLAPS

Bounds == MaxClock \in Nat \ {0} /\ {MaxEdits, MaxFires, MaxCrashes} \subseteq Nat

\* NoRow is no row, and a stored row is one.
LEMMA NoRowIsNone == NoRow \notin Row
<1>1. \A r \in Row : DOMAIN r = {"id", "enabled", "recurring", "due", "cron", "fires", "max", "ver"}
  BY DEF Row
<1>2. DOMAIN NoRow = {"id"}
  BY DEF NoRow
<1>3. {"id"} # {"id", "enabled", "recurring", "due", "cron", "fires", "max", "ver"}
  OBVIOUS
<1> QED
  BY <1>1, <1>2, <1>3

\* The types, with the states of a cancellation under a name.
Reports == {"none", "executed", "done", "not found"}
Typed ==
  /\ clock \in 1..MaxClock /\ rows \in [Ids -> Row \cup {NoRow}] /\ used \subseteq Ids
  /\ pass \subseteq Row /\ cur \in Row \cup {NoRow}
  /\ runs \subseteq (Ids \X Times) /\ fired \in [Ids \X Times -> Nat]
  /\ put \in Row \cup {NoRow} /\ edits \in 0..MaxEdits /\ asked \in [Ids -> 0..MaxEdits]
  /\ changes \in 0..1 /\ cancel \in [Ids -> Reports]
  /\ late \in [Ids -> Nat] /\ crashes \in 0..MaxCrashes

\* A row is stored under its own id, of an id given out and not canceled.
RowsAtHome ==
  \A i \in Ids : Stored(i) => rows[i].id = i /\ i \in used /\ cancel[i] = "none"

\* A pass has one row of an id at most, and an id it has was given out; the row being
\* dispatched is below the bound of the fires.
PassInv ==
  /\ \A r, s \in pass : r.id = s.id => r = s
  /\ \A r \in pass : r.id \in used
  /\ cur # NoRow => cur.fires < MaxFires

\* A canceled id was given out; what it was dispatched late is in no pass any more.
CancelInv ==
  \A i \in Ids :
    /\ i \notin used => cancel[i] = "none"
    /\ cancel[i] = "none" => late[i] = 0
    /\ late[i] <= 1
    /\ late[i] = 1 => \A r \in pass : r.id # i

\* A window is dispatched with its claim.
ClaimedOnce ==
  \A w \in Ids \X Times : fired[w] <= 1 /\ (w \notin runs => fired[w] = 0)

SchedInv == Typed /\ RowsAtHome /\ PassInv /\ CancelInv /\ ClaimedOnce

\* The invariant holds of the empty table.
LEMMA SchedInvInit ==
  ASSUME Bounds
  PROVE  SchedInit => SchedInv
<1> SUFFICES ASSUME SchedInit PROVE SchedInv
  OBVIOUS
<1>1. Typed
  BY DEF SchedInit, Typed, Reports, Bounds
<1>2. RowsAtHome /\ PassInv /\ CancelInv /\ ClaimedOnce
  BY DEF SchedInit, RowsAtHome, PassInv, CancelInv, ClaimedOnce, Stored
<1> QED
  BY <1>1, <1>2 DEF SchedInv

\* The next fire is a time of the run.
LEMMA NextFireTyped ==
  ASSUME Bounds, clock \in 1..MaxClock, NEW c
  PROVE  ComputeNextFire(c) \in Times
  BY DEF Bounds, ComputeNextFire, Times, Empty

\* An UPDATE keeps the table in order: it writes a row of an id that has one.
LEMMA UpdateKeeps ==
  ASSUME Typed, RowsAtHome, NEW row \in Row, Updated(row)
  PROVE  /\ rows' \in [Ids -> Row \cup {NoRow}] /\ changes' \in 0..1
         /\ \A i \in Ids : rows'[i] # NoRow => rows'[i].id = i /\ Stored(i)
<1>1. row.id \in Ids /\ row # NoRow
  BY NoRowIsNone DEF Row
<1>2. rows \in [Ids -> Row \cup {NoRow}] /\ \A i \in Ids : rows[i] # NoRow => rows[i].id = i
  BY DEF Typed, RowsAtHome, Stored
<1>3. CASE rows[row.id] # NoRow
  <2>1. rows' = [rows EXCEPT ![row.id] = row] /\ changes' = 1
    BY <1>3 DEF Updated, Stored
  <2> QED
    BY <1>1, <1>2, <1>3, <2>1 DEF Stored
<1>4. CASE rows[row.id] = NoRow
  BY <1>2, <1>4 DEF Updated, Stored
<1> QED
  BY <1>3, <1>4

\* Steps that touch neither the table, the pass nor the dispatches.
LEMMA QuietSteps ==
  ASSUME SchedInv, UNCHANGED <<rows, used, pass, cur, runs, fired, cancel, late>>
  PROVE  RowsAtHome' /\ PassInv' /\ CancelInv' /\ ClaimedOnce'
  BY DEF SchedInv, RowsAtHome, PassInv, CancelInv, ClaimedOnce, Stored

\* Steps of the tool and the administrator.
LEMMA EditsKeep ==
  ASSUME Bounds, SchedInv, NEW i \in Ids,
         \/ \E r \in BOOLEAN, c \in {"none", "every"} : Create(i, r, c)
         \/ SetExisting(i) \/ CancelDeletes(i) \/ CancelReports(i) \/ PutReads(i)
  PROVE  SchedInv'
<1> USE DEF Bounds
<1>0. Typed /\ RowsAtHome /\ PassInv /\ CancelInv /\ ClaimedOnce
  BY DEF SchedInv
<1>1. ASSUME NEW r \in BOOLEAN, NEW c \in {"none", "every"}, Create(i, r, c) PROVE SchedInv'
  <2> DEFINE due == IF c = "none" THEN clock ELSE ComputeNextFire(c)
             rec == r \/ c # "none"
             max == IF rec THEN 0 ELSE 1
             new == [id |-> i, enabled |-> TRUE, recurring |-> rec, due |-> due, cron |-> c,
                     fires |-> 0, max |-> max, ver |-> 0]
  <2>1. due \in Times
    BY <1>0, NextFireTyped DEF Typed, Times, Empty
  <2>2. rows' = [rows EXCEPT ![i] = new]
    BY <1>1 DEF Create
  <2>3. i \notin used /\ used' = used \cup {i}
    BY <1>1 DEF Create
  <2>4. rec \in BOOLEAN /\ max \in 0..1
    OBVIOUS
  <2> HIDE DEF due, rec, max
  <2>5. new \in Row /\ new.id = i
    BY <2>1, <2>4 DEF Row
  <2>6. new # NoRow
    BY <2>5, NoRowIsNone
  <2> HIDE DEF new
  <2>7. Typed'
    <3>1. /\ changes' = 1
          /\ UNCHANGED <<clock, pass, cur, runs, fired, put, edits, asked, cancel, late, crashes>>
      BY <1>1 DEF Create
    <3> QED
      BY <1>0, <2>2, <2>3, <2>5, <3>1 DEF Typed
  <2>8. RowsAtHome'
    BY <1>0, <1>1, <2>2, <2>3, <2>5 DEF Create, RowsAtHome, Stored, CancelInv, Typed
  <2>9. PassInv' /\ CancelInv' /\ ClaimedOnce'
    BY <1>0, <1>1, <2>3 DEF Create, PassInv, CancelInv, ClaimedOnce
  <2> QED
    BY <2>7, <2>8, <2>9 DEF SchedInv
<1>2. CASE SetExisting(i)
  <2>1. Typed'
    BY <1>0, <1>2 DEF SetExisting, Typed
  <2> QED
    BY <1>2, <2>1, QuietSteps DEF SetExisting, SchedInv
<1>3. CASE CancelDeletes(i)
  <2>1. /\ cancel' = [cancel EXCEPT ![i] = "executed"] /\ rows' = [rows EXCEPT ![i] = NoRow]
        /\ i \in used /\ cancel[i] = "none"
        /\ changes' \in 0..1
        /\ UNCHANGED <<clock, used, pass, cur, runs, fired, put, edits, asked, late, crashes>>
    BY <1>3 DEF CancelDeletes
  <2>2. Typed'
    BY <1>0, <2>1 DEF Typed, Reports
  <2>3. RowsAtHome'
    BY <1>0, <2>1 DEF RowsAtHome, Stored, Typed
  <2>4. PassInv' /\ ClaimedOnce'
    BY <1>0, <2>1 DEF PassInv, ClaimedOnce
  <2>5. CancelInv'
    BY <1>0, <2>1 DEF CancelInv, Typed
  <2> QED
    BY <2>2, <2>3, <2>4, <2>5 DEF SchedInv
<1>4. CASE CancelReports(i)
  <2>1. PICK x \in {"not found", "done"} : cancel' = [cancel EXCEPT ![i] = x]
    BY <1>4 DEF CancelReports
  <2>2. /\ cancel[i] = "executed"
        /\ UNCHANGED <<clock, rows, used, pass, cur, runs, fired, put, edits, asked, changes,
                       late, crashes>>
    BY <1>4 DEF CancelReports
  <2>3. Typed'
    BY <1>0, <2>1, <2>2 DEF Typed, Reports
  <2>4. RowsAtHome'
    BY <1>0, <2>1, <2>2 DEF RowsAtHome, Stored, Typed
  <2>5. PassInv' /\ ClaimedOnce'
    BY <1>0, <2>2 DEF PassInv, ClaimedOnce
  <2>6. CancelInv'
    BY <1>0, <2>1, <2>2 DEF CancelInv, Typed
  <2> QED
    BY <2>3, <2>4, <2>5, <2>6 DEF SchedInv
<1>5. CASE PutReads(i)
  <2>1. Typed'
    BY <1>0, <1>5 DEF PutReads, Typed, Stored
  <2> QED
    BY <1>5, <2>1, QuietSteps DEF PutReads, SchedInv
<1> QED
  BY <1>1, <1>2, <1>3, <1>4, <1>5

\* The write of a PUT.
LEMMA PutKeeps ==
  ASSUME Bounds, SchedInv, put # NoRow, NEW e \in BOOLEAN, NEW c \in {"none", "every", "never"},
         NEW m \in 0..1, NEW d \in {put.due, clock}, PutWrites(e, c, m, d)
  PROVE  SchedInv'
<1> USE DEF Bounds
<1>0. Typed /\ RowsAtHome /\ PassInv /\ CancelInv /\ ClaimedOnce
  BY DEF SchedInv
<1> DEFINE patched == [put EXCEPT !.enabled = e, !.cron = c, !.max = m, !.due = d,
                                  !.ver = edits + 1]
           row == IF put.recurring /\ c # "none"
                  THEN [patched EXCEPT !.due = ComputeNextFire(c)] ELSE patched
<1>1. put \in Row /\ put.id \in Ids /\ d \in Times
  BY <1>0 DEF Typed, Row, Times, Empty
<1>2. edits + 1 \in 0..MaxEdits
  BY <1>0 DEF PutWrites, Typed
<1>3. patched \in Row
  BY <1>1, <1>2 DEF Row
<1>4. ComputeNextFire(c) \in Times
  BY <1>0, NextFireTyped DEF Typed
<1>5. Updated(row)
  BY DEF PutWrites
<1> HIDE DEF patched
<1>6. row \in Row
  <2>1. \A t \in Times : [patched EXCEPT !.due = t] \in Row
    BY <1>3 DEF Row
  <2> QED
    BY <1>3, <1>4, <2>1
<1> HIDE DEF row
<1>7. /\ rows' \in [Ids -> Row \cup {NoRow}] /\ changes' \in 0..1
      /\ \A i \in Ids : rows'[i] # NoRow => rows'[i].id = i /\ Stored(i)
  BY <1>0, <1>5, <1>6, UpdateKeeps
<1>8. /\ put' = NoRow /\ edits' = edits + 1 /\ asked' = [asked EXCEPT ![put.id] = edits']
      /\ UNCHANGED <<clock, used, pass, cur, runs, fired, cancel, late, crashes>>
  BY DEF PutWrites
<1>9. Typed'
  BY <1>0, <1>1, <1>2, <1>7, <1>8 DEF Typed
<1>10. RowsAtHome'
  BY <1>0, <1>7, <1>8 DEF RowsAtHome, Stored
<1>11. PassInv' /\ CancelInv' /\ ClaimedOnce'
  BY <1>0, <1>8 DEF PassInv, CancelInv, ClaimedOnce
<1> QED
  BY <1>9, <1>10, <1>11 DEF SchedInv

\* The window of a row of the pass is one of the run.
LEMMA WindowTyped ==
  ASSUME Bounds, Typed, NEW row \in pass
  PROVE  row \in Row /\ row.id \in Ids /\ Window(row) \in Ids \X Times
<1>1. row \in Row /\ clock \in Times
  BY DEF Typed, Bounds, Times, Empty
<1>2. row.id \in Ids /\ row.due \in Times
  BY <1>1 DEF Row
<1> QED
  BY <1>1, <1>2 DEF Window

\* A dispatch: the row leaves the pass, and the window has its claim.
LEMMA FireKeeps ==
  ASSUME Bounds, SchedInv, NEW row \in pass, Fire(row)
  PROVE  SchedInv'
<1> USE DEF Bounds
<1>0. Typed /\ RowsAtHome /\ PassInv /\ CancelInv /\ ClaimedOnce
  BY DEF SchedInv
<1>1. row \in Row /\ row.id \in Ids /\ Window(row) \in Ids \X Times
  BY <1>0, WindowTyped
<1>2. /\ cur' = row /\ pass' = pass \ {row} /\ row.fires < MaxFires
      /\ UNCHANGED <<clock, rows, used, put, edits, asked, cancel, crashes>>
  BY DEF Fire
<1> DEFINE w == Window(row)  id == row.id
<1>3. \/ UNCHANGED <<runs, fired, late, changes>>
      \/ /\ w \notin runs /\ runs' = runs \cup {w}
         /\ fired' = [fired EXCEPT ![w] = @ + 1]
         /\ late' = IF cancel[id] = "none" THEN late ELSE [late EXCEPT ![id] = @ + 1]
         /\ changes' = 1
  BY DEF Fire, TryClaim
<1> HIDE DEF w
<1>4. w \in Ids \X Times
  BY <1>1 DEF w
<1>5. Typed'
  <2>1. /\ runs' \subseteq Ids \X Times /\ fired' \in [Ids \X Times -> Nat]
        /\ changes' \in 0..1 /\ late' \in [Ids -> Nat]
    BY <1>0, <1>1, <1>3, <1>4 DEF Typed
  <2> QED
    BY <1>0, <1>1, <1>2, <2>1 DEF Typed
<1>6. RowsAtHome'
  BY <1>0, <1>2 DEF RowsAtHome, Stored
<1>7. PassInv'
  BY <1>0, <1>2 DEF PassInv
<1>8. ClaimedOnce'
  BY <1>0, <1>3, <1>4 DEF ClaimedOnce, Typed
<1>9. CancelInv'
  <2>1. late[id] = 0
    <3>1. late[id] # 1 /\ late[id] <= 1
      BY <1>0, <1>1 DEF CancelInv
    <3>2. late[id] \in Nat
      BY <1>0, <1>1 DEF Typed
    <3> QED
      BY <3>1, <3>2
  <2>2. \A r \in pass' : r.id # id
    BY <1>0, <1>2 DEF PassInv
  <2>3. \/ late' = late
        \/ cancel[id] # "none" /\ late' = [late EXCEPT ![id] = 1]
    BY <1>3, <2>1
  <2> QED
    BY <1>0, <1>1, <1>2, <2>2, <2>3 DEF CancelInv, Typed
<1> QED
  BY <1>5, <1>6, <1>7, <1>8, <1>9 DEF SchedInv

\* Reading the due rows, the state update, the clock and a crash.
LEMMA PollKeeps ==
  ASSUME Bounds, SchedInv, GetDueSchedules \/ Advance \/ Tick \/ Crash
  PROVE  SchedInv'
<1> USE DEF Bounds
<1>0. Typed /\ RowsAtHome /\ PassInv /\ CancelInv /\ ClaimedOnce
  BY DEF SchedInv
<1>1. CASE GetDueSchedules
  <2>1. /\ pass' \subseteq {rows[i] : i \in {j \in Ids : Stored(j)}} /\ cur = NoRow
        /\ UNCHANGED <<clock, rows, used, cur, runs, fired, put, edits, asked, changes, cancel,
                       late, crashes>>
    BY <1>1 DEF GetDueSchedules, Due
  <2>2. \A r \in pass' : \E i \in Ids : r = rows[i] /\ Stored(i)
    BY <2>1
  <2>3. pass' \subseteq Row
    BY <1>0, <2>2 DEF Typed, Stored
  <2>4. Typed'
    BY <1>0, <2>1, <2>3 DEF Typed
  <2>5. RowsAtHome' /\ ClaimedOnce'
    BY <1>0, <2>1 DEF RowsAtHome, Stored, ClaimedOnce
  <2>6. PassInv'
    BY <1>0, <2>1, <2>2 DEF RowsAtHome, PassInv
  <2>7. CancelInv'
    BY <1>0, <2>1, <2>2 DEF RowsAtHome, CancelInv
  <2> QED
    BY <2>4, <2>5, <2>6, <2>7 DEF SchedInv
<1>2. CASE Advance
  <2> DEFINE row == Advanced(cur)
  <2>1. cur \in Row /\ cur.fires < MaxFires
    BY <1>0, <1>2 DEF Advance, Typed, PassInv
  <2>2. row \in Row
    <3> DEFINE fires == cur.fires + 1
               over == ~cur.recurring \/ (cur.max > 0 /\ fires >= cur.max)
               en == IF over THEN FALSE ELSE cur.enabled
               due == IF over THEN cur.due ELSE ComputeNextFire(cur.cron)
    <3>1. row = [cur EXCEPT !.fires = fires, !.enabled = en, !.due = due]
      BY DEF Advanced
    <3>2. fires \in 0..MaxFires
      BY <2>1 DEF Row
    <3>3. en \in BOOLEAN /\ due \in Times
      BY <1>0, <2>1, NextFireTyped DEF Row, Typed
    <3> HIDE DEF row, fires, en, due
    <3> QED
      BY <2>1, <3>1, <3>2, <3>3 DEF Row
  <2>3. /\ Updated(row) /\ cur' = NoRow
        /\ UNCHANGED <<clock, used, pass, runs, fired, put, edits, asked, cancel, late, crashes>>
    BY <1>2 DEF Advance
  <2> HIDE DEF row
  <2>4. /\ rows' \in [Ids -> Row \cup {NoRow}] /\ changes' \in 0..1
        /\ \A i \in Ids : rows'[i] # NoRow => rows'[i].id = i /\ Stored(i)
    BY <1>0, <2>2, <2>3, UpdateKeeps
  <2>5. Typed'
    BY <1>0, <2>3, <2>4 DEF Typed
  <2>6. RowsAtHome'
    BY <1>0, <2>3, <2>4 DEF RowsAtHome, Stored
  <2>7. PassInv' /\ CancelInv' /\ ClaimedOnce'
    BY <1>0, <2>3 DEF PassInv, CancelInv, ClaimedOnce
  <2> QED
    BY <2>5, <2>6, <2>7 DEF SchedInv
<1>3. CASE Tick
  <2>1. Typed'
    BY <1>0, <1>3 DEF Tick, Typed
  <2> QED
    BY <1>3, <2>1, QuietSteps DEF Tick, SchedInv
<1>4. CASE Crash
  <2>1. Typed'
    BY <1>0, <1>4 DEF Crash, Typed
  <2>2. RowsAtHome' /\ PassInv' /\ CancelInv' /\ ClaimedOnce'
    BY <1>0, <1>4 DEF Crash, RowsAtHome, Stored, PassInv, CancelInv, ClaimedOnce
  <2> QED
    BY <2>1, <2>2 DEF SchedInv
<1> QED
  BY <1>1, <1>2, <1>3, <1>4

\* Every step keeps the invariant.
LEMMA SchedInvNext ==
  ASSUME Bounds, SchedInv, [SchedNext]_schedVars
  PROVE  SchedInv'
<1>1. CASE UNCHANGED schedVars
  <2>1. Typed'
    BY <1>1 DEF schedVars, SchedInv, Typed
  <2> QED
    BY <1>1, <2>1, QuietSteps DEF schedVars, SchedInv
<1>2. CASE SchedNext
  BY <1>2, EditsKeep, PutKeeps, FireKeeps, PollKeeps DEF SchedNext
<1> QED
  BY <1>1, <1>2

\* The invariant says it all.
LEMMA SchedInvShows == SchedInv => SchedTypeOK /\ OncePerWindow /\ CancelledIsOver
<1> SUFFICES ASSUME SchedInv PROVE SchedTypeOK /\ OncePerWindow /\ CancelledIsOver
  OBVIOUS
<1>1. SchedTypeOK
  BY DEF SchedInv, Typed, Reports, SchedTypeOK
<1>2. OncePerWindow
  BY DEF SchedInv, Typed, ClaimedOnce, OncePerWindow
<1>3. CancelledIsOver
  BY DEF SchedInv, RowsAtHome, CancelInv, CancelledIsOver, Stored
<1> QED
  BY <1>1, <1>2, <1>3

\* No window is dispatched twice, and a deleted schedule is never stored again and is
\* dispatched at most once more, by the pass that had read it: for any number of
\* schedules, edits, passes and crashes (TryClaim before the dispatch; every UPDATE names
\* the id it writes).
THEOREM DispatchedOnceAndOver ==
  ASSUME Bounds
  PROVE  SchedSpec => [](SchedTypeOK /\ OncePerWindow /\ CancelledIsOver)
  BY SchedInvInit, SchedInvNext, SchedInvShows, PTL DEF SchedSpec
=============================================================================
