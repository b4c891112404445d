---------------------------- MODULE ScheduleEdits ----------------------------
(***************************************************************************)
(* The schedules table of one node and who writes it: the scheduler's poll *)
(* thread, which reads a batch of due rows, fires each and writes the row  *)
(* it read back with its new state; the admin PUT, which also reads a      *)
(* whole row and writes it back; and the tool's set and cancel.  None of   *)
(* the read-modify-writes is a transaction.  The schedules here are        *)
(* at_least_once; leases between nodes are LeaseScheduler.                 *)
(***************************************************************************)
EXTENDS Naturals, FiniteSets

CONSTANTS
    Ids,       \* schedule ids, each given out once
    Limit,     \* m_maxSchedulesPerAgent
    MaxClock,  \* minutes of the run
    MaxEdits,  \* PUTs and sets of an existing id
    MaxFires,  \* passes that take one row
    MaxCrashes

VARIABLES
    clock,
    rows,     \* the stored row of each id, or NoRow
    used,     \* ids given out
    pass,     \* the due rows of this pass still to do, as they were read
    cur,      \* the row of the pass that is dispatched and not yet advanced, or NoRow
    runs,     \* claimed windows: the task_runs rows
    fired,    \* dispatches of each window
    put,      \* the row an admin PUT has read, or NoRow
    edits,    \* edits so far: each is a version of the row's content
    asked,    \* the version the last edit reported as done stored for each id
    changes,  \* rows changed by the last statement: m_lastChanges
    cancel,   \* each id's cancellation: none, executed, or what it reported
    late,     \* dispatches of an id after it was deleted
    crashes

schedVars == <<clock, rows, used, pass, cur, runs, fired, put, edits, asked, changes,
               cancel, late, crashes>>

NoRow == [id |-> "none"]
Empty == 0  \* a next_fire of "", earlier than every time
Times == Empty..(MaxClock + 1)

Row == [id : Ids, enabled : BOOLEAN, recurring : BOOLEAN, due : Times,
        cron : {"none", "every", "never"}, fires : 0..MaxFires, max : 0..1, ver : 0..MaxEdits]

SchedTypeOK ==
    /\ clock \in 1..MaxClock /\ rows \in [Ids -> Row \cup {NoRow}] /\ used \subseteq Ids
    /\ pass \subseteq Row /\ cur \in Row \cup {NoRow}
    /\ runs \subseteq (Ids \X Times) /\ fired \in [Ids \X Times -> Nat]
    /\ put \in Row \cup {NoRow} /\ edits \in 0..MaxEdits /\ asked \in [Ids -> 0..MaxEdits]
    /\ changes \in 0..1 /\ cancel \in [Ids -> {"none", "executed", "done", "not found"}]
    /\ late \in [Ids -> Nat] /\ crashes \in 0..MaxCrashes

SchedInit ==
    /\ clock = 1 /\ rows = [i \in Ids |-> NoRow] /\ used = {} /\ pass = {} /\ cur = NoRow
    /\ runs = {} /\ fired = [w \in Ids \X Times |-> 0] /\ put = NoRow /\ edits = 0
    /\ asked = [i \in Ids |-> 0] /\ changes = 0 /\ cancel = [i \in Ids |-> "none"]
    /\ late = [i \in Ids |-> 0] /\ crashes = 0

Stored(i) == rows[i] # NoRow

\* ComputeNextFireImpl: an empty expression is every minute, one that matches no
\* minute within the lookahead gives "".
ComputeNextFire(cron) == IF cron = "never" THEN Empty ELSE clock + 1

CountEnabled == Cardinality({i \in Ids : Stored(i) /\ rows[i].enabled})

(***************************************************************************)
(* The tool and the admin routes.                                          *)
(***************************************************************************)

\* Create: within the limit; a cron expression makes it recurring and must have
\* a first fire; repeat without one is recurring too; a one-shot gets max 1.
Create(i, recurring, cron) ==
    LET due == IF cron = "none" THEN clock ELSE ComputeNextFire(cron)
        rec == recurring \/ cron # "none"
    IN /\ i \notin used /\ CountEnabled < Limit /\ due # Empty
       /\ used' = used \cup {i}
       /\ rows' = [rows EXCEPT ![i] =
             [id |-> i, enabled |-> TRUE, recurring |-> rec, due |-> due, cron |-> cron,
              fires |-> 0, max |-> IF rec THEN 0 ELSE 1, ver |-> 0]]
       /\ changes' = 1
       /\ UNCHANGED <<clock, pass, cur, runs, fired, put, edits, asked, cancel, late, crashes>>

\* set with the id of an existing schedule: Create inserts a row whose key is
\* taken, the failed statement is not looked at, and success is reported.
SetExisting(i) ==
    /\ Stored(i) /\ CountEnabled < Limit /\ edits < MaxEdits
    /\ edits' = edits + 1 /\ asked' = [asked EXCEPT ![i] = edits']
    /\ UNCHANGED <<clock, rows, used, pass, cur, runs, fired, put, changes, cancel, late, crashes>>

\* Cancel deletes the row and then asks how many rows the last statement changed.
CancelDeletes(i) ==
    /\ i \in used /\ cancel[i] = "none"
    /\ cancel' = [cancel EXCEPT ![i] = "executed"]
    /\ rows' = [rows EXCEPT ![i] = NoRow]
    /\ changes' = IF Stored(i) THEN 1 ELSE 0
    /\ UNCHANGED <<clock, used, pass, cur, runs, fired, put, edits, asked, late, crashes>>

CancelReports(i) ==
    /\ cancel[i] = "executed"
    /\ cancel' = [cancel EXCEPT ![i] = IF changes = 0 THEN "not found" ELSE "done"]
    /\ UNCHANGED <<clock, rows, used, pass, cur, runs, fired, put, edits, asked, changes, late,
                   crashes>>

PutReads(i) ==
    /\ put = NoRow /\ Stored(i) /\ edits < MaxEdits /\ put' = rows[i]
    /\ UNCHANGED <<clock, rows, used, pass, cur, runs, fired, edits, asked, changes, cancel, late,
                   crashes>>

\* An UPDATE that stores the row whether or not the id is still there.
Updated_Upserts(row) == /\ rows' = [rows EXCEPT ![row.id] = row] /\ changes' = 1

\* UPDATE ... WHERE id: every column, of a row that may be gone.
Updated(row) ==
    IF Stored(row.id)
    THEN rows' = [rows EXCEPT ![row.id] = row] /\ changes' = 1
    ELSE rows' = rows /\ changes' = 0

\* The patched row is written, next_fire as given or as read; a recurring one
\* with a cron expression gets a new one, "" for an expression that never matches.
PutWrites(enabled, cron, max, due) ==
    LET patched == [put EXCEPT !.enabled = enabled, !.cron = cron, !.max = max, !.due = due,
                               !.ver = edits + 1]
    IN /\ put # NoRow /\ edits < MaxEdits
       /\ Updated(IF put.recurring /\ cron # "none"
                  THEN [patched EXCEPT !.due = ComputeNextFire(cron)] ELSE patched)
       /\ put' = NoRow /\ edits' = edits + 1 /\ asked' = [asked EXCEPT ![put.id] = edits']
       /\ UNCHANGED <<clock, used, pass, cur, runs, fired, cancel, late, crashes>>

(***************************************************************************)
(* The poll thread.                                                        *)
(***************************************************************************)

Due == {rows[i] : i \in {j \in Ids : Stored(j) /\ rows[j].enabled /\ rows[j].due <= clock}}

GetDueSchedules ==
    /\ pass = {} /\ cur = NoRow /\ Due # {} /\ pass' = Due
    /\ UNCHANGED <<clock, rows, used, cur, runs, fired, put, edits, asked, changes, cancel, late,
                   crashes>>

Earliest(row) == row \in pass /\ \A other \in pass : row.due <= other.due

\* The window is the next_fire that made the row due, or the present for "".
Window(row) == <<row.id, IF row.due = Empty THEN clock ELSE row.due>>

\* Every due row is dispatched.
TryClaim_Always(row) == TRUE

\* The insert into task_runs finds no row of the same window.
TryClaim(row) == Window(row) \notin runs

\* Dispatch a claimed window; a window claimed before only advances.
Fire(row) ==
    /\ cur = NoRow /\ Earliest(row) /\ row.fires < MaxFires
    /\ cur' = row /\ pass' = pass \ {row}
    /\ IF TryClaim(row)
       THEN /\ runs' = runs \cup {Window(row)}
            /\ fired' = [fired EXCEPT ![Window(row)] = @ + 1]
            /\ late' = IF cancel[row.id] = "none" THEN late
                       ELSE [late EXCEPT ![row.id] = @ + 1]
            /\ changes' = 1
       ELSE UNCHANGED <<runs, fired, late, changes>>
    /\ UNCHANGED <<clock, rows, used, put, edits, asked, cancel, crashes>>

\* The row as it was read, with its new state, is written back.
Advanced(row) ==
    LET fires == row.fires + 1
        over == ~row.recurring \/ (row.max > 0 /\ fires >= row.max)
    IN [row EXCEPT !.fires = fires,
                   !.enabled = IF over THEN FALSE ELSE @,
                   !.due = IF over THEN @ ELSE ComputeNextFire(row.cron)]

Advance ==
    /\ cur # NoRow /\ cur' = NoRow /\ Updated(Advanced(cur))
    /\ UNCHANGED <<clock, used, pass, runs, fired, put, edits, asked, cancel, late, crashes>>

Tick ==
    /\ clock < MaxClock /\ clock' = clock + 1
    /\ UNCHANGED <<rows, used, pass, cur, runs, fired, put, edits, asked, changes, cancel, late,
                   crashes>>

\* The process dies and comes back with the table as it was.
Crash ==
    /\ crashes < MaxCrashes /\ crashes' = crashes + 1
    /\ pass' = {} /\ cur' = NoRow /\ put' = NoRow /\ changes' = 0
    /\ UNCHANGED <<clock, rows, used, runs, fired, edits, asked, cancel, late>>

SchedNext ==
    \/ \E i \in Ids, r \in BOOLEAN, c \in {"none", "every"} : Create(i, r, c)
    \/ \E i \in Ids : SetExisting(i) \/ CancelDeletes(i) \/ CancelReports(i) \/ PutReads(i)
    \/ /\ put # NoRow
       /\ \E e \in BOOLEAN, c \in {"none", "every", "never"}, m \in 0..1, d \in {put.due, clock} :
             PutWrites(e, c, m, d)
    \/ GetDueSchedules
    \/ \E row \in pass : Fire(row)
    \/ Advance
    \/ Tick
    \/ Crash

SchedSpec == SchedInit /\ [][SchedNext]_schedVars

(***************************************************************************)
(* Properties.                                                             *)
(***************************************************************************)

\* No window is dispatched twice, although a PUT and the poll thread write back
\* rows they read before the other's change, and a crash repeats a pass.
OncePerWindow == \A w \in DOMAIN fired : fired[w] <= 1

\* A deleted schedule is never stored again, not by a pass or a PUT that read it
\* before, and is dispatched at most once more, by the pass that had read it.
CancelledIsOver ==
    \A i \in Ids : cancel[i] # "none" => rows[i] = NoRow /\ late[i] <= 1

\* When nobody is in the middle of a write, a schedule is as the last edit
\* reported as done left it.  Violated: SetExisting reports success, and a PUT or a
\* pass writes back the row it read before another edit.
EditKept ==
    pass = {} /\ cur = NoRow /\ put = NoRow => \A i \in Ids : Stored(i) => rows[i].ver = asked[i]

\* A cancellation that deleted a schedule says so.  Violated: the count it reads is
\* that of the connection's last statement, which may be another thread's.
CancelledIsTold == \A i \in Ids : cancel[i] # "not found"

\* Every enabled schedule has a time to fire at.  Violated by a PUT of a pattern that
\* never falls due.
EveryRowHasATime == \A i \in Ids : Stored(i) /\ rows[i].enabled => rows[i].due # Empty
=============================================================================
