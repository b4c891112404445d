-------------------------- MODULE ObservationStore ---------------------------
(***************************************************************************)
(* What memory keeps of a conversation: the observations of an agent in    *)
(* the database, and the ones the admin server captures into a file. Each  *)
(* has a specification of its own.                                         *)
(***************************************************************************)
EXTENDS Naturals, FiniteSets, FiniteSetsExt

(***************************************************************************)
(* The observations of one agent: what MemoryStore.cpp does to the rows,   *)
(* and who calls it: the consolidation tool, the layer review of           *)
(* ConsolidationPipeline.cpp and the admin API (MemoryManager.cpp).        *)
(*                                                                         *)
(* No operation runs in a transaction: one that issues several statements  *)
(* can be cut by a crash, and by the statements of another request when    *)
(* there is more than one at a time.  Weights, tags, sources and review times are left      *)
(* out: any row may be due.  A retired row that nothing supersedes is a    *)
(* tombstone: its text is not to come back unless it is revised.           *)
(***************************************************************************)

CONSTANTS
    Layers,         \* layer ids, 1 .. n in sort order
    Texts,          \* what an observation says
    MaxRows,        \* bound: rows ever inserted
    MaxBoots,       \* bound: restarts
    Requests        \* tool calls and admin requests served at a time

VARIABLES
    row,            \* id -> [layer, text, state, super]; absent ids are not in the domain
    lastId,         \* AUTOINCREMENT
    logged,         \* removed ids whose full-row snapshot is in memory_mutations
    op,             \* request -> the operation whose statements are under way
    review,         \* the layer whose due rows the model is judging, 0: none
    boots

obsVars == <<row, lastId, logged, op, review, boots>>

Ids == 1 .. MaxRows
Idle == [kind |-> "none"]
Stored == DOMAIN row

(* memory_state <> 2 AND superseded_by = 0                                 *)
Live(r) == r.state # "deprecated" /\ r.super = 0
(* memory_state = 2 AND superseded_by = 0                                  *)
Tombstone(r) == r.state = "deprecated" /\ r.super = 0
SameText(r, s) == r.layer = s.layer /\ r.text = s.text

ObsInit ==
    /\ row = << >> /\ lastId = 0 /\ logged = {} /\ op = [q \in Requests |-> Idle] /\ review = 0
    /\ boots = 0

Free == \E q \in Requests : op[q] = Idle
Go(q, o) == op' = [op EXCEPT ![q] = o]
Put(id, r) == row' = [i \in Stored \cup {id} |-> IF i = id THEN r ELSE row[i]]
Inserted(r) == lastId < MaxRows /\ lastId' = lastId + 1 /\ Put(lastId + 1, r)
Fresh(l, t) == [layer |-> l, text |-> t, state |-> "new", super |-> 0]

-----------------------------------------------------------------------------
(* HandleCreate and SqlCreateLayerObservation: the row is inserted live,   *)
(* then a tombstone of the same text retires it.                           *)
CreateObservationForAgent(q, l, t) ==
    /\ op[q] = Idle
    /\ Inserted(Fresh(l, t))
    /\ Go(q, [kind |-> "create", id |-> lastId + 1])
    /\ UNCHANGED <<logged, review, boots>>

Twins(id) == {i \in Stored \ {id} : SameText(row[i], row[id]) /\ Tombstone(row[i])}

AutoDeprecateObservation(q) ==
    /\ op[q].kind = "create"
    /\ Go(q, Idle)
    /\ IF op[q].id \in Stored /\ Twins(op[q].id) # {}
       THEN Put(op[q].id, [row[op[q].id] EXCEPT !.state = "deprecated"])
       ELSE UNCHANGED row
    /\ UNCHANGED <<lastId, logged, review, boots>>

(* SetObservationMemoryState: no write when the state is the same.         *)
StateSet(id, s) ==
    IF row[id].state = s THEN UNCHANGED row ELSE Put(id, [row[id] EXCEPT !.state = s])

HandleRetire(id) ==
    /\ Free /\ id \in Stored
    /\ StateSet(id, "deprecated")
    /\ UNCHANGED <<lastId, logged, op, review, boots>>

(* HandlePromote: to any layer; the row keeps its state.                   *)
MoveObservation(id, l) ==
    /\ Free /\ id \in Stored /\ row[id].layer # l
    /\ Put(id, [row[id] EXCEPT !.layer = l])
    /\ UNCHANGED <<lastId, logged, op, review, boots>>

(* ReviseObservation, for the tool and for the admin's PATCH: the new      *)
(* version is inserted, then the old one and every tombstone of the new    *)
(* text are superseded by it.  Any row can be revised, an old version too. *)
ReviseObservation(q, id, t) ==
    /\ op[q] = Idle /\ id \in Stored
    /\ Inserted([row[id] EXCEPT !.text = t, !.state = "new", !.super = 0])
    /\ Go(q, [kind |-> "revise", old |-> id, id |-> lastId + 1,
              layer |-> row[id].layer, text |-> t])
    /\ UNCHANGED <<logged, review, boots>>

SupersedeOld(q) ==
    /\ op[q].kind = "revise"
    /\ IF op[q].old \in Stored THEN Put(op[q].old, [row[op[q].old] EXCEPT !.super = op[q].id])
           ELSE UNCHANGED row
    /\ Go(q, [op[q] EXCEPT !.kind = "lift"])
    /\ UNCHANGED <<lastId, logged, review, boots>>

LiftTombstones(q) ==
    /\ op[q].kind = "lift"
    /\ row' = [i \in Stored |->
                 IF i # op[q].id /\ Tombstone(row[i]) /\ row[i].layer = op[q].layer /\ row[i].text = op[q].text
                 THEN [row[i] EXCEPT !.super = op[q].id] ELSE row[i]]
    /\ Go(q, Idle)
    /\ UNCHANGED <<lastId, logged, review, boots>>

(* HandleMerge: CreateObservation with no tombstone check (it may fail and *)
(* return id 0), then the sources are retired one by one.                  *)
HandleMerge(q, ids, first, t, fails) ==
    /\ op[q] = Idle /\ ids \subseteq Stored /\ first \in ids
    /\ IF fails THEN UNCHANGED <<row, lastId>> ELSE Inserted(Fresh(row[first].layer, t))
    /\ Go(q, [kind |-> "merge", todo |-> ids, id |-> IF fails THEN 0 ELSE lastId + 1])
    /\ UNCHANGED <<logged, review, boots>>

RetireSource(q, id) ==
    /\ op[q].kind = "merge" /\ id \in op[q].todo
    /\ Go(q, IF op[q].todo = {id} THEN Idle ELSE [op[q] EXCEPT !.todo = @ \ {id}])
    /\ IF id \in Stored THEN StateSet(id, "deprecated") ELSE UNCHANGED row
    /\ UNCHANGED <<lastId, logged, review, boots>>

(* HandleTag: the row read is written back, its layer and state with it.   *)
HandleTag(q, id) ==
    /\ op[q] = Idle /\ id \in Stored
    /\ Go(q, [kind |-> "tag", id |-> id, layer |-> row[id].layer, state |-> row[id].state])
    /\ UNCHANGED <<row, lastId, logged, review, boots>>

UpdateObservation(q) ==
    /\ op[q].kind = "tag"
    /\ IF op[q].id \in Stored
       THEN Put(op[q].id, [row[op[q].id] EXCEPT !.layer = op[q].layer, !.state = op[q].state])
       ELSE UNCHANGED row
    /\ Go(q, Idle)
    /\ UNCHANGED <<lastId, logged, review, boots>>

Removed(ids) == row' = [i \in Stored \ ids |-> row[i]]

(* SqlDeleteObservation.                                                   *)
DeleteObservation(id) ==
    /\ Free /\ id \in Stored
    /\ Removed({id}) /\ logged' = logged \cup {id}
    /\ UNCHANGED <<lastId, op, review, boots>>

(* DeleteLayer: the observations go by ON DELETE CASCADE.                  *)
DeleteLayer(l) ==
    /\ Free /\ \E i \in Stored : row[i].layer = l
    /\ Removed({i \in Stored : row[i].layer = l})
    /\ UNCHANGED <<lastId, logged, op, review, boots>>

-----------------------------------------------------------------------------
(* RunLayerConsolidation: the rows due are shown to the model, superseded  *)
(* ones too; its decisions come back later and are applied to any id, as   *)
(* if the row were still in the layer under review.                        *)
ListObservationsDueForReview(l) ==
    /\ review = 0
    /\ \E i \in Stored : row[i].layer = l /\ row[i].state # "deprecated"
    /\ review' = l
    /\ UNCHANGED <<row, lastId, logged, op, boots>>

Decide(id, action, s) ==
    /\ Free /\ review # 0 /\ id \in Stored
    /\ LET to == CASE action = "promote" -> review + 1
                   [] action = "demote" -> review - 1
                   [] OTHER -> row[id].layer
           archived == action = "demote" /\ review - 1 \notin Layers
       IN IF archived THEN Removed({id}) /\ logged' = logged \cup {id}
          ELSE /\ Put(id, [row[id] EXCEPT !.state = s, !.layer = IF to \in Layers THEN to ELSE @])
               /\ UNCHANGED logged
    /\ UNCHANGED <<lastId, op, review, boots>>

ReviewEnds ==
    /\ review # 0 /\ review' = 0
    /\ UNCHANGED <<row, lastId, logged, op, boots>>

-----------------------------------------------------------------------------
(* EnsureSchema at every start.  First, of the live rows of one text all   *)
(* but the oldest are retired as superseded by the oldest; then live rows  *)
(* with a tombstone twin are retired.                                      *)
Older_Superseded(rows, id) ==
    {i \in DOMAIN rows : i < id /\ rows[i].state # "deprecated" /\ SameText(rows[i], rows[id])}

Older(rows, id) ==
    {i \in DOMAIN rows : i < id /\ Live(rows[i]) /\ SameText(rows[i], rows[id])}
Oldest(S) == CHOOSE i \in S : \A j \in S : i <= j

Deduped_NoPointer(rows) ==
    [i \in DOMAIN rows |-> IF Live(rows[i]) /\ Older(rows, i) # {}
                           THEN [rows[i] EXCEPT !.state = "deprecated"] ELSE rows[i]]

Deduped(rows) ==
    [i \in DOMAIN rows |-> IF Live(rows[i]) /\ Older(rows, i) # {}
                           THEN [rows[i] EXCEPT !.state = "deprecated", !.super = Oldest(Older(rows, i))]
                           ELSE rows[i]]

Swept(rows) ==
    [i \in DOMAIN rows |->
       IF Live(rows[i]) /\ \E j \in DOMAIN rows : Tombstone(rows[j]) /\ SameText(rows[i], rows[j])
       THEN [rows[i] EXCEPT !.state = "deprecated"] ELSE rows[i]]

EnsureSchema ==
    /\ boots < MaxBoots
    /\ boots' = boots + 1
    /\ row' = Swept(Deduped(row))
    /\ op' = [q \in Requests |-> Idle] /\ review' = 0
    /\ UNCHANGED <<lastId, logged>>

ObsNext ==
    \/ EnsureSchema \/ ReviewEnds
    \/ \E l \in Layers : DeleteLayer(l) \/ ListObservationsDueForReview(l)
    \/ \E q \in Requests :
         \/ AutoDeprecateObservation(q) \/ SupersedeOld(q) \/ LiftTombstones(q)
         \/ UpdateObservation(q)
         \/ \E l \in Layers, t \in Texts : CreateObservationForAgent(q, l, t)
         \/ \E id \in Ids :
              \/ RetireSource(q, id) \/ HandleTag(q, id)
              \/ \E t \in Texts : ReviseObservation(q, id, t)
              \/ \E other \in Ids, t \in Texts, fails \in BOOLEAN :
                   HandleMerge(q, {id, other}, id, t, fails)
    \/ \E id \in Ids :
         \/ HandleRetire(id) \/ DeleteObservation(id)
         \/ \E l \in Layers : MoveObservation(id, l)
         \/ \E action \in {"retain", "promote", "demote"}, s \in {"new", "current", "deprecated"} :
              Decide(id, action, s)

ObsSpec == ObsInit /\ [][ObsNext]_obsVars

-----------------------------------------------------------------------------
(* GetObservationHistory follows superseded_by until it is 0 or the row is *)
(* gone: whatever was revised, merged, retired, lifted and deduplicated,   *)
(* with crashes in between, the walk ends.  Holds for one request at a     *)
(* time; violated with two, one of which revises what the other then lifts *)
(* its own revision over.                                                  *)
Follow(id) ==
    LET at[n \in 0 .. MaxRows] ==
          IF n = 0 THEN id
          ELSE IF at[n - 1] \in Stored THEN row[at[n - 1]].super ELSE 0
    IN at[MaxRows]
HistoryTerminates == \A id \in Stored : Follow(id) \notin Stored

(* A start leaves one live row of a text that had a live row and no        *)
(* tombstone, and none of a text that had a tombstone: the two cleanups    *)
(* do not undo each other, on this start or on the next.                   *)
KeepsOne ==
    boots' # boots =>
       \A id \in Stored :
          LET alive == {i \in Stored : Live(row'[i]) /\ SameText(row'[i], row[id])}
              dead == \E j \in Stored : Tombstone(row[j]) /\ SameText(row[j], row[id])
          IN Live(row[id]) => Cardinality(alive) = IF dead THEN 0 ELSE 1
BootKeepsOne == [][KeepsOne]_obsVars

(* "collapsing every duplicated text to zero live rows" is what a retiree  *)
(* with no pointer would cause (MemoryStore.cpp:211-216): retiring the     *)
(* sources of a merge leaves no tombstone of the merged text.  The code    *)
(* does not keep it: a merge that keeps the text of a source leaves its    *)
(* row to be retired at the next start.                                    *)
MergedSurvives ==
    [][\A q \in Requests :
         op[q].kind = "merge" /\ op'[q] = Idle /\ boots' = boots /\ op[q].id \in Stored =>
            \A j \in DOMAIN row' :
               Tombstone(row'[j]) /\ SameText(row'[j], row'[op[q].id]) => Tombstone(row[j])]_obsVars

(* "the mutation log alone must reconstruct the departed row"              *)
(* (MemoryStore.cpp:28).  The code does not keep it: deleting a layer      *)
(* drops its observations unlogged.                                        *)
DepartedIsLogged == \A id \in 1 .. lastId : id \notin Stored => id \in logged

-----------------------------------------------------------------------------
(***************************************************************************)
(* src/kernel/admin/MemoryManager.cpp: the observations the admin server   *)
(* captures from the chat and keeps in one JSON file.  Every operation     *)
(* changes the memory under m_memoryMutex; saving is a second critical     *)
(* section that truncates the file and writes all of it.  The one thread   *)
(* of the HTTP server (AdminServer.cpp:1372) serves the chat and the       *)
(* routes and answers after the save; a consolidation runs on a worker of  *)
(* the memory lane.                                                        *)
(*                                                                         *)
(* An observation is [text, rev, layer]: the capture it came from, how     *)
(* often it was changed, and its layer, "" for one that a file written by  *)
(* hand left empty.  text numbers the captures, so that an id given twice  *)
(* shows.                                                                  *)
(***************************************************************************)

CONSTANTS
    MaxCaptures, MaxChanges, MaxJobs, MaxCrashes

VARIABLES
    up, obs, nextId, nextJob, cons,     \* the process
    disk,           \* [whole, obs, lastJob]
    req,            \* thread -> what it still has to do
    seen,           \* ids a client was told of, with the text and revision
    jobs,           \* ids of the consolidations answered "started"
    captures, changes, crashes

capVars == <<up, obs, nextId, nextJob, cons, disk, req, seen, jobs, captures, changes, crashes>>

Threads == {"http", "lane"}
FreeThread == [pc |-> "free"]
NoRun == [running |-> FALSE, active |-> 0, last |-> 0]
First == "day"
Captured == DOMAIN obs

CapInit ==
    /\ up = TRUE /\ nextId = 1 /\ nextJob = 1 /\ cons = NoRun
    /\ obs = << >> /\ disk = [whole |-> TRUE, obs |-> << >>, lastJob |-> 0]
    /\ req = [q \in Threads |-> FreeThread] /\ seen = {} /\ jobs = {}
    /\ captures = 0 /\ changes = 0 /\ crashes = 0

ThreadGoes(q, r) == req' = [req EXCEPT ![q] = r]
PutCapture(i, o) == obs' = [j \in Captured \cup {i} |-> IF j = i THEN o ELSE obs[j]]

-----------------------------------------------------------------------------
(* The chat socket: capture, save whatever comes of it, broadcast.         *)
CaptureObservation(q) ==
    /\ up /\ q = "http" /\ req[q] = FreeThread /\ captures < MaxCaptures
    /\ captures' = captures + 1 /\ nextId' = nextId + 1
    /\ PutCapture(nextId, [text |-> captures + 1, rev |-> 0, layer |-> First])
    /\ ThreadGoes(q, [pc |-> "save", id |-> nextId, then |-> "broadcast", text |-> captures + 1,
              rev |-> 0, saved |-> FALSE])
    /\ UNCHANGED <<up, nextJob, cons, disk, seen, jobs, changes, crashes>>

(* PatchCapture and ArchiveObservation: a patch that does not parse   *)
(* changes nothing and is answered 400, which is no step here.             *)
Changed(q, i, l) ==
    /\ up /\ q = "http" /\ req[q] = FreeThread /\ i \in Captured /\ changes < MaxChanges
    /\ changes' = changes + 1
    /\ PutCapture(i, [obs[i] EXCEPT !.rev = @ + 1, !.layer = l])
    /\ ThreadGoes(q, [pc |-> "save", id |-> i, then |-> "answer", text |-> obs[i].text,
              rev |-> obs[i].rev + 1, saved |-> FALSE])
    /\ UNCHANGED <<up, nextId, nextJob, cons, disk, seen, jobs, captures, crashes>>

PatchCapture(q, i) == i \in Captured /\ Changed(q, i, obs[i].layer)
ArchiveObservation(q, i) == Changed(q, i, "archive")

(* SaveToDisk.                                                             *)
Truncated == disk' = [disk EXCEPT !.whole = FALSE]
Written == disk' = [whole |-> TRUE, obs |-> obs, lastJob |-> cons.last]

Saving == \E q \in Threads : req[q].pc = "write"

SaveOpens(q) ==
    /\ up /\ req[q].pc = "save" /\ ~Saving
    /\ Truncated /\ ThreadGoes(q, [req[q] EXCEPT !.pc = "write"])
    /\ UNCHANGED <<up, obs, nextId, nextJob, cons, seen, jobs, captures, changes, crashes>>

SaveWrites(q) ==
    /\ up /\ req[q].pc = "write"
    /\ Written /\ ThreadGoes(q, [req[q] EXCEPT !.pc = "saved", !.saved = TRUE])
    /\ UNCHANGED <<up, obs, nextId, nextJob, cons, seen, jobs, captures, changes, crashes>>

(* The file cannot be opened: the change stays in memory.                  *)
SaveRefused(q) ==
    /\ up /\ req[q].pc = "save" /\ ~Saving
    /\ ThreadGoes(q, IF req[q].then = "answer" THEN FreeThread ELSE [req[q] EXCEPT !.pc = "saved"])
    /\ UNCHANGED <<up, obs, nextId, nextJob, cons, disk, seen, jobs, captures, changes, crashes>>

Answer(q) ==
    /\ up /\ req[q].pc = "saved" /\ req[q].then \in {"broadcast", "answer"}
    /\ seen' = seen \cup {[id |-> req[q].id, text |-> req[q].text, rev |-> req[q].rev,
                           saved |-> req[q].saved]}
    /\ ThreadGoes(q, FreeThread)
    /\ UNCHANGED <<up, obs, nextId, nextJob, cons, disk, jobs, captures, changes, crashes>>

-----------------------------------------------------------------------------
(* POST memory/consolidate: one at a time; 409 otherwise.                  *)
BeginConsolidation ==
    /\ up /\ req["http"] = FreeThread /\ ~cons.running /\ Cardinality(jobs) < MaxJobs
    /\ cons' = [cons EXCEPT !.running = TRUE, !.active = nextJob]
    /\ nextJob' = nextJob + 1 /\ jobs' = jobs \cup {<<nextJob, crashes>>}
    /\ ThreadGoes("lane", [pc |-> "fill", job |-> nextJob, then |-> "done", saved |-> FALSE])
    /\ UNCHANGED <<up, obs, nextId, disk, seen, captures, changes, crashes>>

(* RunConsolidationJob, on the memory lane: the layers, a save, and only   *)
(* then the state that the save has already written.                       *)
RunConsolidationJob(q) ==
    /\ up /\ req[q].pc = "fill"
    /\ obs' = [i \in Captured |-> IF obs[i].layer = "" THEN [obs[i] EXCEPT !.layer = First] ELSE obs[i]]
    /\ ThreadGoes(q, [req[q] EXCEPT !.pc = "save"])
    /\ UNCHANGED <<up, nextId, nextJob, cons, disk, seen, jobs, captures, changes, crashes>>

ConsolidationEnds(q) ==
    /\ up /\ req[q].pc = "saved" /\ req[q].then = "done"
    /\ cons' = [running |-> FALSE, active |-> 0, last |-> req[q].job]
    /\ ThreadGoes(q, FreeThread)
    /\ UNCHANGED <<up, obs, nextId, nextJob, disk, seen, jobs, captures, changes, crashes>>

-----------------------------------------------------------------------------
Crash ==
    /\ up /\ crashes < MaxCrashes /\ crashes' = crashes + 1
    /\ up' = FALSE /\ req' = [q \in Threads |-> FreeThread]
    /\ UNCHANGED <<obs, nextId, nextJob, cons, disk, seen, jobs, captures, changes>>

(* LoadFromDisk: a file that does not parse stops the start of the server. *)
LoadFromDisk_LastId ==
    /\ ~up /\ disk.whole /\ up' = TRUE
    /\ obs' = disk.obs
    /\ nextId' = Max({1} \cup DOMAIN disk.obs)
    /\ cons' = [NoRun EXCEPT !.last = disk.lastJob] /\ nextJob' = disk.lastJob + 1
    /\ UNCHANGED <<disk, req, seen, jobs, captures, changes, crashes>>

LoadFromDisk ==
    /\ ~up /\ disk.whole /\ up' = TRUE
    /\ obs' = disk.obs
    /\ nextId' = Max({0} \cup DOMAIN disk.obs) + 1
    /\ cons' = [NoRun EXCEPT !.last = disk.lastJob] /\ nextJob' = disk.lastJob + 1
    /\ UNCHANGED <<disk, req, seen, jobs, captures, changes, crashes>>

CapNext ==
    \/ \E q \in Threads :
         \/ CaptureObservation(q) \/ RunConsolidationJob(q) \/ ConsolidationEnds(q)
         \/ SaveOpens(q) \/ SaveWrites(q) \/ SaveRefused(q) \/ Answer(q)
         \/ \E i \in Captured : PatchCapture(q, i) \/ ArchiveObservation(q, i)
    \/ BeginConsolidation \/ Crash \/ LoadFromDisk

CapSpec == CapInit /\ [][CapNext]_capVars

-----------------------------------------------------------------------------
Kept(s) == s.id \in Captured /\ obs[s.id].text = s.text /\ obs[s.id].rev >= s.rev

(* An id a client was told of after a good save denotes that observation   *)
(* from then on, at that revision or a later one, across restarts: an      *)
(* answer follows the save of at least what it reports, whoever else saves *)
(* meanwhile, and a restart takes up the ids after the largest stored.     *)
SeenIsKept == up => \A s \in seen : s.saved => Kept(s)

(* The same for every broadcast.  Violated: it goes out when the save      *)
(* failed, and after a restart its id is another observation's.            *)
BroadcastIsKept == up => \A s \in seen : Kept(s)

(* A job id answered to a client is never given again.  Violated: the file *)
(* is written before the last job id is set (MemoryManager.cpp:711-717).   *)
JobIdsFresh == \A a, b \in jobs : a[1] = b[1] => a = b

(* A crash leaves a file that the next start can read.  Violated between   *)
(* the truncation and the write.                                           *)
FileWhole == ~up => disk.whole
=============================================================================
