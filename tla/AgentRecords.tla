---------------------------- MODULE AgentRecords -----------------------------
(***************************************************************************)
(* What an agent keeps for itself: notes, tags and reports of its          *)
(* sessions, its gallivanting threads, and its projects. Three stores that *)
(* share no row, each with a specification of its own.                     *)
(***************************************************************************)
EXTENDS Naturals, Sequences, FiniteSets, SequencesExt, FiniteSetsExt, Relation

(***************************************************************************)
(* The working notes, tags and reports of sessions:                        *)
(* src/kernel/session/SessionNotesStore.cpp, SessionTagsStore.cpp and      *)
(* SessionReportStore.cpp, used by the chains (tools/SessionsTool.cpp,     *)
(* ConsolidationTool.cpp) and by the HTTP thread.  Each statement is       *)
(* atomic; a call is several, and nothing is locked between them.          *)
(*                                                                         *)
(* One agent.  Ids come from AUTOINCREMENT and are never used again.       *)
(***************************************************************************)

CONSTANTS
    Actors,         \* the chains and the HTTP thread
    NoteSessions, Tags,
    MaxNotes,       \* kMaxNotesPerSession
    MaxNoteCalls, MaxReports

VARIABLES
    notes,          \* id -> [session, order, rev]
    nextNote,
    tags,           \* {[session, tag]}
    report,         \* session -> [rev, emb]: rev 0 none, emb the rev it was computed from
    changes,        \* sqlite3_changes of the one connection
    call,           \* actor -> its call
    noteCalls, reports, told

noteVars == <<notes, nextNote, tags, report, changes, call, noteCalls, reports, told>>

NoCall == [pc |-> "idle"]
Ids == DOMAIN notes
InSession(s) == {i \in Ids : notes[i].session = s}

NoteInit ==
    /\ notes = << >> /\ nextNote = 1 /\ tags = {} /\ changes = 0 /\ noteCalls = 0 /\ reports = 0
    /\ told = {}
    /\ report = [s \in NoteSessions |-> [rev |-> 0, emb |-> 0]]
    /\ call = [a \in Actors |-> NoCall]

(* ORDER BY sort_order: by the index, equal ones in the order of their ids *)
ListForSession(s) ==
    SetToSortSeq(InSession(s), LAMBDA i, j :
      notes[i].order < notes[j].order \/ (notes[i].order = notes[j].order /\ i < j))

CountForSession(s) == Cardinality(InSession(s))
NextSortOrder(s) ==
    IF InSession(s) = {} THEN 0
    ELSE 1 + (CHOOSE m \in {notes[i].order : i \in InSession(s)} : \A i \in InSession(s) : notes[i].order <= m)

Begin(a, c) ==
    /\ call[a] = NoCall /\ noteCalls < MaxNoteCalls /\ noteCalls' = noteCalls + 1
    /\ call' = [call EXCEPT ![a] = c]

(* A write of one actor disturbs the calls of the others.                  *)
Written(a, c) ==
    call' = [b \in Actors |-> IF b = a THEN c
                              ELSE IF call[b].pc = "idle" THEN call[b]
                                  ELSE [call[b] EXCEPT !.alone = FALSE]]

-----------------------------------------------------------------------------
(* notes:add and POST notes: the limit, then the place, then the row, and  *)
(* for the top the renumbering, one UPDATE per note.                       *)
Full_OffByOne(s) == CountForSession(s) > MaxNotes

Full(s) == CountForSession(s) >= MaxNotes

HandleNotesAdd(a, s, top) ==
    /\ ~Full(s)
    /\ Begin(a, [pc |-> "place", session |-> s, top |-> top, alone |-> TRUE])
    /\ UNCHANGED <<notes, nextNote, tags, report, changes, reports, told>>

(* The tool lists the notes before it inserts, the route after; the new    *)
(* note is put first in either list.                                       *)
PlaceNote(a) ==
    /\ call[a].pc = "place"
    /\ call' = [call EXCEPT ![a] = [pc |-> "create", session |-> call[a].session,
                                    top |-> call[a].top, alone |-> call[a].alone,
                                     order |-> IF call[a].top THEN 0
                                         ELSE NextSortOrder(call[a].session),
                                     rest |-> IF call[a].top
                                         THEN ListForSession(call[a].session) ELSE << >>]]
    /\ UNCHANGED <<notes, nextNote, tags, report, changes, noteCalls, reports, told>>

NewFirst_Last(new, rest) == Append(rest, new)

NewFirst(new, rest) == <<new>> \o rest

CreateNote(a) ==
    LET c == call[a] IN
    /\ c.pc = "create"
    /\ notes' = [i \in Ids \cup {nextNote} |-> IF i = nextNote THEN [session |-> c.session, order |-> c.order, rev |-> 0] ELSE notes[i]]
    /\ nextNote' = nextNote + 1 /\ changes' = 1
    /\ Written(a, [pc |-> IF c.top THEN "reorder" ELSE "answer", session |-> c.session,
                   top |-> c.top, new |-> nextNote,
                   rest |-> NewFirst(nextNote, c.rest), at |-> 0, alone |-> c.alone])
    /\ UNCHANGED <<tags, report, noteCalls, reports, told>>

(* Reorder, one UPDATE; it takes ids of any session of the agent.          *)
Reorder(a) ==
    LET c == call[a] IN
    /\ c.pc = "reorder"
    /\ IF c.rest = << >>
       THEN /\ Written(a, [pc |-> "answer", session |-> c.session, top |-> c.top, new |-> c.new,
                           alone |-> c.alone])
            /\ UNCHANGED <<notes, changes>>
       ELSE /\ notes' = [i \in Ids |-> IF i = Head(c.rest) THEN [notes[i] EXCEPT !.order = c.at] ELSE notes[i]]
            /\ changes' = Cardinality(Ids \cap {Head(c.rest)})
            /\ Written(a, [c EXCEPT !.rest = Tail(@), !.at = @ + 1])
    /\ UNCHANGED <<nextNote, tags, report, noteCalls, reports, told>>

(* notes:reorder takes any list of ids the caller names.                   *)
HandleNotesReorder(a, ids) ==
    /\ ids # << >>
    /\ Begin(a, [pc |-> "reorder", session |-> "", top |-> FALSE, new |-> 0, rest |-> ids,
                 at |-> 0, alone |-> TRUE])
    /\ UNCHANGED <<notes, nextNote, tags, report, changes, reports, told>>

(* notes:update and notes:remove: the statement, then Changes(), which     *)
(* tells of the last statement of the connection, whoever made it.         *)
UpdateNote(i) ==
    /\ notes' = [j \in Ids |-> IF j = i THEN [notes[j] EXCEPT !.rev = @ + 1] ELSE notes[j]]
    /\ changes' = Cardinality(Ids \cap {i})

HandleNotesUpdate(a, i) ==
    /\ Begin(a, [pc |-> "changes", hit |-> i \in Ids, alone |-> TRUE]) /\ UpdateNote(i)
    /\ UNCHANGED <<nextNote, tags, report, reports, told>>

DeleteNote(i) == notes' = [j \in Ids \ {i} |-> notes[j]] /\ changes' = Cardinality(Ids \cap {i})

HandleNotesRemove(a, i) ==
    /\ Begin(a, [pc |-> "changes", hit |-> i \in Ids, alone |-> TRUE]) /\ DeleteNote(i)
    /\ UNCHANGED <<nextNote, tags, report, reports, told>>

Answers(a) ==
    /\ call[a].pc \in {"answer", "changes"}
    /\ told' = IF call[a].pc = "changes" THEN told
           \cup {[hit |-> call[a].hit, said |-> changes > 0]} ELSE told
    /\ call' = [call EXCEPT ![a] = NoCall]
    /\ UNCHANGED <<notes, nextNote, tags, report, changes, noteCalls, reports>>

-----------------------------------------------------------------------------
(* tags:set: a look, then the row unless a unique index refuses it;        *)
(* tags:remove, whatever the source.                                       *)
AddTag(t) == tags' = tags \cup {t} /\ changes' = IF t \in tags THEN changes ELSE 1
RemoveTag(t) == tags' = tags \ {t} /\ changes' = Cardinality({t} \cap tags)

HandleTagsSet(a, s, g) ==
    /\ Begin(a, [pc |-> "answer", alone |-> TRUE, top |-> FALSE, session |-> "", new |-> 0])
    /\ AddTag([session |-> s, tag |-> g])
    /\ UNCHANGED <<notes, nextNote, report, reports, told>>

HandleTagsRemove(a, s, g) ==
    /\ Begin(a, [pc |-> "changes", hit |-> [session |-> s, tag |-> g] \in tags, alone |-> TRUE])
    /\ RemoveTag([session |-> s, tag |-> g])
    /\ UNCHANGED <<notes, nextNote, report, reports, told>>

(* Reports: Upsert leaves the embedding; the tool then computes one, when  *)
(* the service is there; the route does not; the start fills in the        *)
(* missing ones only.                                                      *)
Upsert(a, s, embeds) ==
    /\ reports < MaxReports /\ reports' = reports + 1 /\ call[a] = NoCall
    /\ report' = [report EXCEPT ![s].rev = reports + 1] /\ changes' = 1
    /\ call' = [call EXCEPT ![a] = IF embeds THEN [pc |-> "embed", session |-> s,
                                                   of |-> reports + 1, alone |-> TRUE] ELSE NoCall]
    /\ UNCHANGED <<notes, nextNote, tags, noteCalls, told>>

StoreEmbedding(a) ==
    /\ call[a].pc = "embed"
    /\ report' = IF report[call[a].session].rev = 0 THEN report
           ELSE [report EXCEPT ![call[a].session].emb = call[a].of]
    /\ changes' = (IF report[call[a].session].rev = 0 THEN 0 ELSE 1)
    /\ call' = [call EXCEPT ![a] = NoCall]
    /\ UNCHANGED <<notes, nextNote, tags, noteCalls, reports, told>>

DeleteReport(a, s) ==
    /\ Begin(a, [pc |-> "changes", hit |-> report[s].rev # 0, alone |-> TRUE])
    /\ report' = [report EXCEPT ![s] = [rev |-> 0, emb |-> 0]]
    /\ changes' = (IF report[s].rev = 0 THEN 0 ELSE 1)
    /\ UNCHANGED <<notes, nextNote, tags, reports, told>>

(* ComputePendingReportEmbeddings                                          *)
ListWithoutEmbeddings == {s \in NoteSessions : report[s].rev # 0 /\ report[s].emb = 0}

Backfill(s) ==
    /\ s \in ListWithoutEmbeddings /\ \A a \in Actors : call[a] = NoCall
    /\ report' = [report EXCEPT ![s].emb = report[s].rev]
    /\ UNCHANGED <<notes, nextNote, tags, changes, call, noteCalls, reports, told>>

NoteNext ==
    \/ \E a \in Actors :
         \/ \E s \in NoteSessions :
              \/ \E b \in BOOLEAN : HandleNotesAdd(a, s, b) \/ Upsert(a, s, b)
              \/ \E g \in Tags : HandleTagsSet(a, s, g) \/ HandleTagsRemove(a, s, g)
              \/ DeleteReport(a, s)
         \/ \E i \in 1..nextNote : HandleNotesUpdate(a, i) \/ HandleNotesRemove(a, i)
         \/ \E ids \in SeqOf(Ids, 2) : HandleNotesReorder(a, ids)
         \/ PlaceNote(a) \/ CreateNote(a) \/ Reorder(a) \/ Answers(a) \/ StoreEmbedding(a)
    \/ \E s \in NoteSessions : Backfill(s)

NoteSpec == NoteInit /\ [][NoteNext]_noteVars

-----------------------------------------------------------------------------
(* When notes:add answers and nobody wrote meanwhile, the note is where    *)
(* the caller asked for it, before or after all others of the session,     *)
(* however the notes had been renumbered, in part or with ids of another   *)
(* session.                                                                *)
AddedAsAsked ==
    \A a \in Actors : call[a].pc = "answer" /\ call[a].alone /\ call[a].new \in Ids =>
      \A i \in InSession(call[a].session) \ {call[a].new} :
        IF call[a].top THEN notes[call[a].new].order < notes[i].order
        ELSE notes[call[a].new].order > notes[i].order

(* The limit is passed by at most one note for every other actor.          *)
NotesBounded == \A s \in NoteSessions : CountForSession(s) <= MaxNotes + Cardinality(Actors) - 1

(* Violated with two actors: the limit itself.                             *)
WithinLimit == \A s \in NoteSessions : CountForSession(s) <= MaxNotes

(* Violated with two actors: what update and remove report is what they    *)
(* did (SessionNotesStore.cpp:133, :145).                                  *)
ToldTheTruth == \A t \in told : t.said = t.hit

(* Violated: an embedding is of the report it stands for                   *)
(* (SessionReportStore.cpp:80-84 leaves it).                               *)
EmbeddingIsCurrent ==
    (\A a \in Actors : call[a] = NoCall)
        => \A s \in NoteSessions : report[s].emb \in {0, report[s].rev}

-----------------------------------------------------------------------------
(***************************************************************************)
(* The threads of an agent's own exploration and the sessions recorded     *)
(* under them: gallivanting/GallivantingStore.cpp, tools/GallivantingTool  *)
(* .cpp, the routes of admin/internal/AdminServerRoutesGallivanting.inc    *)
(* and the part of AgentKernel.cpp that opens a block.                     *)
(*                                                                         *)
(* A tool call reads the whole row, checks its owner and later writes the  *)
(* whole row back; chains of the cognition lane and the HTTP thread do so  *)
(* at the same time.  Rows have two fields that are told apart.            *)
(***************************************************************************)

CONSTANTS
    Agents,
    Chains,         \* the chains of the agents; "http" is the admin page
    MaxThreads, MaxRecords, MaxEdits

VARIABLES
    threads,        \* id -> row, or NoRow
    recorded,       \* gallivanting_sessions
    step,           \* actor -> [op, id, row, field]: what it is in the middle of
    owner,          \* chain -> the agent it runs for
    used,           \* ids given so far
    edits,          \* edits acknowledged: [id, field, value]
    acks,           \* records acknowledged: [agent, id]
    stored,         \* records ever inserted
    block           \* the prompt of the last block, and whose

gvVars == <<threads, recorded, step, owner, used, edits, acks, stored, block>>

Riders == Chains \cup {"http"}
ThreadIds == 1..MaxThreads
Fields == {"description", "prompt_template"}
NoRow == [agent |-> "none"]
Resting == [op |-> "idle", id |-> 0]

GvInit ==
    /\ threads = [i \in ThreadIds |-> NoRow] /\ recorded = {} /\ step = [a \in Riders |-> Resting]
    /\ owner \in [Chains -> Agents]
    /\ used = [threads |-> 0, records |-> 0, edits |-> 0] /\ edits = {} /\ acks = {} /\ stored = {}
    /\ block = "none"

Exists(i) == threads[i] # NoRow

CreateThread(a, g, p) ==
    /\ step[a] = Resting /\ used.threads < MaxThreads /\ (a \in Chains => g = owner[a])
    /\ used' = [used EXCEPT !.threads = @ + 1]
    /\ threads' = [threads EXCEPT ![used'.threads] =
                     [agent |-> g, enabled |-> TRUE, description |-> 0, prompt_template |-> p]]
    /\ UNCHANGED <<recorded, step, owner, edits, acks, stored, block>>

(* GetThread and the check of its owner; the page checks none.             *)
MayUse(a, i) == Exists(i) /\ (a \in Chains => threads[i].agent = owner[a])

ReadRow(a, op, i) ==
    /\ step[a] = Resting /\ MayUse(a, i)
    /\ step' = [step EXCEPT ![a] = [op |-> op, id |-> i, row |-> threads[i]]]

(* UPDATE ... WHERE id: no row, no effect, and nobody looks.               *)
Stored(i, row) == IF Exists(i) THEN [threads EXCEPT ![i] = row] ELSE threads

BeginUpdate(a, i) ==
    /\ used.edits < MaxEdits /\ ReadRow(a, "update", i)
    /\ UNCHANGED <<threads, recorded, owner, used, edits, acks, stored, block>>

UpdateThread(a, f, e) ==
    LET s == step[a]
        n == used.edits + 1
    IN  /\ s.op = "update" /\ used.edits < MaxEdits
        /\ threads' = Stored(s.id, [s.row EXCEPT ![f] = n, !.enabled = e])
        /\ used' = [used EXCEPT !.edits = n]
        /\ edits' = {x \in edits : ~(x.id = s.id /\ x.field = f)}
               \cup {[id |-> s.id, field |-> f, value |-> n]}
        /\ step' = [step EXCEPT ![a] = Resting]
        /\ UNCHANGED <<recorded, owner, acks, stored, block>>

(* DeleteThread: the sessions, then the row and by the foreign key what    *)
(* sessions it has got since.                                              *)
BeginDelete(a, i) ==
    /\ ReadRow(a, "delete", i)
    /\ recorded' = {r \in recorded : r.id # i}
    /\ UNCHANGED <<threads, owner, used, edits, acks, stored, block>>

Cascaded_None(i) == recorded

Cascaded(i) == {r \in recorded : r.id # i}

DeleteThread(a) ==
    /\ step[a].op = "delete"
    /\ threads' = [threads EXCEPT ![step[a].id] = NoRow]
    /\ recorded' = Cascaded(step[a].id) /\ UNCHANGED stored
    /\ edits' = {x \in edits : x.id # step[a].id}
    /\ step' = [step EXCEPT ![a] = Resting]
    /\ UNCHANGED <<owner, used, acks, block>>

(* HandleRecord: the thread is read, the session inserted, and with a new  *)
(* description the row read before is written back.                        *)
BeginRecord(a, i) ==
    /\ a \in Chains /\ used.records < MaxRecords /\ ReadRow(a, "record", i)
    /\ UNCHANGED <<threads, recorded, owner, used, edits, acks, stored, block>>

(* CreateSession: the foreign key refuses one whose thread is gone, and    *)
(* the tool answers success all the same.                                  *)
CreateSession(a, describe) ==
    LET s == step[a]
        n == used.records + 1
        r == [session |-> n, id |-> s.id, agent |-> owner[a]]
    IN  /\ s.op = "record" /\ used.records < MaxRecords
        /\ used' = [used EXCEPT !.records = n]
        /\ recorded' = IF Exists(s.id) THEN recorded \cup {r} ELSE recorded
        /\ acks' = acks \cup {r} /\ stored' = (IF Exists(s.id) THEN stored \cup {r} ELSE stored)
        /\ step' = [step EXCEPT ![a] = IF describe THEN [s EXCEPT !.op = "describe"] ELSE Resting]
        /\ UNCHANGED <<threads, owner, edits, block>>

Describe(a, n) ==
    LET s == step[a]
    IN  /\ s.op = "describe" /\ n = used.records + 100
        /\ threads' = Stored(s.id, [s.row EXCEPT !.description = n])
        /\ edits' = {x \in edits : ~(x.id = s.id /\ x.field = "description")}
        /\ step' = [step EXCEPT ![a] = Resting]
        /\ UNCHANGED <<recorded, owner, used, acks, stored, block>>

(* HandleList, HandleRead, HandleHistory, GetSdtBalance.                   *)
HandleHistory(g) == {r \in recorded : r.agent = g}

ListThreads(g) == {i \in ThreadIds : Exists(i) /\ threads[i].agent = g}

(* The scheduler opens a block: the prompt of the agent's first enabled    *)
(* thread that has one, else the built-in template.                        *)
Prompting(g) == {i \in ListThreads(g) : threads[i].enabled /\ threads[i].prompt_template # 0}

OpenBlock(g) ==
    /\ block' = IF Prompting(g) = {} THEN "template" ELSE "thread"
    /\ UNCHANGED <<threads, recorded, step, owner, used, edits, acks, stored>>

GvNext ==
    \/ \E a \in Riders :
         \/ \E g \in Agents, p \in {0, 1} : CreateThread(a, g, p)
         \/ \E i \in ThreadIds : BeginUpdate(a, i) \/ BeginDelete(a, i) \/ BeginRecord(a, i)
         \/ \E f \in Fields, e \in BOOLEAN : UpdateThread(a, f, e)
         \/ DeleteThread(a)
         \/ \E d \in BOOLEAN : CreateSession(a, d)
         \/ Describe(a, used.records + 100)
    \/ \E g \in Agents : OpenBlock(g)

GvSpec == GvInit /\ [][GvNext]_gvVars

-----------------------------------------------------------------------------
(* What an agent's history and balance are made of is the sessions of its  *)
(* threads that are there: a session recorded while its thread is deleted  *)
(* goes with it, and none is counted for an agent that did not have it.    *)
HistoryIsOfThreads ==
    \A g \in Agents : \A r \in HandleHistory(g) : Exists(r.id) /\ threads[r.id].agent = g

(* Violated: a record answered with success was stored (GallivantingTool   *)
(* .cpp:577): the thread may be deleted between the check and the insert.  *)
RecordedIsStored == acks \subseteq stored

(* Violated: an edit that was answered stays until that field is edited    *)
(* again.  A record's description writes back the row it read before       *)
(* (GallivantingTool.cpp:580), another edit likewise.                      *)
EditStays == \A x \in edits : Exists(x.id) => threads[x.id][x.field] = x.value

-----------------------------------------------------------------------------
(***************************************************************************)
(* src/kernel/tools/ProjectTool.cpp: the tasks of an agent's projects and  *)
(* the order their dependencies give.  A call of the tool reads the tasks, *)
(* decides, and writes back whole rows; two chains of one agent may be in  *)
(* it at once and nothing is a transaction.                                *)
(*                                                                         *)
(* A task is numbered by its position.  Titles, details and results are    *)
(* left out; they are written back with the row like the rest.             *)
(***************************************************************************)

CONSTANTS
    Projects,
    MaxTasks,       \* bound: tasks ever added
    MaxUpdates      \* bound: calls of update

VARIABLES
    status,         \* project -> "active" or "abandoned"; absent before create
    task,           \* sequence of [project, status, deps]
    updates

projVars == <<status, task, call, updates>>

Idle == [pc |-> "idle"]
Statuses == {"pending", "ready", "in_progress", "completed", "failed"}

ProjInit ==
    /\ status = << >> /\ task = <<>> /\ call = [c \in Chains |-> Idle] /\ updates = 0

Go(c, r) == call' = [call EXCEPT ![c] = r]

(* ListTasks: the ids of a project's tasks, in order of position.          *)
ListTasks(p) == {t \in DOMAIN task : task[t].project = p}

GetTask(t) == task[t]

(* All dependencies are tasks of the list and completed.                   *)
AllDepsComplete(t, list) ==
    \A d \in task[t].deps : d \in list /\ task[d].status = "completed"

-----------------------------------------------------------------------------
CreateProject(c, p) ==
    /\ call[c] = Idle /\ p \notin DOMAIN status
    /\ status' = [q \in DOMAIN status \cup {p} |-> IF q = p THEN "active" ELSE status[q]]
    /\ UNCHANGED <<task, call, updates>>

HandleAbandon(c, p) ==
    /\ call[c] = Idle /\ p \in DOMAIN status
    /\ status' = [status EXCEPT ![p] = "abandoned"]
    /\ UNCHANGED <<task, call, updates>>

(* HandleAddTask: of a project of the agent, on tasks of that project.  A  *)
(* new task is on no path, so there is no check for a cycle.               *)
NewTask(p, deps) ==
    [project |-> p, status |-> IF deps = {} THEN "ready" ELSE "pending", deps |-> deps]

AddTask(c, p, deps) ==
    /\ call[c] = Idle /\ p \in DOMAIN status /\ Len(task) < MaxTasks
    /\ deps \subseteq ListTasks(p)
    /\ task' = Append(task, NewTask(p, deps))
    /\ UNCHANGED <<status, call, updates>>

-----------------------------------------------------------------------------
(* NextReady: no task while one of the project is in progress; else the    *)
(* first one whose dependencies are all completed, whatever it is marked.  *)
Startable(p) ==
    {t \in ListTasks(p) : task[t].status \in {"pending", "ready"} /\ AllDepsComplete(t, ListTasks(p))}

InProgress(p) == \E t \in ListTasks(p) : task[t].status = "in_progress"

NextReady(ps) == UNION {IF InProgress(p) \/ Startable(p) = {} THEN {} ELSE {Min(Startable(p))} : p \in ps}

(* HandleNextReady: with no project named, the active ones in turn.        *)
HandleNextReady(c, ps) ==
    /\ call[c] = Idle /\ ps \subseteq DOMAIN status
    /\ \E t \in NextReady(ps) : Go(c, [pc |-> "write", id |-> t,
                                       row |-> [GetTask(t) EXCEPT !.status = "in_progress"], gave |-> t])
    /\ UNCHANGED <<status, task, updates>>

ActiveProjects == {p \in DOMAIN status : status[p] = "active"}

-----------------------------------------------------------------------------
(* WouldCreateCycle: whether the task can be reached from the dependency.  *)
Reaches(list) ==
    TransitiveClosure([x, y \in list |-> y \in task[x].deps], list)

WouldCreateCycle_Direct(t, d) == t = d \/ t \in task[d].deps

WouldCreateCycle(t, d) ==
    t = d \/ Reaches(ListTasks(task[t].project))[d, t]

(* HandleUpdate: any status; new dependencies are checked one by one       *)
(* against the stored ones.                                                *)
HandleUpdate(c, t, s, deps) ==
    /\ call[c] = Idle /\ updates < MaxUpdates /\ updates' = updates + 1
    /\ deps \subseteq ListTasks(task[t].project)
    /\ deps # task[t].deps => \A d \in deps : ~WouldCreateCycle(t, d)
    /\ Go(c, [pc |-> "write", id |-> t, row |-> [GetTask(t) EXCEPT !.status = s, !.deps = deps],
              gave |-> 0])
    /\ UNCHANGED <<status, task>>

(* UpdateTask.                                                             *)
UpdateTask(c) ==
    /\ call[c].pc = "write"
    /\ task' = [task EXCEPT ![call[c].id] = call[c].row]
    /\ Go(c, Idle)
    /\ UNCHANGED <<status, updates>>

-----------------------------------------------------------------------------
(* HandleComplete: the task read is written back as completed; then the    *)
(* pending tasks it was the last to hold up become ready, one row each.    *)
HandleComplete(c, t) ==
    /\ call[c] = Idle
    /\ Go(c, [pc |-> "complete", id |-> t, row |-> [GetTask(t) EXCEPT !.status = "completed"]])
    /\ UNCHANGED <<status, task, updates>>

Complete(c) ==
    /\ call[c].pc = "complete"
    /\ task' = [task EXCEPT ![call[c].id] = call[c].row]
    /\ Go(c, [pc |-> "list", id |-> call[c].id])
    /\ UNCHANGED <<status, updates>>

Unblocked(p, t) ==
    {u \in ListTasks(p) \ {t} : task[u].status = "pending" /\ AllDepsComplete(u, ListTasks(p))}

CompleteLists(c) ==
    /\ call[c].pc = "list"
    /\ LET free == Unblocked(task[call[c].id].project, call[c].id)
       IN Go(c, IF free = {} THEN Idle ELSE [pc |-> "unblock",
                                             rows |-> [u \in free |-> [task[u] EXCEPT !.status = "ready"]]])
    /\ UNCHANGED <<status, task, updates>>

MarkReady(c) ==
    /\ call[c].pc = "unblock"
    /\ LET rows == call[c].rows
           u == Min(DOMAIN rows)
       IN /\ task' = [task EXCEPT ![u] = rows[u]]
          /\ Go(c, IF Cardinality(DOMAIN rows) = 1 THEN Idle
                   ELSE [call[c] EXCEPT !.rows = [v \in DOMAIN rows \ {u} |-> rows[v]]])
    /\ UNCHANGED <<status, updates>>

ProjNext ==
    \E c \in Chains :
      \/ \E p \in Projects :
           \/ CreateProject(c, p) \/ HandleAbandon(c, p) \/ HandleNextReady(c, {p})
           \/ \E deps \in SUBSET ListTasks(p) : AddTask(c, p, deps)
      \/ HandleNextReady(c, ActiveProjects)
      \/ \E t \in DOMAIN task :
           \/ HandleComplete(c, t)
           \/ \E s \in Statuses, deps \in SUBSET DOMAIN task : HandleUpdate(c, t, s, deps)
      \/ UpdateTask(c) \/ Complete(c) \/ CompleteLists(c) \/ MarkReady(c)

ProjSpec == ProjInit /\ [][ProjNext]_projVars

-----------------------------------------------------------------------------
(* A project is never at a standstill: when a task is unfinished, none is  *)
(* in progress and none failed, the tool has a task to give.  It needs the *)
(* dependencies to have no cycle, whatever updates came before.  Violated  *)
(* by two chains: two updates that check at once close a cycle.            *)
NoStandstill ==
    (\A c \in Chains : call[c] = Idle) =>
      \A p \in Projects :
        /\ \E t \in ListTasks(p) : task[t].status # "completed"
        /\ \A t \in ListTasks(p) : task[t].status \notin {"failed", "in_progress"}
        => NextReady({p}) # {}

(* A task is given to one chain at a time.  Violated by two chains.        *)
GivenOnce ==
    \A c, d \in Chains : c # d /\ call[c].pc = "write" /\ call[d].pc = "write" =>
      call[c].gave = 0 \/ call[c].gave # call[d].gave

(* A task once completed goes back only by an update that says so.         *)
(* Violated by two chains: the row a call has read is written back.        *)
CompletedStays ==
    [][\A t \in DOMAIN task : task[t].status = "completed" /\ task'[t].status # "completed" =>
         \E c \in Chains : call[c].pc = "write" /\ call[c].gave = 0]_projVars
=============================================================================
