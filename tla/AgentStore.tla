----------------------------- MODULE AgentStore ------------------------------
(***************************************************************************)
(* The agents' rows: the registry, and the archive that carries an agent   *)
(* elsewhere. Each has a specification of its own; agents, crashes and     *)
(* MaxCrashes are of whichever runs.                                       *)
(***************************************************************************)
EXTENDS Naturals, FiniteSets, FiniteSetsExt, Sequences

(***************************************************************************)
(* The agents: AgentStore.cpp (the rows), AgentManager.cpp (the admin's    *)
(* create, update and delete, one at a time under m_agentCrudMutex) and    *)
(* AgentTool.cpp (an agent's edit of its own row, without that mutex).     *)
(* Every statement commits by itself.                                      *)
(*                                                                         *)
(* What an agent left in a table is the set of the agents whose rows are   *)
(* there, with the key the table knows them by: the text id, or in         *)
(* memory_files the row number, where 0 is shared.  self and admin count   *)
(* the edits of a row by its agent and by the admin.                       *)
(***************************************************************************)

CONSTANTS
    Ids,            \* text ids, each generated once
    MaxEdits, MaxSessions, MaxCrashes

VARIABLES
    agents,         \* text id -> [num, window, self, admin]
    lastNum,        \* AUTOINCREMENT
    layers,         \* text ids with memory layers
    rows,           \* text ids with rows in the tables keyed by text
    files,          \* memory_files: [key, of] with the agent that wrote it
    active,         \* text id -> sessions that are not terminated
    crud,           \* who holds m_agentCrudMutex and where it is
    tool,           \* text id -> the row its edit has read
    wanted,         \* text id -> [self, admin]: edits answered with success
    made, crashes

regVars == <<agents, lastNum, layers, rows, files, active, crud, tool, wanted, made, crashes>>

None == [pc |-> "none"]
Stored == DOMAIN agents
NoEdits == [self |-> 0, admin |-> 0]

RegInit ==
    /\ agents = << >> /\ lastNum = 0 /\ layers = {} /\ rows = {} /\ made = {}
    /\ files = {[key |-> 0, of |-> "shared"]}
    /\ active = [i \in Ids |-> 0] /\ tool = [i \in Ids |-> None] /\ wanted = [i \in Ids |-> NoEdits]
    /\ crud = None /\ crashes = 0

PutAgent(i, a) == agents' = [j \in Stored \cup {i} |-> IF j = i THEN a ELSE agents[j]]

-----------------------------------------------------------------------------
(* AgentStore::Create: a generated id that is not taken; the row number    *)
(* comes from AUTOINCREMENT.                                               *)
NextNum_Rowid == Max({0} \cup {agents[j].num : j \in Stored}) + 1

NextNum == lastNum + 1

Create(i) ==
    /\ i \notin Stored
    /\ PutAgent(i, [num |-> NextNum, window |-> 0, self |-> 0, admin |-> 0])
    /\ lastNum' = NextNum /\ made' = made \cup {i}

CreateAgent(i) ==
    /\ crud = None /\ i \notin made /\ Create(i)
    /\ crud' = [pc |-> "layers", id |-> i]
    /\ UNCHANGED <<layers, rows, files, active, tool, wanted, crashes>>

(* CreateDefaultLayersForAgent: nothing when there are some.               *)
CreateLayers ==
    /\ crud.pc = "layers" /\ layers' = layers \cup {crud.id} /\ crud' = None
    /\ UNCHANGED <<agents, lastNum, rows, files, active, tool, wanted, made, crashes>>

(* The same for an agent found without layers when its context is built or *)
(* its consolidation is set up, which looks the agent up first.            *)
HealLayers(i) ==
    /\ i \in Stored /\ i \notin layers /\ layers' = layers \cup {i}
    /\ UNCHANGED <<agents, lastNum, rows, files, active, crud, tool, wanted, made, crashes>>

-----------------------------------------------------------------------------
(* UpdateAgent: the row is read, patched and written back whole but for    *)
(* the diary secret.  A patch that does not parse, an empty name or an     *)
(* unknown provider is refused before the write.                           *)
GetById(i) == agents[i]

UpdateReads(i) ==
    /\ crud = None /\ i \in Stored /\ wanted[i].admin < MaxEdits
    /\ \E w \in {0, 128} : crud' = [pc |-> "update", id |-> i,
                                   row |-> [GetById(i) EXCEPT !.admin = @ + 1, !.window = w]]
    /\ UNCHANGED <<agents, lastNum, layers, rows, files, active, tool, wanted, made, crashes>>

Update(i, row) == IF i \in Stored THEN PutAgent(i, row) ELSE UNCHANGED agents

UpdateWrites ==
    /\ crud.pc = "update" /\ Update(crud.id, crud.row) /\ crud' = None
    /\ wanted' = [wanted EXCEPT ![crud.id].admin = IF crud.id \in Stored THEN crud.row.admin ELSE @]
    /\ UNCHANGED <<lastNum, layers, rows, files, active, tool, made, crashes>>

(* AgentTool::HandleUpdate, on the thread of a chain of the agent: avatar, *)
(* description and, if allowed, identity.                                  *)
ToolReads(i) ==
    /\ i \in Stored /\ active[i] > 0 /\ tool[i] = None /\ wanted[i].self < MaxEdits
    /\ tool' = [tool EXCEPT ![i] = [pc |-> "write", row |-> [GetById(i) EXCEPT !.self = @ + 1]]]
    /\ UNCHANGED <<agents, lastNum, layers, rows, files, active, crud, wanted, made, crashes>>

ToolWrites(i) ==
    /\ tool[i] # None /\ Update(i, tool[i].row) /\ tool' = [tool EXCEPT ![i] = None]
    /\ wanted' = [wanted EXCEPT ![i].self = IF i \in Stored THEN tool[i].row.self ELSE @]
    /\ UNCHANGED <<lastNum, layers, rows, files, active, crud, made, crashes>>

-----------------------------------------------------------------------------
(* Sessions of the agent, and what its chains leave in the tables.         *)
StartSession(i) ==
    /\ i \in Stored /\ active[i] < MaxSessions
    /\ active' = [active EXCEPT ![i] = @ + 1]
    /\ UNCHANGED <<agents, lastNum, layers, rows, files, crud, tool, wanted, made, crashes>>

TerminateSession(i) ==
    /\ active[i] > 0 /\ tool[i] = None /\ active' = [active EXCEPT ![i] = @ - 1]
    /\ UNCHANGED <<agents, lastNum, layers, rows, files, crud, tool, wanted, made, crashes>>

LeavesRows(i) ==
    /\ active[i] > 0 /\ rows' = rows \cup {i}
    /\ files' = IF i \in Stored THEN files \cup {[key |-> agents[i].num, of |-> i]} ELSE files
    /\ UNCHANGED <<agents, lastNum, layers, active, crud, tool, wanted, made, crashes>>

-----------------------------------------------------------------------------
(* DeleteAgent: the row number is taken before the row goes; active        *)
(* sessions refuse the delete.                                             *)
HasActiveSessions(i) == active[i] > 0

DeleteChecks(i) ==
    /\ crud = None /\ i \in Stored /\ ~HasActiveSessions(i)
    /\ crud' = [pc |-> "delete", id |-> i, num |-> agents[i].num]
    /\ UNCHANGED <<agents, lastNum, layers, rows, files, active, tool, wanted, made, crashes>>

DeleteRow ==
    /\ crud.pc = "delete" /\ agents' = [j \in Stored \ {crud.id} |-> agents[j]]
    /\ crud' = [crud EXCEPT !.pc = "unlayer"]
    /\ UNCHANGED <<lastNum, layers, rows, files, active, tool, wanted, made, crashes>>

DeleteLayersForAgent ==
    /\ crud.pc = "unlayer" /\ layers' = layers \ {crud.id}
    /\ crud' = [crud EXCEPT !.pc = "rows"]
    /\ UNCHANGED <<agents, lastNum, rows, files, active, tool, wanted, made, crashes>>

CleanupRows ==
    /\ crud.pc = "rows" /\ rows' = rows \ {crud.id}
    /\ crud' = [crud EXCEPT !.pc = "files"]
    /\ UNCHANGED <<agents, lastNum, layers, files, active, tool, wanted, made, crashes>>

(* memory_files, never with 0.                                             *)
CleanupFiles ==
    /\ crud.pc = "files" /\ crud.num > 0
    /\ files' = {f \in files : f.key # crud.num} /\ crud' = None
    /\ UNCHANGED <<agents, lastNum, layers, rows, active, tool, wanted, made, crashes>>

-----------------------------------------------------------------------------
(* EnsureSchema at every start: a context window of the old default is     *)
(* reset.  Sessions stay open across it.                                   *)
EnsureSchema ==
    agents' = [j \in Stored |-> IF agents[j].window = 128 THEN [agents[j] EXCEPT !.window = 0] ELSE agents[j]]

Restart ==
    /\ crashes < MaxCrashes /\ crashes' = crashes + 1 /\ EnsureSchema
    /\ crud' = None /\ tool' = [i \in Ids |-> None]
    /\ UNCHANGED <<lastNum, layers, rows, files, active, wanted, made>>

RegNext ==
    \/ \E i \in Ids :
         \/ CreateAgent(i) \/ HealLayers(i) \/ UpdateReads(i) \/ ToolReads(i) \/ ToolWrites(i)
         \/ StartSession(i) \/ TerminateSession(i) \/ LeavesRows(i) \/ DeleteChecks(i)
    \/ CreateLayers \/ UpdateWrites \/ DeleteRow \/ DeleteLayersForAgent \/ CleanupRows
    \/ CleanupFiles
    \/ Restart

RegSpec == RegInit /\ [][RegNext]_regVars

-----------------------------------------------------------------------------
(* An agent is never shown the memory files of another, whatever a crash   *)
(* inside a delete left behind, and the shared files stay.                 *)
NoInheritance ==
    /\ [key |-> 0, of |-> "shared"] \in files
    /\ \A i \in Stored, f \in files : f.key = agents[i].num => f.of = i

(* An edit answered with success is in the row until a later one of the    *)
(* same kind.  Violated: the agent's own edit and the admin's each write   *)
(* back the whole row they read (AgentTool.cpp:176).                       *)
EditStays ==
    \A i \in Stored : agents[i].admin >= wanted[i].admin /\ agents[i].self >= wanted[i].self

(* After a delete is through nothing of the agent is left.  Violated by a  *)
(* session that starts after the check, and by a crash inside the delete,  *)
(* which a second delete cannot repair: the agent is not found.            *)
DeletedIsGone ==
    crud = None => \A i \in made \ Stored : i \notin layers \cup rows /\ \A f \in files : f.of # i

-----------------------------------------------------------------------------
(***************************************************************************)
(* Export and import of an agent, from AgentArchive.cpp: Write dumps one   *)
(* table after another, Read inserts the dumped rows one by one, giving    *)
(* them new ids and remapping the columns that refer to other rows.        *)
(*                                                                         *)
(* A row is [agent, fk, key]: the row it refers to (0: none) and the       *)
(* natural key that names its contents.  The tables stand for the ways the *)
(* importer treats a table.  Ids are never reused (AUTOINCREMENT) and      *)
(* foreign keys are enforced, except by turns_archive.  There is no        *)
(* transaction around either operation.  Packing (tar, gzip, JSON) keeps   *)
(* the rows as they are.                                                   *)
(***************************************************************************)

CONSTANTS
    Tables,         \* the tables that take part, of those in Order
    Window,         \* session_limit: export only the oldest session
    MaxIds,         \* bound: ids given out per table
    MaxImports, MaxLive

VARIABLES
    db,             \* table -> id -> row
    used,           \* table -> highest id given out
    file,           \* table -> sequence of dumped rows, the archive being written or read
    at,             \* the request under way
    imports, live

archiveVars == <<db, used, agents, file, at, imports, crashes, live>>

Source == "a"
Other == "b"
Fresh == "n"

(* The order of the dumps and of the imports.                              *)
Order == SelectSeq(<<"layers", "observations", "files", "chunks", "entities",
                     "sessions", "turns", "reports", "turns_archive">>, LAMBDA t : t \in Tables)

Parent == [t \in Tables |-> CASE t = "observations" -> "layers" [] t = "chunks" -> "files"
                              [] t = "entities" -> "entities"
                              [] t \in {"turns", "reports", "turns_archive"} -> "sessions"
                              [] OTHER -> "none"]
Child(t) == Parent[t] # "none"
Keyed == {"layers", "sessions", "turns"}    \* looked up by their key in merge mode


(* Chunks and turns have no agent of their own: whose they are is said by  *)
(* the row they refer to (their agent field is whom they were written for).*)
Owner(t, i) ==
    LET p == db[t][i].fk
    IN IF t \in {"chunks", "turns", "turns_archive"}
       THEN IF p \in DOMAIN db[Parent[t]] THEN db[Parent[t]][p].agent ELSE "none"
       ELSE db[t][i].agent
Rows(t, a) == {i \in DOMAIN db[t] : Owner(t, i) = a}
With(t, i, r) == [db EXCEPT ![t] = [j \in DOMAIN db[t] \cup {i} |-> IF j = i THEN r ELSE db[t][j]]]
FkHolds(t, fk) == Child(t) /\ t # "turns_archive" /\ fk # 0 => fk \in DOMAIN db[Parent[t]]
FkNeeded(t) == Child(t) /\ t # "entities"

(* Each agent has a row in every table; the other agent's came first.      *)
ArchiveInit ==
    /\ db = [t \in Tables |->
                [i \in 1 .. 2 |-> [agent |-> IF i = 1 THEN Other ELSE Source,
                                   fk |-> IF FkNeeded(t) THEN i ELSE 0,
                                   key |-> i]]]
    /\ used = [t \in Tables |-> 2]
    /\ agents = {Source, Other}
    /\ file = [t \in Tables |-> <<>>]
    /\ at = [pc |-> "idle"] /\ imports = 0 /\ crashes = 0 /\ live = 0

(* The agent goes on living: it adds rows of its own.                      *)
LiveWrite(t) ==
    /\ live < MaxLive /\ live' = live + 1
    /\ used[t] < MaxIds /\ used' = [used EXCEPT ![t] = @ + 1]
    /\ \E fk \in (IF Child(t) THEN Rows(Parent[t], Source) ELSE {})
           \cup (IF FkNeeded(t) THEN {} ELSE {0}) :
          /\ t = "reports" => \A i \in DOMAIN db[t] : db[t][i].fk # fk     \* an upsert
          /\ db' = With(t, used[t] + 1, [agent |-> Source, fk |-> fk, key |-> used[t] + 1])
    /\ UNCHANGED <<agents, file, at, imports, crashes>>

(* MoveEntity puts an entity below another one, older or newer.            *)
LiveMove(i, fk) ==
    /\ live < MaxLive /\ live' = live + 1
    /\ "entities" \in Tables /\ {i, fk} \subseteq Rows("entities", Source) /\ i # fk
    /\ db' = With("entities", i, [db["entities"][i] EXCEPT !.fk = fk])
    /\ UNCHANGED <<used, agents, file, at, imports, crashes>>

-----------------------------------------------------------------------------
Write ==
    /\ at.pc = "idle" /\ Source \in agents
    /\ at' = [pc |-> "dump", i |-> 1]
    /\ file' = [t \in Tables |-> <<>>]
    /\ UNCHANGED <<db, used, agents, imports, crashes, live>>

(* A window limits sessions and their turns; reports and archived turns    *)
(* are dumped whole.                                                       *)
InWindow(t, i) ==
    LET first == CHOOSE s \in Rows("sessions", Source) : \A u \in Rows("sessions", Source) : s <= u
    IN Window => CASE t = "sessions" -> i = first
                   [] t = "turns"    -> db[t][i].fk = first
                   [] OTHER          -> TRUE

SortedIds(S) == CHOOSE s \in [1 .. Cardinality(S) -> S] :
                   \A i, j \in 1 .. Cardinality(S) : i < j => s[i] < s[j]

(* DumpTable takes the agent's rows, DumpTableJoin those below the agent's.*)
DumpTable ==
    LET t == Order[at.i]
        ids == SortedIds({i \in Rows(t, Source) : InWindow(t, i)})
    IN /\ at.pc = "dump"
       /\ file' = [file EXCEPT ![t] = [n \in DOMAIN ids |-> [id |-> ids[n], fk |-> db[t][ids[n]].fk, key |-> db[t][ids[n]].key]]]
       /\ at' = IF at.i = Len(Order) THEN [pc |-> "idle"] ELSE [at EXCEPT !.i = @ + 1]
       /\ UNCHANGED <<db, used, agents, imports, crashes, live>>

-----------------------------------------------------------------------------
Empty == [t \in Tables |-> <<>>]

(* Read: in new mode an agent of that name refuses the import.             *)
Read(mode, a) ==
    /\ at.pc = "idle" /\ imports < MaxImports /\ file # Empty
    /\ imports' = imports + 1
    /\ mode = "new" => a \notin agents
    /\ at' = [pc |-> IF mode = "replace" THEN "wipe" ELSE "agent", mode |-> mode, agent |-> a,
              i |-> 1, j |-> 1,
              map |-> [t \in Tables |-> <<>>]]
    /\ UNCHANGED <<db, used, agents, file, crashes, live>>

(* Replace deletes table after table; rows below go with them (CASCADE).   *)
(* turns_archive is not among the tables.                                  *)
Wipe ==
    LET t == Order[at.i]
        gone == IF t = "turns_archive" THEN {} ELSE Rows(t, at.agent)
        Stays(u, i) == IF u = t THEN i \notin gone
                       ELSE ~(Child(u) /\ u # "turns_archive" /\ Parent[u] = t /\ db[u][i].fk \in gone)
    IN /\ at.pc = "wipe"
       /\ db' = [u \in Tables |-> [i \in {k \in DOMAIN db[u] : Stays(u, k)} |-> db[u][i]]]
       /\ at' = IF at.i = Len(Order) THEN [at EXCEPT !.pc = "agent", !.i = 1]
              ELSE [at EXCEPT !.i = @ + 1]
       /\ UNCHANGED <<used, agents, file, imports, crashes, live>>

(* The agent's record is inserted, or updated in merge mode.               *)
ImportAgent ==
    /\ at.pc = "agent"
    /\ agents' = agents \cup {at.agent}
    /\ at' = [at EXCEPT !.pc = "rows"]
    /\ UNCHANGED <<db, used, file, imports, crashes, live>>

(* A reference becomes the new id of the row it was to, if that row has    *)
(* been seen, and otherwise stays the id it was in the source.             *)
Remapped_OnlySelf(t, r) ==
    IF Child(t) /\ Parent[t] = t /\ \E e \in DOMAIN at.map[t] : at.map[t][e][1] = r.fk
    THEN at.map[t][CHOOSE e \in DOMAIN at.map[t] : at.map[t][e][1] = r.fk][2]
    ELSE r.fk

Remapped(t, r) ==
    IF Child(t) /\ \E e \in DOMAIN at.map[Parent[t]] : at.map[Parent[t]][e][1] = r.fk
    THEN at.map[Parent[t]][CHOOSE e \in DOMAIN at.map[Parent[t]] : at.map[Parent[t]][e][1] = r.fk][2]
    ELSE r.fk

(* Merge mode: the row there already is for the dumped one.  A report is   *)
(* looked up by its session alone.                                         *)
Existing(t, r) ==
    CASE t = "turns_archive" -> {i \in DOMAIN db[t] : i = r.id}
      [] at.mode # "merge"   -> {}
      [] t = "turns"         -> {i \in DOMAIN db[t] : db[t][i].fk = Remapped(t, r) /\ db[t][i].key = r.key}
      [] t = "reports"       -> {i \in DOMAIN db[t] : db[t][i].fk = Remapped(t, r)}
      [] t \in Keyed         -> {i \in Rows(t, at.agent) : db[t][i].key = r.key}
      [] OTHER               -> {}

Advanced == IF at.j < Len(file[Order[at.i]]) THEN [at EXCEPT !.j = @ + 1]
            ELSE [at EXCEPT !.i = @ + 1, !.j = 1]
Mapped(t, r, i) == [Advanced EXCEPT !.map[t] = Append(@, <<r.id, i>>)]

(* One row, of table t.  Found: its id is the one the references below it  *)
(* get.                                                                    *)
RowFound(t, r) ==
    /\ t # "reports" /\ Existing(t, r) # {}
    /\ at' = IF t = "turns_archive" THEN Advanced
           ELSE Mapped(t, r, CHOOSE i \in Existing(t, r) : TRUE)
    /\ UNCHANGED <<db, used>>

(* A report that is there is overwritten, its agent included.              *)
ReportUpdated(t, r) ==
    LET i == CHOOSE i \in Existing(t, r) : TRUE
    IN /\ t = "reports" /\ Existing(t, r) # {}
       /\ db' = With(t, i, [agent |-> at.agent, fk |-> db[t][i].fk, key |-> r.key])
       /\ at' = Mapped(t, r, i)
       /\ UNCHANGED used

(* Archived turns keep their id.                                           *)
ArchivedInserted(t, r) ==
    /\ t = "turns_archive" /\ Existing(t, r) = {}
    /\ db' = With(t, r.id, [agent |-> at.agent, fk |-> Remapped(t, r), key |-> r.key])
    /\ used' = [used EXCEPT ![t] = IF @ < r.id THEN r.id ELSE @]
    /\ at' = Advanced

(* A failing insert is logged and the import goes on.                      *)
RowInserted(t, r) ==
    LET new == used[t] + 1
        row == [agent |-> at.agent, fk |-> Remapped(t, r), key |-> r.key]
    IN /\ t # "turns_archive" /\ Existing(t, r) = {}
       /\ IF FkHolds(t, row.fk)
          THEN /\ new <= MaxIds /\ db' = With(t, new, row) /\ used' = [used EXCEPT ![t] = new]
               /\ at' = Mapped(t, r, new)
          ELSE at' = Advanced /\ UNCHANGED <<db, used>>

ImportRow ==
    /\ at.pc = "rows" /\ at.i <= Len(Order) /\ file[Order[at.i]] # <<>>
    /\ LET t == Order[at.i]
           r == file[t][at.j]
       IN RowFound(t, r) \/ ReportUpdated(t, r) \/ ArchivedInserted(t, r) \/ RowInserted(t, r)
    /\ UNCHANGED <<agents, file, imports, crashes, live>>

ImportEmpty ==
    /\ at.pc = "rows" /\ at.i <= Len(Order) /\ file[Order[at.i]] = <<>>
    /\ at' = [at EXCEPT !.i = @ + 1]
    /\ UNCHANGED <<db, used, agents, file, imports, crashes, live>>

ImportDone ==
    /\ at.pc = "rows" /\ at.i > Len(Order)
    /\ at' = [pc |-> "idle"]
    /\ UNCHANGED <<db, used, agents, file, imports, crashes, live>>

Crash ==
    /\ at.pc # "idle" /\ crashes < MaxCrashes /\ crashes' = crashes + 1
    /\ at' = [pc |-> "idle"]
    /\ file' = IF at.pc = "dump" THEN Empty ELSE file
    /\ UNCHANGED <<db, used, agents, imports, live>>

ArchiveNext ==
    \/ \E t \in Tables : LiveWrite(t)
    \/ \E i, fk \in 1 .. MaxIds : LiveMove(i, fk)
    \/ Write \/ DumpTable
    \/ \E m \in {"new", "merge", "replace"}, a \in {Source, Fresh} : Read(m, a)
    \/ Wipe \/ ImportAgent \/ ImportRow \/ ImportEmpty \/ ImportDone \/ Crash

ArchiveSpec == ArchiveInit /\ [][ArchiveNext]_archiveVars

-----------------------------------------------------------------------------
Imported == at.pc = "rows" /\ at.i > Len(Order)
Copies(t, r) == {i \in Rows(t, at.agent) : db[t][i].key = r.key}

Follow(t) ==
    \A n \in DOMAIN file[t] :
        LET r == file[t][n]
            parents == IF Child(t)
                THEN {p \in DOMAIN file[Parent[t]] : file[Parent[t]][p].id = r.fk} ELSE {}
        IN /\ ~Child(t) \/ r.fk = 0 => Copies(t, r) # {}
           /\ \A p \in parents : \E i \in Copies(t, r) : db[t][i].fk \in Copies(Parent[t], file[Parent[t]][p])
           /\ t \in Keyed /\ ~Child(t) => Cardinality(Copies(t, r)) <= 1

(* When an import ends, every dumped row whose parent was dumped is in the *)
(* agent's tables below the copy of that parent; and a layer or a session  *)
(* is there once, also when the import repeats one that a crash cut off.   *)
RowsFollow ==
    Imported =>
      \A t \in Tables \ {"turns_archive", "entities", "reports"} : Follow(t)

(* The same of the entities.  Violated: an entity moved below a newer one  *)
(* is imported before its parent, and keeps the id from the source.        *)
EntitiesFollow == Imported /\ "entities" \in Tables => Follow("entities")

(* A row never refers to a row of another agent.  Violated: a reference    *)
(* whose target is not in the archive (the report of a session outside the *)
(* window, a row added between two dumps) is inserted with its old id, and *)
(* a merge then even takes over the other agent's report.                  *)
OwnParent ==
    \A t \in Tables : Child(t) => \A i \in DOMAIN db[t] :
        db[t][i].fk \in DOMAIN db[Parent[t]] => db[Parent[t]][db[t][i].fk].agent = db[t][i].agent

(* An archived turn's session exists.  Violated by a replace: the table is *)
(* not wiped, and its rows, found by id, are then not imported again.      *)
ArchivedFollow ==
    at.pc = "idle" /\ "turns_archive" \in Tables =>
        \A i \in DOMAIN db["turns_archive"] : db["turns_archive"][i].fk \in DOMAIN db["sessions"]

(* What the archive holds of the agent it came from is in the archive or   *)
(* in the tables still.  Violated for other rows: a replace that stops     *)
(* half way has deleted rows the archive never had.                        *)
NothingWiped ==
    [][at.pc = "wipe" => \A t \in Tables : \A i \in DOMAIN db[t] \ DOMAIN db'[t] :
          \E n \in DOMAIN file[t] : file[t][n].key = db[t][i].key]_archiveVars
=============================================================================
