---------------------------- MODULE MemorySearch -----------------------------
(***************************************************************************)
(* What a search finds: the memory files with their chunks, and the diary  *)
(* and ontology with their indexes. Each has a specification of its own;   *)
(* boots and MaxBoots are of whichever runs.                               *)
(***************************************************************************)
EXTENDS Naturals, FiniteSets, Sequences

(***************************************************************************)
(* An agent's memory files and the chunks cached for each, from            *)
(* MemoryFileStore.cpp, EmbeddingSweep.cpp, the file actions of            *)
(* MemoryTool.cpp and the "process again" route of the admin server.       *)
(*                                                                         *)
(* Each statement is a step.  A file's text is the number of its revision; *)
(* every text has the same Parts, one chunk each.  The full-text index is  *)
(* kept by triggers inside the statements (the second part has the one     *)
(* whose triggers come and go).  One agent; types and supersession are     *)
(* left out.                                                               *)
(***************************************************************************)

CONSTANTS
    Chains,         \* prompt chains calling the memory tool
    Paths,
    Parts,          \* the sections of a text
    MaxFiles,       \* bound: files ever created
    MaxTexts,       \* bound: texts ever written
    MaxBoots        \* bound: restarts

VARIABLES
    file,           \* id -> [path, text, done]
    lastId,
    texts,          \* texts written so far
    chunk,          \* set of [file, part, text, embedded]
    at,             \* chain -> where its call is
    sweep,          \* where the boot's sweep is
    boots

fileVars == <<file, lastId, texts, chunk, at, sweep, boots>>

Idle == [pc |-> "idle"]
ChunksOf(f) == {c \in chunk : c.file = f}
Put(f, r) == [i \in DOMAIN file \cup {f} |-> IF i = f THEN r ELSE file[i]]

(* The sweep is queued once, when the kernel has started.                  *)
FilesInit ==
    /\ file = << >> /\ lastId = 0 /\ texts = 0 /\ chunk = {} /\ boots = 0
    /\ at = [c \in Chains |-> Idle]
    /\ sweep = [pc |-> "queued"]

Go(c, r) == at' = [at EXCEPT ![c] = r]

-----------------------------------------------------------------------------
(* file_write looks the path up, reads the row it found, and writes.       *)
HandleFileWrite(c, p) ==
    LET found == {f \in DOMAIN file : file[f].path = p}
    IN /\ at[c] = Idle
       /\ IF found = {} THEN Go(c, [pc |-> "create", path |-> p])
          ELSE \E f \in found : Go(c, [pc |-> "get", id |-> f])
       /\ UNCHANGED <<file, lastId, texts, chunk, sweep, boots>>

CreateFile(c) ==
    /\ at[c].pc = "create" /\ lastId < MaxFiles /\ texts < MaxTexts
    /\ file' = Put(lastId + 1, [path |-> at[c].path, text |-> texts + 1, done |-> FALSE])
    /\ lastId' = lastId + 1 /\ texts' = texts + 1
    /\ Go(c, Idle)
    /\ UNCHANGED <<chunk, sweep, boots>>

GetFile(c) ==
    /\ at[c].pc = "get"
    /\ IF at[c].id \notin DOMAIN file THEN Go(c, Idle)
       ELSE Go(c, [pc |-> "update", id |-> at[c].id, row |-> file[at[c].id]])
    /\ UNCHANGED <<file, lastId, texts, chunk, sweep, boots>>

(* The whole row goes back, with the status it had when it was read.       *)
UpdateFile(c) ==
    /\ at[c].pc = "update" /\ texts < MaxTexts
    /\ file' = IF at[c].id \notin DOMAIN file THEN file
               ELSE Put(at[c].id, [at[c].row EXCEPT !.text = texts + 1])
    /\ texts' = texts + 1
    /\ Go(c, Idle)
    /\ UNCHANGED <<lastId, chunk, sweep, boots>>

(* HandleFileDelete; the chunks go with the file.                          *)
DeleteFile(f) ==
    /\ f \in DOMAIN file
    /\ file' = [i \in DOMAIN file \ {f} |-> file[i]]
    /\ chunk' = chunk \ ChunksOf(f)
    /\ UNCHANGED <<lastId, texts, at, sweep, boots>>

(* The consolidation marks a file, the admin asks for it again.            *)
MarkProcessed(f) ==
    /\ f \in DOMAIN file /\ ~file[f].done
    /\ file' = [file EXCEPT ![f].done = TRUE]
    /\ UNCHANGED <<lastId, texts, chunk, at, sweep, boots>>

ProcessAgain(f) ==
    /\ f \in DOMAIN file /\ file[f].done
    /\ file' = [file EXCEPT ![f].done = FALSE]
    /\ UNCHANGED <<lastId, texts, chunk, at, sweep, boots>>

-----------------------------------------------------------------------------
(* SweepPendingEmbeddings.  The files are listed once, with their text.    *)
SweepLists ==
    /\ sweep.pc = "queued"
    /\ sweep' = [pc |-> "next", todo |-> {[id |-> f, text |-> file[f].text] : f \in DOMAIN file}]
    /\ UNCHANGED <<file, lastId, texts, chunk, at, boots>>

SweepTakes_Missing ==
    /\ sweep.pc = "next"
    /\ IF sweep.todo = {} THEN sweep' = [pc |-> "ended"]
       ELSE \E f \in sweep.todo :
              LET todo == sweep.todo \ {f}
                  missing == Parts \ {c.part : c \in ChunksOf(f.id)}
              IN IF missing = {}
                 THEN sweep' = [pc |-> "embed", todo |-> todo, left |-> ChunksOf(f.id)]
                 ELSE sweep' = [pc |-> "insert", todo |-> todo, of |-> f, parts |-> missing]
    /\ UNCHANGED <<file, lastId, texts, chunk, at, boots>>

(* A file without any chunk is cut; ReplaceChunks first deletes.           *)
SweepTakes ==
    /\ sweep.pc = "next"
    /\ IF sweep.todo = {} THEN sweep' = [pc |-> "ended"] /\ UNCHANGED chunk
       ELSE \E f \in sweep.todo :
              LET todo == sweep.todo \ {f}
              IN IF ChunksOf(f.id) # {}
                 THEN /\ sweep' = [pc |-> "embed", todo |-> todo, left |-> ChunksOf(f.id)]
                      /\ UNCHANGED chunk
                 ELSE /\ sweep' = [pc |-> "insert", todo |-> todo, of |-> f, parts |-> Parts]
                      /\ chunk' = chunk \ ChunksOf(f.id)
    /\ UNCHANGED <<file, lastId, texts, at, boots>>

(* The foreign key refuses the chunk of a file that is gone.  In order.    *)
ReplaceChunks ==
    LET p == CHOOSE q \in sweep.parts : \A r \in sweep.parts : q <= r
    IN /\ sweep.pc = "insert"
       /\ IF sweep.parts = {}
          THEN sweep' = [pc |-> "embed", todo |-> sweep.todo,
                         left |-> ChunksOf(sweep.of.id)] /\ UNCHANGED chunk
          ELSE /\ sweep' = [sweep EXCEPT !.parts = @ \ {p}]
               /\ chunk' = IF sweep.of.id \notin DOMAIN file THEN chunk
                           ELSE chunk \cup {[file |-> sweep.of.id, part |-> p,
                                             text |-> sweep.of.text, embedded |-> FALSE]}
       /\ UNCHANGED <<file, lastId, texts, at, boots>>

(* The embedding may fail; the chunk may be gone when it arrives.          *)
UpdateChunkEmbedding(worked) ==
    /\ sweep.pc = "embed"
    /\ IF sweep.left = {}
       THEN worked /\ sweep' = [pc |-> "next", todo |-> sweep.todo] /\ UNCHANGED chunk
       ELSE \E c \in sweep.left :
              /\ sweep' = [sweep EXCEPT !.left = @ \ {c}]
              /\ c.embedded => worked
              /\ chunk' = IF worked /\ c \in chunk
                          THEN (chunk \ {c}) \cup {[c EXCEPT !.embedded = TRUE]} ELSE chunk
    /\ UNCHANGED <<file, lastId, texts, at, boots>>

Restart ==
    /\ boots < MaxBoots /\ boots' = boots + 1
    /\ sweep' = [pc |-> "queued"]
    /\ at' = [c \in Chains |-> Idle]
    /\ UNCHANGED <<file, lastId, texts, chunk>>

FilesNext ==
    \/ \E c \in Chains : \/ \E p \in Paths : HandleFileWrite(c, p)
                         \/ CreateFile(c) \/ GetFile(c) \/ UpdateFile(c)
    \/ \E f \in 1 .. MaxFiles : DeleteFile(f) \/ MarkProcessed(f) \/ ProcessAgain(f)
    \/ SweepLists \/ SweepTakes \/ ReplaceChunks
    \/ \E worked \in BOOLEAN : UpdateChunkEmbedding(worked)
    \/ Restart

FilesSpec == FilesInit /\ [][FilesNext]_fileVars

-----------------------------------------------------------------------------
(* What is cached for a file is of a file there is and of one text: a      *)
(* delete, an update or a restart in the middle of the sweep never leaves  *)
(* chunks of nothing or of two revisions side by side.                     *)
ChunksOfOneText ==
    /\ \A c \in chunk : c.file \in DOMAIN file
    /\ \A c, d \in chunk : c.file = d.file => c.text = d.text

(* The cached chunks are of the file's present text once the sweep has     *)
(* ended.  Violated: needsRechunk is only that there are no chunks.        *)
ChunksAreCurrent ==
    sweep.pc = "ended" => \A c \in chunk : c.text = file[c.file].text

(* A file has all its chunks or, outside the sweep, none.  Violated by a   *)
(* restart between two inserts of ReplaceChunks, for good.                 *)
CutWhole ==
    sweep.pc = "ended" => \A f \in DOMAIN file : {c.part : c \in ChunksOf(f)} \in {{}, Parts}

(* A path names one file (HandleFileWrite: "Check if file already exists   *)
(* (by path + agent)").  Violated by two calls.                            *)
OneFilePerPath ==
    \A f, g \in DOMAIN file : file[f].path = file[g].path => f = g

(* A write of the text leaves the status as it finds it.  Violated: the    *)
(* status goes back with the row read earlier, over the admin's "queued    *)
(* for processing" or the consolidation's mark.                            *)
WriteKeepsStatus ==
    [][\A f \in DOMAIN file \cap DOMAIN file' :
         file[f].text # file'[f].text => file[f].done = file'[f].done]_fileVars

-----------------------------------------------------------------------------
(***************************************************************************)
(* The search indexes of the memory, from MemorySearch.cpp, with the diary *)
(* they index, from DiaryManager.cpp and DiaryTool.cpp, on SQLite.  The    *)
(* diary's index is kept by triggers, which a rebuild drops and makes      *)
(* anew; the ontology's is filled again by every search.                   *)
(*                                                                         *)
(* Each statement is a step.  Prompt chains write, delete and search; the  *)
(* admin server's one thread rebuilds or imports.  Entries never change.   *)
(* A statement whose trigger names a missing table fails.                  *)
(***************************************************************************)

CONSTANTS
    Entries,        \* the diary entries ever written, by id
    Archived,       \* those among them an import brings
    Entities,       \* the ontology's entities, which stay
    Searchers,      \* prompt chains that search
    MaxRebuilds,    \* bound: rebuilds asked for
    MaxImports,     \* bound: imports
    MaxSearches     \* bound: searches of each searcher

VARIABLES
    entries,        \* rows of diary_entries
    told,           \* entries reported as written and not deleted since
    used,           \* ids already given
    table,          \* diary_entries_fts is there
    index,          \* what it holds, by id
    trig,           \* the triggers that are there
    admin,          \* what the admin thread is doing
    left,           \* [rebuilds, imports] still to be asked for
    docs,           \* rows of ontology_search_docs: <<entity, searcher, round>>
    fts,            \* what ontology_search_fts holds
    search          \* searcher -> where it is

diaryVars == <<entries, told, used, table, index, trig>>
docVars == <<docs, fts, search>>
indexVars == <<entries, told, used, table, index, trig, admin, left, docs, fts, search, boots>>

AllTriggers == {"ai", "ad"}

(* EnsureSchema has run on an empty database.                              *)
IndexInit ==
    /\ entries = {} /\ told = {} /\ used = {}
    /\ table = TRUE /\ index = {} /\ trig = AllTriggers
    /\ admin = Idle
    /\ left = [rebuilds |-> MaxRebuilds, imports |-> MaxImports]
    /\ docs = {} /\ fts = {} /\ search = [s \in Searchers |-> [pc |-> "idle", round |-> 0]]
    /\ boots = 0

-----------------------------------------------------------------------------
(* DiaryStore: an insert and a delete with their triggers.                 *)
Fails(t) == t \in trig /\ ~table

Create(e) ==
    /\ used' = used \cup {e}
    /\ entries' = IF Fails("ai") THEN entries ELSE entries \cup {e}
    /\ index' = IF "ai" \in trig /\ table THEN index \cup {e} ELSE index

Delete(e) ==
    /\ entries' = IF Fails("ad") THEN entries ELSE entries \ {e}
    /\ index' = IF "ad" \in trig /\ table THEN index \ {e} ELSE index

(* The write is reported whether or not the insert failed; a delete that   *)
(* changed no row is an error.                                             *)
MayUseDiary == admin.pc \notin {"replace", "import"}

WriteEntry(e) ==
    /\ e \notin used /\ MayUseDiary
    /\ Create(e)
    /\ told' = told \cup {e}
    /\ UNCHANGED <<table, trig, admin, left, docs, fts, search, boots>>

DeleteEntry(e) ==
    /\ e \in entries /\ MayUseDiary
    /\ Delete(e)
    /\ told' = told \ (entries \ entries')
    /\ UNCHANGED <<used, table, trig, admin, left, docs, fts, search, boots>>

(* The diary tool's actions that write.                                    *)
Execute ==
    \/ \E e \in Entries \ Archived : WriteEntry(e)
    \/ \E e \in Entries : DeleteEntry(e)

(* A search joins the index with the entries.                              *)
FoundEntries == index \cap entries

(* ImportEntriesJson: "replace" deletes the agent's entries one by one,    *)
(* both insert what is not there.  The diary's mutex is held throughout.   *)
ImportEntriesJson(strategy) ==
    /\ admin = Idle /\ left.imports > 0
    /\ left' = [left EXCEPT !.imports = @ - 1]
    /\ admin' = [pc |-> "replace", items |-> Archived,
                 drop |-> IF strategy = "replace" THEN entries ELSE {}]
    /\ UNCHANGED <<entries, told, used, table, index, trig, docs, fts, search, boots>>

ReplaceDeletes ==
    /\ admin.pc = "replace"
    /\ IF admin.drop = {}
       THEN admin' = [pc |-> "import", items |-> admin.items] /\ UNCHANGED <<entries, index, told>>
       ELSE \E e \in admin.drop :
              /\ admin' = [admin EXCEPT !.drop = @ \ {e}]
              /\ Delete(e) /\ told' = told \ {e}
    /\ UNCHANGED <<used, table, trig, left, docs, fts, search, boots>>

ImportItem ==
    /\ admin.pc = "import"
    /\ IF admin.items = {} THEN admin' = Idle /\ UNCHANGED <<entries, index, told, used>>
       ELSE \E e \in admin.items :
              /\ admin' = [admin EXCEPT !.items = @ \ {e}]
              /\ IF e \in entries THEN UNCHANGED <<entries, index, told, used>>
                 ELSE Create(e) /\ told' = told \cup {e}
    /\ UNCHANGED <<table, trig, left, docs, fts, search, boots>>

-----------------------------------------------------------------------------
Rebuild_TableFirst == << "drop table", "drop ai", "drop ad", "table", "ai", "ad", "backfill" >>

(* RebuildDiaryIndex, and EnsureDiaryFtsSchema which it ends with.         *)
Rebuild == << "drop ai", "drop ad", "drop table", "table", "ai", "ad", "backfill" >>

RebuildDiaryIndex ==
    /\ admin = Idle /\ left.rebuilds > 0
    /\ left' = [left EXCEPT !.rebuilds = @ - 1]
    /\ admin' = [pc |-> "rebuild", n |-> 1]
    /\ UNCHANGED <<entries, told, used, table, index, trig, docs, fts, search, boots>>

Backfilled_Proxied == index

Backfilled == index \cup entries

RebuildStep ==
    LET what == Rebuild[admin.n]
    IN /\ admin.pc = "rebuild"
       /\ admin' = IF admin.n = Len(Rebuild) THEN Idle ELSE [admin EXCEPT !.n = @ + 1]
       /\ trig' = CASE what = "drop ai" -> trig \ {"ai"} [] what = "drop ad" -> trig \ {"ad"}
                    [] what \in AllTriggers -> trig \cup {what} [] OTHER -> trig
       /\ table' = CASE what = "drop table" -> FALSE [] what = "table" -> TRUE [] OTHER -> table
       /\ index' = CASE what = "drop table" -> {} [] what = "backfill" -> Backfilled
              [] OTHER -> index
       /\ UNCHANGED <<entries, told, used, left, docs, fts, search, boots>>

(* A new start: EnsureDiaryFtsSchema makes what is missing and backfills;  *)
(* the counts are compared and the index rebuilt when they differ.         *)
InStep(ix) == ix = entries
EnsureSchema ==
    /\ boots < MaxBoots /\ boots' = boots + 1
    /\ table' = TRUE /\ trig' = AllTriggers
    /\ LET healed == (IF table THEN index ELSE {}) \cup entries
       IN index' = IF InStep(healed) THEN healed ELSE entries
    /\ admin' = Idle
    /\ search' = [s \in Searchers |-> [search[s] EXCEPT !.pc = "idle"]]
    /\ UNCHANGED <<entries, told, used, left, docs, fts>>

-----------------------------------------------------------------------------
(* Search in the ontology's domain: RefreshOntologyDocs empties and fills  *)
(* the documents, entity by entity, has the index made from them, and the  *)
(* query joins the two.                                                    *)
Searching(s, r) == search' = [search EXCEPT ![s] = r]

RefreshDeletes(s) ==
    /\ search[s].pc = "idle" /\ search[s].round < MaxSearches
    /\ docs' = {}
    /\ Searching(s, [pc |-> "fill", round |-> search[s].round + 1, todo |-> Entities])
    /\ UNCHANGED <<entries, told, used, table, index, trig, admin, left, fts, boots>>

RefreshInserts(s) ==
    /\ search[s].pc = "fill"
    /\ IF search[s].todo = {}
       THEN fts' = docs /\ UNCHANGED docs
            /\ Searching(s, [pc |-> "query", round |-> search[s].round])
       ELSE \E e \in search[s].todo :
              /\ docs' = docs \cup {<<e, s, search[s].round>>} /\ UNCHANGED fts
              /\ Searching(s, [search[s] EXCEPT !.todo = @ \ {e}])
    /\ UNCHANGED <<entries, told, used, table, index, trig, admin, left, boots>>

FoundEntities == {d[1] : d \in docs \cap fts}

Search(s) ==
    /\ search[s].pc = "query"
    /\ Searching(s, [pc |-> "idle", round |-> search[s].round])
    /\ UNCHANGED <<entries, told, used, table, index, trig, admin, left, docs, fts, boots>>

IndexNext ==
    \/ Execute
    \/ \E st \in {"merge", "replace"} : ImportEntriesJson(st)
    \/ ReplaceDeletes \/ ImportItem
    \/ RebuildDiaryIndex \/ RebuildStep \/ EnsureSchema
    \/ \E s \in Searchers : RefreshDeletes(s) \/ RefreshInserts(s) \/ Search(s)

IndexSpec == IndexInit /\ [][IndexNext]_indexVars

-----------------------------------------------------------------------------
(* What the diary tool reported as written is stored, although it reports  *)
(* so without looking: a rebuild running beside it never makes the insert  *)
(* fail, because the triggers go before the table and come after it.       *)
ReportedIsStored == told \subseteq entries

(* Outside a rebuild the search finds every entry of the diary: one        *)
(* written between two statements of the rebuild is caught by the backfill *)
(* or by the trigger, and a restart in the middle makes the index anew.    *)
EveryEntryFound == admin.pc # "rebuild" => FoundEntries = entries

(* A search finds every entity there is.  Violated by a search that        *)
(* empties the documents beside it.                                        *)
EveryEntityFound == \A s \in Searchers : search[s].pc = "query" => FoundEntities = Entities

(* The index has as many documents as the diary has entries, what          *)
(* VerifyFtsSync compares.  Violated by an entry written and deleted       *)
(* between the making of the two triggers.                                 *)
CountsAgree == admin = Idle => index = entries
=============================================================================
