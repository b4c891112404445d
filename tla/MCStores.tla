------------------------------ MODULE MCStores ------------------------------
(***************************************************************************)
(* The stores of the kernel, each checked on its own: memory and ontology, *)
(* API packages and their secrets, configuration, provider settings,       *)
(* tokens, archives and the PostgreSQL pool.  They meet only in the        *)
(* database, so a behaviour of this module is a behaviour of one of them,  *)
(* chosen at the start, and a property says what it says of each.          *)
(***************************************************************************)
EXTENDS Naturals, Sequences, FiniteSets

\* The component this behaviour is of, and its state as the INSTANCEs name it.
VARIABLES
    part, s1, s2, s3, s4, s5, s6, s7, s8, s9, s10, s11, s12, s13

vars == <<part, s1, s2, s3, s4, s5, s6, s7, s8, s9, s10, s11, s12, s13>>

TwoPaths == {<<"a">>, <<"a", "b">>}

\* Some modules hold two components.  The INSTANCE of one of them leaves what belongs to
\* the other at 0 and takes none of its actions.
Obs == INSTANCE ObservationStore WITH
    row <- s1, lastId <- s2, logged <- s3, op <- s4, review <- s5, boots <- s6,
    Layers <- {1, 2}, Texts <- {"a", "b"}, MaxRows <- 2, MaxBoots <- 1, Requests <- {"q1"},
    MaxCaptures <- 0, MaxChanges <- 0, MaxCrashes <- 0, MaxJobs <- 0, captures <- 0,
    changes <- 0, cons <- 0, crashes <- 0, disk <- 0, jobs <- 0, nextId <- 0, nextJob <- 0,
    obs <- 0, req <- 0, seen <- 0, up <- 0

Lay == INSTANCE MemoryLayers WITH
    layer <- s1, lastId <- s2, agents <- s3, sched <- s4, op <- s5, begun <- s6, boots <- s7,
    Agents <- {"A", "B"}, Workers <- {"w1"}, Defaults <- <<"day", "week">>, Extra <- {},
    MaxId <- 4, MaxOps <- 3, MaxBoots <- 1,
    Batch <- 0, Chats <- 0, MaxClock <- 0, MaxEntries <- 0, MaxFailures <- 0, MaxFiles <- 0,
    MaxRuns <- 0, MaxTurns <- 0, clock <- 0, diary <- 0, failures <- 0, files <- 0, pipe <- 0,
    read <- 0, reported <- 0, runs <- 0, seen <- 0, turns <- 0, watermark <- 0

Int == INSTANCE MemoryLayers WITH
    turns <- s1, diary <- s2, files <- s3, clock <- s4, watermark <- s5, reported <- s6,
    runs <- s7, pipe <- s8, seen <- s9, read <- s10, failures <- s11,
    Chats <- {"c1"}, MaxTurns <- 2, MaxEntries <- 1, MaxFiles <- 1, MaxClock <- 2, MaxRuns <- 1,
    Batch <- 2, MaxFailures <- 1,
    Agents <- 0, Defaults <- 0, Extra <- 0, MaxBoots <- 0, MaxId <- 0, MaxOps <- 0,
    Workers <- 0, agents <- 0, begun <- 0, boots <- 0, lastId <- 0, layer <- 0, op <- 0, sched <- 0

Onto == INSTANCE OntologyStore WITH
    entity <- s1, lastId <- s2, prop <- s3, obs <- s4, at <- s5, boots <- s6,
    Sqlite <- TRUE, Writers <- {"w1", "w2"}, Paths <- TwoPaths, Observations <- {"o1"},
    MaxEntities <- 2, MaxBoots <- 1

FileStore == INSTANCE MemorySearch WITH
    file <- s1, lastId <- s2, texts <- s3, chunk <- s4, at <- s5, sweep <- s6, boots <- s7,
    Chains <- {"c1"}, Paths <- {"p"}, Parts <- {1, 2}, MaxFiles <- 2, MaxTexts <- 3,
    MaxBoots <- 1,
    Archived <- 0, Entities <- 0, Entries <- 0, MaxImports <- 0, MaxRebuilds <- 0,
    MaxSearches <- 0, Searchers <- 0, admin <- 0, docs <- 0, entries <- 0, fts <- 0, index <- 0,
    left <- 0, search <- 0, table <- 0, told <- 0, trig <- 0, used <- 0

Index == INSTANCE MemorySearch WITH
    entries <- s1, told <- s2, used <- s3, table <- s4, index <- s5, trig <- s6, admin <- s7,
    left <- s8, docs <- s9, fts <- s10, search <- s11, boots <- s12,
    Entries <- {1, 2, 3}, Archived <- {3}, Entities <- {"x", "y"}, Searchers <- {"s1"},
    MaxRebuilds <- 1, MaxImports <- 1, MaxSearches <- 1, MaxBoots <- 1,
    Chains <- 0, MaxFiles <- 0, MaxTexts <- 0, Parts <- 0, Paths <- 0, at <- 0, chunk <- 0,
    file <- 0, lastId <- 0, sweep <- 0, texts <- 0

Cap == INSTANCE ObservationStore WITH
    up <- s1, obs <- s2, nextId <- s3, nextJob <- s4, cons <- s5, disk <- s6, req <- s7,
    seen <- s8, jobs <- s9, captures <- s10, changes <- s11, crashes <- s12,
    MaxCaptures <- 2, MaxChanges <- 2, MaxJobs <- 1, MaxCrashes <- 1,
    Layers <- 0, MaxBoots <- 0, MaxRows <- 0, Requests <- 0, Texts <- 0, boots <- 0,
    lastId <- 0, logged <- 0, op <- 0, review <- 0, row <- 0

Pkg == INSTANCE ApiPackages WITH
    pkg <- s1, cmds <- s2, lastId <- s3, column <- s4, tx <- s5, boot <- s6, at <- s7,
    acts <- s8, boots <- s9, bound <- s10, ran <- s11,
    Chains <- {"c1"}, Revs <- {1, 2}, MaxIds <- 2, MaxActs <- 2, MaxBoots <- 1

Secr == INSTANCE SecretsVault WITH
    keyFile <- s1, key <- s2, alive <- s3, state <- s4, vault <- s5, boot <- s6, at <- s7,
    writes <- s8, boots <- s9, secret <- s10, plain <- s11, refs <- s12,
    Scripts <- {"c1"}, RewriteFails <- FALSE, MaxWrites <- 4, MaxBoots <- 2,
    Callers <- 0, MaxSyncs <- 0, acked <- 0, cache <- 0, entry <- 0, row <- 0, syncs <- 0,
    tried <- 0, warmed <- 0

Conf == INSTANCE SecretsVault WITH
    row <- s1, entry <- s2, cache <- s3, warmed <- s4, at <- s5, writes <- s6, syncs <- s7,
    boots <- s8, acked <- s9, tried <- s10,
    Callers <- {"c1"}, MaxWrites <- 4, MaxSyncs <- 1, MaxBoots <- 2,
    RewriteFails <- 0, Scripts <- 0, alive <- 0, boot <- 0, key <- 0, keyFile <- 0, plain <- 0,
    refs <- 0, secret <- 0, state <- 0, vault <- 0

Traf == INSTANCE ApiRuntime WITH
    now <- s1, pending <- s2, approvals <- s3, passed <- s4, enabled <- s5, inbox <- s6,
    conn <- s7, poll <- s8, given <- s9, boots <- s10,
    Digests <- {"d1", "d2"}, TTL <- 1, MaxPending <- 1, MaxTime <- 2, MaxApprovals <- 1,
    MaxMessages <- 1, MaxBoots <- 1,
    Files <- 0, Hosts <- 0, HttpBudget <- 0, Invocations <- 0, MaxRedirectHops <- 0, Quota <- 0,
    Scope <- 0, call <- 0, disk <- 0, file <- 0, pc <- 0, request <- 0, result <- 0, sent <- 0,
    used <- 0

Arch == INSTANCE AgentStore WITH
    db <- s1, used <- s2, agents <- s3, file <- s4, at <- s5, imports <- s6, crashes <- s7,
    live <- s8,
    Tables <- {"layers", "observations", "entities", "sessions", "turns", "reports", "turns_archive"},
    Window <- FALSE, MaxIds <- 5, MaxImports <- 2, MaxCrashes <- 1, MaxLive <- 1,
    Ids <- 0, MaxEdits <- 0, MaxSessions <- 0, active <- 0, crud <- 0, files <- 0, lastNum <- 0,
    layers <- 0, made <- 0, rows <- 0, tool <- 0, wanted <- 0

Prov == INSTANCE SavedSettings WITH
    rows <- s1, defRow <- s2, mem <- s3, def <- s4, req <- s5, probe <- s6, sync <- s7,
    edits <- s8, remotes <- s9, boots <- s10,
    Ids <- {"p"}, Legacy <- {"p"}, Manual <- 1, Found <- 2, MaxEdits <- 2, MaxRemote <- 1,
    MaxBoots <- 1,
    Default <- 0, Keys <- 0, MaxCrashes <- 0, MaxPatches <- 0, Values <- 0, aFile <- 0,
    adaptation <- 0, audit <- 0, cFile <- 0, config <- 0, crashes <- 0, patches <- 0,
    told <- 0, up <- 0, Admins <- 0, Chains <- 0, InStore <- 0, MaxFlows <- 0,
    MaxRefresh <- 0, admin <- 0, burned <- 0, chain <- 0, codes <- 0, file <- 0, flow <- 0,
    flows <- 0, live <- 0, old <- 0, refreshes <- 0, row <- 0, twitter <- 0

Oauth == INSTANCE SavedSettings WITH
    flow <- s1, twitter <- s2, flows <- s3, old <- s4, codes <- s5, burned <- s6, admin <- s7,
    live <- s8, file <- s9, row <- s10, chain <- s11, refreshes <- s12, crashes <- s13,
    Admins <- {"a1"}, Chains <- {"c1", "c2"}, InStore <- FALSE, MaxFlows <- 2, MaxRefresh <- 2,
    MaxCrashes <- 1,
    Default <- 0, Found <- 0, Ids <- 0, Keys <- 0, Legacy <- 0, Manual <- 0, MaxBoots <- 0,
    MaxEdits <- 0, MaxPatches <- 0, MaxRemote <- 0, Values <- 0, aFile <- 0, adaptation <- 0,
    audit <- 0, boots <- 0, cFile <- 0, config <- 0, def <- 0, defRow <- 0, edits <- 0,
    mem <- 0, patches <- 0, probe <- 0, remotes <- 0, req <- 0, rows <- 0, sync <- 0,
    told <- 0, up <- 0

Sett == INSTANCE SavedSettings WITH
    up <- s1, adaptation <- s2, audit <- s3, cFile <- s4, config <- s5, aFile <- s6, req <- s7,
    told <- s8, edits <- s9, crashes <- s10, patches <- s11,
    Keys <- {"k1", "k2"}, Values <- {1, 2}, Default <- 1, MaxPatches <- 3, MaxEdits <- 2,
    MaxCrashes <- 2,
    Found <- 0, Ids <- 0, Legacy <- 0, Manual <- 0, MaxBoots <- 0, MaxRemote <- 0, boots <- 0,
    def <- 0, defRow <- 0, mem <- 0, probe <- 0, remotes <- 0, rows <- 0, sync <- 0,
    Admins <- 0, Chains <- 0, InStore <- 0, MaxFlows <- 0, MaxRefresh <- 0, admin <- 0,
    burned <- 0, chain <- 0, codes <- 0, file <- 0, flow <- 0, flows <- 0, live <- 0,
    old <- 0, refreshes <- 0, row <- 0, twitter <- 0

Pool == INSTANCE PgPool WITH
    avail <- s1, pin <- s2, stmts <- s3, alive <- s4, tx <- s5, pending <- s6, db <- s7,
    unit <- s8, acks <- s9, writes <- s10, breaks <- s11,
    Threads <- {"t1", "t2"}, Conns <- {"c1", "c2"}, MaxHeld <- 1, MaxDepth <- 2, MaxWrites <- 1,
    MaxBreaks <- 1

Inv == INSTANCE ApiRuntime WITH
    pc <- s1, call <- s2, used <- s3, request <- s4, file <- s5, disk <- s6, sent <- s7,
    result <- s8,
    Invocations <- {"i1"}, Hosts <- {"h1", "h2", "h3"}, Scope <- {"h1", "h2"}, Files <- {"f1"},
    Quota <- 2, HttpBudget <- 1, MaxRedirectHops <- 2,
    Digests <- 0, MaxApprovals <- 0, MaxBoots <- 0, MaxMessages <- 0, MaxPending <- 0,
    MaxTime <- 0, TTL <- 0, approvals <- 0, boots <- 0, conn <- 0, enabled <- 0, given <- 0,
    inbox <- 0, now <- 0, passed <- 0, pending <- 0, poll <- 0

\* A component with k variables leaves the others at 0.
From13 == s13 = 0
From12 == s12 = 0 /\ From13
From11 == s11 = 0 /\ From12
From10 == s10 = 0 /\ From11
From9 == s9 = 0 /\ From10
From8 == s8 = 0 /\ From9
From7 == s7 = 0 /\ From8

Init ==
    \/ part = "observations" /\ Obs!ObsInit /\ From7
    \/ part = "layers" /\ Lay!LayerInit /\ From8
    \/ part = "intake" /\ Int!IntakeInit /\ From12
    \/ part = "ontology" /\ Onto!OntoInit /\ From7
    \/ part = "files" /\ FileStore!FilesInit /\ From8
    \/ part = "index" /\ Index!IndexInit /\ From13
    \/ part = "capture" /\ Cap!CapInit /\ From13
    \/ part = "packages" /\ Pkg!PackagesInit /\ From12
    \/ part = "secrets" /\ Secr!SecretsInit /\ From13
    \/ part = "config" /\ Conf!ConfigInit /\ From11
    \/ part = "traffic" /\ Traf!TrafficInit /\ From11
    \/ part = "archive" /\ Arch!ArchiveInit /\ From9
    \/ part = "providers" /\ Prov!ProvInit /\ From11
    \/ part = "oauth" /\ Oauth!OauthInit
    \/ part = "settings" /\ Sett!SetInit /\ From12
    \/ part = "pool" /\ Pool!PoolInit /\ From12
    \/ part = "invocation" /\ Inv!InvInit /\ From9

Next ==
    \/ part = "observations" /\ Obs!ObsNext /\ UNCHANGED <<part, s7, s8, s9, s10, s11, s12, s13>>
    \/ part = "layers" /\ Lay!LayerNext /\ UNCHANGED <<part, s8, s9, s10, s11, s12, s13>>
    \/ part = "intake" /\ Int!IntakeNext /\ UNCHANGED <<part, s12, s13>>
    \/ part = "ontology" /\ Onto!OntoNext /\ UNCHANGED <<part, s7, s8, s9, s10, s11, s12, s13>>
    \/ part = "files" /\ FileStore!FilesNext /\ UNCHANGED <<part, s8, s9, s10, s11, s12, s13>>
    \/ part = "index" /\ Index!IndexNext /\ UNCHANGED <<part, s13>>
    \/ part = "capture" /\ Cap!CapNext /\ UNCHANGED <<part, s13>>
    \/ part = "packages" /\ Pkg!PackagesNext /\ UNCHANGED <<part, s12, s13>>
    \/ part = "secrets" /\ Secr!SecretsNext /\ UNCHANGED <<part, s13>>
    \/ part = "config" /\ Conf!ConfigNext /\ UNCHANGED <<part, s11, s12, s13>>
    \/ part = "traffic" /\ Traf!TrafficNext /\ UNCHANGED <<part, s11, s12, s13>>
    \/ part = "archive" /\ Arch!ArchiveNext /\ UNCHANGED <<part, s9, s10, s11, s12, s13>>
    \/ part = "providers" /\ Prov!ProvNext /\ UNCHANGED <<part, s11, s12, s13>>
    \/ part = "oauth" /\ Oauth!OauthNext /\ UNCHANGED <<part>>
    \/ part = "settings" /\ Sett!SetNext /\ UNCHANGED <<part, s12, s13>>
    \/ part = "pool" /\ Pool!PoolNext /\ UNCHANGED <<part, s12, s13>>
    \/ part = "invocation" /\ Inv!InvNext /\ UNCHANGED <<part, s9, s10, s11, s12, s13>>

Spec == Init /\ [][Next]_vars

-----------------------------------------------------------------------------
(* What refers to a memory row finds it: walking the superseded_by links   *)
(* of an observation ends (MemoryStore.cpp), an id the admin API has shown *)
(* is still that observation after a crash (MemoryManager.cpp), every      *)
(* layer a schedule should fire has its schedule (ConsolidationPipeline),  *)
(* and the parent of an ontology entity is the one its path names.         *)
MemoryLinksHold ==
    /\ part = "observations" => Obs!HistoryTerminates
    /\ part = "capture" => Cap!SeenIsKept
    /\ part = "layers" => Lay!LayersAreScheduled
    /\ part = "ontology" => Onto!ParentMatchesPath

(* A start repairs without harm: the cleanups of duplicate observations    *)
(* leave one live row of a text that had one, and none of a retired text;  *)
(* the reconciler leaves every property in the state of its evidence.      *)
StartRepairs ==
    [][/\ part = "observations" => Obs!KeepsOne
       /\ part = "ontology" => Onto!InStep]_vars

(* What is searched is what is stored: the chunks cached for a memory file *)
(* are of one of its texts, a diary entry reported as written is in the    *)
(* table, and outside a rebuild one in the table is found.                 *)
SearchFindsStored ==
    /\ part = "files" => FileStore!ChunksOfOneText
    /\ part = "index" => Index!ReportedIsStored /\ Index!EveryEntryFound

(* A package does what it was approved for: it runs the code its approval  *)
(* is bound to, a held write goes out once per approval, a redirect never  *)
(* takes credentials to another host or leaves the scope, and a run the    *)
(* server refused does not count as a success.                             *)
ApprovedOnly ==
    /\ part = "packages" => Pkg!RunsWhatWasBound
    /\ part = "traffic" => Traf!OnePassPerApproval
    /\ part = "invocation" => Inv!RedirectsStayWithin /\ Inv!RefusalShows

(* No step drops work in passing: the intake marks only turns the model    *)
(* was shown, the limit on held writes never costs an approval, a save     *)
(* leaves no row of a provider that is gone, and a discovered value never  *)
(* replaces one the administrator set.                                     *)
NothingDropped ==
    [][/\ part = "intake" => Int!MarksShown
       /\ part = "traffic" => Traf!KeepsApproval
       /\ part = "providers" => Prov!Reconciles /\ Prov!KeepsManual]_vars

(* Credentials survive: a script reads the secret last given, wherever its *)
(* migration into the vault stops; a row's credential is the one last      *)
(* acknowledged or one being written, at any crash; chains that refresh at *)
(* the same time never put a spent token back; and an OAuth code is never  *)
(* presented with the verifier of another flow.                            *)
CredentialsSurvive ==
    /\ part = "secrets" => Secr!SecretSurvives
    /\ part = "config" => Conf!CredentialKept
    /\ part = "oauth" => Oauth!FileTokenLives /\ Oauth!CodeNotBurned

(* The books balance: a connection is in the pool once or has one owner, a *)
(* transaction's caller is told what became of it, an imported row is      *)
(* below the copy of its parent, and the constitution's log explains the   *)
(* adaptation in force.                                                    *)
BooksBalance ==
    /\ part = "pool" => Pool!PoolExact /\ Pool!OutcomeTold
    /\ part = "archive" => Arch!RowsFollow
    /\ part = "settings" => Sett!AuditExplains
=============================================================================
