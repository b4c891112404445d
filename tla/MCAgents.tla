------------------------------ MODULE MCAgents ------------------------------
(***************************************************************************)
(* What an agent works with, each part checked on its own: the prompt      *)
(* chain and the answers it parses, its session's store, its tools, notes, *)
(* files, tasks and schedules, and the nodes it calls.  A behaviour of     *)
(* this module is a behaviour of one part, chosen at the start.            *)
(***************************************************************************)
EXTENDS Naturals, Sequences, FiniteSets, TLC, TLAPS

\* The component this behaviour is of, and its state as the INSTANCEs name it.
VARIABLES
    part, s1, s2, s3, s4, s5, s6, s7, s8, s9, s10, s11, s12, s13, s14, s15, s16

vars == <<part, s1, s2, s3, s4, s5, s6, s7, s8, s9, s10, s11, s12, s13, s14, s15, s16>>

(* PromptChain: where the result of a tool goes.                           *)
RouteOf == [show |-> "user", compact |-> "model", barred |-> "model"]

(* Access: agents and types of the chains' sessions, and the session       *)
(* types a tool is for (none: any).                                        *)
ChainAgent == [c1 |-> "a1", c2 |-> "a2"]
ChainType == [c1 |-> "gallivanting", c2 |-> "consolidation"]
ToolTypes == [gallivanting |-> {"gallivanting"}, review |-> {"consolidation"}, note |-> {"default"},
              memory |-> {}, api |-> {}]
EnabledTools == [a1 |-> {"api"}, a2 |-> {"memory", "note"}]

\* Some modules hold two components.  The INSTANCE of one of them leaves what belongs to
\* the other at 0 and takes none of its actions.
Chain == INSTANCE PromptChain WITH
    phase <- s1, turns <- s2, summary <- s3, durable <- s4, todo <- s5, step <- s6, used <- s7,
    goOn <- s8, overrun <- s9, stop <- s10, waiting <- s11, result <- s12, faults <- s13,
    cut <- s14,
    Tools <- {"show", "compact", "barred"}, Route <- RouteOf, Allowed <- {"show", "compact"},
    DefaultCalls <- 3, AgentCalls <- 0, Consolidation <- FALSE, ConsolidationCalls <- 4,
    MaxSteps <- 3, KeepRecent <- 2, MinMessages <- 3, MaxTurns <- 6, MaxFaults <- 1,
    AgentOf <- 0, Chains <- 0, ConsolidationSafe <- 0, EnabledTools <- 0, NoAgent <- 0,
    ToolNames <- 0, TypeOf <- 0, TypesOf <- 0, at <- 0, current <- 0, offered <- 0, served <- 0,
    view <- 0

Llm == INSTANCE ChatStream WITH
    wire <- s1, stream <- s2, reuse <- s3, attempt <- s4, phase <- s5, sent <- s6, buf <- s7,
    body <- s8, acc <- s9, shown <- s10, err <- s11, stop <- s12, status <- s13, taken <- s14,
    Wires <- {"openai", "codex", "cohere"}, RepeatsId <- FALSE, MaxAttempts <- 2, MaxRun <- 2,
    MaxCalls <- 2, MaxLines <- 4,
    ChatSessions <- 0, MaxEvents <- 0, MaxStops <- 0, Requests <- 0, Slots <- 0, ack <- 0,
    at <- 0, cards <- 0, connected <- 0, done <- 0, events <- 0, known <- 0, late <- 0, of <- 0,
    result <- 0, signal <- 0, stops <- 0, turns <- 0, with <- 0

Sess == INSTANCE SessionStore WITH
    entries <- s1, rows <- s2, sumRow <- s3, exists <- s4, writer <- s5, whats <- s6,
    batch <- s7, taken <- s8, gone <- s9, lookups <- s10, restarts <- s11, intakes <- s12,
    failures <- s13,
    Sessions <- {1, 2}, MaxWhat <- 2, MaxRestarts <- 1, MaxIntakes <- 1, MaxLookups <- 1,
    MaxFailures <- 1

Access == INSTANCE PromptChain WITH
    at <- s1, current <- s2, offered <- s3, view <- s4, served <- s5,
    Chains <- {"c1", "c2"}, AgentOf <- ChainAgent, TypeOf <- ChainType,
    ToolNames <- DOMAIN ToolTypes, TypesOf <- ToolTypes, ConsolidationSafe <- {"memory"},
    EnabledTools <- EnabledTools, NoAgent <- "none",
    AgentCalls <- 0, Allowed <- 0, Consolidation <- 0, ConsolidationCalls <- 0,
    DefaultCalls <- 0, KeepRecent <- 0, MaxFaults <- 0, MaxSteps <- 0, MaxTurns <- 0,
    MinMessages <- 0, Route <- 0, Tools <- 0, cut <- 0, durable <- 0, faults <- 0, goOn <- 0,
    overrun <- 0, phase <- 0, result <- 0, step <- 0, stop <- 0, summary <- 0, todo <- 0,
    turns <- 0, used <- 0, waiting <- 0

Notes == INSTANCE AgentRecords WITH
    notes <- s1, nextNote <- s2, tags <- s3, report <- s4, changes <- s5, call <- s6,
    noteCalls <- s7, reports <- s8, told <- s9,
    Actors <- {"a1", "a2"}, NoteSessions <- {"s1"}, Tags <- {"g1"}, MaxNotes <- 2,
    MaxNoteCalls <- 4, MaxReports <- 1,
    Agents <- 0, Chains <- 0, MaxEdits <- 0, MaxRecords <- 0, MaxTasks <- 0, MaxThreads <- 0,
    MaxUpdates <- 0, Projects <- 0, acks <- 0, block <- 0, edits <- 0, owner <- 0,
    recorded <- 0, status <- 0, step <- 0, stored <- 0, task <- 0, threads <- 0, updates <- 0,
    used <- 0

Ft == INSTANCE FileTool WITH
    file <- s1, ended <- s2, used <- s3, chain <- s4, reading <- s5, log <- s6, crashes <- s7,
    Chains <- {"c1"}, Texts <- {1, 2, 3, 4}, Opens <- {1}, Closes <- {2, 4}, Phrases <- {3},
    Limit <- 1, MaxCrashes <- 1

Tasks == INSTANCE AgentRecords WITH
    status <- s1, task <- s2, call <- s3, updates <- s4,
    Chains <- {"c1"}, Projects <- {"p1"}, MaxTasks <- 3, MaxUpdates <- 2,
    Actors <- 0, Agents <- 0, MaxEdits <- 0, MaxNoteCalls <- 0, MaxNotes <- 0, MaxRecords <- 0,
    MaxReports <- 0, MaxThreads <- 0, NoteSessions <- 0, Tags <- 0, acks <- 0, block <- 0,
    changes <- 0, edits <- 0, nextNote <- 0, noteCalls <- 0, notes <- 0, owner <- 0,
    recorded <- 0, report <- 0, reports <- 0, step <- 0, stored <- 0, tags <- 0, threads <- 0,
    told <- 0, used <- 0

Gv == INSTANCE AgentRecords WITH
    threads <- s1, recorded <- s2, step <- s3, owner <- s4, used <- s5, edits <- s6, acks <- s7,
    stored <- s8, block <- s9,
    Agents <- {"g1", "g2"}, Chains <- {"c1"}, MaxThreads <- 2, MaxRecords <- 1, MaxEdits <- 1,
    Actors <- 0, MaxNoteCalls <- 0, MaxNotes <- 0, MaxReports <- 0, MaxTasks <- 0,
    MaxUpdates <- 0, NoteSessions <- 0, Projects <- 0, Tags <- 0, call <- 0, changes <- 0,
    nextNote <- 0, noteCalls <- 0, notes <- 0, report <- 0, reports <- 0, status <- 0,
    tags <- 0, task <- 0, told <- 0, updates <- 0

Reg == INSTANCE AgentStore WITH
    agents <- s1, lastNum <- s2, layers <- s3, rows <- s4, files <- s5, active <- s6,
    crud <- s7, tool <- s8, wanted <- s9, made <- s10, crashes <- s11,
    Ids <- {"i1", "i2"}, MaxEdits <- 1, MaxSessions <- 1, MaxCrashes <- 1,
    MaxIds <- 0, MaxImports <- 0, MaxLive <- 0, Tables <- 0, Window <- 0, at <- 0, db <- 0,
    file <- 0, imports <- 0, live <- 0, used <- 0

Lua == INSTANCE LuaRuntime WITH
    image <- s1, volume <- s2, tmp <- s3, pinned <- s4, row <- s5, boot <- s6, todo <- s7,
    vms <- s8, tool <- s9, regs <- s10, stack <- s11, active <- s12, count <- s13, at <- s14,
    bootCount <- s15, writes <- s16,
    Agents <- {"a", "b"}, Threads <- {"t1"}, Limit <- 3, MaxDepth <- 3, MaxImages <- 2,
    MaxBoots <- 2, MaxWrites <- 1

Sched == INSTANCE ScheduleEditsProofs WITH
    clock <- s1, rows <- s2, used <- s3, pass <- s4, cur <- s5, runs <- s6, fired <- s7,
    put <- s8, edits <- s9, asked <- s10, changes <- s11, cancel <- s12, late <- s13,
    crashes <- s14,
    Ids <- {"i1"}, Limit <- 2, MaxClock <- 3, MaxEdits <- 2, MaxFires <- 3, MaxCrashes <- 1

Node == INSTANCE NodeCalls WITH
    mtx <- s1, http <- s2, toServer <- s3, toNode <- s4, reg <- s5, ctxs <- s6, pending <- s7,
    tokens <- s8, revoked <- s9, node <- s10, pc <- s11, value <- s12, told <- s13, ran <- s14,
    count <- s15,
    Calls <- {"k1", "k2"}, NodeSigns <- TRUE, MaxConns <- 2, MaxBeats <- 1, MaxLists <- 1,
    MaxRestarts <- 1

\* A component with k variables leaves the others at 0.
From16 == s16 = 0
From15 == s15 = 0 /\ From16
From14 == s14 = 0 /\ From15
From13 == s13 = 0 /\ From14
From12 == s12 = 0 /\ From13
From11 == s11 = 0 /\ From12
From10 == s10 = 0 /\ From11
From9 == s9 = 0 /\ From10
From8 == s8 = 0 /\ From9
From7 == s7 = 0 /\ From8
From6 == s6 = 0 /\ From7
From5 == s5 = 0 /\ From6

Init ==
    \/ part = "chain" /\ Chain!ChainInit /\ From15
    \/ part = "llm" /\ Llm!LlmInit /\ From15
    \/ part = "sessions" /\ Sess!StoreInit /\ From14
    \/ part = "access" /\ Access!AccessInit /\ From6
    \/ part = "notes" /\ Notes!NoteInit /\ From10
    \/ part = "file" /\ Ft!FileToolInit /\ From8
    \/ part = "tasks" /\ Tasks!ProjInit /\ From5
    \/ part = "gallivanting" /\ Gv!GvInit /\ From10
    \/ part = "registry" /\ Reg!RegInit /\ From12
    \/ part = "lua" /\ Lua!LuaInit
    \/ part = "schedules" /\ Sched!SchedInit /\ From15
    \/ part = "nodes" /\ Node!NodeInit /\ From16

Next ==
    \/ part = "chain" /\ Chain!ChainNext /\ UNCHANGED <<part, s15, s16>>
    \/ part = "llm" /\ Llm!LlmNext /\ UNCHANGED <<part, s15, s16>>
    \/ part = "sessions" /\ Sess!StoreNext /\ UNCHANGED <<part, s14, s15, s16>>
    \/ part = "access" /\ Access!AccessNext /\ UNCHANGED <<part, s6, s7, s8, s9, s10, s11, s12,
        s13, s14, s15, s16>>
    \/ part = "notes" /\ Notes!NoteNext /\ UNCHANGED <<part, s10, s11, s12, s13, s14, s15, s16>>
    \/ part = "file" /\ Ft!FileToolNext /\ UNCHANGED <<part, s8, s9, s10, s11, s12, s13, s14,
        s15, s16>>
    \/ part = "tasks" /\ Tasks!ProjNext /\ UNCHANGED <<part, s5, s6, s7, s8, s9, s10, s11, s12,
        s13, s14, s15, s16>>
    \/ part = "gallivanting" /\ Gv!GvNext /\ UNCHANGED <<part, s10, s11, s12, s13, s14, s15, s16>>
    \/ part = "registry" /\ Reg!RegNext /\ UNCHANGED <<part, s12, s13, s14, s15, s16>>
    \/ part = "lua" /\ Lua!LuaNext /\ UNCHANGED <<part>>
    \/ part = "schedules" /\ Sched!SchedNext /\ UNCHANGED <<part, s15, s16>>
    \/ part = "nodes" /\ Node!NodeNext /\ UNCHANGED <<part, s16>>

Spec == Init /\ [][Next]_vars

-----------------------------------------------------------------------------
(* What a model is shown is on disk before it is called (ChainRunner.cpp:  *)
(* "Otherwise container restart loses everything"), and a flushed turn is  *)
(* in the database under an id of its own through restarts, which rebuild  *)
(* the counter, and compactions, which take one (SqliteSessionStore.cpp).  *)
TranscriptKept ==
    /\ part = "chain" => Chain!SeenIsDurable
    /\ part = "sessions" => Sess!FlushedIsStored

(* Calls and results stay paired: each call of a request has its result,   *)
(* through refusals, budgets, stops and interjections; the calls taken     *)
(* from a stream are those sent, wherever its lines were cut; and the text *)
(* of two attempts is never shown one after the other.                     *)
CallsPaired ==
    /\ part = "chain" => Chain!RequestPaired
    /\ part = "llm" => Llm!CallsAsSent /\ Llm!ShownOnce

(* An agent's tools are its own: what a session is offered the gate lets   *)
(* it call, a script never runs with another agent's configuration however *)
(* calls nest, every agent has the shared script the start healed, and a   *)
(* call told to have run on a node is the one that ran.                    *)
ToolsAreTheAgents ==
    /\ part = "access" => Access!OfferedIsCallable
    /\ part = "lua" => Lua!ActiveIsMine /\ Lua!LoadedIsHealed
    /\ part = "nodes" => Node!ToldIsRan

(* The file tool neither skips nor garbles: reading on from where each     *)
(* answer says gives every line once, a block found by a phrase holds it,  *)
(* and what was reported written stays, on a line of its own.              *)
FilesAsWritten ==
    part = "file" => Ft!HintsCover /\ Ft!BlockHoldsPhrase /\ Ft!WrittenStays

(* An agent's records: a project with work left has a task to give, a note *)
(* lands where it was asked for and the limit is passed by at most one for *)
(* every other writer, a history is of threads there are, and no agent is  *)
(* shown the files of a deleted one.                                       *)
RecordsSound ==
    /\ part = "tasks" => Tasks!NoStandstill
    /\ part = "notes" => Notes!AddedAsAsked /\ Notes!NotesBounded
    /\ part = "gallivanting" => Gv!HistoryIsOfThreads
    /\ part = "registry" => Reg!NoInheritance

(* No window of a schedule is dispatched twice, although the admin's edit  *)
(* and the poll thread write back rows read before the other's change and  *)
(* a crash repeats a pass; a deleted schedule is never stored again, and   *)
(* is dispatched at most once more, by the pass that had read it.          *)
FiresAsScheduled ==
    part = "schedules" => Sched!OncePerWindow /\ Sched!CancelledIsOver

\* FiresAsScheduled for the schedules of this module: their steps are those the invariant
\* of ScheduleEdits is proved for.
THEOREM SchedulesFireOnce == Spec => []FiresAsScheduled
<1> DEFINE I == part = "schedules" => Sched!SchedInv
<1>1. Sched!Bounds
  BY DEF Sched!Bounds
<1>2. Init => I
  BY <1>1, Sched!SchedInvInit DEF Init
<1>3. I /\ [Next]_vars => I'
  <2> SUFFICES ASSUME I, [Next]_vars, part' = "schedules" PROVE Sched!SchedInv'
    OBVIOUS
  <2>1. part = "schedules" /\ [Sched!SchedNext]_(Sched!schedVars)
    BY DEF Next, vars, Sched!schedVars
  <2> QED
    BY <1>1, <2>1, Sched!SchedInvNext
<1>4. I => FiresAsScheduled
  BY Sched!SchedInvShows DEF FiresAsScheduled
<1> QED
  BY <1>2, <1>3, <1>4, PTL DEF Spec
=============================================================================
