---------------------------- MODULE MemoryLayers -----------------------------
(***************************************************************************)
(* The memory layers of an agent with the schedules kept in step with      *)
(* them, and the intake those schedules run. Each has a specification of   *)
(* its own.                                                                *)
(***************************************************************************)
EXTENDS Naturals, Sequences, FiniteSets

(***************************************************************************)
(* The memory layers of the agents and the consolidation schedules kept in *)
(* step with them: the layer half of MemoryStore.cpp, the admin requests   *)
(* of MemoryManager.cpp and AgentManager.cpp, and the live refresh of      *)
(* ConsolidationPipeline.cpp that every layer change sets off.             *)
(*                                                                         *)
(* Admin requests run one at a time on the admin thread; chains and fired  *)
(* schedules seed default layers on threads of their own.  Each statement  *)
(* is a step.  Prompts, cron texts and budgets are left out, and so is the *)
(* layer "millennium", which is never reviewed.  An "intake" schedule      *)
(* stands for the intake and the session report of an agent, registered    *)
(* under one condition.                                                    *)
(***************************************************************************)

CONSTANTS
    Agents,         \* ids an agent may get
    Workers,        \* threads that run chains and fired schedules
    Defaults,       \* names of the seeded layers, in order; the first has the intake
    Extra,          \* names an administrator may add
    MaxId,          \* bound: layer rows ever inserted
    MaxOps,         \* bound: requests, chains and fires begun
    MaxBoots        \* bound: restarts

VARIABLES
    layer,          \* id -> [agent, name, intake, enabled]
    lastId,         \* AUTOINCREMENT
    agents,         \* rows of the agent store
    sched,          \* <<agent, layer name or "intake">> -> schedules of that kind
    op,             \* thread -> what it is doing
    begun, boots

layerVars == <<layer, lastId, agents, sched, op, begun, boots>>

Admin == "admin"
LayerThreads == {Admin} \cup Workers
Idle == [pc |-> "idle"]
Names == {Defaults[i] : i \in DOMAIN Defaults} \cup Extra
Kinds == Agents \X (Names \cup {"intake"})
Rows(agent) == {i \in DOMAIN layer : layer[i].agent = agent}
Named(agent, name) == {i \in Rows(agent) : layer[i].name = name}

LayerInit ==
    /\ layer = << >> /\ lastId = 0 /\ agents = {} /\ sched = [k \in Kinds |-> 0]
    /\ op = [t \in LayerThreads |-> Idle] /\ begun = 0 /\ boots = 0

Go(t, o) == op' = [op EXCEPT ![t] = o]
Begin(t) == op[t] = Idle /\ begun < MaxOps /\ begun' = begun + 1
Put(id, r) == layer' = [i \in DOMAIN layer \cup {id} |-> IF i = id THEN r ELSE layer[i]]

(* What follows the notification: the next default, the rows whose intake  *)
(* is to be cleared, or the end of the request.                            *)
Rest(o) == IF o.at \in DOMAIN Defaults THEN [o EXCEPT !.pc = "check"]
           ELSE IF o.rows # {} THEN [o EXCEPT !.pc = "write"]
           ELSE IF o.pc = "others" \/ o.id = 0 THEN Idle
           ELSE [o EXCEPT !.pc = "others"]
Op(pc, agent) == [pc |-> pc, agent |-> agent, name |-> "", intake |-> FALSE, enabled |-> TRUE,
                  fixed |-> FALSE, at |-> 0, id |-> 0, rows |-> {}, wanted |-> {}]
Seeding(agent) == [Op("check", agent) EXCEPT !.at = 1]

-----------------------------------------------------------------------------
(* CreateDefaultLayersForAgent: nothing when the agent has any layer.      *)
(* CreateLayer with a preset id: look, then insert.                        *)
CheckPreset(t) ==
    LET o == op[t]
        taken == o.at \in DOMAIN layer
    IN /\ o.pc = "check"
       /\ IF (taken /\ layer[o.at].agent = o.agent) \/ Named(o.agent, Defaults[o.at]) # {}
          THEN Go(t, IF o.at < Len(Defaults) THEN [o EXCEPT !.at = @ + 1] ELSE Idle)
          ELSE Go(t, [o EXCEPT !.pc = "insert", !.name = Defaults[o.at], !.intake = o.at = 1,
                               !.fixed = ~taken])
       /\ UNCHANGED <<layer, lastId, agents, sched, begun, boots>>

(* ON CONFLICT(agent_id, name) DO NOTHING: an existing row is resolved.    *)
(* A preset id taken since the check fails the insert: no row, no notice.  *)
InsertLayer(t) ==
    LET o == op[t]
        same == Named(o.agent, o.name)
        id == IF o.fixed THEN o.at ELSE lastId + 1
        next == IF o.at = 0 THEN 0 ELSE o.at + 1
        new == [agent |-> o.agent, name |-> o.name, intake |-> o.intake, enabled |-> o.enabled]
        Notified(i, intake) == [o EXCEPT !.pc = "clear", !.at = next,
                                         !.id = IF o.at = 0 /\ intake THEN i ELSE 0]
    IN /\ o.pc = "insert"
       /\ IF same # {}
          THEN /\ \E i \in same : Go(t, Notified(i, layer[i].intake))
               /\ UNCHANGED <<layer, lastId>>
          ELSE IF o.fixed /\ id \in DOMAIN layer
          THEN /\ Go(t, IF next \in DOMAIN Defaults THEN [o EXCEPT !.pc = "check",
                                                          !.at = next] ELSE Idle)
               /\ UNCHANGED <<layer, lastId>>
          ELSE /\ id <= MaxId /\ Put(id, new)
               /\ lastId' = IF id > lastId THEN id ELSE lastId
               /\ Go(t, Notified(id, o.intake))
       /\ UNCHANGED <<agents, sched, begun, boots>>

-----------------------------------------------------------------------------
(* RefreshSchedules on the thread that changed the layer: the schedules of *)
(* every registered agent and of every agent with a layer are cancelled,   *)
(* the layers are listed, one schedule is created for each.                *)
ClearStaleConsolidationSchedules(t) ==
    LET cleared == agents \cup {layer[i].agent : i \in DOMAIN layer}
    IN /\ op[t].pc = "clear"
       /\ sched' = [k \in Kinds |-> IF k[1] \in cleared THEN 0 ELSE sched[k]]
       /\ Go(t, [op[t] EXCEPT !.pc = "list"])
       /\ UNCHANGED <<layer, lastId, agents, begun, boots>>

Wanted == {<<layer[i].agent, layer[i].name>> : i \in {j \in DOMAIN layer : layer[j].enabled}}
            \cup {<<a, "intake">> : a \in {b \in agents : \E i \in Rows(b) : layer[i].intake}}

ListForSchedules(t) ==
    /\ op[t].pc = "list"
    /\ Go(t, [op[t] EXCEPT !.pc = "create", !.wanted = Wanted])
    /\ UNCHANGED <<layer, lastId, agents, sched, begun, boots>>

Added(wanted) == [k \in Kinds |-> IF k \in wanted THEN sched[k] + 1 ELSE sched[k]]

RegisterSchedules(t) ==
    /\ op[t].pc = "create"
    /\ sched' = Added(op[t].wanted)
    /\ Go(t, Rest([op[t] EXCEPT !.wanted = {}]))
    /\ UNCHANGED <<layer, lastId, agents, begun, boots>>

(* The single-intake rule: the other rows with an intake are listed, and   *)
(* each is written back without it, as it was read.                        *)
ListOthers(t) ==
    LET o == op[t]
        others == {i \in Rows(o.agent) \ {o.id} : layer[i].intake}
    IN /\ o.pc = "others"
       /\ Go(t, Rest([o EXCEPT !.rows = {[id |-> i, row |-> layer[i]] : i \in others}]))
       /\ UNCHANGED <<layer, lastId, agents, sched, begun, boots>>

WriteOther(t) ==
    LET o == op[t]
    IN /\ o.pc = "write"
       /\ \E r \in o.rows :
            /\ Put(r.id, [r.row EXCEPT !.intake = FALSE])
            /\ Go(t, [o EXCEPT !.pc = "clear", !.rows = @ \ {r},
                               !.id = IF o.rows = {r} THEN 0 ELSE @])
       /\ UNCHANGED <<lastId, agents, sched, begun, boots>>

-----------------------------------------------------------------------------
(* The admin's requests.                                                   *)
SqlCreateLayer(agent, name, intake, enabled) ==
    /\ Begin(Admin)
    /\ Go(Admin, [Op("insert", agent) EXCEPT !.name = name, !.intake = intake, !.enabled = enabled])
    /\ UNCHANGED <<layer, lastId, agents, sched, boots>>

SqlUpdateLayer_NoNotice(id, intake, enabled) ==
    /\ Begin(Admin) /\ id \in DOMAIN layer
    /\ Put(id, [layer[id] EXCEPT !.intake = intake, !.enabled = enabled])
    /\ Go(Admin, IF intake THEN [Op("others", layer[id].agent) EXCEPT !.id = id] ELSE Idle)
    /\ UNCHANGED <<lastId, agents, sched, boots>>

SqlUpdateLayer(id, intake, enabled) ==
    /\ Begin(Admin) /\ id \in DOMAIN layer
    /\ Put(id, [layer[id] EXCEPT !.intake = intake, !.enabled = enabled])
    /\ Go(Admin, [Op("clear", layer[id].agent) EXCEPT !.id = IF intake THEN id ELSE 0])
    /\ UNCHANGED <<lastId, agents, sched, boots>>

SqlDeleteLayer(id) ==
    /\ Begin(Admin) /\ id \in DOMAIN layer
    /\ layer' = [i \in DOMAIN layer \ {id} |-> layer[i]]
    /\ Go(Admin, Op("clear", layer[id].agent))
    /\ UNCHANGED <<lastId, agents, sched, boots>>

(* The id is generated: nothing has it yet.                                *)
CreateAgent(agent) ==
    /\ Begin(Admin) /\ agent \notin agents /\ Rows(agent) = {}
    /\ \A w \in Workers : op[w] # Idle => op[w].agent # agent
    /\ \A k \in Kinds : k[1] = agent => sched[k] = 0
    /\ agents' = agents \cup {agent}
    /\ Go(Admin, Seeding(agent))
    /\ UNCHANGED <<layer, lastId, sched, boots>>

(* DeleteAgent: the row goes, then its layers with no notice, then its     *)
(* schedules.                                                              *)
DeleteAgent(agent) ==
    /\ Begin(Admin) /\ agent \in agents
    /\ agents' = agents \ {agent}
    /\ layer' = [i \in DOMAIN layer \ Rows(agent) |-> layer[i]]
    /\ Go(Admin, Op("unschedule", agent))
    /\ UNCHANGED <<lastId, sched, boots>>

DeleteAgentSchedules ==
    /\ op[Admin].pc = "unschedule"
    /\ sched' = [k \in Kinds |-> IF k[1] = op[Admin].agent THEN 0 ELSE sched[k]]
    /\ Go(Admin, Idle)
    /\ UNCHANGED <<layer, lastId, agents, begun, boots>>

-----------------------------------------------------------------------------
(* ActiveMemoryProvider at the start of a chain of the agent.              *)
ChainSeeds(w, agent) ==
    /\ Begin(w) /\ agent \in agents /\ Rows(agent) = {}
    /\ Go(w, Seeding(agent))
    /\ UNCHANGED <<layer, lastId, agents, sched, boots>>

(* The fire callback: a layer that is gone is seeded anew.                 *)
Fire(w, kind) ==
    /\ Begin(w) /\ sched[kind] > 0
    /\ Go(w, [Op("fired", kind[1]) EXCEPT !.name = kind[2]])
    /\ UNCHANGED <<layer, lastId, agents, sched, boots>>

FireSeeds(w) ==
    /\ op[w].pc = "fired"
    /\ Go(w, IF Rows(op[w].agent) = {} THEN Seeding(op[w].agent) ELSE Idle)
    /\ UNCHANGED <<layer, lastId, agents, sched, begun, boots>>

(* Start registers before anything else runs; what was under way is lost.  *)
Restart ==
    /\ boots < MaxBoots /\ boots' = boots + 1
    /\ op' = [t \in LayerThreads |-> Idle]
    /\ LET cleared == agents \cup {layer[i].agent : i \in DOMAIN layer}
       IN sched' = [k \in Kinds |-> (IF k[1] \in cleared THEN 0 ELSE sched[k])
                                      + (IF k \in Wanted THEN 1 ELSE 0)]
    /\ UNCHANGED <<layer, lastId, agents, begun>>

LayerNext ==
    \/ Restart \/ DeleteAgentSchedules
    \/ \E t \in LayerThreads :
         \/ CheckPreset(t) \/ InsertLayer(t) \/ ListForSchedules(t)
         \/ ClearStaleConsolidationSchedules(t) \/ RegisterSchedules(t)
         \/ ListOthers(t) \/ WriteOther(t)
    \/ \E id \in 1 .. MaxId :
         \/ SqlDeleteLayer(id)
         \/ \E intake, enabled \in BOOLEAN : SqlUpdateLayer(id, intake, enabled)
    \/ \E a \in Agents :
         \/ CreateAgent(a) \/ DeleteAgent(a)
         \/ \E n \in Names, intake \in BOOLEAN : SqlCreateLayer(a, n, intake, TRUE)
    \/ \E w \in Workers : \/ FireSeeds(w) \/ \E a \in Agents : ChainSeeds(w, a)
                          \/ \E k \in Kinds : Fire(w, k)

LayerSpec == LayerInit /\ [][LayerNext]_layerVars

-----------------------------------------------------------------------------
Quiet == \A t \in LayerThreads : op[t] = Idle

(* Whatever requests, seedings and refreshes overlapped, once they are     *)
(* done every enabled layer of a registered agent is scheduled for review, *)
(* and its intake too: no refresh cancels what a later one registered.     *)
LayersAreScheduled ==
    Quiet => \A k \in Wanted : k[1] \in agents => sched[k] >= 1

(* "Single-intake-layer invariant per agent" (MemoryManager.cpp:892).  The *)
(* code does not keep it: a seeding that overlaps an admin's create adds   *)
(* a second one, and a crash before the others are cleared leaves two.     *)
OneIntakeLayer ==
    Quiet => \A a \in Agents : Cardinality({i \in Rows(a) : layer[i].intake}) <= 1

(* Refreshes are not serialised: two that overlap register a layer twice,  *)
(* the duplicate ClearStaleConsolidationSchedules is there to prevent.     *)
ScheduledOnce == Quiet => \A k \in Kinds : sched[k] <= 1

(* Seeding leaves the agent all the default layers.  The code does not     *)
(* keep it: two agents seeded at a time race for one preset id.            *)
SeededWhole ==
    [][\A t \in LayerThreads :
       op[t].pc \in {"check", "insert"} /\ op[t].at > 0 /\ op'[t] = Idle /\ boots' = boots =>
         \A i \in DOMAIN Defaults : \E r \in DOMAIN layer' :
            layer'[r].agent = op[t].agent /\ layer'[r].name = Defaults[i]]_layerVars

-----------------------------------------------------------------------------
(***************************************************************************)
(* How what an agent said, wrote and was given reaches its memory, from    *)
(* ConsolidationPipeline.cpp, ConsolidationTool.cpp, ConsolidationStore,   *)
(* SessionReportStore and the fire callback of AgentKernel.cpp.            *)
(*                                                                         *)
(* Two routes take the same data: sessions the scheduler opens, in which   *)
(* the model calls fetch_pending, sessions:report and summary, and         *)
(* RunIntake, which hands batches to a model call.  One agent; an          *)
(* observation is left out: a turn is "shown" when the model has seen it.  *)
(* The clock is in milliseconds, so several things happen at one reading.  *)
(***************************************************************************)

CONSTANTS
    Chats,          \* the agent's ordinary sessions
    MaxTurns,       \* bound: turns stored
    MaxEntries,     \* bound: diary entries
    MaxFiles,       \* bound: memory files
    MaxClock,       \* bound: clock readings
    MaxRuns,        \* bound: consolidation sessions at a time
    Batch,          \* intake_batch_size
    MaxFailures     \* bound: chains and model calls that fail

VARIABLES
    turns,          \* sequence of [chat, at, done]; done is intake_processed
    diary,          \* sequence of clock readings
    files,          \* file -> "new", "read" or "done"
    clock,
    watermark,      \* last_run_unix_ms of "diary_entries", 0: none
    reported,       \* chat -> updated_at_unix_ms of its report, 0: none
    runs,           \* session slot -> [kind, shown]
    pipe,           \* the RunIntake under way
    seen,           \* turns the model was ever shown
    read,           \* diary entries the model was ever shown
    failures

intakeVars == <<turns, diary, files, clock, watermark, reported, runs, pipe, seen, read, failures>>

Slots == 1 .. MaxRuns
NoRun == [kind |-> "none", shown |-> {}]
NoPipe == [pc |-> "idle", batch |-> {}, pool |-> {}]

IntakeInit ==
    /\ turns = << >> /\ diary = << >> /\ files = << >> /\ clock = 1 /\ watermark = 0
    /\ reported = [c \in Chats |-> 0] /\ runs = [s \in Slots |-> NoRun]
    /\ pipe = NoPipe /\ seen = {} /\ read = {} /\ failures = 0

Pending == {i \in DOMAIN turns : ~turns[i].done}
FirstOf(S, n) == {i \in S : Cardinality({j \in S : j < i}) < n}
LastOf(S, n) == {i \in S : Cardinality({j \in S : j > i}) < n}
Marked(S) == turns' = [i \in DOMAIN turns |-> IF i \in S THEN [turns[i] EXCEPT !.done = TRUE] ELSE turns[i]]
Unreported == {i \in DOMAIN turns : turns[i].at > reported[turns[i].chat]}

-----------------------------------------------------------------------------
(* What the agent does elsewhere.                                          *)
Tick ==
    /\ clock < MaxClock /\ clock' = clock + 1
    /\ UNCHANGED <<turns, diary, files, watermark, reported, runs, pipe, seen, read, failures>>

StoreTurn(c) ==
    /\ Len(turns) < MaxTurns
    /\ turns' = Append(turns, [chat |-> c, at |-> clock, done |-> FALSE])
    /\ UNCHANGED <<diary, files, clock, watermark, reported, runs, pipe, seen, read, failures>>

WriteEntry ==
    /\ Len(diary) < MaxEntries
    /\ diary' = Append(diary, clock)
    /\ UNCHANGED <<turns, files, clock, watermark, reported, runs, pipe, seen, read, failures>>

AddFile ==
    /\ Len(files) < MaxFiles
    /\ files' = Append(files, "new")
    /\ UNCHANGED <<turns, diary, clock, watermark, reported, runs, pipe, seen, read, failures>>

-----------------------------------------------------------------------------
(* The fire callback: gated on data, with no check that a session of the   *)
(* same kind is still open.                                                *)
HasPendingIntakeData_FilesOnly == \E f \in DOMAIN files : files[f] # "done"
HasPendingIntakeData == Pending # {} \/ \E f \in DOMAIN files : files[f] # "done"
HasSessionsNeedingReport == Unreported # {}

Open(kind) == \E s \in Slots : /\ runs[s] = NoRun /\ \A r \in Slots : r < s => runs[r] # NoRun
                               /\ runs' = [runs EXCEPT ![s] = [kind |-> kind, shown |-> {}]]

FireIntake ==
    /\ HasPendingIntakeData /\ Open("intake")
    /\ UNCHANGED <<turns, diary, files, clock, watermark, reported, pipe, seen, read, failures>>

FireSessionReport ==
    /\ HasSessionsNeedingReport /\ Open("report")
    /\ UNCHANGED <<turns, diary, files, clock, watermark, reported, pipe, seen, read, failures>>

(* HandleFetchPending: as many of the oldest as the limit and the bytes    *)
(* allow, at least one.                                                    *)
HandleFetchPending(s, n) ==
    LET pool == IF runs[s].kind = "report" THEN Unreported ELSE Pending
    IN /\ runs[s] # NoRun /\ pool # {}
       /\ runs' = [runs EXCEPT ![s].shown = @ \cup FirstOf(pool, n)]
       /\ seen' = seen \cup IF runs[s].kind = "intake" THEN FirstOf(pool, n) ELSE {}
       /\ UNCHANGED <<turns, diary, files, clock, watermark, reported, pipe, read, failures>>

HandleMemoryFileFetch(s, f) ==
    /\ runs[s].kind = "intake" /\ f \in DOMAIN files /\ files[f] = "new"
    /\ files' = [files EXCEPT ![f] = "read"]
    /\ UNCHANGED <<turns, diary, clock, watermark, reported, runs, pipe, seen, read, failures>>

HandleMemoryFileMarkProcessed(s, f) ==
    /\ runs[s].kind = "intake" /\ f \in DOMAIN files /\ files[f] # "done"
    /\ files' = [files EXCEPT ![f] = "done"]
    /\ UNCHANGED <<turns, diary, clock, watermark, reported, runs, pipe, seen, read, failures>>

(* HandleSessionReport: the report's own time is the new watermark.        *)
HandleSessionReport(s, c) ==
    /\ runs[s].kind = "report" /\ \E i \in runs[s].shown : turns[i].chat = c
    /\ reported' = [reported EXCEPT ![c] = clock]
    /\ UNCHANGED <<turns, diary, files, clock, watermark, runs, pipe, seen, read, failures>>

(* HandleSummary: an intake marks every turn still pending; any kind of    *)
(* session marks every file.  The chain ends with it.                      *)
HandleSummary(s) ==
    /\ runs[s] # NoRun
    /\ IF runs[s].kind = "intake" THEN Marked(Pending) ELSE UNCHANGED turns
    /\ files' = [f \in DOMAIN files |-> "done"]
    /\ runs' = [runs EXCEPT ![s] = NoRun]
    /\ UNCHANGED <<diary, clock, watermark, reported, pipe, seen, read, failures>>

(* The chain fails, or the model stops without a summary.                  *)
SessionFails(s) ==
    /\ runs[s] # NoRun /\ failures < MaxFailures
    /\ runs' = [runs EXCEPT ![s] = NoRun] /\ failures' = failures + 1
    /\ UNCHANGED <<turns, diary, files, clock, watermark, reported, pipe, seen, read>>

-----------------------------------------------------------------------------
(* RunIntake.  The diary first: the newest entries since the watermark, at *)
(* most a batch of them.                                                   *)
RunIntake ==
    LET recent == {e \in DOMAIN diary : diary[e] >= watermark}
    IN /\ pipe = NoPipe
       /\ pipe' = IF recent = {} THEN [NoPipe EXCEPT !.pc = "fetch"]
                  ELSE [NoPipe EXCEPT !.pc = "diary", !.batch = LastOf(recent, Batch)]
       /\ UNCHANGED <<turns, diary, files, clock, watermark, reported, runs, seen, read, failures>>

(* The model's answer; the watermark is the time after it.                 *)
IntakeFromDiary ==
    /\ pipe.pc = "diary"
    /\ read' = read \cup pipe.batch /\ watermark' = clock
    /\ pipe' = [NoPipe EXCEPT !.pc = "fetch"]
    /\ UNCHANGED <<turns, diary, files, clock, reported, runs, seen, failures>>

(* IntakeFromSessions: a pool of the oldest turns, of which the token      *)
(* budget admits a prefix of at least one.                                 *)
FetchBatch(n) ==
    LET pool == FirstOf(Pending, Batch)
    IN /\ pipe.pc = "fetch"
       /\ pipe' = IF pool = {} THEN NoPipe
                  ELSE [pc |-> "batch", batch |-> FirstOf(pool, n), pool |-> pool]
       /\ UNCHANGED <<turns, diary, files, clock, watermark, reported, runs, seen, read, failures>>

BatchTaken_Pool ==
    /\ pipe.pc = "batch"
    /\ seen' = seen \cup pipe.batch /\ Marked(pipe.pool)
    /\ pipe' = NoPipe
    /\ UNCHANGED <<diary, files, clock, watermark, reported, runs, read, failures>>

BatchTaken ==
    /\ pipe.pc = "batch"
    /\ seen' = seen \cup pipe.batch /\ Marked(pipe.batch)
    /\ pipe' = IF pipe.batch # pipe.pool \/ Cardinality(pipe.pool) = Batch
               THEN [NoPipe EXCEPT !.pc = "fetch"] ELSE NoPipe
    /\ UNCHANGED <<diary, files, clock, watermark, reported, runs, read, failures>>

(* A failed model call: no mark, the diary's failure goes on to the turns. *)
CallFails ==
    /\ pipe.pc \in {"diary", "batch"} /\ failures < MaxFailures
    /\ failures' = failures + 1
    /\ pipe' = IF pipe.pc = "diary" THEN [NoPipe EXCEPT !.pc = "fetch"] ELSE NoPipe
    /\ UNCHANGED <<turns, diary, files, clock, watermark, reported, runs, seen, read>>

(* A restart: sessions and calls under way are gone.                       *)
IntakeRestart ==
    /\ failures < MaxFailures /\ failures' = failures + 1
    /\ runs' = [s \in Slots |-> NoRun] /\ pipe' = NoPipe
    /\ UNCHANGED <<turns, diary, files, clock, watermark, reported, seen, read>>

SessionStep(s) ==
    \/ HandleSummary(s) \/ SessionFails(s)
    \/ \E n \in 1 .. MaxTurns : HandleFetchPending(s, n)
    \/ \E f \in 1 .. MaxFiles : HandleMemoryFileFetch(s, f) \/ HandleMemoryFileMarkProcessed(s, f)
    \/ \E c \in Chats : HandleSessionReport(s, c)

IntakeNext ==
    \/ Tick \/ WriteEntry \/ AddFile \/ FireIntake \/ FireSessionReport
    \/ RunIntake \/ IntakeFromDiary \/ BatchTaken \/ CallFails \/ IntakeRestart
    \/ \E n \in 1 .. Batch : FetchBatch(n)
    \/ \E c \in Chats : StoreTurn(c)
    \/ \E s \in Slots : SessionStep(s)

(* Schedules recur, and a session that is open ends.  Strong fairness only *)
(* because the bound on slots, which the code does not have, comes and     *)
(* goes.                                                                   *)
IntakeFairness ==
    /\ SF_intakeVars(FireIntake)
    /\ \A s \in Slots : WF_intakeVars(HandleSummary(s))

IntakeSpec == IntakeInit /\ [][IntakeNext]_intakeVars /\ IntakeFairness

-----------------------------------------------------------------------------
(* While no session closes an intake, RunIntake marks only turns that the  *)
(* model was shown and answered: failures, restarts and new turns in       *)
(* between cost nothing.                                                   *)
MarksShown ==
    pipe.pc = "batch" =>
       \A i \in Pending : i \in DOMAIN turns' /\ turns'[i].done /\ pipe' # pipe => i \in seen'
BatchWasShown == [][MarksShown]_intakeVars

(* Every turn stored is processed some day, whatever fails and restarts on *)
(* the way.                                                                *)
Untaken == Pending # {}
TurnsAreTaken == Untaken ~> ~Untaken

(* "Turns left out stay pending ... and reappear on the next call"         *)
(* (ConsolidationTool.cpp:401).  The code does not keep it: the summary    *)
(* marks turns that were never fetched.                                    *)
TakenWasShown == \A i \in DOMAIN turns : turns[i].done => i \in seen

(* A memory file is offered to an intake before it counts as processed.    *)
(* The code does not keep it: the summary of a report marks it too.        *)
FileWasOffered == [][\A f \in DOMAIN files : files[f] = "new" => files'[f] # "done"]_intakeVars

(* Every diary entry is shown before the watermark passes it.  The code    *)
(* does not keep it: older entries than the batch, and those written       *)
(* during the call, are skipped.                                           *)
DiaryIsRead == \A e \in DOMAIN diary : diary[e] < watermark => e \in read

(* A turn is older than its chat's report only if the report's session had *)
(* fetched it.  The code does not keep it: the report's time is taken when *)
(* it is written.                                                          *)
ReportedWasFetched ==
    [][\A c \in Chats : reported'[c] # reported[c] =>
         \E s \in Slots : \A i \in Unreported : turns[i].chat = c => i \in runs[s].shown]_intakeVars
=============================================================================
